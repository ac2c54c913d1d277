------------------------------ MODULE Calendar ------------------------------
(***************************************************************************)
(* The structs Date and Time of datetime.zig: what makes a civil date and  *)
(* a time of day valid, and how two of them are ordered.                   *)
(*                                                                         *)
(* The Gregorian calendar is the one of the code.  The radices of the time *)
(* of day are parameters: the code has 24, 60, 60, 1000 and 1000, and the  *)
(* theorems hold for every value; TLC is given smaller ones because its    *)
(* integers have 32 bits.                                                  *)
(***************************************************************************)
EXTENDS Integers

CONSTANTS HoursPerDay,       \* 24
          MinutesPerHour,    \* 60
          SecondsPerMinute,  \* 60
          MillisPerSecond,   \* 1000
          MicrosPerMilli     \* 1000

ASSUME RadixAssumption ==
    /\ HoursPerDay      \in Nat \ {0}
    /\ MinutesPerHour   \in Nat \ {0}
    /\ SecondsPerMinute \in Nat \ {0}
    /\ MillisPerSecond  \in Nat \ {0}
    /\ MicrosPerMilli   \in Nat \ {0}

MicrosPerSecond == MillisPerSecond * MicrosPerMilli
MicrosPerMinute == SecondsPerMinute * MicrosPerSecond
MicrosPerHour   == MinutesPerHour * MicrosPerMinute
MicrosPerDay    == HoursPerDay * MicrosPerHour
-----------------------------------------------------------------------------
(* The fields as the code declares them: year is an i16, the others are    *)
(* unsigned.                                                               *)

I16 == {n \in Int : -32768 <= n /\ n <= 32767}

DateFields == [year : I16, month : Nat, day : Nat]
TimeFields == [hour : Nat, min : Nat, sec : Nat, micros : Nat]

LeapYear(year) ==
    \/ year % 400 = 0
    \/ year % 100 # 0 /\ year % 4 = 0

CommonMonthDays == <<31, 28, 31, 30, 31, 30, 31, 31, 30, 31, 30, 31>>

MonthDays(year, month) ==
    IF month = 2 /\ LeapYear(year) THEN 29 ELSE CommonMonthDays[month]

DateValid(d) ==
    /\ d.month \in 1 .. 12
    /\ d.day \in 1 .. MonthDays(d.year, d.month)

TimeValid(t) ==
    /\ t.hour < HoursPerDay
    /\ t.min < MinutesPerHour
    /\ t.sec < SecondsPerMinute
    /\ t.micros < MicrosPerSecond

(* The years parseRFC3339 accepts. *)
FirstYear == -4712
LastYear  == 9999
-----------------------------------------------------------------------------
(* std.math.order *)
Order(a, b) == IF a < b THEN "lt" ELSE IF a = b THEN "eq" ELSE "gt"

DateOrder(a, b) ==
    IF a.year # b.year THEN Order(a.year, b.year)
    ELSE IF a.month # b.month THEN Order(a.month, b.month)
    ELSE Order(a.day, b.day)

TimeOrder(a, b) ==
    IF a.hour # b.hour THEN Order(a.hour, b.hour)
    ELSE IF a.min # b.min THEN Order(a.min, b.min)
    ELSE IF a.sec # b.sec THEN Order(a.sec, b.sec)
    ELSE Order(a.micros, b.micros)
=============================================================================
