----------------------------- MODULE CivilClock -----------------------------
(***************************************************************************)
(* What DateTime promises: a clock that shows a civil date and a time of   *)
(* day, that is set to given fields, and that is moved by one unit forward *)
(* or back the way a calendar on the wall is turned: the last day of a     *)
(* month is followed by the first of the next one.  No arithmetic on days  *)
(* or microseconds appears here.                                           *)
(***************************************************************************)
EXTENDS Calendar

VARIABLES moment,  \* [date, time] the clock shows
          call     \* the last call and its error, as in DateTime

InCalendar(x) ==
    /\ DateValid(x.date)
    /\ x.date.year \in FirstYear .. LastYear
    /\ TimeValid(x.time)
-----------------------------------------------------------------------------
(* The next and the previous moment that differ by one unit. *)

NextDate(d) ==
    IF d.day < MonthDays(d.year, d.month) THEN [d EXCEPT !.day = @ + 1]
    ELSE IF d.month < 12 THEN [year |-> d.year, month |-> d.month + 1, day |-> 1]
    ELSE [year |-> d.year + 1, month |-> 1, day |-> 1]

PreviousDate(d) ==
    IF d.day > 1 THEN [d EXCEPT !.day = @ - 1]
    ELSE IF d.month > 1
      THEN [year |-> d.year, month |-> d.month - 1,
            day |-> MonthDays(d.year, d.month - 1)]
    ELSE [year |-> d.year - 1, month |-> 12, day |-> 31]

DayUp(x)   == [x EXCEPT !.date = NextDate(@)]
DayDown(x) == [x EXCEPT !.date = PreviousDate(@)]

Hour(x, n)     == [x EXCEPT !.time = [@ EXCEPT !.hour = n]]
Minute(x, n)   == [x EXCEPT !.time = [@ EXCEPT !.min = n]]
Second(x, n)   == [x EXCEPT !.time = [@ EXCEPT !.sec = n]]
Fraction(x, n) == [x EXCEPT !.time = [@ EXCEPT !.micros = n]]

HourUp(x) == IF x.time.hour + 1 < HoursPerDay
               THEN Hour(x, x.time.hour + 1)
               ELSE DayUp(Hour(x, 0))

HourDown(x) == IF x.time.hour > 0
                 THEN Hour(x, x.time.hour - 1)
                 ELSE DayDown(Hour(x, HoursPerDay - 1))

MinuteUp(x) == IF x.time.min + 1 < MinutesPerHour
                 THEN Minute(x, x.time.min + 1)
                 ELSE HourUp(Minute(x, 0))

MinuteDown(x) == IF x.time.min > 0
                   THEN Minute(x, x.time.min - 1)
                   ELSE HourDown(Minute(x, MinutesPerHour - 1))

SecondUp(x) == IF x.time.sec + 1 < SecondsPerMinute
                 THEN Second(x, x.time.sec + 1)
                 ELSE MinuteUp(Second(x, 0))

SecondDown(x) == IF x.time.sec > 0
                   THEN Second(x, x.time.sec - 1)
                   ELSE MinuteDown(Second(x, SecondsPerMinute - 1))

(* A fraction of a second moves by one microsecond or by one millisecond. *)
FractionUp(x, step) ==
    IF x.time.micros + step < MicrosPerSecond
      THEN Fraction(x, x.time.micros + step)
      ELSE SecondUp(Fraction(x, x.time.micros + step - MicrosPerSecond))

FractionDown(x, step) ==
    IF x.time.micros >= step
      THEN Fraction(x, x.time.micros - step)
      ELSE SecondDown(Fraction(x, x.time.micros - step + MicrosPerSecond))

Up(x, unit) ==
    CASE unit = "days"         -> DayUp(x)
      [] unit = "hours"        -> HourUp(x)
      [] unit = "minutes"      -> MinuteUp(x)
      [] unit = "seconds"      -> SecondUp(x)
      [] unit = "milliseconds" -> FractionUp(x, MicrosPerMilli)
      [] unit = "microseconds" -> FractionUp(x, 1)

Down(x, unit) ==
    CASE unit = "days"         -> DayDown(x)
      [] unit = "hours"        -> HourDown(x)
      [] unit = "minutes"      -> MinuteDown(x)
      [] unit = "seconds"      -> SecondDown(x)
      [] unit = "milliseconds" -> FractionDown(x, MicrosPerMilli)
      [] unit = "microseconds" -> FractionDown(x, 1)

(* One unit forward or one unit back. *)
Turned(x, value, unit) ==
    CASE value = 1  -> Up(x, unit)
      [] value = -1 -> Down(x, unit)
-----------------------------------------------------------------------------
Init == InCalendar(moment) /\ call.error = "none"

(* The clock moves by one unit, unless it would leave the years it can     *)
(* show.                                                                   *)
Move ==
    /\ call'.op = "add"
    /\ call'.value \in {1, -1}
    /\ \E here \in {moment} : \E there \in {Turned(here, call'.value, call'.unit)} :
          IF InCalendar(there)
            THEN call'.error = "none" /\ moment' = there
            ELSE call'.error = "OutsideJulianPeriod" /\ UNCHANGED moment

(* The clock is moved by more units at once, to a moment it can show. *)
Leap ==
    /\ call'.op = "add"
    /\ call'.value \notin {1, -1}
    /\ IF call'.error = "none" THEN InCalendar(moment') ELSE UNCHANGED moment

(* The clock is set to the fields it is given, if it can show them. *)
SetFields ==
    /\ call'.op = "initUTC"
    /\ IF InCalendar([date |-> call'.date, time |-> call'.time])
         THEN /\ call'.error = "none"
              /\ moment' = [date |-> call'.date, time |-> call'.time]
         ELSE call'.error # "none" /\ UNCHANGED moment

(* The clock is set to some moment it can show, or is left as it was. *)
SetUnix ==
    /\ call'.op \in {"fromUnix", "now"}
    /\ IF call'.error = "none" THEN InCalendar(moment') ELSE UNCHANGED moment

Next == Move \/ Leap \/ SetFields \/ SetUnix

Spec == Init /\ [][Next]_<<moment, call>>
=============================================================================
