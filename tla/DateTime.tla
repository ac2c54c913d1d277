------------------------------ MODULE DateTime ------------------------------
(***************************************************************************)
(* The struct DateTime of datetime.zig: an instant held as a signed count  *)
(* of microseconds since 1970-01-01T00:00:00Z, and every operation that    *)
(* makes one, moves one or takes one apart.  Instants has the arithmetic.  *)
(*                                                                         *)
(* A DateTime is a value; the state machine is a program that holds one    *)
(* and replaces it by the result of one call after the other, as the tests *)
(* of the library and the programs that store dates in BSON do.  A call    *)
(* that returns an error leaves the program with the instant it had.       *)
(***************************************************************************)
EXTENDS Instants

CONSTANTS Int64Max,       \* largest i64: the code has 2^63 - 1
          RuntimeSafety,  \* TRUE: overflow panics (Debug, ReleaseSafe);
                          \* FALSE: it wraps (what ReleaseFast emits)
          UnixInputs,     \* <<value, precision>> given to fromUnix
          FieldInputs,    \* [date, time] given to initUTC
          AddInputs,      \* <<value, unit>> given to add
          ClockReadings,  \* values std.time.microTimestamp may return
          Windows         \* <<low, high>>: the program keeps to instants in these

ASSUME InputAssumption ==
    /\ Int64Max \in Nat
    /\ RuntimeSafety \in BOOLEAN
    /\ UnixInputs \subseteq Int \X Precisions
    /\ FieldInputs \subseteq [date : DateFields, time : TimeFields]
    /\ AddInputs \subseteq Int \X TimeUnits
    /\ ClockReadings \subseteq Int
    /\ \A m \in ClockReadings : InRange(m, "microseconds")
    /\ Windows \subseteq Int \X Int
-----------------------------------------------------------------------------
(* i64 arithmetic that wraps. *)

(* Mutant of FitsInt64: one bit less. *)
FitsInt64_OneBitLess(n) == -(Int64Max \div 2) - 1 <= n /\ n <= Int64Max \div 2

FitsInt64(n) == -Int64Max - 1 <= n /\ n <= Int64Max

Wrap64(n) == ((n + Int64Max + 1) % (2 * (Int64Max + 1))) - Int64Max - 1

initUTC(d, t) == initUTCIn(RuntimeSafety, d, t)

add(m, value, unit) ==
    LET product == value * MicrosPer(unit)
        sum     == m + product
    IN  IF FitsInt64(product) /\ FitsInt64(sum)
          THEN fromUnix(sum, "microseconds")
        ELSE IF RuntimeSafety THEN Failed("panic")
        ELSE fromUnix(Wrap64(m + Wrap64(product)), "microseconds")
-----------------------------------------------------------------------------
VARIABLES micros,  \* the instant the program holds
          call     \* the last call: what was asked and the error it returned

vars == <<micros, call>>

InWindows(m) == \E w \in Windows : w[1] <= m /\ m <= w[2]

(* A call and what it asked for: a number and its unit, or the fields of a *)
(* date and a time.                                                        *)
NoDate == [year |-> 0, month |-> 0, day |-> 0]
NoTime == [hour |-> 0, min |-> 0, sec |-> 0, micros |-> 0]

Called(op, value, unit, d, t, err) ==
    [op |-> op, value |-> value, unit |-> unit, date |-> d, time |-> t,
     error |-> err]

Keep(result) ==
    /\ call.error # "panic"
    /\ \/ /\ result.error = "none"
          /\ InWindows(result.micros)
          /\ micros' = result.micros
       \/ /\ result.error # "none"
          /\ UNCHANGED micros

FromUnix(value, precision) ==
    LET result == fromUnix(value, precision)
    IN  /\ Keep(result)
        /\ call' = Called("fromUnix", value, precision, NoDate, NoTime, result.error)

InitUTC(d, t) ==
    LET result == initUTC(d, t)
    IN  /\ Keep(result)
        /\ call' = Called("initUTC", 0, "none", d, t, result.error)

Add(value, unit) ==
    LET result == add(micros, value, unit)
    IN  /\ Keep(result)
        /\ call' = Called("add", value, unit, NoDate, NoTime, result.error)

(* now() does not check what the clock says. *)
Now(reading) ==
    /\ Keep(Ok(reading))
    /\ call' = Called("now", reading, "microseconds", NoDate, NoTime, "none")

(* The program starts with an instant it got from fromUnix. *)
Init == \E in \in UnixInputs :
    LET result == fromUnix(in[1], in[2])
    IN  /\ result.error = "none"
        /\ InWindows(result.micros)
        /\ micros = result.micros
        /\ call = Called("fromUnix", in[1], in[2], NoDate, NoTime, "none")

Next ==
    \/ \E in \in UnixInputs : FromUnix(in[1], in[2])
    \/ \E in \in FieldInputs : InitUTC(in.date, in.time)
    \/ \E in \in AddInputs : Add(in[1], in[2])
    \/ \E reading \in ClockReadings : Now(reading)

Spec == Init /\ [][Next]_vars
-----------------------------------------------------------------------------
Operations == {"fromUnix", "initUTC", "add", "now"}
Errors == {"none", "InvalidDate", "InvalidTime", "OutsideJulianPeriod", "panic"}
Calls == [op : Operations, value : Int, unit : TimeUnits \cup {"none"},
          date : DateFields, time : TimeFields, error : Errors]

(* Whatever the sequence of calls, and whether or not overflow is checked, *)
(* the program never holds an instant outside the Julian period: the only  *)
(* guard against it is the range test of fromUnix.                         *)
TypeOK ==
    /\ micros \in JulianPeriod
    /\ call \in Calls

(* date() and time() of any such instant are fields that Date.valid and    *)
(* Time.valid accept, with a year parseRFC3339 accepts: the loop of date() *)
(* stays inside its table of months and the corrections of the cycles put  *)
(* every leap day where the calendar has it.                               *)
FieldsAreValid ==
    /\ DateValid(date(micros))
    /\ date(micros).year \in FirstYear .. LastYear
    /\ TimeValid(time(micros))

(* date() and time() together identify the instant: initUTC gives it back. *)
(* Formatting an instant and parsing the text rests on it.                 *)
FieldsIdentifyTheInstant ==
    initUTC(date(micros), time(micros)) = Ok(micros)

(* date() and time() identify every instant, except that date() is exactly *)
(* one day late within the last second of a day before 1970.               *)
FieldsIdentifyTheInstantOrTheNextDay ==
    initUTC(date(micros), time(micros)) =
        Ok(micros + IF DateIsLate(micros) THEN MicrosPerDay ELSE 0)

(* An instant stored at a coarser precision and loaded again, as dates are *)
(* stored in BSON in milliseconds, is always accepted, also at the two     *)
(* ends of the period, and has moved by less than a unit and only toward   *)
(* 1970.                                                                   *)
Stored(m, precision) == fromUnix(unix(m, precision), precision)

StoringLosesLessThanAUnit ==
    \A precision \in Precisions :
        LET loaded == Stored(micros, precision)
            lost   == IF micros < 0 THEN loaded.micros - micros
                                    ELSE micros - loaded.micros
        IN  loaded.error = "none" /\ 0 <= lost /\ lost < MicrosPer(precision)

(* initUTC accepts exactly the valid fields of the years -4712 .. 9999:    *)
(* the range in microseconds of fromUnix and the test of the year in       *)
(* parseRFC3339 are the same.                                              *)
InitUTCAcceptsTheYears ==
    call.op = "initUTC" =>
        /\ call.error = "none" => call.date.year \in FirstYear .. LastYear
        /\ call.error \in {"OutsideJulianPeriod", "panic"} =>
              call.date.year \notin FirstYear .. LastYear
        /\ call.error \in {"InvalidDate", "InvalidTime"} =>
              ~DateValid(call.date) \/ ~TimeValid(call.time)

(* The fields given to initUTC are the ones date() and time() return,      *)
(* except for the date within the last second of a day before 1970.        *)
InitUTCKeepsTheFields ==
    call.op = "initUTC" /\ call.error = "none" =>
        /\ time(micros) = call.time
        /\ ~DateIsLate(micros) => date(micros) = call.date

(* The order of two instants is the order of their fields, date first: two *)
(* parts of the library that compare them never disagree.                  *)
FieldOrder(m, n) == IF date(m) = date(n) THEN TimeOrder(time(m), time(n))
                                         ELSE DateOrder(date(m), date(n))

FieldsAreChronological == [][Order(micros, micros') = FieldOrder(micros, micros')]_vars

(* add overflows only when the exact sum is outside the Julian period, so  *)
(* that a program that could have got an answer never panics.              *)
OverflowOnlyOutside ==
    call.op = "add" /\ call.error = "panic" =>
        micros + call.value * MicrosPer(call.unit) \notin JulianPeriod
=============================================================================
