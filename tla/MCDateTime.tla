----------------------------- MODULE MCDateTime -----------------------------
(***************************************************************************)
(* Instances of DateTime for TLC.  A day has 32 microseconds, two of each  *)
(* unit in the next one.                                                   *)
(***************************************************************************)
EXTENDS DateTime

Day(d)    == d * MicrosPerDay
Around(d) == <<Day(d) - Day(1), Day(d) + Day(1)>>

(* Days from 1970-01-01 on which something happens: the two ends of the    *)
(* period, -0001-12-31, 1970-01-01, 1970-01-04, 1972-02-29, 2000-02-29,    *)
(* 2001-01-01, 2099-12-31, 2100-02-28, 2400-02-29.                         *)
OldDays == {FirstDay, -719529, 0}
NewDays == {11016, LastDay}
DaysOn  == {3, 789, 11323, 47481, 47540, 157113}

Edges(days) == {<<d * PerDay(p) + i, p>> :
                    d \in days, i \in {-1, 0, 1}, p \in Precisions}

UnitSteps == {-1, 1} \X TimeUnits

(* Values of add: one that crosses the whole period, some that leave it,   *)
(* and some whose product with the unit, or whose sum with the instant,    *)
(* does not fit an i64.                                                    *)
HugeSteps == {-8000000, 5300000, 5500000, 8000000} \X {"days"}
               \cup {-190000000, 190000000} \X {"microseconds"}

D(y, m, d) == [year |-> y, month |-> m, day |-> d]
T(h, u)    == [hour |-> h, min |-> 1, sec |-> 1, micros |-> u]

(* Days in and around the years of the period, those next to the largest   *)
(* and the smallest year and to the first one whose sum overflows, and     *)
(* some that no calendar has.                                              *)
EdgeDates == {D(-4712, 1, 1), D(1900, 2, 28), D(1900, 3, 1), D(1969, 12, 31),
              D(2000, 2, 29), D(9999, 12, 31)}
FarDates  == {D(-32768, 1, 1), D(-4713, 12, 31), D(10000, 1, 1), D(27967, 12, 31),
              D(27968, 1, 1), D(32767, 12, 31)}
BadDates  == {D(1970, 0, 1), D(1970, 13, 1), D(1970, 4, 31), D(1900, 2, 29)}

OldFields == [date : EdgeDates, time : {NoTime, T(1, 3)}]
               \cup [date : FarDates \cup BadDates, time : {T(1, 3)}]
               \cup [date : {D(1970, 1, 1)}, time : {T(2, 3), T(1, 4)}]
-----------------------------------------------------------------------------
(* The inputs of the runs. *)

OldUnix  == Edges(OldDays)
OldSteps == UnitSteps \cup HugeSteps

(* A day before and after each, and each instant initUTC returns. *)
OldWindows == {Around(d) : d \in OldDays}
                \cup {<<m, m>> : m \in {initUTC(f.date, f.time).micros : f \in OldFields}}

NewUnix    == Edges(NewDays \cup {LastDay + 1})
                 \cup {<<d * SecondsPerDay, "seconds">> : d \in DaysOn}
NewWindows == {Around(d) : d \in NewDays \cup DaysOn}
NewSteps   == UnitSteps \cup {<<190000000, "microseconds">>, <<-8000000, "days">>}
NewClock   == {Day(2), Day(11016) + 5}
NewFields  == [date : {D(1970, 1, 4), D(2000, 2, 29), D(2001, 2, 29), D(27968, 1, 1)},
               time : {T(0, 1), T(2, 0)}]

None == {}
=============================================================================
