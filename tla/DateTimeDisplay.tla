-------------------------- MODULE DateTimeDisplay --------------------------
(***************************************************************************)
(* A program that shows the instant it holds after every call, as format   *)
(* and jsonStringify do: through date() and time(), the two halves of      *)
(* bufWrite.  What it shows is a civil clock.                              *)
(***************************************************************************)
EXTENDS DateTime

VARIABLE shown

Shown(m) == [date |-> date(m), time |-> time(m)]

DisplayInit == Init /\ shown = Shown(micros)

DisplayNext == Next /\ shown' = Shown(micros')

DisplaySpec == DisplayInit /\ [][DisplayNext]_<<vars, shown>>

Clock == INSTANCE CivilClock WITH moment <- shown, call <- call

(* What is shown is a civil clock: adding a unit turns it to the next day  *)
(* of the calendar or the next hour, minute or fraction of the day, with   *)
(* every carry; fields given to initUTC are shown as they were given; and  *)
(* a call fails exactly when the calendar has no such moment.              *)
ImplementsCivilClock == Clock!Spec
=============================================================================
