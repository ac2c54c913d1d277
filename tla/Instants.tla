------------------------------ MODULE Instants ------------------------------
(***************************************************************************)
(* The arithmetic of DateTime in datetime.zig: an instant is a signed      *)
(* count of microseconds since 1970-01-01T00:00:00Z.  fromUnix and initUTC *)
(* make one, unix, date and time take one apart.  The operators here have  *)
(* no state; the programs that hold an instant (module DateTime), or read  *)
(* and write one as text (module Rfc3339), have.                           *)
(***************************************************************************)
EXTENDS Calendar

SecondsPerDay == HoursPerDay * MinutesPerHour * SecondsPerMinute

Precisions == {"seconds", "milliseconds", "microseconds"}
TimeUnits  == {"days", "hours", "minutes"} \cup Precisions

MicrosPer(unit) ==
    CASE unit = "days"         -> MicrosPerDay
      [] unit = "hours"        -> MicrosPerHour
      [] unit = "minutes"      -> MicrosPerMinute
      [] unit = "seconds"      -> MicrosPerSecond
      [] unit = "milliseconds" -> MicrosPerMilli
      [] OTHER                 -> 1

(* The range of fromUnix, in days: the literals of the code are            *)
(* -2440550 * 86400 and (2932896 + 1) * 86400 - 1 seconds, and the same    *)
(* instants in milliseconds and microseconds.                              *)
FirstDay == -2440550
LastDay  == 2932896

PerDay(precision) ==
    CASE precision = "seconds"      -> SecondsPerDay
      [] precision = "milliseconds" -> SecondsPerDay * MillisPerSecond
      [] OTHER                      -> MicrosPerDay

InRange(value, precision) ==
    /\ FirstDay * PerDay(precision) <= value
    /\ value <= (LastDay + 1) * PerDay(precision) - 1

JulianPeriod == {m \in Int : InRange(m, "microseconds")}
-----------------------------------------------------------------------------
(* Zig's @divTrunc. *)

DivTrunc(a, b) == IF a >= 0 THEN a \div b ELSE -((-a) \div b)

(* What a call gives back: an instant, an error of the library, or a       *)
(* panic of the program.                                                   *)
Ok(m)       == [error |-> "none", micros |-> m]
Failed(err) == [error |-> err, micros |-> 0]
-----------------------------------------------------------------------------
(* Mutants of fromUnix: the test of the lower limit is missing; the upper  *)
(* limit is the start of the last day.                                     *)
fromUnix_NoLowerLimit(value, precision) ==
    IF value <= (LastDay + 1) * PerDay(precision) - 1
      THEN Ok(value * MicrosPer(precision))
      ELSE Failed("OutsideJulianPeriod")

fromUnix_LastDayMissing(value, precision) ==
    IF FirstDay * PerDay(precision) <= value /\ value <= LastDay * PerDay(precision)
      THEN Ok(value * MicrosPer(precision))
      ELSE Failed("OutsideJulianPeriod")

fromUnix(value, precision) ==
    IF InRange(value, precision) THEN Ok(value * MicrosPer(precision))
                                 ELSE Failed("OutsideJulianPeriod")

(* Mutant of unix: the division rounds down. *)
unix_Floored(m, precision) == m \div MicrosPer(precision)

unix(m, precision) == DivTrunc(m, MicrosPer(precision))

(* Mutant of Carry: February belongs to its own year. *)
Carry_JanuaryOnly(d) == IF d.month < 2 THEN 1 ELSE 0

(* Days from 1970-01-01 to a date, its year given as years since -4800.    *)
(* The years count from March, so that the leap day is the last of its     *)
(* year; carry is 1 in the two months that belong to the year before.      *)
Carry(d) == IF d.month < 3 THEN 1 ELSE 0

DaysTo(yearAdj, d) ==
    LET monthDays == ((d.month - 3 + 12 * Carry(d)) * 62719 + 769) \div 2048
        leapDays  == DivTrunc(yearAdj, 4) - DivTrunc(yearAdj, 100)
                        + DivTrunc(yearAdj, 400)
    IN  yearAdj * 365 + leapDays + monthDays + (d.day - 1) - 2472632

DayNumber(d) == DaysTo(d.year + 4800 - Carry(d), d)

(* year + 4800 - carry is computed in an i16. *)
WrapI16(n)        == ((n + 32768) % 65536) - 32768
YearOverflows(d)  == d.year + 4800 \notin I16
WrappedYearAdj(d) == WrapI16(WrapI16(d.year + 4800) - Carry(d))

MicrosOfDay(t) == t.hour * MicrosPerHour + t.min * MicrosPerMinute
                     + t.sec * MicrosPerSecond + t.micros

(* The instant of a date and a time, where nothing overflows. *)
InstantOf(d, t) == DayNumber(d) * MicrosPerDay + MicrosOfDay(t)

(* initUTC, in a build that checks overflow or in one that wraps. *)
initUTCIn(safe, d, t) ==
    LET wrapped == DaysTo(WrappedYearAdj(d), d) * MicrosPerDay + MicrosOfDay(t)
    IN  IF ~DateValid(d) THEN Failed("InvalidDate")
        ELSE IF ~TimeValid(t) THEN Failed("InvalidTime")
        ELSE IF ~YearOverflows(d) THEN fromUnix(InstantOf(d, t), "microseconds")
        ELSE IF safe THEN Failed("panic")
        ELSE fromUnix(wrapped, "microseconds")
-----------------------------------------------------------------------------
(* date(): the day since 2000-03-01, the first day after a leap day that   *)
(* ends a cycle of 400 years, is split into cycles of 400, 100, 4 and 1    *)
(* years that all end on the leap day, if they have one.                   *)

LeapEpochDay == 10957 + 31 + 29

(* Mutant of DaysPer100Y: the last year of a century is a leap year. *)
DaysPer100Y_Julian == 365 * 100 + 25

DaysPer400Y == 365 * 400 + 97
DaysPer100Y == 365 * 100 + 24
DaysPer4Y   == 365 * 4 + 1

(* Mutant of LeapEpochDays: the day is not corrected where the quotient of *)
(* negative seconds was rounded up.                                        *)
LeapEpochDays_Truncated(m) ==
    DivTrunc(DivTrunc(m, MicrosPerSecond) - LeapEpochDay * SecondsPerDay,
             SecondsPerDay)

(* The division of the microseconds is truncated, the one of the seconds   *)
(* is corrected to a floor.                                                *)
LeapEpochDays(m) ==
    (DivTrunc(m, MicrosPerSecond) - LeapEpochDay * SecondsPerDay)
        \div SecondsPerDay

(* Mutant of Capped: the correction is missing. *)
Capped_Never(n, last) == n

(* The last day of a cycle of cycles belongs to the last of them. *)
Capped(n, last) == IF n = last + 1 THEN last ELSE n

(* The year that starts in March, and the day in it, of a day counted from *)
(* 2000-03-01.                                                             *)
MarchDate(n) ==
    LET quadCenturies == n \div DaysPer400Y
        day400        == n % DaysPer400Y
        centuries     == Capped(day400 \div DaysPer100Y, 3)
        day100        == day400 - centuries * DaysPer100Y
        quadrenniums  == Capped(day100 \div DaysPer4Y, 24)
        day4          == day100 - quadrenniums * DaysPer4Y
        years         == Capped(day4 \div 365, 3)
    IN  [year |-> years + 4 * quadrenniums + 100 * centuries
                     + 400 * quadCenturies + 2000,
         day  |-> day4 - years * 365]

(* Days before and in the months March .. February: the loop subtracts the *)
(* lengths of the months one after the other.                              *)
MonthStart  == <<0, 31, 61, 92, 122, 153, 184, 214, 245, 275, 306, 337>>
MonthLength == <<31, 30, 31, 30, 31, 31, 30, 31, 30, 31, 31, 29>>

MarchMonth(day) ==
    CHOOSE k \in 1 .. 12 : /\ MonthStart[k] <= day
                           /\ day < MonthStart[k] + MonthLength[k]

CivilDate(n) ==
    LET march == MarchDate(n)
        k     == MarchMonth(march.day)
    IN  [year  |-> march.year + (IF k > 10 THEN 1 ELSE 0),
         month |-> IF k > 10 THEN k - 10 ELSE k + 2,
         day   |-> march.day - MonthStart[k] + 1]

date(m) == CivilDate(LeapEpochDays(m))

(* Mutant of time: the minutes of the day instead of those of the hour. *)
time_MinutesOfDay(m) ==
    LET micros == m % MicrosPerDay
    IN  [hour   |-> micros \div MicrosPerHour,
         min    |-> micros \div MicrosPerMinute,
         sec    |-> (micros % MicrosPerMinute) \div MicrosPerSecond,
         micros |-> micros % MicrosPerSecond]

time(m) ==
    LET micros == m % MicrosPerDay
    IN  [hour   |-> micros \div MicrosPerHour,
         min    |-> (micros % MicrosPerHour) \div MicrosPerMinute,
         sec    |-> (micros % MicrosPerMinute) \div MicrosPerSecond,
         micros |-> micros % MicrosPerSecond]

(* The instants date() gets wrong: those before 1970 that fall within the  *)
(* last second of a day.  The division to seconds rounds them up, to the   *)
(* first second of the next day, while time() rounds down.                 *)
DateIsLate(m) == m < 0 /\ m % MicrosPerDay > MicrosPerDay - MicrosPerSecond
=============================================================================
