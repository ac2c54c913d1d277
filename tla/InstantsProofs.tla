--------------------------- MODULE InstantsProofs ---------------------------
(***************************************************************************)
(* What the arithmetic of Instants computes, for every choice of the       *)
(* radices of the day: date() and time() of every instant of the Julian    *)
(* period, initUTC of every date and time, and how each inverts the other. *)
(***************************************************************************)
EXTENDS Instants, TLAPS
(* Arithmetic the steps below rest on. *)

(* A product of positive numbers is positive.                              *)
LEMMA MulPositive ==
    ASSUME NEW a \in Nat \ {0}, NEW b \in Nat \ {0}
    PROVE  a * b \in Nat \ {0}
OBVIOUS

(* Multiplying by a positive number keeps the order.                       *)
LEMMA MulMonotone ==
    ASSUME NEW a \in Int, NEW b \in Int, NEW k \in Nat \ {0}, a <= b
    PROVE  a * k <= b * k
OBVIOUS

(* Products may be regrouped.                                              *)
LEMMA MulAssociative ==
    ASSUME NEW a \in Int, NEW b \in Int, NEW k \in Int
    PROVE  (a * b) * k = a * (b * k)
OBVIOUS

(* A number is its quotient times the divisor, plus its remainder.         *)
LEMMA DivMod ==
    ASSUME NEW n \in Int, NEW d \in Nat \ {0}
    PROVE  /\ n \div d \in Int
           /\ n % d \in 0 .. d - 1
           /\ n = d * (n \div d) + (n % d)
OBVIOUS

(* A quotient and a remainder are the only ones of their kind. *)
LEMMA DivModUnique ==
    ASSUME NEW n \in Int, NEW d \in Nat \ {0}, NEW q \in Int, NEW r \in 0 .. d - 1,
           n = d * q + r
    PROVE  n \div d = q /\ n % d = r
OBVIOUS

(* Splitting by a product and then by one of its factors, as time() does   *)
(* with the units of a day, gives the remainder by that factor.            *)
LEMMA ModOfMod ==
    ASSUME NEW m \in Int, NEW a \in Nat \ {0}, NEW b \in Nat \ {0}
    PROVE  /\ (m % (a * b)) % b = m % b
           /\ (m % (a * b)) \div b \in 0 .. a - 1
           /\ m % (a * b) = b * ((m % (a * b)) \div b) + (m % b)
<1> DEFINE q  == m \div (a * b)
           r  == m % (a * b)
           q2 == r \div b
           r2 == r % b
<1>1. a * b \in Nat \ {0}
  BY MulPositive
<1>2. q \in Int /\ r \in 0 .. (a * b) - 1 /\ m = (a * b) * q + r
  BY <1>1, DivMod
<1>3. q2 \in Int /\ r2 \in 0 .. b - 1 /\ r = b * q2 + r2
  BY <1>2, DivMod
<1> HIDE DEF q, r, q2, r2
<1>4. m % b = r2
  <2>1. m = b * (a * q + q2) + r2
    <3>1. (a * b) * q = b * (a * q)
      BY <1>2
    <3>2. b * (a * q + q2) = b * (a * q) + b * q2
      BY <1>2, <1>3
    <3> QED BY <3>1, <3>2, <1>2, <1>3
  <2>2. a * q + q2 \in Int
    BY <1>2, <1>3
  <2> QED BY <2>1, <2>2, <1>3, DivModUnique
<1>5. q2 \in 0 .. a - 1
  <2>1. q2 >= 0
    <3>1. SUFFICES ASSUME q2 <= -1 PROVE FALSE
      BY <1>3
    <3>2. q2 * b <= (-1) * b
      BY <1>3, <3>1, MulMonotone
    <3> QED BY <1>2, <1>3, <3>2
  <2>2. q2 < a
    <3>1. SUFFICES ASSUME a <= q2 PROVE FALSE
      BY <1>3
    <3>2. a * b <= q2 * b
      BY <1>3, <3>1, MulMonotone
    <3> QED BY <1>2, <1>3, <3>2
  <2> QED BY <2>1, <2>2, <1>3
<1> QED BY <1>3, <1>4, <1>5 DEF q, r, q2, r2

(* The same for a unit c of which each is a times the unit b.              *)
LEMMA RestOfUnit ==
    ASSUME NEW m \in Int, NEW a \in Nat \ {0}, NEW b \in Nat \ {0}, NEW c, c = a * b
    PROVE  /\ (m % c) % b = m % b
           /\ (m % c) \div b \in 0 .. a - 1
           /\ m % c = b * ((m % c) \div b) + (m % b)
BY ModOfMod
-----------------------------------------------------------------------------
(* Every unit of time is a positive number of microseconds.                *)
LEMMA Units ==
    /\ MicrosPerSecond \in Nat \ {0}
    /\ MicrosPerMinute \in Nat \ {0}
    /\ MicrosPerHour \in Nat \ {0}
    /\ MicrosPerDay \in Nat \ {0}
    /\ SecondsPerDay \in Nat \ {0}
<1>1. MicrosPerSecond \in Nat \ {0}
  BY RadixAssumption, MulPositive DEF MicrosPerSecond
<1>2. MicrosPerMinute \in Nat \ {0}
  BY <1>1, RadixAssumption, MulPositive DEF MicrosPerMinute
<1>3. MicrosPerHour \in Nat \ {0}
  BY <1>2, RadixAssumption, MulPositive DEF MicrosPerHour
<1>4. MicrosPerDay \in Nat \ {0}
  BY <1>3, RadixAssumption, MulPositive DEF MicrosPerDay
<1>5. SecondsPerDay \in Nat \ {0}
  <2>1. HoursPerDay * MinutesPerHour \in Nat \ {0}
    BY RadixAssumption, MulPositive
  <2> QED BY <2>1, RadixAssumption, MulPositive DEF SecondsPerDay
<1> QED BY <1>1, <1>2, <1>3, <1>4, <1>5

(* A day has as many microseconds as its seconds have.                     *)
LEMMA DayInSeconds == MicrosPerDay = SecondsPerDay * MicrosPerSecond
<1>1. MicrosPerSecond \in Int
  BY Units
<1>2. SecondsPerDay * MicrosPerSecond
        = (HoursPerDay * MinutesPerHour) * (SecondsPerMinute * MicrosPerSecond)
  BY <1>1, RadixAssumption, MulAssociative DEF SecondsPerDay
<1>3. (HoursPerDay * MinutesPerHour) * MicrosPerMinute
        = HoursPerDay * (MinutesPerHour * MicrosPerMinute)
  BY RadixAssumption, Units, MulAssociative
<1> QED BY <1>2, <1>3 DEF MicrosPerDay, MicrosPerHour, MicrosPerMinute

(* time() returns fields Time.valid accepts, and they count the            *)
(* microseconds since the start of the day the instant lies in.            *)
LEMMA TimeIsTimeOfDay ==
    ASSUME NEW m \in Int
    PROVE  /\ time(m) \in TimeFields
           /\ TimeValid(time(m))
           /\ MicrosOfDay(time(m)) = m % MicrosPerDay
<1> DEFINE u == m % MicrosPerDay
           h == u \div MicrosPerHour
           i == (u % MicrosPerHour) \div MicrosPerMinute
           s == (u % MicrosPerMinute) \div MicrosPerSecond
           f == u % MicrosPerSecond
<1>1. time(m) = [hour |-> h, min |-> i, sec |-> s, micros |-> f]
  BY DEF time
<1>2. u \in Int
  BY Units, DivMod
<1>3. /\ h \in 0 .. HoursPerDay - 1
      /\ u = MicrosPerHour * h + (m % MicrosPerHour)
      /\ u % MicrosPerHour = m % MicrosPerHour
  BY Units, RadixAssumption, ModOfMod, ZenonT(60) DEF MicrosPerDay
<1>4. /\ i \in 0 .. MinutesPerHour - 1
      /\ u % MicrosPerHour = MicrosPerMinute * i + (u % MicrosPerMinute)
  BY <1>2, Units, RadixAssumption, ModOfMod, ZenonT(60) DEF MicrosPerHour
<1>5. /\ s \in 0 .. SecondsPerMinute - 1
      /\ u % MicrosPerMinute = MicrosPerSecond * s + (u % MicrosPerSecond)
  BY <1>2, Units, RadixAssumption, ModOfMod, ZenonT(60) DEF MicrosPerMinute
<1>6. f \in 0 .. MicrosPerSecond - 1
  BY <1>2, Units, DivMod
<1>7. u = h * MicrosPerHour + i * MicrosPerMinute + s * MicrosPerSecond + f
  <2> HIDE DEF u, h, i, s, f
  <2>1. MicrosPerHour * h = h * MicrosPerHour /\ MicrosPerMinute * i = i * MicrosPerMinute
        /\ MicrosPerSecond * s = s * MicrosPerSecond
    BY <1>3, <1>4, <1>5, Units
  <2>2. u = MicrosPerHour * h + (MicrosPerMinute * i + (MicrosPerSecond * s + f))
    BY <1>3, <1>4, <1>5 DEF f
  <2> QED BY <2>1, <2>2, <1>3, <1>4, <1>5, <1>6, Units
<1> HIDE DEF u, h, i, s, f
<1>8. MicrosOfDay(time(m)) = u
  BY <1>1, <1>7 DEF MicrosOfDay
<1>9. time(m) \in TimeFields /\ TimeValid(time(m))
  BY <1>1, <1>3, <1>4, <1>5, <1>6, RadixAssumption, Units DEF TimeFields, TimeValid
<1> QED BY <1>8, <1>9 DEF u
-----------------------------------------------------------------------------
(* A smaller multiple of a positive number has the smaller factor.         *)
LEMMA LessByMultiples ==
    ASSUME NEW a \in Int, NEW b \in Int, NEW k \in Nat \ {0}, a * k < b * k
    PROVE  a < b
<1>1. SUFFICES ASSUME b <= a PROVE FALSE
  OBVIOUS
<1> QED BY <1>1, MulMonotone

(* The quotient is the only integer between n / d - 1 and n / d. *)
LEMMA QuotientBetween ==
    ASSUME NEW n \in Int, NEW d \in Nat \ {0}, NEW q \in Int,
           d * q <= n, n < d * (q + 1)
    PROVE  n \div d = q
<1>1. n - d * q \in 0 .. d - 1
  OBVIOUS
<1>2. n = d * q + (n - d * q)
  OBVIOUS
<1> QED BY <1>1, <1>2, DivModUnique

(* The seconds date() starts from: the quotient rounded down, or that      *)
(* plus one for an instant before 1970 with a fraction of a second.        *)
LEMMA TruncatedSeconds ==
    ASSUME NEW m \in Int
    PROVE  /\ DivTrunc(m, MicrosPerSecond) \in Int
           /\ m >= 0 => /\ DivTrunc(m, MicrosPerSecond) * MicrosPerSecond <= m
                        /\ m < (DivTrunc(m, MicrosPerSecond) + 1) * MicrosPerSecond
           /\ m < 0 => /\ m <= DivTrunc(m, MicrosPerSecond) * MicrosPerSecond
                       /\ (DivTrunc(m, MicrosPerSecond) - 1) * MicrosPerSecond < m
<1> DEFINE S == MicrosPerSecond
<1>1. S \in Nat \ {0}
  BY Units
<1> HIDE DEF S
<1>2. CASE m >= 0
  <2> DEFINE q == m \div S
  <2>1. DivTrunc(m, S) = q
    BY <1>2 DEF DivTrunc
  <2>2. q \in Int /\ m % S \in 0 .. S - 1 /\ m = S * q + (m % S)
    BY <1>1, DivMod
  <2> HIDE DEF q
  <2>3. S * q <= m /\ m < S * q + S
    BY <2>2, <1>1
  <2>4. S * q = q * S /\ (q + 1) * S = S * q + S
    BY <2>2, <1>1
  <2> QED BY <1>2, <2>1, <2>2, <2>3, <2>4 DEF S
<1>3. CASE m < 0
  <2> DEFINE k == -m
           q == k \div S
  <2>1. DivTrunc(m, S) = -q
    BY <1>3 DEF DivTrunc
  <2>4a. k \in Int /\ k = -m
    OBVIOUS
  <2> HIDE DEF k
  <2>2. q \in Int /\ k % S \in 0 .. S - 1 /\ k = S * q + (k % S)
    BY <2>4a, <1>1, DivMod
  <2> HIDE DEF q
  <2>3. S * q <= -m /\ -m < S * q + S
    BY <2>2, <2>4a, <1>1
  <2>4. (-q) * S = -(S * q) /\ ((-q) - 1) * S = -(S * q) - S
    BY <2>2, <1>1
  <2>5. m <= (-q) * S /\ ((-q) - 1) * S < m
    BY <2>2, <2>3, <2>4, <1>1
  <2> QED BY <1>3, <2>1, <2>2, <2>5 DEF S
<1> QED BY <1>2, <1>3

(* The day of the truncated seconds is the day of the instant, and the     *)
(* next day exactly in the last second of a day before 1970.               *)
LEMMA SecondsToDays ==
    ASSUME NEW m \in Int
    PROVE  DivTrunc(m, MicrosPerSecond) \div SecondsPerDay
             = (m \div MicrosPerDay) + (IF DateIsLate(m) THEN 1 ELSE 0)
<1> DEFINE S == MicrosPerSecond
           D == SecondsPerDay
           q == m \div MicrosPerDay
           r == m % MicrosPerDay
           s == DivTrunc(m, MicrosPerSecond)
<1>1. S \in Nat \ {0} /\ D \in Nat \ {0} /\ MicrosPerDay = D * S
  BY Units, DayInSeconds
<1>2. q \in Int /\ r \in 0 .. (D * S) - 1 /\ m = (D * S) * q + r
  BY <1>1, Units, DivMod
<1>3. s \in Int
  BY TruncatedSeconds
<1>4. m >= 0 => s * S <= m /\ m < (s + 1) * S
  BY TruncatedSeconds
<1>5. m < 0 => m <= s * S /\ (s - 1) * S < m
  BY TruncatedSeconds
<1>6. DateIsLate(m) <=> m < 0 /\ r > (D * S) - S
  BY <1>1 DEF DateIsLate
<1> HIDE DEF S, D, q, r, s
<1>7. /\ (D * q) * S = (D * S) * q
      /\ (D * (q + 1)) * S = (D * S) * q + D * S
      /\ D * q \in Int /\ D * (q + 1) \in Int /\ D * S \in Nat \ {0}
  <2>1. D * S \in Nat \ {0}
    BY <1>1, MulPositive
  <2>2. (D * q) * S = (D * S) * q
    BY <1>1, <1>2
  <2>3. (D * (q + 1)) * S = (D * S) * q + D * S
    BY <1>1, <1>2
  <2> QED BY <2>1, <2>2, <2>3, <1>1, <1>2
<1>8. CASE DateIsLate(m)
  <2>1. m > (D * (q + 1)) * S - S /\ m < (D * (q + 1)) * S /\ m < 0
    BY <1>2, <1>6, <1>7, <1>8, <1>1
  <2>2. (s - 1) * S < (D * (q + 1)) * S
    BY <2>1, <1>5, <1>3, <1>1, <1>7
  <2>3. s - 1 < D * (q + 1)
    BY <2>2, <1>3, <1>7, <1>1, LessByMultiples
  <2>4. (D * (q + 1) - 1) * S = (D * (q + 1)) * S - S
    BY <1>7, <1>1
  <2>5. (D * (q + 1) - 1) * S < s * S
    BY <2>1, <2>4, <1>5, <1>3, <1>1, <1>7
  <2>6. D * (q + 1) - 1 < s
    BY <2>5, <1>3, <1>7, <1>1, LessByMultiples
  <2>7. s = D * (q + 1)
    BY <2>3, <2>6, <1>3, <1>7
  <2>8. s < D * ((q + 1) + 1)
    BY <2>7, <1>1, <1>2
  <2>9. s \div D = q + 1
    BY <2>7, <2>8, <1>1, <1>2, <1>3, QuotientBetween
  <2> QED BY <2>9, <1>8 DEF s, D, q
<1>9. CASE ~DateIsLate(m)
  <2>1. D * q <= s
    <3>1. SUFFICES ASSUME s <= D * q - 1 PROVE FALSE
      BY <1>3, <1>7
    <3>2. (s + 1) * S <= (D * q) * S
      BY <3>1, <1>3, <1>7, <1>1, MulMonotone
    <3>3. (s + 1) * S = s * S + S
      BY <1>3, <1>1
    <3>4. s * S \in Int
      BY <1>3, <1>1
    <3>5. (D * q) * S <= m
      BY <1>2, <1>7, <1>1
    <3>6. CASE m >= 0
      BY <3>2, <3>5, <3>6, <1>4, <1>3, <1>1, <1>7
    <3>7. CASE m < 0
      BY <3>2, <3>3, <3>4, <3>5, <3>7, <1>5, <1>3, <1>1, <1>7
    <3> QED BY <3>6, <3>7
  <2>2. s < D * (q + 1)
    <3>1. CASE m >= 0
      <4>1. s * S < (D * (q + 1)) * S
        BY <3>1, <1>2, <1>4, <1>7, <1>3, <1>1
      <4> QED BY <4>1, <1>3, <1>7, <1>1, LessByMultiples
    <3>2. CASE m < 0
      <4>1. m <= (D * (q + 1)) * S - S
        BY <3>2, <1>9, <1>6, <1>2, <1>7, <1>1
      <4>2. (s - 1) * S < (D * (q + 1) - 1) * S
        <5>1. (D * (q + 1) - 1) * S = (D * (q + 1)) * S - S
          BY <1>7, <1>1
        <5> QED BY <5>1, <4>1, <3>2, <1>5, <1>3, <1>1, <1>7
      <4>3. s - 1 < D * (q + 1) - 1
        BY <4>2, <1>3, <1>7, <1>1, LessByMultiples
      <4> QED BY <4>3, <1>3, <1>7
    <3> QED BY <3>1, <3>2
  <2>3. s \div D = q
    BY <2>1, <2>2, <1>1, <1>2, <1>3, QuotientBetween
  <2> QED BY <2>3, <1>9, <1>2 DEF s, D, q
<1> QED BY <1>8, <1>9

(* The day date() works with is the one the instant lies in, or the next.  *)
LEMMA LeapEpochDaysIsTheDay ==
    ASSUME NEW m \in Int
    PROVE  /\ m \div MicrosPerDay \in Int
           /\ LeapEpochDays(m) = (m \div MicrosPerDay) - 11017
                                     + (IF DateIsLate(m) THEN 1 ELSE 0)
<1> DEFINE D == SecondsPerDay
           s == DivTrunc(m, MicrosPerSecond)
           q == s \div D
           t == s - 11017 * D
<1>1. D \in Nat \ {0} /\ s \in Int
  BY Units, TruncatedSeconds
<1>2. LeapEpochDays(m) = t \div D
  BY DEF LeapEpochDays, LeapEpochDay
<1>3. q \in Int /\ s % D \in 0 .. D - 1 /\ s = D * q + (s % D)
  BY <1>1, DivMod
<1>4. q = (m \div MicrosPerDay) + (IF DateIsLate(m) THEN 1 ELSE 0)
  BY SecondsToDays
<1>5. m \div MicrosPerDay \in Int
  BY Units, DivMod
<1> HIDE DEF D, s, q
<1>6. t \div D = q - 11017
  <2> DEFINE p == q - 11017
           r == s % D
  <2>1. t = D * p + r /\ t \in Int /\ p \in Int /\ r \in 0 .. D - 1
    BY <1>1, <1>3
  <2> HIDE DEF t, p, r
  <2>2. t \div D = p
    BY <2>1, <1>1, DivModUnique
  <2> QED BY <2>2 DEF p
<1> QED BY <1>2, <1>4, <1>5, <1>6
-----------------------------------------------------------------------------
(* The calendar of date(). *)

(* Days from 2000-03-01 to the first day of a year that starts in March.   *)
Leaps(y)      == (y \div 4) - (y \div 100) + (y \div 400)
MarchStart(y) == 365 * (y - 2000) + Leaps(y) - 485

(* The cycles of date() split every day, also before 2000, into a year     *)
(* that starts in March and a day of it, and day 365 only in a leap        *)
(* year.                                                                   *)
LEMMA MarchDateSplitsTheDays ==
    ASSUME NEW n \in Int
    PROVE  /\ MarchDate(n).year \in Int
           /\ MarchDate(n).day \in Nat
           /\ MarchDate(n).day <= 365
           /\ MarchDate(n).day = 365 => LeapYear(MarchDate(n).year + 1)
           /\ n = MarchStart(MarchDate(n).year) + MarchDate(n).day
<1> DEFINE qc     == n \div DaysPer400Y
           day400 == n % DaysPer400Y
           c      == Capped(day400 \div DaysPer100Y, 3)
           day100 == day400 - c * DaysPer100Y
           q      == Capped(day100 \div DaysPer4Y, 24)
           day4   == day100 - q * DaysPer4Y
           y      == Capped(day4 \div 365, 3)
           yday   == day4 - y * 365
           year   == y + 4 * q + 100 * c + 400 * qc + 2000
<1>1. MarchDate(n) = [year |-> year, day |-> yday]
  BY DEF MarchDate
<1>2. qc \in Int /\ day400 \in Nat /\ day400 < 146097 /\ n = 146097 * qc + day400
  BY SMT DEF DaysPer400Y
<1> HIDE DEF qc, day400
<1>3. /\ c \in Nat /\ c <= 3
      /\ day100 \in Nat /\ day100 <= 36524 /\ (day100 = 36524 => c = 3)
      /\ day400 = 36524 * c + day100
  BY <1>2, SMTT(30) DEF DaysPer100Y, Capped
<1> HIDE DEF c, day100
<1>4. /\ q \in Nat /\ q <= 24
      /\ day4 \in Nat /\ day4 <= 1460
      /\ day100 = 1461 * q + day4
  BY <1>3, SMTT(30) DEF DaysPer4Y, Capped
<1> HIDE DEF q, day4
<1>5. /\ y \in Nat /\ y <= 3
      /\ yday \in Nat /\ yday <= 365
      /\ day4 = 365 * y + yday
      /\ yday = 365 => y = 3 /\ day4 = 1460
  BY <1>4, SMTT(30) DEF Capped
<1> HIDE DEF y, yday
<1>6. year \in Int
  BY <1>2, <1>3, <1>4, <1>5
<1>7. /\ year \div 4 = 500 + 100 * qc + 25 * c + q
      /\ year \div 100 = 20 + 4 * qc + c
      /\ year \div 400 = 5 + qc
  BY <1>2, <1>3, <1>4, <1>5, SMTT(30)
<1>8. n = MarchStart(year) + yday
  BY <1>2, <1>3, <1>4, <1>5, <1>7, SMTT(30) DEF MarchStart, Leaps
<1>9. ASSUME yday = 365 PROVE LeapYear(year + 1)
  <2>1. y = 3 /\ day4 = 1460
    BY <1>5, <1>9
  <2>2. q = 24 => c = 3
    BY <2>1, <1>3, <1>4, SMTT(30)
  <2>3. CASE q = 24
    <3>1. year + 1 = 400 * (qc + 6)
      BY <2>1, <2>2, <2>3, <1>2, SMTT(30)
    <3> QED BY <3>1, <1>2, SMTT(30) DEF LeapYear
  <2>4. CASE q < 24
    <3>1. (year + 1) % 4 = 0 /\ (year + 1) % 100 # 0
      BY <2>1, <2>4, <1>2, <1>3, <1>4, SMTT(30)
    <3> QED BY <3>1 DEF LeapYear
  <2> QED BY <2>3, <2>4, <1>4
<1> QED BY <1>1, <1>5, <1>6, <1>8, <1>9

(* The table of date() and the formula of initUTC give a month of the year *)
(* that starts in March the same first day.                                *)
LEMMA MonthFormula ==
    ASSUME NEW k \in 1 .. 12
    PROVE  ((k - 1) * 62719 + 769) \div 2048 = MonthStart[k]
BY SMT DEF MonthStart

(* The loop of date() stops inside its table for every day of a year.      *)
LEMMA MonthOfDay ==
    ASSUME NEW day \in Nat, day <= 365
    PROVE  /\ MarchMonth(day) \in 1 .. 12
           /\ MonthStart[MarchMonth(day)] <= day
           /\ day < MonthStart[MarchMonth(day)] + MonthLength[MarchMonth(day)]
<1>1. \E k \in 1 .. 12 : /\ MonthStart[k] <= day
                         /\ day < MonthStart[k] + MonthLength[k]
  BY SMT DEF MonthStart, MonthLength
<1> QED BY <1>1 DEF MarchMonth

(* date() returns a month and a day that Date.valid accepts.               *)
LEMMA CivilDateIsValid ==
    ASSUME NEW n \in Int
    PROVE  /\ CivilDate(n).year \in Int
           /\ CivilDate(n).month \in 1 .. 12
           /\ CivilDate(n).day \in Nat
           /\ DateValid(CivilDate(n))
<1> DEFINE y   == MarchDate(n).year
           day == MarchDate(n).day
           k   == MarchMonth(day)
           d   == CivilDate(n)
<1>1. y \in Int /\ day \in Nat /\ day <= 365 /\ (day = 365 => LeapYear(y + 1))
  BY MarchDateSplitsTheDays
<1>2. k \in 1 .. 12 /\ MonthStart[k] <= day /\ day < MonthStart[k] + MonthLength[k]
  BY <1>1, MonthOfDay
<1>3. /\ d.year = y + (IF k > 10 THEN 1 ELSE 0)
      /\ d.month = IF k > 10 THEN k - 10 ELSE k + 2
      /\ d.day = day - MonthStart[k] + 1
  BY DEF CivilDate
<1> HIDE DEF y, day, k, d
<1>4. d.year \in Int /\ d.month \in 1 .. 12
  BY <1>1, <1>2, <1>3
<1>5. d.day \in Nat /\ 1 <= d.day /\ d.day <= MonthLength[k]
  BY <1>1, <1>2, <1>3, SMTT(30) DEF MonthStart, MonthLength
<1>6. CASE k = 12
  <2>1. d.month = 2 /\ d.year = y + 1
    BY <1>3, <1>1, <1>6
  <2>2. d.day = day - 336
    BY <1>3, <1>6, <1>1 DEF MonthStart
  <2>3. d.day <= 28 \/ (d.day = 29 /\ LeapYear(d.year))
    BY <2>1, <2>2, <1>1, <1>5, SMTT(30)
  <2>4. d.day <= MonthDays(d.year, d.month)
    BY <2>1, <2>3, <1>5 DEF MonthDays, CommonMonthDays
  <2> QED BY <2>4, <1>4, <1>5 DEF DateValid, d
<1>7. CASE k # 12
  <2>1. d.month # 2 /\ MonthLength[k] = CommonMonthDays[d.month]
    BY <1>2, <1>3, <1>7, SMTT(30) DEF MonthLength, CommonMonthDays
  <2>2. MonthDays(d.year, d.month) = MonthLength[k]
    BY <2>1 DEF MonthDays
  <2>3. MonthDays(d.year, d.month) \in Int
    BY <2>2, <1>2 DEF MonthLength
  <2> QED BY <2>2, <2>3, <1>4, <1>5 DEF DateValid, d
<1> QED BY <1>6, <1>7

(* initUTC counts the days back that date() has split, in the years in     *)
(* which its divisions do not truncate a negative number.                  *)
LEMMA DayNumberInverts ==
    ASSUME NEW n \in Int, MarchDate(n).year >= -4800
    PROVE  DayNumber(CivilDate(n)) = n + 11017
<1> DEFINE y   == MarchDate(n).year
           day == MarchDate(n).day
           k   == MarchMonth(day)
           d   == CivilDate(n)
           ya  == y + 4800
<1>1. /\ y \in Int /\ y >= -4800 /\ day \in Nat /\ day <= 365
      /\ n = MarchStart(y) + day
  BY MarchDateSplitsTheDays
<1>2. k \in 1 .. 12 /\ MonthStart[k] \in Int
  BY <1>1, MonthOfDay DEF MonthStart
<1>3. /\ d.year = y + (IF k > 10 THEN 1 ELSE 0)
      /\ d.month = IF k > 10 THEN k - 10 ELSE k + 2
      /\ d.day = day - MonthStart[k] + 1
  BY DEF CivilDate
<1> HIDE DEF y, day, k, d
<1>4. d.year + 4800 - Carry(d) = ya /\ d.month - 3 + 12 * Carry(d) = k - 1
  BY <1>1, <1>2, <1>3, SMTT(30) DEF Carry
<1>5. ya \in Nat
  BY <1>1
<1>6. DivTrunc(ya, 4) = ya \div 4 /\ DivTrunc(ya, 100) = ya \div 100
      /\ DivTrunc(ya, 400) = ya \div 400
  BY <1>5 DEF DivTrunc
<1>7. ya \div 4 = (y \div 4) + 1200 /\ ya \div 100 = (y \div 100) + 48
      /\ ya \div 400 = (y \div 400) + 12
  BY <1>1, SMTT(30)
<1>8. DayNumber(d) = ya * 365 + (ya \div 4 - ya \div 100 + ya \div 400)
                       + MonthStart[k] + (d.day - 1) - 2472632
  BY <1>2, <1>4, <1>6, MonthFormula DEF DayNumber, DaysTo
<1>9. DayNumber(d) = ya * 365 + (ya \div 4 - ya \div 100 + ya \div 400)
                       + day - 2472632
  BY <1>1, <1>2, <1>3, <1>5, <1>8, SMTT(30)
<1> HIDE DEF ya
<1>10. ya = y + 4800
  BY DEF ya
<1> QED BY <1>1, <1>7, <1>9, <1>10, SMTT(30) DEF MarchStart, Leaps, d

(* A day of the Julian period lies in the years parseRFC3339 accepts. *)
LEMMA CivilDateInYears ==
    ASSUME NEW n \in Int, FirstDay <= n + 11017, n + 11017 <= LastDay
    PROVE  /\ CivilDate(n).year \in FirstYear .. LastYear
           /\ MarchDate(n).year >= -4800
<1> DEFINE y   == MarchDate(n).year
           day == MarchDate(n).day
           k   == MarchMonth(day)
<1>1. /\ y \in Int /\ day \in Nat /\ day <= 365
      /\ n = MarchStart(y) + day
  BY MarchDateSplitsTheDays
<1>2. k \in 1 .. 12 /\ MonthStart[k] <= day /\ day < MonthStart[k] + MonthLength[k]
  BY <1>1, MonthOfDay
<1>3. CivilDate(n).year = y + (IF k > 10 THEN 1 ELSE 0)
  BY DEF CivilDate
<1> HIDE DEF y, day, k
<1>4. k > 10 <=> day >= 306
  BY <1>1, <1>2, SMTT(30) DEF MonthStart, MonthLength
<1>5. -2451567 <= n /\ n <= 2921879
  BY DEF FirstDay, LastDay
<1>6. -4713 <= y /\ y <= 9999
  BY <1>1, <1>5, SMTT(30) DEF MarchStart, Leaps
<1>7. ASSUME y = -4713 PROVE day >= 306
  <2>1. y \div 4 = -1179 /\ y \div 100 = -48 /\ y \div 400 = -12
    <3>1. 4 * (-1179) <= y /\ y < 4 * ((-1179) + 1)
      BY <1>1, <1>7
    <3>2. 100 * (-48) <= y /\ y < 100 * ((-48) + 1)
      BY <1>1, <1>7
    <3>3. 400 * (-12) <= y /\ y < 400 * ((-12) + 1)
      BY <1>1, <1>7
    <3> QED BY <3>1, <3>2, <3>3, <1>1, QuotientBetween
  <2>2. MarchStart(y) = -2451873
    BY <2>1, <1>7, SMTT(30) DEF MarchStart, Leaps
  <2> QED BY <2>2, <1>1, <1>5, SMTT(30)
<1>8. y = 9999 => day < 306
  BY <1>1, <1>5, SMTT(30) DEF MarchStart, Leaps
<1>9. FirstYear <= CivilDate(n).year /\ CivilDate(n).year <= LastYear
      /\ CivilDate(n).year \in Int
  BY <1>1, <1>3, <1>4, <1>6, <1>7, <1>8, SMTT(30) DEF FirstYear, LastYear
<1>10. FirstYear \in Int /\ LastYear \in Int
  BY DEF FirstYear, LastYear
<1>11. CivilDate(n).year \in FirstYear .. LastYear
  BY <1>9, <1>10, SMTT(30)
<1>12. y >= -4800
  BY <1>1, <1>6, SMTT(30)
<1> QED BY <1>11, <1>12 DEF y
-----------------------------------------------------------------------------
(* A day is a whole number of units of each precision.                     *)
LEMMA PrecisionsDivideTheDay ==
    ASSUME NEW precision \in Precisions
    PROVE  /\ PerDay(precision) \in Nat \ {0}
           /\ MicrosPer(precision) \in Nat \ {0}
           /\ PerDay(precision) * MicrosPer(precision) = MicrosPerDay
<1>1. CASE precision = "seconds"
  BY <1>1, Units, DayInSeconds DEF PerDay, MicrosPer
<1>2. CASE precision = "milliseconds"
  <2>1. SecondsPerDay * MillisPerSecond \in Nat \ {0}
    BY Units, RadixAssumption, MulPositive
  <2>2. (SecondsPerDay * MillisPerSecond) * MicrosPerMilli
           = SecondsPerDay * (MillisPerSecond * MicrosPerMilli)
    BY Units, RadixAssumption, MulAssociative
  <2> QED BY <1>2, <2>1, <2>2, RadixAssumption, DayInSeconds
           DEF PerDay, MicrosPer, MicrosPerSecond
<1>3. CASE precision = "microseconds"
  BY <1>3, Units DEF PerDay, MicrosPer
<1> QED BY <1>1, <1>2, <1>3 DEF Precisions

(* Every unit add() takes is a positive number of microseconds.            *)
LEMMA UnitsArePositive ==
    ASSUME NEW unit \in TimeUnits
    PROVE  MicrosPer(unit) \in Nat \ {0}
BY Units, RadixAssumption, PrecisionsDivideTheDay DEF TimeUnits, MicrosPer

(* The first and the last day of the Julian period are integers.           *)
LEMMA DaysOfThePeriod ==
    /\ FirstDay \in Int
    /\ LastDay \in Nat
BY DEF FirstDay, LastDay

(* @divTrunc returns an integer.                                           *)
LEMMA TruncIsInt ==
    ASSUME NEW a \in Int, NEW b \in Nat \ {0}
    PROVE  DivTrunc(a, b) \in Int
BY DEF DivTrunc

(* The day count of initUTC is an integer, whatever its year.              *)
LEMMA DaysToIsInt ==
    ASSUME NEW y \in Int, NEW d \in DateFields
    PROVE  DaysTo(y, d) \in Int
<1>1. Carry(d) \in Int /\ d.month \in Int /\ d.day \in Int
  BY DEF Carry, DateFields
<1>2. ((d.month - 3 + 12 * Carry(d)) * 62719 + 769) \div 2048 \in Int
  BY <1>1, SMTT(30)
<1>3. /\ DivTrunc(y, 4) \in Int
      /\ DivTrunc(y, 100) \in Int
      /\ DivTrunc(y, 400) \in Int
  BY TruncIsInt
<1> QED BY <1>1, <1>2, <1>3, SMTT(30) DEF DaysTo
-----------------------------------------------------------------------------
(* The day an instant lies in is one of the Julian period, and date() is   *)
(* late only on days before 1970.                                          *)
LEMMA DayOfThePeriod ==
    ASSUME NEW m \in JulianPeriod
    PROVE  /\ m \in Int
           /\ m \div MicrosPerDay \in Int
           /\ FirstDay <= m \div MicrosPerDay
           /\ m \div MicrosPerDay <= LastDay
           /\ DateIsLate(m) => m \div MicrosPerDay <= -1
<1> DEFINE D == MicrosPerDay
           q == m \div D
<1>1. D \in Nat \ {0} /\ FirstDay \in Int /\ LastDay \in Nat
  BY Units, DaysOfThePeriod
<1>2. m \in Int /\ FirstDay * D <= m /\ m <= (LastDay + 1) * D - 1
  BY DEF JulianPeriod, InRange, PerDay
<1>3. q \in Int /\ m % D \in 0 .. D - 1 /\ m = D * q + (m % D)
  BY <1>1, <1>2, DivMod
<1>4. DateIsLate(m) => m < 0
  BY DEF DateIsLate
<1> HIDE DEF D, q
<1>5. (q + 1) * D = D * q + D /\ q * D = D * q /\ D * q \in Int
  BY <1>1, <1>3
<1>6. (LastDay + 1) * D \in Int /\ FirstDay * D \in Int
  BY <1>1
<1>7. FirstDay * D < (q + 1) * D
  BY <1>1, <1>2, <1>3, <1>5, <1>6
<1>8. q * D < (LastDay + 1) * D
  BY <1>1, <1>2, <1>3, <1>5, <1>6
<1>9. FirstDay < q + 1 /\ q < LastDay + 1
  BY <1>1, <1>3, <1>7, <1>8, LessByMultiples
<1>10. ASSUME m < 0 PROVE q <= -1
  <2>1. q * D < 0 * D
    BY <1>1, <1>2, <1>3, <1>5, <1>10
  <2>2. q < 0
    BY <2>1, <1>1, <1>3, LessByMultiples
  <2> QED BY <2>2, <1>3
<1> QED BY <1>1, <1>2, <1>3, <1>4, <1>9, <1>10 DEF q, D

(* date() of an instant of the Julian period is valid, lies in the years   *)
(* parseRFC3339 accepts, and counts back to the day date() worked with.    *)
LEMMA DateOfThePeriod ==
    ASSUME NEW m \in JulianPeriod
    PROVE  /\ date(m).year \in FirstYear .. LastYear
           /\ date(m).year \in Int
           /\ DateValid(date(m))
           /\ DayNumber(date(m)) = (m \div MicrosPerDay)
                                      + (IF DateIsLate(m) THEN 1 ELSE 0)
<1> DEFINE n == LeapEpochDays(m)
           q == m \div MicrosPerDay
<1>1. /\ m \in Int /\ q \in Int /\ FirstDay <= q /\ q <= LastDay
      /\ DateIsLate(m) => q <= -1
  BY DayOfThePeriod
<1>2. n = q - 11017 + (IF DateIsLate(m) THEN 1 ELSE 0)
  BY <1>1, LeapEpochDaysIsTheDay
<1>3. date(m) = CivilDate(n)
  BY DEF date
<1> HIDE DEF n, q
<1>4. n \in Int /\ FirstDay <= n + 11017 /\ n + 11017 <= LastDay
  BY <1>1, <1>2, DaysOfThePeriod
<1>5. CivilDate(n).year \in FirstYear .. LastYear /\ MarchDate(n).year >= -4800
  BY <1>4, CivilDateInYears
<1>6. DateValid(CivilDate(n)) /\ CivilDate(n).year \in Int
  BY <1>4, CivilDateIsValid
<1>7. DayNumber(CivilDate(n)) = n + 11017
  BY <1>4, <1>5, DayNumberInverts
<1>8. n + 11017 = q + (IF DateIsLate(m) THEN 1 ELSE 0)
  BY <1>1, <1>2
<1> QED BY <1>3, <1>5, <1>6, <1>7, <1>8 DEF q
-----------------------------------------------------------------------------
(* What initUTC makes of its fields. *)

(* A digit below its radix and a rest below the unit make a number below   *)
(* the next unit, which is divided into them again.                        *)
LEMMA DigitAndRest ==
    ASSUME NEW A \in Nat \ {0}, NEW b \in Nat \ {0}, NEW a \in 0 .. A - 1,
           NEW r \in 0 .. b - 1
    PROVE  a * b + r \in 0 .. (A * b) - 1
<1>1. a * b \in Nat /\ (a + 1) * b = a * b + b /\ A * b \in Nat
  BY MulPositive
<1>2. (a + 1) * b <= A * b
  BY MulMonotone
<1> QED BY <1>1, <1>2

LEMMA DigitSplits ==
    ASSUME NEW a \in Int, NEW b \in Nat \ {0}, NEW r \in 0 .. b - 1
    PROVE  (a * b + r) \div b = a /\ (a * b + r) % b = r
<1> DEFINE n == a * b + r
<1>1. n = b * a + r /\ n \in Int
  OBVIOUS
<1> HIDE DEF n
<1>2. n \div b = a /\ n % b = r
  BY <1>1, DivModUnique
<1> QED BY <1>2 DEF n

(* A valid time of day counts less than a day, and time() of an instant    *)
(* with that count gives it back.                                          *)
LEMMA TimeInverts ==
    ASSUME NEW t \in TimeFields, TimeValid(t), NEW q \in Int
    PROVE  /\ MicrosOfDay(t) \in 0 .. MicrosPerDay - 1
           /\ (q * MicrosPerDay + MicrosOfDay(t)) \div MicrosPerDay = q
           /\ time(q * MicrosPerDay + MicrosOfDay(t)) = t
<1> DEFINE r1 == t.sec * MicrosPerSecond + t.micros
           r2 == t.min * MicrosPerMinute + r1
           u  == t.hour * MicrosPerHour + r2
           m  == q * MicrosPerDay + u
<1>1. /\ t.hour \in 0 .. HoursPerDay - 1 /\ t.min \in 0 .. MinutesPerHour - 1
      /\ t.sec \in 0 .. SecondsPerMinute - 1 /\ t.micros \in 0 .. MicrosPerSecond - 1
  BY RadixAssumption, Units DEF TimeFields, TimeValid
<1>2. r1 \in 0 .. MicrosPerMinute - 1
  BY <1>1, RadixAssumption, Units, DigitAndRest DEF MicrosPerMinute
<1> HIDE DEF r1
<1>3. r2 \in 0 .. MicrosPerHour - 1
  BY <1>1, <1>2, RadixAssumption, Units, DigitAndRest DEF MicrosPerHour
<1> HIDE DEF r2
<1>4. u \in 0 .. MicrosPerDay - 1
  BY <1>1, <1>3, RadixAssumption, Units, DigitAndRest DEF MicrosPerDay
<1> HIDE DEF u
<1>5. t.hour \in Int /\ t.min \in Int /\ t.sec \in Int /\ u \in Int
  BY <1>1, <1>4
<1>6. m \div MicrosPerDay = q /\ m % MicrosPerDay = u
  BY <1>4, Units, DigitSplits, Zenon DEF m
<1>7. u \div MicrosPerHour = t.hour /\ u % MicrosPerHour = r2
  BY <1>3, <1>5, Units, DigitSplits, Zenon DEF u
<1>8. r2 \div MicrosPerMinute = t.min /\ r2 % MicrosPerMinute = r1
  BY <1>2, <1>5, Units, DigitSplits, Zenon DEF r2
<1>9. r1 \div MicrosPerSecond = t.sec /\ r1 % MicrosPerSecond = t.micros
  BY <1>1, <1>5, Units, DigitSplits, Zenon DEF r1
<1>10. u % MicrosPerMinute = r1
  <2>u. MicrosPerHour = MinutesPerHour * MicrosPerMinute
    BY DEF MicrosPerHour
  <2>v. MinutesPerHour \in Nat \ {0} /\ MicrosPerMinute \in Nat \ {0} /\ u \in Int
    BY <1>5, Units, RadixAssumption
  <2>1. u % MicrosPerHour = MicrosPerMinute * ((u % MicrosPerHour) \div MicrosPerMinute)
                               + (u % MicrosPerMinute)
    BY <2>u, <2>v, RestOfUnit, ZenonT(60)
  <2>2. r2 = MicrosPerMinute * t.min + (u % MicrosPerMinute)
    BY <2>1, <1>7, <1>8, Zenon
  <2>3. u % MicrosPerMinute \in Int /\ MicrosPerMinute * t.min \in Int
    BY <1>5, Units, DivMod
  <2>4. r2 = MicrosPerMinute * t.min + r1 /\ r1 \in Int
    BY <1>2, <1>5, Units DEF r2
  <2> DEFINE w == MicrosPerMinute * t.min
             v == u % MicrosPerMinute
  <2>5. w \in Int /\ v \in Int /\ r1 \in Int /\ w + v = w + r1
    BY <2>2, <2>3, <2>4
  <2> HIDE DEF w, v
  <2>6. v = r1
    BY <2>5
  <2> QED BY <2>6 DEF v
<1>11. u % MicrosPerSecond = t.micros
  <2>u. MicrosPerMinute = SecondsPerMinute * MicrosPerSecond
    BY DEF MicrosPerMinute
  <2>v. SecondsPerMinute \in Nat \ {0} /\ MicrosPerSecond \in Nat \ {0} /\ u \in Int
    BY <1>5, Units, RadixAssumption
  <2>1. u % MicrosPerMinute = MicrosPerSecond * ((u % MicrosPerMinute) \div MicrosPerSecond)
                               + (u % MicrosPerSecond)
    BY <2>u, <2>v, RestOfUnit, ZenonT(60)
  <2>2. r1 = MicrosPerSecond * t.sec + (u % MicrosPerSecond)
    BY <2>1, <1>9, <1>10, Zenon
  <2>3. u % MicrosPerSecond \in Int /\ MicrosPerSecond * t.sec \in Int
    BY <1>5, Units, DivMod
  <2>4. r1 = MicrosPerSecond * t.sec + t.micros
    BY <1>1, <1>5, Units DEF r1
  <2> QED BY <1>1, <2>2, <2>3, <2>4
<1> HIDE DEF m
<1>12. time(m) = [hour |-> t.hour, min |-> t.min, sec |-> t.sec, micros |-> t.micros]
  BY <1>6, <1>7, <1>8, <1>9, <1>10, <1>11 DEF time
<1>13. time(m) = t
  BY <1>12 DEF TimeFields
<1>14. MicrosOfDay(t) = u
  <2>1. /\ t.hour * MicrosPerHour \in Int /\ t.min * MicrosPerMinute \in Int
        /\ t.sec * MicrosPerSecond \in Int /\ t.micros \in Int
    BY <1>1, Units
  <2> QED BY <2>1 DEF MicrosOfDay, u, r2, r1
<1> QED BY <1>4, <1>6, <1>13, <1>14 DEF m

(* The month of a date in the year that starts in March, and the days      *)
(* before the date in that year.                                           *)
MonthIn(d) == d.month - 2 + 12 * Carry(d)
DayIn(d)   == MonthStart[MonthIn(d)] + d.day - 1

(* A valid date has 365 days before it only at the end of a leap year, and *)
(* initUTC counts them after the days of the years before.                 *)
LEMMA DateInMarchYear ==
    ASSUME NEW d \in DateFields, DateValid(d)
    PROVE  /\ Carry(d) \in {0, 1} /\ MonthIn(d) \in 1 .. 12
           /\ Carry(d) = 1 <=> MonthIn(d) > 10
           /\ DayIn(d) \in 0 .. 365
           /\ MonthStart[MonthIn(d)] <= DayIn(d)
           /\ DayIn(d) < MonthStart[MonthIn(d)] + MonthLength[MonthIn(d)]
           /\ DayIn(d) = 365 => LeapYear(d.year - Carry(d) + 1)
           /\ MonthIn(d) > 10 <=> DayIn(d) >= 306
           /\ \A y \in Int : DaysTo(y, d) = y * 365 + DayIn(d) - 2472632
                 + (DivTrunc(y, 4) - DivTrunc(y, 100) + DivTrunc(y, 400))
<1> DEFINE c == Carry(d)
           k == MonthIn(d)
<1>1. /\ d.year \in Int /\ d.month \in 1 .. 12 /\ d.day \in Nat /\ 1 <= d.day
      /\ d.day <= MonthDays(d.year, d.month) /\ MonthDays(d.year, d.month) \in Nat
  <2>1. d.day \in 1 .. MonthDays(d.year, d.month) /\ d.month \in 1 .. 12
    BY DEF DateValid
  <2>2. MonthDays(d.year, d.month) \in Nat
    BY <2>1, SMTT(30) DEF MonthDays, CommonMonthDays
  <2> QED BY <2>1, <2>2 DEF DateFields, I16
<1>2. c \in {0, 1} /\ k \in 1 .. 12 /\ (c = 1 <=> k > 10)
  BY <1>1, SMTT(30) DEF Carry, MonthIn
<1>3. MonthDays(d.year, d.month) <= MonthLength[k]
  BY <1>1, SMTT(30) DEF Carry, MonthDays, CommonMonthDays, MonthLength, MonthIn
<1>4. k = 12 /\ d.day = 29 => LeapYear(d.year)
  BY <1>1, SMTT(30) DEF Carry, MonthDays, CommonMonthDays, MonthIn
<1>5. MonthStart[k] \in Nat /\ MonthLength[k] \in Nat
  BY <1>2, SMTT(30) DEF MonthStart, MonthLength
<1>6. ASSUME NEW y \in Int
      PROVE  DaysTo(y, d) = y * 365 + DayIn(d) - 2472632
                     + (DivTrunc(y, 4) - DivTrunc(y, 100) + DivTrunc(y, 400))
  <2>1. ((k - 1) * 62719 + 769) \div 2048 = MonthStart[k]
    BY <1>2, MonthFormula
  <2>2. d.month - 3 + 12 * Carry(d) = k - 1
    BY <1>1, <1>2 DEF MonthIn
  <2>3. /\ DivTrunc(y, 4) \in Int
        /\ DivTrunc(y, 100) \in Int
        /\ DivTrunc(y, 400) \in Int
    BY TruncIsInt
  <2> HIDE DEF k
  <2> QED BY <1>1, <1>5, <2>1, <2>2, <2>3, SMTT(30) DEF DaysTo, DayIn, k
<1>7. /\ MonthStart[k] <= DayIn(d) /\ DayIn(d) < MonthStart[k] + MonthLength[k]
      /\ DayIn(d) = MonthStart[k] + d.day - 1 /\ DayIn(d) \in Nat
  BY <1>1, <1>3, <1>5 DEF DayIn
<1>8. /\ DayIn(d) <= 365 /\ (k > 10 <=> DayIn(d) >= 306)
      /\ DayIn(d) = 365 => k = 12 /\ d.day = 29
  BY <1>1, <1>2, <1>3, <1>7, SMTT(30) DEF MonthStart, MonthLength
<1>9. DayIn(d) = 365 => LeapYear(d.year - c + 1)
  <2>1. k = 12 => d.year - c + 1 = d.year
    BY <1>1, <1>2
  <2> QED BY <2>1, <1>4, <1>8
<1>10. DayIn(d) \in 0 .. 365
  BY <1>7, <1>8
<1> QED BY <1>2, <1>6, <1>7, <1>8, <1>9, <1>10

(* A year that starts in March ends before the next one starts.            *)
LEMMA MarchYearsAreOrdered ==
    ASSUME NEW y \in Int, NEW z \in Int, y < z,
           NEW e \in 0 .. 365, NEW f \in 0 .. 365, e = 365 => LeapYear(y + 1)
    PROVE  MarchStart(y) + e < MarchStart(z) + f
<1>1. CASE z = y + 1
  <2>1. /\ (y + 1) \div 4 = (y \div 4) + (IF (y + 1) % 4 = 0 THEN 1 ELSE 0)
        /\ (y + 1) \div 100 = (y \div 100) + (IF (y + 1) % 100 = 0 THEN 1 ELSE 0)
        /\ (y + 1) \div 400 = (y \div 400) + (IF (y + 1) % 400 = 0 THEN 1 ELSE 0)
    BY SMT
  <2>2. /\ (y + 1) % 400 = 0 => (y + 1) % 100 = 0
        /\ (y + 1) % 100 = 0 => (y + 1) % 4 = 0
    BY SMT
  <2>3. Leaps(y + 1) - Leaps(y) = IF LeapYear(y + 1) THEN 1 ELSE 0
    BY <2>1, <2>2, SMTT(30) DEF Leaps, LeapYear
  <2>4. Leaps(y) \in Int /\ Leaps(y + 1) \in Int
    BY SMT DEF Leaps
  <2>5. MarchStart(z) - MarchStart(y) = 365 + (IF LeapYear(y + 1) THEN 1 ELSE 0)
    BY <1>1, <2>3, <2>4, SMTT(30) DEF MarchStart
  <2>6. MarchStart(y) \in Int /\ MarchStart(z) \in Int
    BY <1>1, <2>4, SMTT(30) DEF MarchStart
  <2> QED BY <2>5, <2>6, SMTT(30)
<1>2. CASE z >= y + 2
  BY <1>2, SMTT(30) DEF MarchStart, Leaps
<1> QED BY <1>1, <1>2

(* Days of different years that start in March are different.              *)
LEMMA MarchYearsDiffer ==
    ASSUME NEW y \in Int, NEW z \in Int, y < z,
           NEW e \in 0 .. 365, NEW f \in 0 .. 365, e = 365 => LeapYear(y + 1)
    PROVE  MarchStart(y) + e # MarchStart(z) + f
<1> DEFINE a == MarchStart(y) + e
           b == MarchStart(z) + f
<1>1. a < b
  BY MarchYearsAreOrdered, ZenonT(60)
<1>2. a \in Int /\ b \in Int
  BY SMT DEF MarchStart, Leaps
<1> HIDE DEF a, b
<1>3. a # b
  BY <1>1, <1>2, SMTT(30)
<1> QED BY <1>3 DEF a, b

(* n is day e of the year y that starts in March.                          *)
IsMarchDate(n, y, e) == /\ n = MarchStart(y) + e
                        /\ e = 365 => LeapYear(y + 1)

(* So the year and the day date() finds are the only ones of their kind.   *)
LEMMA MarchDateIsTheOne ==
    ASSUME NEW y \in Int, NEW e \in 0 .. 365, NEW n \in Int, IsMarchDate(n, y, e)
    PROVE  MarchDate(n).year = y /\ MarchDate(n).day = e
<1> DEFINE z == MarchDate(n).year
           f == MarchDate(n).day
<1>0. n = MarchStart(y) + e /\ (e = 365 => LeapYear(y + 1))
  BY DEF IsMarchDate
<1>1. MarchStart(y) \in Int /\ n \in Int /\ e \in Int
  BY <1>0, SMTT(30) DEF MarchStart, Leaps
<1>2. /\ z \in Int /\ f \in Nat /\ f <= 365 /\ n = MarchStart(z) + f
      /\ f = 365 => LeapYear(z + 1)
  BY <1>1, MarchDateSplitsTheDays
<1> HIDE DEF z, f
<1>3. f \in 0 .. 365 /\ MarchStart(y) + e = MarchStart(z) + f
  BY <1>0, <1>2
<1>4. z \in Int /\ (f = 365 => LeapYear(z + 1))
  BY <1>2
<1>5. ~(y < z)
  <2> SUFFICES ASSUME y < z PROVE FALSE
    OBVIOUS
  <2>1. MarchStart(y) + e # MarchStart(z) + f
    BY <1>0, <1>3, <1>4, MarchYearsDiffer, ZenonT(60)
  <2> QED BY <2>1, <1>3
<1>6. ~(z < y)
  <2> SUFFICES ASSUME z < y PROVE FALSE
    OBVIOUS
  <2>1. MarchStart(z) + f # MarchStart(y) + e
    BY <1>3, <1>4, MarchYearsDiffer, ZenonT(60)
  <2> QED BY <2>1, <1>3
<1>7. z = y
  BY <1>4, <1>5, <1>6
<1>8. f = e
  <2>1. f \in Int
    BY <1>2
  <2> QED BY <1>1, <1>3, <1>7, <2>1
<1> QED BY <1>7, <1>8 DEF z, f

(* The months of a year that starts in March do not overlap.               *)
LEMMA MonthsDiffer ==
    ASSUME NEW j \in 1 .. 12, NEW k \in 1 .. 12, NEW day \in Nat,
           MonthStart[j] <= day, day < MonthStart[j] + MonthLength[j],
           MonthStart[k] <= day, day < MonthStart[k] + MonthLength[k]
    PROVE  j = k
BY SMT DEF MonthStart, MonthLength

(* The years in which the divisions of initUTC truncate nothing negative.  *)
Counted(d) == d.year - Carry(d) >= -4800

(* The day number of a valid date in those years.                          *)
LEMMA DayNumberIsTheDay ==
    ASSUME NEW d \in DateFields, DateValid(d), Counted(d)
    PROVE  /\ d.year \in Int /\ Carry(d) \in {0, 1} /\ DayIn(d) \in 0 .. 365
           /\ MarchStart(d.year - Carry(d)) \in Int
           /\ DayNumber(d) = MarchStart(d.year - Carry(d)) + DayIn(d) + 11017
<1> DEFINE y  == d.year - Carry(d)
           ya == d.year + 4800 - Carry(d)
<1>1. d.year \in Int /\ Carry(d) \in {0, 1} /\ DayIn(d) \in 0 .. 365
  BY DateInMarchYear DEF DateFields, I16
<1>2. y \in Int /\ ya \in Nat /\ ya = y + 4800
  BY <1>1 DEF Counted
<1>3. DayNumber(d) = ya * 365 + DayIn(d) - 2472632
                 + (DivTrunc(ya, 4) - DivTrunc(ya, 100) + DivTrunc(ya, 400))
  BY <1>2, DateInMarchYear DEF DayNumber
<1> HIDE DEF y, ya
<1>4. DivTrunc(ya, 4) = ya \div 4 /\ DivTrunc(ya, 100) = ya \div 100
      /\ DivTrunc(ya, 400) = ya \div 400
  BY <1>2 DEF DivTrunc
<1>5. ya \div 4 = (y \div 4) + 1200 /\ ya \div 100 = (y \div 100) + 48
      /\ ya \div 400 = (y \div 400) + 12
  BY <1>2, SMTT(30)
<1>6. MarchStart(y) \in Int /\ DayNumber(d) = MarchStart(y) + DayIn(d) + 11017
  BY <1>1, <1>2, <1>3, <1>4, <1>5, SMTT(30) DEF MarchStart, Leaps
<1> QED BY <1>1, <1>6 DEF y

(* date() gives the valid fields back initUTC has counted.                 *)
LEMMA CivilDateInverts ==
    ASSUME NEW d \in DateFields, DateValid(d), Counted(d)
    PROVE  CivilDate(DayNumber(d) - 11017) = d
<1> DEFINE y == d.year - Carry(d)
           e == DayIn(d)
           k == MonthIn(d)
           n == DayNumber(d) - 11017
           f == MarchDate(n).day
<1>1. /\ d.year \in Int /\ d.month \in Int /\ d.day \in Int
      /\ y \in Int /\ e \in 0 .. 365
  BY DayNumberIsTheDay DEF DateFields
<1>2. e = 365 => LeapYear(y + 1)
  BY DateInMarchYear
<1>3. IsMarchDate(n, y, e)
  BY <1>2, DayNumberIsTheDay DEF IsMarchDate
<1>n. n \in Int
  BY DayNumberIsTheDay
<1>4. /\ k \in 1 .. 12 /\ Carry(d) \in {0, 1} /\ (Carry(d) = 1 <=> k > 10)
      /\ MonthStart[k] <= e /\ e < MonthStart[k] + MonthLength[k]
  BY DateInMarchYear
<1>5. CivilDate(n) = [year  |-> MarchDate(n).year + (IF MarchMonth(f) > 10 THEN 1 ELSE 0),
                      month |-> IF MarchMonth(f) > 10 THEN MarchMonth(f) - 10
                                                      ELSE MarchMonth(f) + 2,
                      day   |-> f - MonthStart[MarchMonth(f)] + 1]
  BY DEF CivilDate
<1> HIDE DEF n
<1>6. MarchDate(n).year = y /\ f = e
  <2> HIDE DEF y, e
  <2>1. y \in Int
    BY <1>1
  <2>2. e \in 0 .. 365
    BY <1>1
  <2>3. MarchDate(n).year = y
    BY <1>n, <1>3, <2>1, <2>2, MarchDateIsTheOne, Zenon
  <2>4. MarchDate(n).day = e
    BY <1>n, <1>3, <2>1, <2>2, MarchDateIsTheOne, Zenon
  <2> QED BY <2>3, <2>4
<1> HIDE DEF f
<1>7. f \in Nat /\ f <= 365
  BY <1>1, <1>6
<1>8. MarchMonth(f) = k
  <2> HIDE DEF k, e
  <2> QED BY <1>4, <1>6, <1>7, MonthOfDay, MonthsDiffer
<1>9. /\ d.year = y + (IF k > 10 THEN 1 ELSE 0)
      /\ d.month = IF k > 10 THEN k - 10 ELSE k + 2
      /\ d.day = e - MonthStart[k] + 1
  <2>1. MonthStart[k] \in Int
    BY <1>4 DEF MonthStart
  <2>2. d.month = k + 2 - 12 * Carry(d)
    BY <1>1, <1>4 DEF MonthIn
  <2>3. d.day = e - MonthStart[k] + 1
    BY <1>1, <2>1 DEF DayIn
  <2> HIDE DEF k, e
  <2> QED BY <1>1, <1>4, <2>2, <2>3
<1> HIDE DEF y, e, k
<1>10. CivilDate(n) = [year |-> d.year, month |-> d.month, day |-> d.day]
  BY <1>5, <1>6, <1>8, <1>9
<1> QED BY <1>10 DEF DateFields, n

(* A day and a time of day make an instant fromUnix accepts exactly when   *)
(* the day is one of the Julian period.                                    *)
LEMMA DaysAreTheRange ==
    ASSUME NEW days \in Int, NEW u \in 0 .. MicrosPerDay - 1
    PROVE  /\ FirstDay <= days /\ days <= LastDay =>
                 fromUnix(days * MicrosPerDay + u, "microseconds")
                   = Ok(days * MicrosPerDay + u)
           /\ ~(FirstDay <= days /\ days <= LastDay) =>
                 fromUnix(days * MicrosPerDay + u, "microseconds").error
                   = "OutsideJulianPeriod"
<1> DEFINE D == MicrosPerDay
           m == days * D + u
<1>1. D \in Nat \ {0} /\ u \in 0 .. D - 1
  BY Units
<1>2. PerDay("microseconds") = D /\ MicrosPer("microseconds") = 1
  BY DEF PerDay, MicrosPer
<1>3. FirstDay \in Int /\ LastDay \in Int
  BY DaysOfThePeriod
<1> HIDE DEF D
<1>4. m \in Int /\ days * D \in Int /\ (days + 1) * D = days * D + D
  BY <1>1
<1>5. /\ FirstDay * D \in Int /\ (LastDay + 1) * D \in Int
      /\ FirstDay <= days => FirstDay * D <= days * D
      /\ days + 1 <= FirstDay => (days + 1) * D <= FirstDay * D
      /\ days + 1 <= LastDay + 1 => (days + 1) * D <= (LastDay + 1) * D
      /\ LastDay + 1 <= days => (LastDay + 1) * D <= days * D
  BY <1>1, <1>3, MulMonotone
<1>6. InRange(m, "microseconds") <=> (FirstDay <= days /\ days <= LastDay)
  <2>1. InRange(m, "microseconds")
           <=> (FirstDay * D <= m /\ m <= (LastDay + 1) * D - 1)
    BY <1>2 DEF InRange
  <2> DEFINE w == days * D
             f == FirstDay * D
             l == (LastDay + 1) * D
             x == (days + 1) * D
  <2>2. /\ w \in Int /\ f \in Int /\ l \in Int /\ x = w + D /\ m = w + u
        /\ FirstDay <= days => f <= w
        /\ days + 1 <= FirstDay => x <= f
        /\ days + 1 <= LastDay + 1 => x <= l
        /\ LastDay + 1 <= days => l <= w
    BY <1>4, <1>5
  <2>3. InRange(m, "microseconds") <=> (f <= m /\ m <= l - 1)
    BY <2>1
  <2> HIDE DEF w, f, l, x, m
  <2>4. (f <= m /\ m <= l - 1) <=> (FirstDay <= days /\ days <= LastDay)
    BY <1>1, <1>3, <2>2
  <2> QED BY <2>3, <2>4
<1>7. m * 1 = m
  BY <1>4
<1> QED BY <1>2, <1>6, <1>7 DEF fromUnix, Ok, Failed, D

(* The days of the Julian period, and the years since -4800 that, with the *)
(* carry, are those of parseRFC3339.                                       *)
InPeriod(days)   == FirstDay <= days /\ days <= LastDay
InYears(sum)     == 88 <= sum /\ sum <= 14799
YearAccepted(d)  == d.year \in FirstYear .. LastYear

(* The day count of a valid date is a day of the period exactly when its   *)
(* year is one parseRFC3339 accepts, also where the divisions truncate.    *)
LEMMA YearsAreThePeriod ==
    ASSUME NEW d \in DateFields, DateValid(d), NEW y \in Int
    PROVE  InPeriod(DaysTo(y, d)) <=> InYears(y + Carry(d))
<1> DEFINE e == DayIn(d)
           c == Carry(d)
           n == DaysTo(y, d)
<1>1. /\ e \in 0 .. 365 /\ c \in {0, 1} /\ (c = 1 <=> e >= 306)
  BY DateInMarchYear
<1>2. n = y * 365 + e - 2472632
          + (DivTrunc(y, 4) - DivTrunc(y, 100) + DivTrunc(y, 400))
  BY DateInMarchYear
<1> HIDE DEF e, c, n
<1>3. CASE y >= 0
  <2>1. n = y * 365 + e - 2472632
            + ((y \div 4) - (y \div 100) + (y \div 400))
    BY <1>2, <1>3 DEF DivTrunc
  <2>2. InPeriod(n) <=> InYears(y + c)
    BY <1>1, <1>3, <2>1, SMTT(60) DEF FirstDay, LastDay, InPeriod, InYears
  <2> QED BY <2>2 DEF c, n
<1>4. CASE y < 0
  <2> DEFINE z == -y
  <2>1. n = y * 365 + e - 2472632
            + (-(z \div 4) - (-(z \div 100)) + (-(z \div 400)))
    BY <1>2, <1>4 DEF DivTrunc
  <2>2. ~InPeriod(n)
    BY <1>1, <1>4, <2>1, SMTT(60) DEF FirstDay, InPeriod
  <2>3. ~InYears(y + c)
    BY <1>1, <1>4 DEF InYears
  <2> QED BY <2>2, <2>3 DEF c, n
<1> QED BY <1>3, <1>4

(* The i16 of the year and its sum with 4800.                              *)
LEMMA YearsOfInitUTC ==
    ASSUME NEW d \in DateFields, DateValid(d)
    PROVE  /\ d.year + 4800 - Carry(d) \in Int
           /\ WrappedYearAdj(d) \in Int
           /\ InYears((d.year + 4800 - Carry(d)) + Carry(d)) <=> YearAccepted(d)
           /\ YearAccepted(d) => ~YearOverflows(d)
           /\ YearOverflows(d) => ~InYears(WrappedYearAdj(d) + Carry(d))
<1> DEFINE y == d.year
           c == Carry(d)
<1>1. y \in Int /\ -32768 <= y /\ y <= 32767 /\ c \in {0, 1}
  BY DateInMarchYear DEF DateFields, I16
<1>2. /\ WrappedYearAdj(d) = ((((y + 4800 + 32768) % 65536) - 32768 - c + 32768) % 65536) - 32768
      /\ YearOverflows(d) <=> y + 4800 \notin I16
      /\ YearAccepted(d) <=> y \in FirstYear .. LastYear
  BY DEF WrappedYearAdj, WrapI16, YearOverflows, YearAccepted
<1> HIDE DEF y, c
<1>3. YearOverflows(d) <=> y + 4800 > 32767
  BY <1>1, <1>2 DEF I16
<1>4. YearAccepted(d) <=> -4712 <= y /\ y <= 9999
  BY <1>1, <1>2 DEF FirstYear, LastYear
<1>5. y + 4800 - c \in Int /\ WrappedYearAdj(d) \in Int
  BY <1>1, <1>2
<1>6. InYears((y + 4800 - c) + c) <=> YearAccepted(d)
  BY <1>1, <1>4 DEF InYears
<1>7. YearAccepted(d) => ~YearOverflows(d)
  BY <1>1, <1>3, <1>4
<1>8. YearOverflows(d) => ~InYears(WrappedYearAdj(d) + c)
  BY <1>1, <1>2, <1>3, SMTT(30) DEF InYears
<1> QED BY <1>5, <1>6, <1>7, <1>8 DEF y, c

(* What initUTC does with its fields: it accepts exactly the valid ones of *)
(* the years parseRFC3339 accepts, also where the i16 of the year wraps.   *)
LEMMA InitUTCOutcome ==
    ASSUME NEW safe \in BOOLEAN, NEW d \in DateFields, NEW t \in TimeFields
    PROVE  /\ ~DateValid(d) \/ ~TimeValid(t) =>
                 initUTCIn(safe, d, t).error \in {"InvalidDate", "InvalidTime"}
           /\ DateValid(d) /\ TimeValid(t) /\ YearAccepted(d) =>
                 initUTCIn(safe, d, t) = Ok(InstantOf(d, t))
           /\ DateValid(d) /\ TimeValid(t) /\ ~YearAccepted(d) =>
                 initUTCIn(safe, d, t).error \in {"OutsideJulianPeriod", "panic"}
<1> DEFINE u        == MicrosOfDay(t)
           at(days) == fromUnix(days * MicrosPerDay + u, "microseconds")
           y        == d.year + 4800 - Carry(d)
           w        == WrappedYearAdj(d)
<1>1. CASE ~DateValid(d) \/ ~TimeValid(t)
  BY <1>1 DEF initUTCIn, Failed
<1>2. CASE DateValid(d) /\ TimeValid(t)
  <2>1. u \in 0 .. MicrosPerDay - 1
    BY <1>2, TimeInverts
  <2>2. initUTCIn(safe, d, t) = IF ~YearOverflows(d) THEN at(DayNumber(d))
                        ELSE IF safe THEN Failed("panic")
                        ELSE at(DaysTo(w, d))
    BY <1>2 DEF initUTCIn, InstantOf
  <2>3. /\ y \in Int /\ w \in Int
        /\ InYears(y + Carry(d)) <=> YearAccepted(d)
        /\ YearAccepted(d) => ~YearOverflows(d)
        /\ YearOverflows(d) => ~InYears(w + Carry(d))
    BY <1>2, YearsOfInitUTC
  <2>4. DayNumber(d) = DaysTo(y, d)
    BY DEF DayNumber
  <2> HIDE DEF u, y, w
  <2>5. DaysTo(y, d) \in Int /\ DaysTo(w, d) \in Int
    BY <2>3, DaysToIsInt
  <2>6. InPeriod(DaysTo(y, d)) <=> YearAccepted(d)
    BY <1>2, <2>3, YearsAreThePeriod
  <2>7. YearOverflows(d) => ~InPeriod(DaysTo(w, d))
    BY <1>2, <2>3, YearsAreThePeriod
  <2>8. ASSUME NEW days \in Int
        PROVE  /\ InPeriod(days) => at(days) = Ok(days * MicrosPerDay + u)
               /\ ~InPeriod(days) => at(days).error = "OutsideJulianPeriod"
    BY <2>1, DaysAreTheRange DEF InPeriod
  <2>9. Failed("panic").error = "panic"
    BY DEF Failed
  <2>10. YearAccepted(d) =>
            initUTCIn(safe, d, t) = Ok(DayNumber(d) * MicrosPerDay + u)
    BY <2>2, <2>3, <2>4, <2>5, <2>6, <2>8
  <2>11. ~YearAccepted(d) =>
            initUTCIn(safe, d, t).error \in {"OutsideJulianPeriod", "panic"}
    BY <2>2, <2>4, <2>5, <2>6, <2>7, <2>8, <2>9
  <2> QED BY <1>2, <2>10, <2>11 DEF u, InstantOf
<1> QED BY <1>1, <1>2

(* date() and time() of an instant of the Julian period are fields initUTC *)
(* takes, of a year it accepts.                                            *)
LEMMA ShownFields ==
    ASSUME NEW m \in JulianPeriod
    PROVE  /\ date(m) \in DateFields /\ DateValid(date(m)) /\ YearAccepted(date(m))
           /\ time(m) \in TimeFields /\ TimeValid(time(m))
<1>1. m \in Int
  BY DEF JulianPeriod
<1>2. /\ time(m) \in TimeFields /\ TimeValid(time(m))
      /\ DateValid(date(m)) /\ YearAccepted(date(m))
  BY <1>1, TimeIsTimeOfDay, DateOfThePeriod, Zenon DEF YearAccepted
<1>3. date(m).month \in Nat /\ date(m).day \in Nat
  <2>1. LeapEpochDays(m) \in Int
    BY <1>1, LeapEpochDaysIsTheDay, DayOfThePeriod
  <2>2. CivilDate(LeapEpochDays(m)).month \in 1 .. 12 /\ CivilDate(LeapEpochDays(m)).day \in Nat
    BY <2>1, CivilDateIsValid, SMTT(30)
  <2> QED BY <2>2 DEF date
<1>4. date(m).year \in I16
  <2> DEFINE y == date(m).year
  <2>1. y \in FirstYear .. LastYear
    BY <1>2 DEF YearAccepted
  <2> HIDE DEF y
  <2>2. y \in I16
    BY <2>1, SMTT(30) DEF FirstYear, LastYear, I16
  <2> QED BY <2>2 DEF y
<1>5. date(m) = [year |-> date(m).year, month |-> date(m).month, day |-> date(m).day]
  BY SMT DEF date, CivilDate
<1> HIDE DEF date
<1>6. date(m) \in DateFields
  BY <1>3, <1>4, <1>5, SMTT(30) DEF DateFields
<1> QED BY <1>2, <1>6

(* An instant is the one of its date and time, but for the date within the *)
(* last second of a day before 1970.                                       *)
LEMMA FieldsIdentify ==
    ASSUME NEW m \in JulianPeriod
    PROVE  /\ InstantOf(date(m), time(m)) = m + (IF DateIsLate(m) THEN MicrosPerDay ELSE 0)
           /\ \A safe \in BOOLEAN : initUTCIn(safe, date(m), time(m))
                                        = Ok(InstantOf(date(m), time(m)))
<1> DEFINE D    == MicrosPerDay
           q    == m \div D
           r    == m % D
           late == IF DateIsLate(m) THEN 1 ELSE 0
<1>1. m \in Int /\ D \in Nat \ {0}
  BY Units DEF JulianPeriod
<1>2. DayNumber(date(m)) = q + late /\ MicrosOfDay(time(m)) = r
  BY <1>1, DateOfThePeriod, TimeIsTimeOfDay
<1>3. q \in Int /\ r \in 0 .. D - 1 /\ m = D * q + r
  BY <1>1, DivMod
<1>4. InstantOf(date(m), time(m)) = (q + late) * D + r
  BY <1>2 DEF InstantOf
<1>5. (q + late) * D + r = m + (IF DateIsLate(m) THEN D ELSE 0)
  <2> HIDE DEF D, q, r
  <2>1. q * D = D * q /\ (q + 1) * D = D * q + D /\ q + 0 = q
    BY <1>1, <1>3
  <2> QED BY <2>1, <1>1, <1>3
<1>6. \A safe \in BOOLEAN : initUTCIn(safe, date(m), time(m)) = Ok(InstantOf(date(m), time(m)))
  BY ShownFields, InitUTCOutcome
<1> QED BY <1>4, <1>5, <1>6 DEF D

(* The instant of a valid date and time of the years of the period shows   *)
(* them, but for the date within the last second of a day before 1970.     *)
LEMMA InstantShowsItsFields ==
    ASSUME NEW d \in DateFields, NEW t \in TimeFields,
           DateValid(d), TimeValid(t), YearAccepted(d)
    PROVE  /\ InstantOf(d, t) \in JulianPeriod
           /\ time(InstantOf(d, t)) = t
           /\ ~DateIsLate(InstantOf(d, t)) => date(InstantOf(d, t)) = d
<1> DEFINE n == DayNumber(d)
           u == MicrosOfDay(t)
           m == InstantOf(d, t)
<1>1. Counted(d) /\ n \in Int
  <2>1. Carry(d) \in {0, 1}
    BY DateInMarchYear
  <2>2. d.year \in FirstYear .. LastYear
    BY DEF YearAccepted
  <2>3. Counted(d) /\ d.year + 4800 - Carry(d) \in Int
    <3> DEFINE y == d.year
               c == Carry(d)
    <3>1. y \in FirstYear .. LastYear /\ c \in {0, 1}
      BY <2>1, <2>2
    <3> HIDE DEF y, c
    <3>2. y - c >= -4800 /\ y + 4800 - c \in Int
      BY <3>1, SMTT(30) DEF FirstYear, LastYear
    <3> QED BY <3>2, SMTT(30) DEF y, c, Counted
  <2>4. n \in Int
    BY <2>3, DaysToIsInt DEF DayNumber
  <2> QED BY <2>3, <2>4
<1>2. m = n * MicrosPerDay + u
  BY DEF InstantOf
<1>3. initUTCIn(FALSE, d, t) = Ok(m)
  BY InitUTCOutcome
<1>4. initUTCIn(FALSE, d, t) = fromUnix(m, "microseconds")
  <2>1. ~YearOverflows(d)
    BY YearsOfInitUTC
  <2> QED BY <2>1 DEF initUTCIn
<1>5. InRange(m, "microseconds")
  <2> SUFFICES ASSUME ~InRange(m, "microseconds") PROVE FALSE
    OBVIOUS
  <2>1. fromUnix(m, "microseconds") = Failed("OutsideJulianPeriod")
    BY Zenon DEF fromUnix
  <2>2. Ok(m).error = "none" /\ Failed("OutsideJulianPeriod").error = "OutsideJulianPeriod"
    BY DEF Ok, Failed
  <2> QED BY <1>3, <1>4, <2>1, <2>2
<1> HIDE DEF n
<1>6. time(m) = t /\ m \div MicrosPerDay = n /\ u \in 0 .. MicrosPerDay - 1
  BY <1>1, <1>2, TimeInverts
<1>7. m \in Int
  BY <1>1, <1>2, <1>6, Units
<1> HIDE DEF m
<1>8. ~DateIsLate(m) => LeapEpochDays(m) = n - 11017
  BY <1>1, <1>6, <1>7, LeapEpochDaysIsTheDay, SMTT(30)
<1>9. CivilDate(n - 11017) = d
  BY <1>1, CivilDateInverts, SMTT(30) DEF n
<1>10. ~DateIsLate(m) => date(m) = d
  BY <1>8, <1>9, SMTT(30) DEF date
<1> QED BY <1>5, <1>6, <1>7, <1>10 DEF JulianPeriod, m
=============================================================================
