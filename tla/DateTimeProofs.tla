--------------------------- MODULE DateTimeProofs ---------------------------
(***************************************************************************)
(* Theorems about DateTime, and about what a program shows of it, for      *)
(* every choice of the radices of the day, of the inputs and of the width  *)
(* of an i64.                                                              *)
(***************************************************************************)
EXTENDS DateTimeDisplay, InstantsProofs
-----------------------------------------------------------------------------
(* Every instant an operation returns has passed the range test.           *)
GoodResult(r) == /\ r.error \in Errors
                 /\ r.error = "none" => r.micros \in JulianPeriod

(* fromUnix returns an instant of the Julian period or an error.           *)
LEMMA FromUnixResult ==
    ASSUME NEW value \in Int, NEW precision \in Precisions
    PROVE  GoodResult(fromUnix(value, precision))
<1> DEFINE P == PerDay(precision)
           M == MicrosPer(precision)
<1>1. P \in Nat \ {0} /\ M \in Nat \ {0} /\ P * M = MicrosPerDay
  BY PrecisionsDivideTheDay
<1>2. CASE ~InRange(value, precision)
  BY <1>2 DEF fromUnix, Failed, GoodResult, Errors
<1>3. CASE InRange(value, precision)
  <2>1. FirstDay * P <= value /\ value <= (LastDay + 1) * P - 1
    BY <1>3 DEF InRange
  <2>2. fromUnix(value, precision) = [error |-> "none", micros |-> value * M]
    BY <1>3 DEF fromUnix, Ok
  <2> HIDE DEF P, M
  <2>3. (FirstDay * P) * M <= value * M
    <3>1. FirstDay * P \in Int
      BY <1>1, DaysOfThePeriod
    <3> QED BY <3>1, <2>1, <1>1, MulMonotone
  <2>4. (value + 1) * M <= ((LastDay + 1) * P) * M
    <3>1. (LastDay + 1) * P \in Int /\ value + 1 \in Int
      BY <1>1, DaysOfThePeriod
    <3>2. value + 1 <= (LastDay + 1) * P
      BY <3>1, <2>1
    <3> QED BY <3>1, <3>2, <1>1, MulMonotone
  <2>5. /\ (FirstDay * P) * M = FirstDay * MicrosPerDay
        /\ ((LastDay + 1) * P) * M = (LastDay + 1) * MicrosPerDay
    <3>1. (FirstDay * P) * M = FirstDay * (P * M)
      BY <1>1, DaysOfThePeriod, MulAssociative
    <3>2. ((LastDay + 1) * P) * M = (LastDay + 1) * (P * M)
      BY <1>1, DaysOfThePeriod, MulAssociative
    <3> QED BY <3>1, <3>2, <1>1
  <2>6. (value + 1) * M = value * M + M /\ value * M \in Int
    BY <1>1
  <2>7. (LastDay + 1) * MicrosPerDay \in Int /\ FirstDay * MicrosPerDay \in Int
    BY Units, DaysOfThePeriod
  <2>8. FirstDay * MicrosPerDay <= value * M
        /\ value * M <= (LastDay + 1) * MicrosPerDay - 1
    BY <2>3, <2>4, <2>5, <2>6, <2>7, <1>1
  <2>9. value * M \in JulianPeriod
    BY <2>6, <2>8 DEF JulianPeriod, InRange, PerDay
  <2> QED BY <2>2, <2>9 DEF GoodResult, Errors
<1> QED BY <1>2, <1>3

(* initUTC returns an instant of the Julian period or an error, also       *)
(* when its year wraps.                                                    *)
LEMMA InitUTCResult ==
    ASSUME NEW d \in DateFields, NEW t \in TimeFields
    PROVE  GoodResult(initUTC(d, t))
<1> DEFINE at(days) == fromUnix(days * MicrosPerDay + MicrosOfDay(t), "microseconds")
<1>1. MicrosOfDay(t) \in Int
  BY Units DEF MicrosOfDay, TimeFields
<1>2. ASSUME NEW days \in Int PROVE GoodResult(at(days))
  <2>1. days * MicrosPerDay + MicrosOfDay(t) \in Int
    BY <1>1, Units
  <2> QED BY <2>1, FromUnixResult DEF Precisions
<1>3. Carry(d) \in Int /\ d.year \in Int
  BY DEF Carry, DateFields, I16
<1>4. DayNumber(d) \in Int
  BY <1>3, DaysToIsInt DEF DayNumber
<1>5. DaysTo(WrappedYearAdj(d), d) \in Int
  <2>1. WrappedYearAdj(d) \in Int
    BY <1>3, SMTT(30) DEF WrappedYearAdj, WrapI16
  <2> QED BY <2>1, DaysToIsInt
<1>6. /\ GoodResult(Failed("InvalidDate"))
      /\ GoodResult(Failed("InvalidTime"))
      /\ GoodResult(Failed("panic"))
  BY DEF GoodResult, Failed, Errors
<1>7. GoodResult(at(DayNumber(d))) /\ GoodResult(at(DaysTo(WrappedYearAdj(d), d)))
  BY <1>2, <1>4, <1>5
<1> QED BY <1>6, <1>7 DEF initUTC, initUTCIn, InstantOf

(* add returns an instant of the Julian period or an error, also when      *)
(* its sum wraps.                                                          *)
LEMMA AddResult ==
    ASSUME NEW m \in Int, NEW value \in Int, NEW unit \in TimeUnits
    PROVE  GoodResult(add(m, value, unit))
<1> DEFINE product == value * MicrosPer(unit)
           sum     == m + product
           wrapped == Wrap64(m + Wrap64(product))
<1>1. product \in Int /\ sum \in Int
  BY UnitsArePositive
<1>2. ASSUME NEW n \in Int PROVE Wrap64(n) \in Int
  <2>1. 2 * (Int64Max + 1) \in Nat \ {0} /\ n + Int64Max + 1 \in Int
    BY InputAssumption
  <2>2. (n + Int64Max + 1) % (2 * (Int64Max + 1)) \in Int
    BY <2>1, DivMod
  <2> QED BY <2>2, InputAssumption DEF Wrap64
<1>3. wrapped \in Int
  BY <1>1, <1>2
<1>4. GoodResult(fromUnix(sum, "microseconds"))
      /\ GoodResult(fromUnix(wrapped, "microseconds"))
  BY <1>1, <1>3, FromUnixResult DEF Precisions
<1>5. GoodResult(Failed("panic"))
  BY DEF GoodResult, Failed, Errors
<1> QED BY <1>4, <1>5 DEF add
-----------------------------------------------------------------------------
(* Whatever the program calls, in whatever order, and whether or not       *)
(* overflow is checked, it holds an instant of the Julian period.          *)
THEOREM TypeCorrect == Spec => []TypeOK
<1>1. Init => TypeOK
  <2> SUFFICES ASSUME Init PROVE TypeOK
    OBVIOUS
  <2>1. PICK in \in UnixInputs :
          LET result == fromUnix(in[1], in[2])
          IN  /\ result.error = "none"
              /\ micros = result.micros
              /\ call = Called("fromUnix", in[1], in[2], NoDate, NoTime, "none")
    BY DEF Init
  <2>2. in[1] \in Int /\ in[2] \in Precisions
    BY InputAssumption
  <2>3. micros \in JulianPeriod
    BY <2>1, <2>2, FromUnixResult DEF GoodResult
  <2>4. call \in Calls
    BY <2>1, <2>2 DEF Calls, Called, Operations, Errors, TimeUnits, NoDate, NoTime,
                      DateFields, TimeFields, I16
  <2> QED BY <2>3, <2>4 DEF TypeOK
<1>2. TypeOK /\ [Next]_vars => TypeOK'
  <2> SUFFICES ASSUME TypeOK, [Next]_vars PROVE TypeOK'
    OBVIOUS
  <2>1. micros \in Int /\ micros \in JulianPeriod
    BY DEF TypeOK, JulianPeriod
  <2>2. ASSUME NEW r, GoodResult(r), Keep(r) PROVE micros' \in JulianPeriod
    BY <2>1, <2>2 DEF GoodResult, Keep
  <2>3. NoDate \in DateFields /\ NoTime \in TimeFields
    BY DEF NoDate, NoTime, DateFields, TimeFields, I16
  <2>4. ASSUME NEW op \in Operations, NEW value \in Int,
               NEW unit \in TimeUnits \cup {"none"}, NEW d \in DateFields,
               NEW t \in TimeFields, NEW err \in Errors
        PROVE  Called(op, value, unit, d, t, err) \in Calls
    BY <2>4 DEF Called, Calls
  <2>5. CASE \E in \in UnixInputs : FromUnix(in[1], in[2])
    <3>1. PICK in \in UnixInputs : FromUnix(in[1], in[2])
      BY <2>5
    <3>2. in[1] \in Int /\ in[2] \in Precisions
      BY InputAssumption
    <3>3. GoodResult(fromUnix(in[1], in[2]))
      BY <3>2, FromUnixResult
    <3>4. micros' \in JulianPeriod
      BY <3>1, <3>3, <2>2 DEF FromUnix
    <3>5. call' \in Calls
      BY <3>1, <3>2, <3>3, <2>3, <2>4 DEF FromUnix, GoodResult, Operations, TimeUnits
    <3> QED BY <3>4, <3>5 DEF TypeOK
  <2>6. CASE \E in \in FieldInputs : InitUTC(in.date, in.time)
    <3>1. PICK in \in FieldInputs : InitUTC(in.date, in.time)
      BY <2>6
    <3>2. in.date \in DateFields /\ in.time \in TimeFields
      BY InputAssumption
    <3>3. GoodResult(initUTC(in.date, in.time))
      BY <3>2, InitUTCResult
    <3>4. micros' \in JulianPeriod
      BY <3>1, <3>3, <2>2 DEF InitUTC
    <3>5. call' \in Calls
      <4> DEFINE err == initUTC(in.date, in.time).error
      <4>1. "initUTC" \in Operations /\ "none" \in TimeUnits \cup {"none"} /\ 0 \in Int
        BY DEF Operations
      <4>2. call' = Called("initUTC", 0, "none", in.date, in.time, err)
        BY <3>1 DEF InitUTC
      <4>3. err \in Errors
        BY <3>3 DEF GoodResult
      <4> HIDE DEF err
      <4>4. Called("initUTC", 0, "none", in.date, in.time, err) \in Calls
        BY <4>1, <4>3, <3>2, <2>4
      <4> QED BY <4>2, <4>4
    <3> QED BY <3>4, <3>5 DEF TypeOK
  <2>7. CASE \E in \in AddInputs : Add(in[1], in[2])
    <3>1. PICK in \in AddInputs : Add(in[1], in[2])
      BY <2>7
    <3>2. in[1] \in Int /\ in[2] \in TimeUnits
      BY InputAssumption
    <3>3. GoodResult(add(micros, in[1], in[2]))
      BY <3>2, <2>1, AddResult
    <3>4. micros' \in JulianPeriod
      BY <3>1, <3>3, <2>2 DEF Add
    <3>5. call' \in Calls
      BY <3>1, <3>2, <3>3, <2>3, <2>4 DEF Add, GoodResult, Operations
    <3> QED BY <3>4, <3>5 DEF TypeOK
  <2>8. CASE \E reading \in ClockReadings : Now(reading)
    <3>1. PICK reading \in ClockReadings : Now(reading)
      BY <2>8
    <3>2. reading \in JulianPeriod /\ reading \in Int
      BY InputAssumption DEF JulianPeriod
    <3>3. GoodResult(Ok(reading))
      BY <3>2 DEF GoodResult, Ok, Errors
    <3>4. micros' \in JulianPeriod
      BY <3>1, <3>3, <2>2 DEF Now
    <3>5. call' \in Calls
      <4>1. /\ "now" \in Operations /\ "none" \in Errors
            /\ "microseconds" \in TimeUnits \cup {"none"}
        BY DEF Operations, Errors, TimeUnits, Precisions
      <4>2. call' = Called("now", reading, "microseconds", NoDate, NoTime, "none")
        BY <3>1 DEF Now
      <4>3. Called("now", reading, "microseconds", NoDate, NoTime, "none") \in Calls
        BY <4>1, <3>2, <2>3, <2>4
      <4> QED BY <4>2, <4>3
    <3> QED BY <3>4, <3>5 DEF TypeOK
  <2>9. CASE UNCHANGED vars
    BY <2>9 DEF vars, TypeOK
  <2> QED BY <2>5, <2>6, <2>7, <2>8, <2>9 DEF Next
<1> QED BY <1>1, <1>2, PTL DEF Spec
-----------------------------------------------------------------------------
(* With the radices of the code the range of fromUnix is the one of its    *)
(* literals, in each of the three precisions.                              *)
THEOREM LimitsAreTheLiterals ==
    ASSUME HoursPerDay = 24, MinutesPerHour = 60, SecondsPerMinute = 60,
           MillisPerSecond = 1000, MicrosPerMilli = 1000
    PROVE  \A value \in Int :
        /\ InRange(value, "seconds") <=>
               -210863520000 <= value /\ value <= 253402300799
        /\ InRange(value, "milliseconds") <=>
               -210863520000000 <= value /\ value <= 253402300799999
        /\ InRange(value, "microseconds") <=>
               -210863520000000000 <= value /\ value <= 253402300799999999
<1>1. SecondsPerDay = 86400
  BY SMT DEF SecondsPerDay
<1>2. MicrosPerDay = 86400000000
  BY SMT DEF MicrosPerDay, MicrosPerHour, MicrosPerMinute, MicrosPerSecond
<1>3. /\ PerDay("seconds") = 86400
      /\ PerDay("milliseconds") = 86400000
      /\ PerDay("microseconds") = 86400000000
  BY <1>1, <1>2, SMTT(30) DEF PerDay
<1> QED BY <1>3, SMTT(30) DEF InRange, FirstDay, LastDay

-----------------------------------------------------------------------------

(* Every instant the program may hold has fields Date.valid and Time.valid *)
(* accept, in the years parseRFC3339 accepts.                              *)
THEOREM FieldsAreAlwaysValid == Spec => []FieldsAreValid
<1>1. TypeOK => FieldsAreValid
  <2> SUFFICES ASSUME TypeOK PROVE FieldsAreValid
    OBVIOUS
  <2>1. micros \in JulianPeriod /\ micros \in Int
    BY DEF TypeOK, JulianPeriod
  <2> QED BY <2>1, DateOfThePeriod, TimeIsTimeOfDay DEF FieldsAreValid
<1> QED BY <1>1, TypeCorrect, PTL

(* date() and time() identify every instant the program may hold, except   *)
(* within the last second of a day before 1970, where the date is one day  *)
(* late: initUTC gives exactly this instant back and never fails.          *)
THEOREM FieldsAlwaysIdentify == Spec => []FieldsIdentifyTheInstantOrTheNextDay
<1>1. TypeOK => FieldsIdentifyTheInstantOrTheNextDay
  <2> SUFFICES ASSUME TypeOK PROVE FieldsIdentifyTheInstantOrTheNextDay
    OBVIOUS
  <2>1. micros \in JulianPeriod /\ RuntimeSafety \in BOOLEAN
    BY InputAssumption DEF TypeOK
  <2>2. initUTC(date(micros), time(micros)) = Ok(InstantOf(date(micros), time(micros)))
    BY <2>1, FieldsIdentify DEF initUTC
  <2>3. InstantOf(date(micros), time(micros))
           = micros + (IF DateIsLate(micros) THEN MicrosPerDay ELSE 0)
    BY <2>1, FieldsIdentify
  <2> QED BY <2>2, <2>3 DEF FieldsIdentifyTheInstantOrTheNextDay
<1> QED BY <1>1, TypeCorrect, PTL
-----------------------------------------------------------------------------
(* In a program that checks overflow and in one that wraps, initUTC        *)
(* accepts the same fields.                                                *)
LEMMA CallsOfInitUTC ==
    ASSUME NEW d \in DateFields, NEW t \in TimeFields
    PROVE  /\ ~DateValid(d) \/ ~TimeValid(t) =>
                 initUTC(d, t).error \in {"InvalidDate", "InvalidTime"}
           /\ DateValid(d) /\ TimeValid(t) /\ YearAccepted(d) =>
                 initUTC(d, t) = Ok(DayNumber(d) * MicrosPerDay + MicrosOfDay(t))
           /\ DateValid(d) /\ TimeValid(t) /\ ~YearAccepted(d) =>
                 initUTC(d, t).error \in {"OutsideJulianPeriod", "panic"}
<1>1. RuntimeSafety \in BOOLEAN
  BY InputAssumption
<1> QED BY <1>1, InitUTCOutcome DEF initUTC, InstantOf

(* What a call of initUTC leaves, when it did not fail.                    *)
LEMMA AfterInitUTC ==
    ASSUME NEW in \in FieldInputs, InitUTC(in.date, in.time)
    PROVE  /\ in.date \in DateFields /\ in.time \in TimeFields
           /\ call'.op = "initUTC" /\ call'.date = in.date /\ call'.time = in.time
           /\ call'.error = initUTC(in.date, in.time).error
           /\ call'.error = "none" =>
                 /\ DateValid(in.date) /\ TimeValid(in.time) /\ YearAccepted(in.date)
                 /\ micros' = DayNumber(in.date) * MicrosPerDay + MicrosOfDay(in.time)
<1> DEFINE r == initUTC(in.date, in.time)
           m == DayNumber(in.date) * MicrosPerDay + MicrosOfDay(in.time)
<1>1. in.date \in DateFields /\ in.time \in TimeFields
  BY InputAssumption
<1>2. /\ call' = Called("initUTC", 0, "none", in.date, in.time, r.error)
      /\ Keep(r)
  BY DEF InitUTC
<1>3. r.error = "none" => /\ DateValid(in.date) /\ TimeValid(in.time)
                          /\ YearAccepted(in.date) /\ r = Ok(m)
  BY <1>1, CallsOfInitUTC
<1> HIDE DEF r, m
<1>4. r.error = "none" => micros' = m
  BY <1>2, <1>3 DEF Keep, Ok
<1> QED BY <1>1, <1>2, <1>3, <1>4 DEF Called, r, m

(* The other operations are not initUTC.                                   *)
LEMMA NotInitUTC ==
    /\ Init => call.op = "fromUnix"
    /\ \A in \in UnixInputs : FromUnix(in[1], in[2]) => call'.op = "fromUnix"
    /\ \A in \in AddInputs : Add(in[1], in[2]) => call'.op = "add"
    /\ \A reading \in ClockReadings : Now(reading) => call'.op = "now"
BY DEF Init, FromUnix, Add, Now, Called

(* initUTC accepts the valid fields of the years -4712 .. 9999 and no      *)
(* others, in every sequence of calls: no instant of the period is out of  *)
(* its reach, and neither the truncating divisions nor the i16 of the year *)
(* let another year in.                                                    *)
THEOREM InitUTCAlwaysAcceptsTheYears == Spec => []InitUTCAcceptsTheYears
<1>1. Init => InitUTCAcceptsTheYears
  BY NotInitUTC DEF InitUTCAcceptsTheYears
<1>2. InitUTCAcceptsTheYears /\ [Next]_vars => InitUTCAcceptsTheYears'
  <2> SUFFICES ASSUME InitUTCAcceptsTheYears, [Next]_vars
               PROVE  InitUTCAcceptsTheYears'
    OBVIOUS
  <2>1. ASSUME NEW in \in FieldInputs, InitUTC(in.date, in.time)
        PROVE  InitUTCAcceptsTheYears'
    <3>1. /\ in.date \in DateFields /\ in.time \in TimeFields
          /\ call'.date = in.date /\ call'.time = in.time
          /\ call'.error = initUTC(in.date, in.time).error
      BY <2>1, AfterInitUTC
    <3>2. CASE ~DateValid(in.date) \/ ~TimeValid(in.time)
      <4>1. call'.error \in {"InvalidDate", "InvalidTime"}
        BY <3>1, <3>2, CallsOfInitUTC
      <4> QED BY <3>1, <3>2, <4>1 DEF InitUTCAcceptsTheYears
    <3>3. CASE DateValid(in.date) /\ TimeValid(in.time) /\ YearAccepted(in.date)
      <4>1. call'.error = "none"
        BY <3>1, <3>3, CallsOfInitUTC DEF Ok
      <4> QED BY <3>1, <3>3, <4>1 DEF InitUTCAcceptsTheYears, YearAccepted
    <3>4. CASE DateValid(in.date) /\ TimeValid(in.time) /\ ~YearAccepted(in.date)
      <4>1. call'.error \in {"OutsideJulianPeriod", "panic"}
        BY <3>1, <3>4, CallsOfInitUTC
      <4> QED BY <3>1, <3>4, <4>1 DEF InitUTCAcceptsTheYears, YearAccepted
    <3> QED BY <3>2, <3>3, <3>4
  <2>2. CASE UNCHANGED vars
    BY <2>2 DEF vars, InitUTCAcceptsTheYears
  <2>3. ASSUME call'.op # "initUTC" PROVE InitUTCAcceptsTheYears'
    BY <2>3 DEF InitUTCAcceptsTheYears
  <2> QED BY <2>1, <2>2, <2>3, NotInitUTC DEF Next
<1> QED BY <1>1, <1>2, PTL DEF Spec

(* date() and time() give back the fields initUTC was given, whatever they *)
(* are, except the date within the last second of a day before 1970.       *)
THEOREM InitUTCAlwaysKeepsTheFields == Spec => []InitUTCKeepsTheFields
<1>1. Init => InitUTCKeepsTheFields
  BY NotInitUTC DEF InitUTCKeepsTheFields
<1>2. InitUTCKeepsTheFields /\ [Next]_vars => InitUTCKeepsTheFields'
  <2> SUFFICES ASSUME InitUTCKeepsTheFields, [Next]_vars
               PROVE  InitUTCKeepsTheFields'
    OBVIOUS
  <2>1. ASSUME NEW in \in FieldInputs, InitUTC(in.date, in.time),
               call'.error = "none"
        PROVE  InitUTCKeepsTheFields'
    <3> DEFINE d == in.date
               t == in.time
    <3>1. /\ d \in DateFields /\ t \in TimeFields
          /\ DateValid(d) /\ TimeValid(t) /\ YearAccepted(d)
          /\ call'.date = d /\ call'.time = t /\ micros' = InstantOf(d, t)
      BY <2>1, AfterInitUTC DEF InstantOf
    <3> HIDE DEF d, t
    <3>2. /\ time(InstantOf(d, t)) = t
          /\ ~DateIsLate(InstantOf(d, t)) => date(InstantOf(d, t)) = d
      BY <3>1, InstantShowsItsFields
    <3> QED BY <3>1, <3>2 DEF InitUTCKeepsTheFields
  <2>2. CASE UNCHANGED vars
    BY <2>2 DEF vars, InitUTCKeepsTheFields
  <2>3. ASSUME call'.op # "initUTC" \/ call'.error # "none"
        PROVE  InitUTCKeepsTheFields'
    BY <2>3 DEF InitUTCKeepsTheFields
  <2> QED BY <2>1, <2>2, <2>3, NotInitUTC DEF Next
<1> QED BY <1>1, <1>2, PTL DEF Spec
-----------------------------------------------------------------------------
(* Storing an instant at a coarser precision.                              *)

(* A multiple of a unit lies in the period when it lies between two        *)
(* multiples of the day that do.                                           *)
LEMMA StoredIsInRange ==
    ASSUME NEW m \in JulianPeriod, NEW precision \in Precisions
    PROVE  /\ unix(m, precision) \in Int
           /\ InRange(unix(m, precision), precision)
           /\ m >= 0 => /\ unix(m, precision) * MicrosPer(precision) <= m
                        /\ m < unix(m, precision) * MicrosPer(precision)
                                 + MicrosPer(precision)
           /\ m < 0 => /\ m <= unix(m, precision) * MicrosPer(precision)
                       /\ unix(m, precision) * MicrosPer(precision)
                                 - MicrosPer(precision) < m
<1> DEFINE P == PerDay(precision)
           M == MicrosPer(precision)
           v == unix(m, precision)
           z == -m
           L == LastDay + 1
<1>1. /\ P \in Nat \ {0} /\ M \in Nat \ {0} /\ P * M = MicrosPerDay
      /\ FirstDay \in Int /\ L \in Int
  BY PrecisionsDivideTheDay, DaysOfThePeriod
<1>2. /\ m \in Int /\ z \in Int
      /\ FirstDay * MicrosPerDay <= m /\ m < L * MicrosPerDay
  <2>1. PerDay("microseconds") = MicrosPerDay
    BY DEF PerDay
  <2>2. /\ m \in Int /\ FirstDay * MicrosPerDay <= m
        /\ m <= L * MicrosPerDay - 1
    BY <2>1 DEF JulianPeriod, InRange
  <2>3. L * MicrosPerDay \in Int
    BY <1>1, Units
  <2> QED BY <2>2, <2>3
<1>3. v = DivTrunc(m, M)
  BY DEF unix
<1>4. FirstDay < 0 /\ L > 0
  BY DEF FirstDay, LastDay
<1> HIDE DEF P, M, v, L
<1>5. /\ (FirstDay * P) * M = FirstDay * MicrosPerDay
      /\ (L * P) * M = L * MicrosPerDay
      /\ FirstDay * P \in Int /\ L * P \in Int
  BY <1>1, MulAssociative
<1>6. FirstDay * P <= 0 /\ 0 < L * P
  BY <1>1, <1>4
<1>7. CASE m >= 0
  <2> DEFINE q == m \div M
  <2>1. q \in Int /\ m % M \in 0 .. M - 1 /\ m = M * q + (m % M)
    BY <1>1, <1>2, DivMod
  <2>2. v = q
    BY <1>3, <1>7 DEF DivTrunc
  <2> HIDE DEF q
  <2>3. q * M = M * q /\ q * M \in Int
    BY <1>1, <2>1
  <2>4. q * M <= m /\ m < q * M + M
    BY <1>1, <1>2, <2>1, <2>3
  <2>5. q * M < (L * P) * M
    <3> DEFINE a == q * M
               b == L * MicrosPerDay
    <3>1. a \in Int /\ b \in Int /\ a <= m /\ m < b
      BY <1>1, <1>2, <2>3, <2>4, Units
    <3> HIDE DEF a, b
    <3>2. a < b
      BY <1>2, <3>1
    <3> QED BY <1>5, <3>2 DEF a, b
  <2>6. q < L * P
    BY <1>1, <1>5, <2>1, <2>5, LessByMultiples
  <2>7. q >= 0
    <3>1. SUFFICES ASSUME q + 1 <= 0 PROVE FALSE
      BY <2>1
    <3>2. (q + 1) * M <= 0 * M /\ (q + 1) * M = q * M + M
      BY <1>1, <2>1, <3>1, MulMonotone
    <3> QED BY <1>1, <1>2, <1>7, <2>3, <2>4, <3>2
  <2>8. FirstDay * P <= v /\ v <= L * P - 1 /\ v \in Int
    BY <1>5, <1>6, <2>1, <2>2, <2>6, <2>7
  <2>9. InRange(v, precision)
    BY <2>8 DEF InRange, P, L
  <2>10. v * M <= m /\ m < v * M + M /\ ~(m < 0)
    BY <1>2, <1>7, <2>2, <2>4
  <2> QED BY <2>8, <2>9, <2>10, Zenon DEF M, v
<1>8. CASE m < 0
  <2> DEFINE q == z \div M
  <2>1. q \in Int /\ z % M \in 0 .. M - 1 /\ z = M * q + (z % M)
    BY <1>1, <1>2, DivMod
  <2>2. v = -q
    BY <1>2, <1>3, <1>8 DEF DivTrunc
  <2> HIDE DEF q
  <2>3. (-q) * M = -(M * q) /\ M * q \in Int
    BY <1>1, <2>1
  <2>4. m <= (-q) * M /\ (-q) * M - M < m
    BY <1>1, <1>2, <2>1, <2>3
  <2>5. (FirstDay * P - 1) * M < (-q) * M
    <3>1. (FirstDay * P - 1) * M = (FirstDay * P) * M - M
      BY <1>1, <1>5
    <3>2. FirstDay * MicrosPerDay \in Int
      BY <1>1, Units
    <3> QED BY <1>1, <1>2, <1>5, <2>3, <2>4, <3>1, <3>2
  <2>6. FirstDay * P - 1 < -q
    BY <1>1, <1>5, <2>1, <2>5, LessByMultiples
  <2>7. -q <= 0
    <3>1. SUFFICES ASSUME q + 1 <= 0 PROVE FALSE
      BY <2>1
    <3>2. (q + 1) * M <= 0 * M /\ (q + 1) * M = M * q + M
      BY <1>1, <2>1, <3>1, MulMonotone
    <3> QED BY <1>1, <1>2, <1>8, <2>1, <2>3, <3>2
  <2>8. FirstDay * P <= v /\ v <= L * P - 1 /\ v \in Int
    BY <1>5, <1>6, <2>1, <2>2, <2>6, <2>7
  <2>9. InRange(v, precision)
    BY <2>8 DEF InRange, P, L
  <2>10. m <= v * M /\ v * M - M < m /\ ~(m >= 0)
    BY <1>2, <1>8, <2>2, <2>4
  <2> QED BY <2>8, <2>9, <2>10, Zenon DEF M, v
<1> QED BY <1>2, <1>7, <1>8

(* An instant stored in a coarser precision and loaded again is never      *)
(* refused and loses less than a unit, toward 1970, in every precision and *)
(* for every instant the program may hold.                                 *)
THEOREM StoringAlwaysLosesLessThanAUnit == Spec => []StoringLosesLessThanAUnit
<1>1. TypeOK => StoringLosesLessThanAUnit
  <2> SUFFICES ASSUME TypeOK, NEW precision \in Precisions
               PROVE  LET loaded == Stored(micros, precision)
                          lost   == IF micros < 0 THEN loaded.micros - micros
                                                  ELSE micros - loaded.micros
                      IN  /\ loaded.error = "none" /\ 0 <= lost
                          /\ lost < MicrosPer(precision)
    BY DEF StoringLosesLessThanAUnit
  <2> DEFINE M == MicrosPer(precision)
             v == unix(micros, precision)
  <2>1. micros \in JulianPeriod /\ micros \in Int
    BY DEF TypeOK, JulianPeriod
  <2>2. M \in Nat \ {0}
    BY PrecisionsDivideTheDay
  <2>3. /\ v \in Int /\ InRange(v, precision)
        /\ micros >= 0 => v * M <= micros /\ micros < v * M + M
        /\ micros < 0 => micros <= v * M /\ v * M - M < micros
    BY <2>1, StoredIsInRange
  <2>4. Stored(micros, precision) = [error |-> "none", micros |-> v * M]
    BY <2>3 DEF Stored, fromUnix, Ok
  <2> HIDE DEF v, M
  <2>5. v * M \in Int
    BY <2>2, <2>3
  <2> QED BY <2>1, <2>2, <2>3, <2>4, <2>5 DEF M
<1> QED BY <1>1, TypeCorrect, PTL
-----------------------------------------------------------------------------
(* When the i64 is wide enough for the Julian period, as it is in the code *)
(* (2^63 microseconds are 53 times as many as the period has), a panic of  *)
(* add means that no instant of the period was asked for.                  *)
LEMMA PanicOnlyOutside ==
    ASSUME (LastDay + 1 - FirstDay) * MicrosPerDay <= Int64Max,
           NEW m \in JulianPeriod, NEW value \in Int, NEW unit \in TimeUnits,
           m + value * MicrosPer(unit) \in JulianPeriod
    PROVE  add(m, value, unit).error # "panic"
<1> DEFINE product == value * MicrosPer(unit)
           sum     == m + product
           D       == MicrosPerDay
           f       == FirstDay * D
           l       == (LastDay + 1) * D
<1>1. D \in Nat \ {0} /\ FirstDay \in Int /\ LastDay \in Int /\ Int64Max \in Nat
  BY Units, DaysOfThePeriod, InputAssumption
<1>2. FirstDay < 0 /\ LastDay + 1 > 0
  BY DEF FirstDay, LastDay
<1>3. product \in Int /\ m \in Int
  BY UnitsArePositive DEF JulianPeriod
<1>4. /\ f \in Int /\ l \in Int /\ f <= 0 /\ 0 <= l
      /\ (LastDay + 1 - FirstDay) * D = l - f
  BY <1>1, <1>2
<1>5. f <= m /\ m <= l - 1 /\ f <= sum /\ sum <= l - 1
  BY DEF JulianPeriod, InRange, PerDay
<1> HIDE DEF product, f, l, D
<1>6. sum \in Int /\ l - f <= Int64Max
  BY <1>3, <1>4 DEF D
<1>7. FitsInt64(product) /\ FitsInt64(sum)
  BY <1>1, <1>3, <1>4, <1>5, <1>6 DEF FitsInt64
<1>8. add(m, value, unit) = fromUnix(sum, "microseconds")
  BY <1>7 DEF add, product
<1> QED BY <1>8 DEF fromUnix, Ok, Failed

(* Under this assumption no sequence of calls makes add panic where it     *)
(* could have returned an instant.                                         *)
THEOREM OverflowAlwaysOutside ==
    ASSUME (LastDay + 1 - FirstDay) * MicrosPerDay <= Int64Max
    PROVE  Spec => []OverflowOnlyOutside
<1>1. Init => OverflowOnlyOutside
  BY NotInitUTC DEF OverflowOnlyOutside
<1>2. TypeOK /\ OverflowOnlyOutside /\ [Next]_vars => OverflowOnlyOutside'
  <2> SUFFICES ASSUME TypeOK, OverflowOnlyOutside, [Next]_vars
               PROVE  OverflowOnlyOutside'
    OBVIOUS
  <2>1. ASSUME NEW in \in AddInputs, Add(in[1], in[2]) PROVE OverflowOnlyOutside'
    <3> DEFINE r == add(micros, in[1], in[2])
    <3>1. in[1] \in Int /\ in[2] \in TimeUnits /\ micros \in JulianPeriod
      BY InputAssumption DEF TypeOK
    <3>2. /\ call' = Called("add", in[1], in[2], NoDate, NoTime, r.error)
          /\ Keep(r)
      BY <2>1 DEF Add
    <3>3. r.error = "panic" =>
             micros + in[1] * MicrosPer(in[2]) \notin JulianPeriod
      BY <3>1, PanicOnlyOutside
    <3> HIDE DEF r
    <3>4. r.error = "panic" => micros' = micros
      BY <3>2 DEF Keep
    <3> QED BY <3>2, <3>3, <3>4 DEF OverflowOnlyOutside, Called
  <2>2. ASSUME NEW in \in FieldInputs, InitUTC(in.date, in.time)
        PROVE  OverflowOnlyOutside'
    BY <2>2, AfterInitUTC DEF OverflowOnlyOutside
  <2>3. ASSUME call'.op \in {"fromUnix", "now"} PROVE OverflowOnlyOutside'
    BY <2>3 DEF OverflowOnlyOutside
  <2>4. CASE UNCHANGED vars
    BY <2>4 DEF vars, OverflowOnlyOutside
  <2> QED BY <2>1, <2>2, <2>3, <2>4, NotInitUTC DEF Next
<1> QED BY <1>1, <1>2, TypeCorrect, PTL DEF Spec
-----------------------------------------------------------------------------
(* From 1970 on: the fields identify an instant, and order it.             *)

(* An instant the program holds lies in one of its windows.                *)
LEMMA AlwaysInAWindow == Spec => []InWindows(micros)
<1>1. Init => InWindows(micros)
  <2> SUFFICES ASSUME Init PROVE InWindows(micros)
    OBVIOUS
  <2>1. PICK in \in UnixInputs :
           /\ InWindows(fromUnix(in[1], in[2]).micros)
           /\ micros = fromUnix(in[1], in[2]).micros
    BY DEF Init
  <2> QED BY <2>1
<1>2. InWindows(micros) /\ [Next]_vars => InWindows(micros)'
  <2> SUFFICES ASSUME InWindows(micros), [Next]_vars PROVE InWindows(micros)'
    OBVIOUS
  <2>1. ASSUME NEW r, Keep(r) PROVE InWindows(micros)'
    BY <2>1 DEF Keep, InWindows
  <2>2. CASE UNCHANGED vars
    BY <2>2 DEF vars, InWindows
  <2> QED BY <2>1, <2>2 DEF Next, FromUnix, InitUTC, Add, Now
<1> QED BY <1>1, <1>2, PTL DEF Spec

LEMMA Since1970 ==
    ASSUME \A w \in Windows : w[1] >= 0, InWindows(micros), TypeOK
    PROVE  micros \in JulianPeriod /\ micros \in Int /\ micros >= 0
BY InputAssumption DEF InWindows, TypeOK, JulianPeriod

(* A program that keeps to instants from 1970 on never sees the late date: *)
(* initUTC gives back every instant it takes apart.                        *)
THEOREM FieldsAlwaysIdentifySince1970 ==
    ASSUME \A w \in Windows : w[1] >= 0
    PROVE  Spec => []FieldsIdentifyTheInstant
<1>1. TypeOK /\ InWindows(micros) /\ FieldsIdentifyTheInstantOrTheNextDay
         => FieldsIdentifyTheInstant
  <2> SUFFICES ASSUME TypeOK, InWindows(micros), FieldsIdentifyTheInstantOrTheNextDay
               PROVE  FieldsIdentifyTheInstant
    OBVIOUS
  <2>1. micros \in Int /\ ~DateIsLate(micros)
    BY Since1970 DEF DateIsLate
  <2>2. initUTC(date(micros), time(micros)) = Ok(micros + 0)
    BY <2>1 DEF FieldsIdentifyTheInstantOrTheNextDay
  <2>3. micros + 0 = micros
    BY <2>1
  <2> QED BY <2>2, <2>3 DEF FieldsIdentifyTheInstant
<1> QED BY <1>1, TypeCorrect, AlwaysInAWindow, FieldsAlwaysIdentify, PTL

(* Numbers written with two digits are ordered by the first, then by the   *)
(* second.                                                                 *)
LEMMA DigitsAreOrdered ==
    ASSUME NEW a \in Int, NEW c \in Int, NEW b \in Nat \ {0},
           NEW r \in 0 .. b - 1, NEW s \in 0 .. b - 1, a * b + r < c * b + s
    PROVE  a < c \/ (a = c /\ r < s)
<1>1. CASE c + 1 <= a
  <2>1. (c + 1) * b <= a * b /\ (c + 1) * b = c * b + b
    BY <1>1, MulMonotone
  <2> DEFINE x == a * b
             y == c * b
             z == (c + 1) * b
  <2>2. x \in Int /\ y \in Int /\ z \in Int /\ z <= x /\ z = y + b /\ x + r < y + s
    BY <2>1
  <2> HIDE DEF x, y, z
  <2>3. FALSE
    BY <2>2
  <2> QED BY <2>3
<1>2. CASE a = c
  <2>1. a * b \in Int
    OBVIOUS
  <2> QED BY <1>2, <2>1
<1> QED BY <1>1, <1>2

(* The order of two times of day is the order of their counts.             *)
LEMMA TimesAreOrdered ==
    ASSUME NEW t \in TimeFields, TimeValid(t), NEW v \in TimeFields, TimeValid(v),
           MicrosOfDay(t) < MicrosOfDay(v)
    PROVE  TimeOrder(t, v) = "lt" /\ TimeOrder(v, t) = "gt"
<1> DEFINE r1(x) == x.sec * MicrosPerSecond + x.micros
           r2(x) == x.min * MicrosPerMinute + r1(x)
           u(x)  == x.hour * MicrosPerHour + r2(x)
<1>1. ASSUME NEW x \in TimeFields, TimeValid(x)
      PROVE  /\ x.hour \in Int /\ x.min \in Int /\ x.sec \in Int
             /\ x.micros \in 0 .. MicrosPerSecond - 1
             /\ r1(x) \in 0 .. MicrosPerMinute - 1
             /\ r2(x) \in 0 .. MicrosPerHour - 1
             /\ MicrosOfDay(x) = u(x)
  <2>1. /\ x.hour \in 0 .. HoursPerDay - 1 /\ x.min \in 0 .. MinutesPerHour - 1
        /\ x.sec \in 0 .. SecondsPerMinute - 1 /\ x.micros \in 0 .. MicrosPerSecond - 1
    BY <1>1, RadixAssumption, Units DEF TimeFields, TimeValid
  <2> HIDE DEF r1
  <2>2. r1(x) \in 0 .. MicrosPerMinute - 1
    BY <2>1, RadixAssumption, Units, DigitAndRest DEF MicrosPerMinute, r1
  <2> HIDE DEF r2
  <2>3. r2(x) \in 0 .. MicrosPerHour - 1
    BY <2>1, <2>2, RadixAssumption, Units, DigitAndRest DEF MicrosPerHour, r2
  <2>4. /\ x.hour * MicrosPerHour \in Int /\ x.min * MicrosPerMinute \in Int
        /\ x.sec * MicrosPerSecond \in Int /\ x.micros \in Int
    BY <2>1, Units
  <2>5. MicrosOfDay(x) = u(x)
    BY <2>4 DEF MicrosOfDay, u, r2, r1
  <2> QED BY <2>1, <2>2, <2>3, <2>5
<1>2. u(t) < u(v)
  BY <1>1
<1> HIDE DEF r2
<1>3. t.hour < v.hour \/ (t.hour = v.hour /\ r2(t) < r2(v))
  BY <1>1, <1>2, Units, DigitsAreOrdered
<1> USE DEF r2
<1> HIDE DEF r1
<1>4. r2(t) < r2(v) => t.min < v.min \/ (t.min = v.min /\ r1(t) < r1(v))
  BY <1>1, Units, DigitsAreOrdered
<1> USE DEF r1
<1>5. r1(t) < r1(v) => t.sec < v.sec \/ (t.sec = v.sec /\ t.micros < v.micros)
  BY <1>1, Units, DigitsAreOrdered
<1>6. /\ t.hour \in Int /\ t.min \in Int /\ t.sec \in Int /\ t.micros \in Int
      /\ v.hour \in Int /\ v.min \in Int /\ v.sec \in Int /\ v.micros \in Int
  BY <1>1
<1> HIDE DEF r1, r2
<1> QED BY <1>3, <1>4, <1>5, <1>6 DEF TimeOrder, Order

(* Years that start in March and the days in them are ordered as the days. *)
LEMMA MarchDatesAreOrdered ==
    ASSUME NEW y \in Int, NEW z \in Int, NEW e \in 0 .. 365, NEW f \in 0 .. 365,
           f = 365 => LeapYear(z + 1), MarchStart(y) + e < MarchStart(z) + f
    PROVE  y < z \/ (y = z /\ e < f)
<1>1. MarchStart(y) \in Int /\ MarchStart(z) \in Int
  BY SMT DEF MarchStart, Leaps
<1>2. ~(z < y)
  <2> SUFFICES ASSUME z < y PROVE FALSE
    OBVIOUS
  <2>1. MarchStart(z) + f < MarchStart(y) + e
    BY MarchYearsAreOrdered, ZenonT(60)
  <2> DEFINE a == MarchStart(y) + e
             b == MarchStart(z) + f
  <2>2. a \in Int /\ b \in Int /\ a < b /\ b < a
    BY <1>1, <2>1, SMTT(30)
  <2> HIDE DEF a, b
  <2> QED BY <2>2, SMTT(30)
<1>3. CASE y = z
  BY <1>1, <1>3, SMTT(30)
<1>4. CASE y < z
  BY <1>4
<1> QED BY <1>2, <1>3, <1>4, SMTT(30)

(* The order of the civil dates of two days.                               *)
LEMMA DatesAreOrdered ==
    ASSUME NEW a \in DateFields, DateValid(a), Counted(a),
           NEW b \in DateFields, DateValid(b), Counted(b),
           DayNumber(a) < DayNumber(b)
    PROVE  DateOrder(a, b) = "lt" /\ DateOrder(b, a) = "gt" /\ a # b
<1> DEFINE y(d) == d.year - Carry(d)
<1>1. ASSUME NEW d \in DateFields, DateValid(d), Counted(d)
      PROVE  /\ y(d) \in Int /\ DayIn(d) \in 0 .. 365 /\ MarchStart(y(d)) \in Int
             /\ DayNumber(d) = MarchStart(y(d)) + DayIn(d) + 11017
             /\ DayIn(d) = 365 => LeapYear(y(d) + 1)
  BY <1>1, DayNumberIsTheDay, DateInMarchYear, SMTT(30)
<1>2. ASSUME NEW d \in DateFields, DateValid(d)
      PROVE  /\ d.year \in Int /\ d.month \in 1 .. 12 /\ d.day \in Int
             /\ Carry(d) = (IF d.month < 3 THEN 1 ELSE 0)
             /\ MonthIn(d) = d.month - 2 + 12 * Carry(d)
             /\ MonthIn(d) \in 1 .. 12
             /\ DayIn(d) = MonthStart[MonthIn(d)] + d.day - 1
             /\ MonthStart[MonthIn(d)] <= DayIn(d)
             /\ DayIn(d) < MonthStart[MonthIn(d)] + MonthLength[MonthIn(d)]
  <2>1. d.year \in Int
    BY DEF DateFields, I16
  <2>2. d.month \in 1 .. 12 /\ d.day \in Int
    BY <1>2 DEF DateFields, DateValid
  <2>3. /\ MonthIn(d) \in 1 .. 12
        /\ MonthStart[MonthIn(d)] <= DayIn(d)
        /\ DayIn(d) < MonthStart[MonthIn(d)] + MonthLength[MonthIn(d)]
    BY <1>2, DateInMarchYear, SMTT(30)
  <2> QED BY <2>1, <2>2, <2>3, SMTT(30) DEF Carry, MonthIn, DayIn
<1> HIDE DEF y
<1>3. /\ y(a) \in Int /\ DayIn(a) \in 0 .. 365 /\ MarchStart(y(a)) \in Int
      /\ DayNumber(a) = MarchStart(y(a)) + DayIn(a) + 11017
      /\ y(b) \in Int /\ DayIn(b) \in 0 .. 365 /\ MarchStart(y(b)) \in Int
      /\ DayNumber(b) = MarchStart(y(b)) + DayIn(b) + 11017
      /\ DayIn(b) = 365 => LeapYear(y(b) + 1)
  BY <1>1, SMTT(30)
<1>4. y(a) < y(b) \/ (y(a) = y(b) /\ DayIn(a) < DayIn(b))
  <2>1. MarchStart(y(a)) + DayIn(a) < MarchStart(y(b)) + DayIn(b)
    <3> DEFINE x == MarchStart(y(a))
               z == MarchStart(y(b))
               e == DayIn(a)
               f == DayIn(b)
               i == DayNumber(a)
               j == DayNumber(b)
    <3>1. /\ x \in Int /\ z \in Int /\ e \in Int /\ f \in Int /\ i < j
          /\ i = x + e + 11017 /\ j = z + f + 11017
      BY <1>3, SMTT(30)
    <3> HIDE DEF x, z, e, f, i, j
    <3>2. x + e < z + f
      BY <3>1, SMTT(30)
    <3> QED BY <3>2, SMTT(30) DEF x, z, e, f
  <2>2. y(a) \in Int /\ y(b) \in Int
    BY <1>3, SMTT(30)
  <2>3. DayIn(a) \in 0 .. 365 /\ DayIn(b) \in 0 .. 365
    BY <1>3, SMTT(30)
  <2>4. DayIn(b) = 365 => LeapYear(y(b) + 1)
    BY <1>3, SMTT(30)
  <2> QED BY <2>1, <2>2, <2>3, <2>4, MarchDatesAreOrdered, ZenonT(60)
<1> USE DEF y
<1>5. DayIn(a) < DayIn(b) =>
         \/ MonthIn(a) < MonthIn(b)
         \/ MonthIn(a) = MonthIn(b) /\ a.day < b.day
  <2> DEFINE j == MonthIn(a)
             k == MonthIn(b)
             e == DayIn(a)
             f == DayIn(b)
  <2>1. /\ j \in 1 .. 12 /\ k \in 1 .. 12 /\ e \in Int /\ f \in Int
        /\ MonthStart[j] <= e /\ e < MonthStart[j] + MonthLength[j]
        /\ MonthStart[k] <= f /\ f < MonthStart[k] + MonthLength[k]
        /\ e = MonthStart[j] + a.day - 1 /\ f = MonthStart[k] + b.day - 1
        /\ a.day \in Int /\ b.day \in Int
    BY <1>1, <1>2, SMTT(30)
  <2> HIDE DEF j, k, e, f
  <2>2. e < f => j <= k
    BY <2>1, SMTT(30) DEF MonthStart, MonthLength
  <2>3. MonthStart[j] \in Int
    BY <2>1, SMTT(30) DEF MonthStart
  <2>4. e < f /\ j = k => a.day < b.day
    BY <2>1, <2>3, SMTT(30)
  <2>5. e < f => j < k \/ (j = k /\ a.day < b.day)
    BY <2>1, <2>2, <2>4, SMTT(30)
  <2> QED BY <2>5, SMTT(30) DEF j, k, e, f
<1>6. \/ a.year < b.year
      \/ a.year = b.year /\ a.month < b.month
      \/ a.year = b.year /\ a.month = b.month /\ a.day < b.day
  BY <1>2, <1>4, <1>5, SMTT(30)
<1> QED BY <1>2, <1>6, SMTT(30) DEF DateOrder, Order

(* The date that is shown of an instant, unless it is late.                *)
LEMMA ShownDate ==
    ASSUME NEW x \in JulianPeriod, ~DateIsLate(x)
    PROVE  /\ date(x) \in DateFields /\ DateValid(date(x)) /\ Counted(date(x))
           /\ DayNumber(date(x)) = x \div MicrosPerDay
           /\ date(x) = CivilDate((x \div MicrosPerDay) - 11017)
<1> DEFINE D == MicrosPerDay
<1>1. x \in Int /\ x \div D \in Int
  BY Units, DivMod DEF JulianPeriod
<1>2. LeapEpochDays(x) = (x \div D) - 11017
  BY <1>1, LeapEpochDaysIsTheDay, SMTT(30)
<1>3. DayNumber(date(x)) = x \div D
  BY <1>1, DateOfThePeriod, SMTT(30)
<1>4. DateValid(date(x)) /\ date(x).year \in FirstYear .. LastYear
  BY DateOfThePeriod, Zenon
<1>5. date(x) = CivilDate((x \div D) - 11017)
  BY <1>2, SMTT(30) DEF date
<1>6. date(x) \in DateFields
  BY ShownFields
<1>7. Counted(date(x))
  <2>1. Carry(date(x)) \in {0, 1}
    BY <1>4, <1>6, DateInMarchYear
  <2> DEFINE z == date(x).year
             c == Carry(date(x))
  <2>2. z \in FirstYear .. LastYear /\ c \in {0, 1}
    BY <1>4, <2>1
  <2> HIDE DEF z, c
  <2>3. z - c >= -4800
    BY <2>2, SMTT(30) DEF FirstYear, LastYear
  <2> QED BY <2>3, SMTT(30) DEF z, c, Counted
<1> QED BY <1>3, <1>4, <1>5, <1>6, <1>7

(* The order of two instants of the period since 1970 is the one of their  *)
(* fields.                                                                 *)
LEMMA FieldsAreOrdered ==
    ASSUME NEW m \in JulianPeriod, NEW n \in JulianPeriod, m >= 0, m < n
    PROVE  FieldOrder(m, n) = "lt" /\ FieldOrder(n, m) = "gt"
<1> DEFINE D == MicrosPerDay
           p == m \div D
           q == n \div D
<1>1. /\ D \in Nat \ {0} /\ m \in Int /\ n \in Int /\ p \in Int /\ q \in Int
      /\ m % D \in 0 .. D - 1 /\ n % D \in 0 .. D - 1
      /\ m = p * D + (m % D) /\ n = q * D + (n % D)
  <2>1. D \in Nat \ {0} /\ m \in Int /\ n \in Int
    BY Units DEF JulianPeriod
  <2> HIDE DEF D
  <2>2. /\ p \in Int /\ q \in Int /\ m % D \in 0 .. D - 1 /\ n % D \in 0 .. D - 1
        /\ m = D * p + (m % D) /\ n = D * q + (n % D)
    BY <2>1, DivMod
  <2>3. D * p = p * D /\ D * q = q * D
    BY <2>1, <2>2
  <2> QED BY <2>1, <2>2, <2>3
<1>2. ~DateIsLate(m) /\ ~DateIsLate(n)
  BY <1>1 DEF DateIsLate
<1>3. ASSUME NEW x \in JulianPeriod, ~DateIsLate(x)
      PROVE  /\ date(x) \in DateFields /\ DateValid(date(x)) /\ Counted(date(x))
             /\ DayNumber(date(x)) = x \div D
             /\ date(x) = CivilDate((x \div D) - 11017)
  BY <1>3, ShownDate
<1>4. ASSUME NEW x \in Int
      PROVE  /\ time(x) \in TimeFields /\ TimeValid(time(x))
             /\ MicrosOfDay(time(x)) = x % D
  BY TimeIsTimeOfDay
<1>5. p < q \/ (p = q /\ m % D < n % D)
  BY <1>1, DigitsAreOrdered
<1>6. CASE p < q
  <2>1. /\ DateOrder(date(m), date(n)) = "lt" /\ DateOrder(date(n), date(m)) = "gt"
        /\ date(m) # date(n)
    BY <1>2, <1>3, <1>6, DatesAreOrdered
  <2> QED BY <2>1 DEF FieldOrder
<1>7. CASE p = q /\ m % D < n % D
  <2>1. date(m) = date(n)
    BY <1>2, <1>3, <1>7, SMTT(30)
  <2>2. TimeOrder(time(m), time(n)) = "lt" /\ TimeOrder(time(n), time(m)) = "gt"
    <3>1. /\ time(m) \in TimeFields /\ TimeValid(time(m))
          /\ time(n) \in TimeFields /\ TimeValid(time(n))
      BY <1>1, <1>4
    <3>2. MicrosOfDay(time(m)) < MicrosOfDay(time(n))
      BY <1>1, <1>4, <1>7
    <3> QED BY <3>1, <3>2, TimesAreOrdered, Zenon
  <2> QED BY <2>1, <2>2 DEF FieldOrder
<1> QED BY <1>5, <1>6, <1>7

(* Since 1970 the order of two instants the program holds one after the    *)
(* other is the order of their fields.                                     *)
THEOREM FieldsAreAlwaysChronological ==
    ASSUME \A w \in Windows : w[1] >= 0
    PROVE  Spec => FieldsAreChronological
<1>1. /\ TypeOK /\ InWindows(micros) /\ TypeOK' /\ InWindows(micros)'
         => Order(micros, micros') = FieldOrder(micros, micros')
  <2> SUFFICES ASSUME TypeOK, InWindows(micros), TypeOK', InWindows(micros)'
               PROVE  Order(micros, micros') = FieldOrder(micros, micros')
    OBVIOUS
  <2>1. /\ micros \in JulianPeriod /\ micros \in Int /\ micros >= 0
        /\ micros' \in JulianPeriod /\ micros' \in Int /\ micros' >= 0
    BY InputAssumption DEF InWindows, TypeOK, JulianPeriod
  <2>2. CASE micros < micros'
    BY <2>1, <2>2, FieldsAreOrdered DEF Order
  <2>3. CASE micros' < micros
    BY <2>1, <2>3, FieldsAreOrdered DEF Order
  <2>4. CASE micros = micros'
    <3>1. FieldOrder(micros, micros) = "eq"
      <4>1. /\ time(micros).hour \in Int /\ time(micros).min \in Int
            /\ time(micros).sec \in Int /\ time(micros).micros \in Int
        <5> DEFINE t == time(micros)
        <5>1. t \in TimeFields
          BY <2>1, TimeIsTimeOfDay
        <5> HIDE DEF t
        <5>2. t.hour \in Int /\ t.min \in Int /\ t.sec \in Int /\ t.micros \in Int
          BY <5>1 DEF TimeFields
        <5> QED BY <5>2 DEF t
      <4> QED BY <4>1 DEF FieldOrder, TimeOrder, Order
    <3> QED BY <2>1, <2>4, <3>1 DEF Order
  <2> QED BY <2>1, <2>2, <2>3, <2>4
<1> QED BY <1>1, TypeCorrect, AlwaysInAWindow, PTL DEF FieldsAreChronological
-----------------------------------------------------------------------------
(* The refinement of CivilClock.                                           *)

(* A year that starts in March is a day longer when it ends in a leap year. *)
LEMMA NextMarchStart ==
    ASSUME NEW y \in Int
    PROVE  /\ MarchStart(y) \in Int
           /\ MarchStart(y + 1) = MarchStart(y) + 365
                                    + (IF LeapYear(y + 1) THEN 1 ELSE 0)
<1>1. /\ (y + 1) \div 4 = (y \div 4) + (IF (y + 1) % 4 = 0 THEN 1 ELSE 0)
      /\ (y + 1) \div 100 = (y \div 100) + (IF (y + 1) % 100 = 0 THEN 1 ELSE 0)
      /\ (y + 1) \div 400 = (y \div 400) + (IF (y + 1) % 400 = 0 THEN 1 ELSE 0)
  BY SMT
<1>2. /\ (y + 1) % 400 = 0 => (y + 1) % 100 = 0
      /\ (y + 1) % 100 = 0 => (y + 1) % 4 = 0
  BY SMT
<1>3. Leaps(y + 1) - Leaps(y) = IF LeapYear(y + 1) THEN 1 ELSE 0
  BY <1>1, <1>2, SMTT(30) DEF Leaps, LeapYear
<1>4. Leaps(y) \in Int /\ Leaps(y + 1) \in Int
  BY SMT DEF Leaps
<1> QED BY <1>3, <1>4, SMTT(30) DEF MarchStart

(* The lengths of the months, in the order of the year that starts in      *)
(* March.                                                                  *)
LEMMA MonthsFollow ==
    ASSUME NEW y \in Int, NEW month \in 1 .. 12
    PROVE  LET k == month - 2 + 12 * (IF month < 3 THEN 1 ELSE 0)
           IN  /\ k \in 1 .. 12 /\ MonthStart[k] \in Nat
               /\ MonthDays(y, month) \in 28 .. 31
               /\ k < 12 => /\ MonthStart[k + 1] \in Nat
                            /\ MonthStart[k + 1] = MonthStart[k] + MonthDays(y, month)
               /\ k = 12 => MonthStart[k] + MonthDays(y, month)
                              = 365 + (IF LeapYear(y) THEN 1 ELSE 0)
BY SMT DEF MonthStart, MonthDays, CommonMonthDays

(* The clock and DateTime have the calendar in common.                     *)
LEMMA ClockHasTheCalendar ==
    /\ \A y, month : Clock!MonthDays(y, month) = MonthDays(y, month)
    /\ \A d : Clock!DateValid(d) <=> DateValid(d)
    /\ \A t : Clock!TimeValid(t) <=> TimeValid(t)
    /\ Clock!FirstYear = FirstYear /\ Clock!LastYear = LastYear
    /\ Clock!MicrosPerSecond = MicrosPerSecond
<1>1. \A y : Clock!LeapYear(y) <=> LeapYear(y)
  BY DEF Clock!LeapYear, LeapYear
<1>2. Clock!CommonMonthDays = CommonMonthDays
  BY DEF Clock!CommonMonthDays, CommonMonthDays
<1>3. \A y, month : Clock!MonthDays(y, month) = MonthDays(y, month)
  BY <1>1, <1>2 DEF Clock!MonthDays, MonthDays
<1>4. \A d : Clock!DateValid(d) <=> DateValid(d)
  BY <1>3 DEF Clock!DateValid, DateValid
<1>5. Clock!MicrosPerSecond = MicrosPerSecond
  BY DEF Clock!MicrosPerSecond, MicrosPerSecond
<1>6. \A t : Clock!TimeValid(t) <=> TimeValid(t)
  BY <1>5 DEF Clock!TimeValid, TimeValid
<1>7. Clock!FirstYear = FirstYear /\ Clock!LastYear = LastYear
  BY SMT DEF Clock!FirstYear, FirstYear, Clock!LastYear, LastYear
<1> QED BY <1>3, <1>4, <1>5, <1>6, <1>7

(* The ways NextDate and PreviousDate take.                                *)
LEMMA TurnedDates ==
    ASSUME NEW d \in DateFields
    PROVE  /\ d.day < MonthDays(d.year, d.month) =>
                 Clock!NextDate(d)
                   = [year |-> d.year, month |-> d.month, day |-> d.day + 1]
           /\ ~(d.day < MonthDays(d.year, d.month)) /\ d.month < 12 =>
                 Clock!NextDate(d)
                   = [year |-> d.year, month |-> d.month + 1, day |-> 1]
           /\ ~(d.day < MonthDays(d.year, d.month)) /\ ~(d.month < 12) =>
                 Clock!NextDate(d) = [year |-> d.year + 1, month |-> 1, day |-> 1]
           /\ d.day > 1 =>
                 Clock!PreviousDate(d)
                   = [year |-> d.year, month |-> d.month, day |-> d.day - 1]
           /\ ~(d.day > 1) /\ d.month > 1 =>
                 Clock!PreviousDate(d)
                   = [year |-> d.year, month |-> d.month - 1,
                      day |-> MonthDays(d.year, d.month - 1)]
           /\ ~(d.day > 1) /\ ~(d.month > 1) =>
                 Clock!PreviousDate(d) = [year |-> d.year - 1, month |-> 12, day |-> 31]
<1>1. /\ Clock!MonthDays(d.year, d.month) = MonthDays(d.year, d.month)
      /\ Clock!MonthDays(d.year, d.month - 1) = MonthDays(d.year, d.month - 1)
  BY ClockHasTheCalendar
<1>2. \A n : [d EXCEPT !.day = n] = [year |-> d.year, month |-> d.month, day |-> n]
  BY DEF DateFields
<1> QED BY <1>1, <1>2 DEF Clock!NextDate, Clock!PreviousDate

(* The next date of the calendar is the date of the next day.              *)
LEMMA NextDateIsTheNextDay ==
    ASSUME NEW d \in DateFields, DateValid(d), Counted(d), d.year + 1 \in I16
    PROVE  LET e == Clock!NextDate(d)
           IN  /\ e \in DateFields /\ DateValid(e) /\ Counted(e)
               /\ DayNumber(e) = DayNumber(d) + 1
<1> DEFINE e == Clock!NextDate(d)
           c == Carry(d)
           k == MonthIn(d)
           l == MonthDays(d.year, d.month)
<1>1. /\ d.year \in Int /\ d.month \in 1 .. 12 /\ d.day \in 1 .. l
      /\ d.year \in I16
  BY DEF DateFields, DateValid, I16
<1>2. /\ l \in 28 .. 31 /\ k \in 1 .. 12 /\ MonthStart[k] \in Nat
      /\ k < 12 => MonthStart[k + 1] \in Nat /\ MonthStart[k + 1] = MonthStart[k] + l
      /\ k = 12 => MonthStart[k] + l = 365 + (IF LeapYear(d.year) THEN 1 ELSE 0)
  BY <1>1, MonthsFollow DEF MonthIn, Carry
<1>3. c \in {0, 1} /\ d.year - c >= -4800 /\ k = d.month - 2 + 12 * c
      /\ c = (IF d.month < 3 THEN 1 ELSE 0)
  BY <1>1, SMTT(30) DEF Counted, Carry, MonthIn
<1>4. DayNumber(d) = MarchStart(d.year - c) + MonthStart[k] + d.day - 1 + 11017
  <2>1. DayNumber(d) = MarchStart(d.year - c) + DayIn(d) + 11017
    BY DayNumberIsTheDay, SMTT(30)
  <2>2. DayIn(d) = MonthStart[k] + d.day - 1 /\ MarchStart(d.year - c) \in Int
    BY DayNumberIsTheDay, SMTT(30) DEF DayIn
  <2> HIDE DEF c, k
  <2> QED BY <1>1, <1>2, <2>1, <2>2, SMTT(30)
<1>5. ASSUME e \in DateFields, DateValid(e), Counted(e)
      PROVE  DayNumber(e) = MarchStart(e.year - Carry(e)) + DayIn(e) + 11017
  BY <1>5, DayNumberIsTheDay, SMTT(30)
<1> HIDE DEF c, k, l, e
<1>6. /\ d.day = l => ~(d.day < l)
      /\ d.month = 12 => ~(d.month < 12)
  BY <1>1, <1>2, SMTT(30)
<1>7. d.day < l \/ (d.day = l /\ (d.month < 12 \/ d.month = 12))
  BY <1>1, <1>2, SMTT(30) DEF l
<1>8. CASE d.day < l
  <2>1. e = [year |-> d.year, month |-> d.month, day |-> d.day + 1]
    BY <1>8, TurnedDates DEF e, l
  <2>2. e \in DateFields
    BY <1>1, <1>2, <2>1 DEF DateFields
  <2>3. DateValid(e)
    BY <1>1, <1>2, <1>8, <2>1 DEF DateValid, l
  <2>4. Carry(e) = c /\ MonthIn(e) = k
    BY <2>1 DEF Carry, MonthIn, c, k
  <2>5. Counted(e)
    BY <1>3, <2>1, <2>4, SMTT(30) DEF Counted
  <2>6. DayIn(e) = MonthStart[k] + (d.day + 1) - 1 /\ e.year - Carry(e) = d.year - c
    BY <2>1, <2>4 DEF DayIn
  <2>7. MarchStart(d.year - c) \in Int
    BY <1>1, <1>3, NextMarchStart
  <2>8. DayNumber(e) = DayNumber(d) + 1
    <3>1. DayNumber(e) = MarchStart(d.year - c) + DayIn(e) + 11017
      BY <1>5, <2>2, <2>3, <2>5, <2>6, SMTT(30)
    <3> QED BY <1>1, <1>2, <1>4, <2>6, <2>7, <3>1, SMTT(30)
  <2> QED BY <2>2, <2>3, <2>5, <2>8 DEF e
<1>9. CASE d.day = l /\ d.month < 12
  <2>1. e = [year |-> d.year, month |-> d.month + 1, day |-> 1]
    BY <1>9, <1>6, TurnedDates DEF e, l
  <2>2. e \in DateFields
    BY <1>1, <2>1 DEF DateFields
  <2>3. DateValid(e)
    <3>1. MonthDays(d.year, d.month + 1) \in 28 .. 31
      BY <1>1, <1>9, MonthsFollow
    <3> QED BY <1>1, <1>9, <2>1, <3>1 DEF DateValid
  <2>4. CASE d.month = 2
    <3>1. Carry(e) = 0 /\ MonthIn(e) = 1 /\ c = 1 /\ k = 12
      BY <1>3, <2>1, <2>4, SMTT(30) DEF Carry, MonthIn
    <3>2. Counted(e)
      BY <1>1, <1>3, <2>1, <3>1, SMTT(30) DEF Counted
    <3>3. e.year = d.year /\ DayIn(e) = 0
      BY <2>1, <3>1, SMTT(30) DEF DayIn, MonthStart
    <3>4. e.year - Carry(e) = (d.year - c) + 1
      BY <1>1, <3>1, <3>3, SMTT(30)
    <3>5. DayNumber(e) = MarchStart((d.year - c) + 1) + 0 + 11017
      BY <1>5, <2>2, <2>3, <3>2, <3>3, <3>4, SMTT(30)
    <3>6. /\ MarchStart(d.year - c) \in Int
          /\ MarchStart((d.year - c) + 1) = MarchStart(d.year - c) + 365
                  + (IF LeapYear((d.year - c) + 1) THEN 1 ELSE 0)
      BY <1>1, <1>3, NextMarchStart
    <3>7. (d.year - c) + 1 = d.year
      BY <1>1, <3>1, SMTT(30)
    <3>8. DayNumber(e) = DayNumber(d) + 1
      BY <1>1, <1>2, <1>4, <1>9, <3>1, <3>5, <3>6, <3>7, SMTT(30)
    <3> QED BY <2>2, <2>3, <3>2, <3>8 DEF e
  <2>5. CASE d.month # 2
    <3>1. Carry(e) = c /\ MonthIn(e) = k + 1 /\ k < 12
      BY <1>1, <1>3, <1>9, <2>1, <2>5, SMTT(30) DEF Carry, MonthIn
    <3>2. Counted(e)
      BY <1>3, <2>1, <3>1, SMTT(30) DEF Counted
    <3>3. DayNumber(e) = MarchStart(d.year - c) + (MonthStart[k + 1] + 1 - 1) + 11017
      BY <1>5, <2>1, <2>2, <2>3, <3>1, <3>2, SMTT(30) DEF DayIn
    <3>4. MarchStart(d.year - c) \in Int
      BY <1>1, <1>3, NextMarchStart
    <3>5. DayNumber(e) = DayNumber(d) + 1
      BY <1>1, <1>2, <1>4, <1>9, <3>1, <3>3, <3>4, SMTT(30)
    <3> QED BY <2>2, <2>3, <3>2, <3>5 DEF e
  <2> QED BY <2>4, <2>5
<1>10. CASE d.day = l /\ d.month = 12
  <2>1. e = [year |-> d.year + 1, month |-> 1, day |-> 1]
    BY <1>10, <1>6, TurnedDates DEF e, l
  <2>2. e \in DateFields
    BY <1>1, <2>1 DEF DateFields
  <2>3. DateValid(e)
    <3>1. MonthDays(d.year + 1, 1) \in 28 .. 31
      BY <1>1, MonthsFollow
    <3> QED BY <2>1, <3>1 DEF DateValid
  <2>4. Carry(e) = 1 /\ MonthIn(e) = 11 /\ c = 0 /\ k = 10
    BY <1>3, <1>10, <2>1, SMTT(30) DEF Carry, MonthIn
  <2>5. e.year - Carry(e) = d.year - c /\ Counted(e)
    BY <1>1, <1>3, <2>1, <2>4, SMTT(30) DEF Counted
  <2>6. DayNumber(e) = MarchStart(d.year - c) + (MonthStart[k + 1] + 1 - 1) + 11017
    BY <1>5, <2>1, <2>2, <2>3, <2>4, <2>5, SMTT(30) DEF DayIn
  <2>7. MarchStart(d.year - c) \in Int
    BY <1>1, <1>3, NextMarchStart
  <2>8. DayNumber(e) = DayNumber(d) + 1
    BY <1>1, <1>2, <1>4, <1>10, <2>4, <2>6, <2>7, SMTT(30)
  <2> QED BY <2>2, <2>3, <2>5, <2>8 DEF e
<1> QED BY <1>8, <1>9, <1>10, <1>7

(* The previous date of the calendar is the one this date is next to.      *)
LEMMA PreviousDateIsThePreviousDay ==
    ASSUME NEW d \in DateFields, DateValid(d), d.year \in FirstYear .. LastYear
    PROVE  LET e == Clock!PreviousDate(d)
           IN  /\ e \in DateFields /\ DateValid(e) /\ Counted(e)
               /\ DayNumber(e) = DayNumber(d) - 1
<1> DEFINE e == Clock!PreviousDate(d)
<1>1. /\ d.year \in Int /\ d.month \in 1 .. 12
      /\ d.day \in 1 .. MonthDays(d.year, d.month)
      /\ -4712 <= d.year /\ d.year <= 9999
      /\ MonthDays(d.year, d.month) \in 28 .. 31
  <2>1. d.year \in Int /\ d.month \in 1 .. 12 /\ d.day \in 1 .. MonthDays(d.year, d.month)
    BY DEF DateFields, DateValid, I16
  <2>2. -4712 <= d.year /\ d.year <= 9999
    <3>1. FirstYear \in Int /\ LastYear \in Int
      BY DEF FirstYear, LastYear
    <3>2. FirstYear <= d.year /\ d.year <= LastYear
      BY <3>1, SMTT(30)
    <3> QED BY <3>2, SMTT(30) DEF FirstYear, LastYear
  <2> QED BY <2>1, <2>2, MonthsFollow, SMTT(30)
<1>2. d = [year |-> d.year, month |-> d.month, day |-> d.day]
  BY DEF DateFields
<1> HIDE DEF e
<1>3. /\ e \in DateFields /\ DateValid(e)
      /\ -4713 <= e.year /\ e.year <= 9999
      /\ Clock!NextDate(e) = d
  <2>1. CASE d.day > 1
    <3>1. e = [year |-> d.year, month |-> d.month, day |-> d.day - 1]
      BY <2>1, TurnedDates DEF e
    <3>2. e \in DateFields
      BY <1>1, <2>1, <3>1, SMTT(30) DEF DateFields, I16
    <3>3. DateValid(e)
      BY <1>1, <2>1, <3>1, SMTT(30) DEF DateValid
    <3>4. e.day < MonthDays(e.year, e.month)
      BY <1>1, <2>1, <3>1, SMTT(30)
    <3>5. Clock!NextDate(e) = d
      <4>1. Clock!NextDate(e) = [year |-> e.year, month |-> e.month, day |-> e.day + 1]
        BY <3>2, <3>4, TurnedDates
      <4>2. e.year = d.year /\ e.month = d.month /\ e.day + 1 = d.day
        BY <1>1, <3>1, SMTT(30)
      <4> QED BY <1>2, <4>1, <4>2
    <3> QED BY <1>1, <3>1, <3>2, <3>3, <3>5, SMTT(30)
  <2>2. CASE d.day = 1 /\ d.month > 1
    <3> DEFINE l == MonthDays(d.year, d.month - 1)
    <3>1. e = [year |-> d.year, month |-> d.month - 1, day |-> l]
      <4>1. ~(d.day > 1)
        BY <2>2, SMTT(30)
      <4> QED BY <2>2, <4>1, TurnedDates DEF e
    <3>2. l \in 28 .. 31
      BY <1>1, <2>2, MonthsFollow, SMTT(30)
    <3>3. e \in DateFields
      BY <1>1, <2>2, <3>1, <3>2, SMTT(30) DEF DateFields, I16
    <3>4. DateValid(e)
      BY <1>1, <2>2, <3>1, <3>2, SMTT(30) DEF DateValid
    <3>5. /\ ~(e.day < MonthDays(e.year, e.month)) /\ e.month < 12
          /\ e.year = d.year /\ e.month + 1 = d.month
      BY <1>1, <2>2, <3>1, <3>2, SMTT(30)
    <3>6. Clock!NextDate(e) = d
      <4>1. Clock!NextDate(e) = [year |-> e.year, month |-> e.month + 1, day |-> 1]
        BY <3>3, <3>5, TurnedDates
      <4> QED BY <1>2, <2>2, <3>5, <4>1
    <3> QED BY <1>1, <3>1, <3>3, <3>4, <3>6, SMTT(30)
  <2>3. CASE d.day = 1 /\ d.month = 1
    <3>1. e = [year |-> d.year - 1, month |-> 12, day |-> 31]
      <4>1. ~(d.day > 1) /\ ~(d.month > 1)
        BY <2>3, SMTT(30)
      <4> QED BY <4>1, TurnedDates DEF e
    <3>2. MonthDays(d.year - 1, 12) = 31
      BY SMT DEF MonthDays, CommonMonthDays
    <3>3. e \in DateFields
      BY <1>1, <3>1, SMTT(30) DEF DateFields, I16
    <3>4. DateValid(e)
      BY <3>1, <3>2, SMTT(30) DEF DateValid
    <3>5. /\ ~(e.day < MonthDays(e.year, e.month)) /\ ~(e.month < 12)
          /\ e.year + 1 = d.year
      BY <1>1, <3>1, <3>2, SMTT(30)
    <3>6. Clock!NextDate(e) = d
      <4>1. Clock!NextDate(e) = [year |-> e.year + 1, month |-> 1, day |-> 1]
        BY <3>3, <3>5, TurnedDates
      <4> QED BY <1>2, <2>3, <3>5, <4>1
    <3> QED BY <1>1, <3>1, <3>3, <3>4, <3>6, SMTT(30)
  <2> QED BY <1>1, <2>1, <2>2, <2>3, SMTT(30)
<1>4. Counted(e) /\ e.year + 1 \in I16
  <2>1. Carry(e) \in {0, 1} /\ e.year \in Int
    BY <1>3, DateInMarchYear DEF DateFields, I16
  <2> QED BY <1>3, <2>1, SMTT(30) DEF Counted, I16
<1>5. DayNumber(d) = DayNumber(e) + 1
  BY <1>3, <1>4, NextDateIsTheNextDay, SMTT(30)
<1>6. DayNumber(e) \in Int
  <2>1. e.year + 4800 - Carry(e) \in Int
    BY <1>3, YearsOfInitUTC
  <2> QED BY <1>3, <2>1, DaysToIsInt DEF DayNumber
<1> QED BY <1>3, <1>4, <1>5, <1>6, SMTT(30) DEF e

(* A moment of the calendar, and the microseconds initUTC counts for it.   *)
Moments == [date : DateFields, time : TimeFields]

Proper(x) == /\ x \in Moments
             /\ DateValid(x.date) /\ Counted(x.date)
             /\ TimeValid(x.time)

Showable(x) == Proper(x) /\ x.date.year \in FirstYear .. LastYear

Number(x) == DayNumber(x.date) * MicrosPerDay + MicrosOfDay(x.time)

(* The fields of a valid date and a valid time of day make a moment.       *)
LEMMA ProperNumbers ==
    ASSUME NEW x, Proper(x)
    PROVE  /\ DayNumber(x.date) \in Int
           /\ MicrosOfDay(x.time) \in 0 .. MicrosPerDay - 1
           /\ Number(x) \in Int
<1>1. x.date \in DateFields /\ DateValid(x.date) /\ x.time \in TimeFields /\ TimeValid(x.time)
  BY DEF Proper, Moments
<1>2. DayNumber(x.date) \in Int
  <2>1. x.date.year + 4800 - Carry(x.date) \in Int
    BY <1>1, YearsOfInitUTC
  <2> QED BY <1>1, <2>1, DaysToIsInt DEF DayNumber
<1>3. MicrosOfDay(x.time) \in 0 .. MicrosPerDay - 1
  BY <1>1, TimeInverts
<1> QED BY <1>2, <1>3, Units DEF Number

(* A program that shows a moment that is counted from 1970 on shows the    *)
(* moment, and fromUnix accepts it exactly when its year can be shown.     *)
LEMMA ProperIsShown ==
    ASSUME NEW x, Proper(x)
    PROVE  /\ Number(x) >= 0 => Shown(Number(x)) = x
           /\ YearAccepted(x.date) =>
                 fromUnix(Number(x), "microseconds") = Ok(Number(x))
           /\ ~YearAccepted(x.date) =>
                 fromUnix(Number(x), "microseconds").error = "OutsideJulianPeriod"
<1> DEFINE d == x.date
           t == x.time
           n == DayNumber(d)
           u == MicrosOfDay(t)
           m == n * MicrosPerDay + u
<1>1. /\ d \in DateFields /\ DateValid(d) /\ Counted(d)
      /\ t \in TimeFields /\ TimeValid(t)
      /\ x = [date |-> d, time |-> t]
  BY DEF Proper, Moments
<1>2. n \in Int /\ u \in 0 .. MicrosPerDay - 1 /\ m \in Int /\ Number(x) = m
  BY ProperNumbers DEF Number
<1>3. InPeriod(n) <=> YearAccepted(d)
  <2> DEFINE y == d.year + 4800 - Carry(d)
  <2>1. y \in Int /\ n = DaysTo(y, d) /\ (InYears(y + Carry(d)) <=> YearAccepted(d))
    BY <1>1, YearsOfInitUTC DEF DayNumber
  <2> HIDE DEF y, d, n
  <2> QED BY <1>1, <2>1, YearsAreThePeriod
<1> HIDE DEF d, t, n, u
<1>4. /\ InPeriod(n) => fromUnix(m, "microseconds") = Ok(m)
      /\ ~InPeriod(n) => fromUnix(m, "microseconds").error = "OutsideJulianPeriod"
  BY <1>2, DaysAreTheRange DEF InPeriod
<1>5. m >= 0 => Shown(m) = x
  <2>1. SUFFICES ASSUME m >= 0 PROVE Shown(m) = x
    OBVIOUS
  <2>2. time(m) = t /\ m \div MicrosPerDay = n
    BY <1>1, <1>2, TimeInverts DEF u
  <2> HIDE DEF m
  <2>3. ~DateIsLate(m)
    BY <1>2, <2>1 DEF DateIsLate
  <2>4. LeapEpochDays(m) = n - 11017
    BY <1>2, <2>2, <2>3, LeapEpochDaysIsTheDay, SMTT(30)
  <2>5. CivilDate(n - 11017) = d
    BY <1>1, CivilDateInverts, SMTT(30) DEF n
  <2>6. date(m) = d
    BY <2>4, <2>5, SMTT(30) DEF date
  <2> QED BY <1>1, <2>2, <2>6 DEF Shown
<1> QED BY <1>2, <1>3, <1>4, <1>5 DEF d

(* What a program shows of an instant from 1970 on, and its number.        *)
LEMMA ShownIsShowable ==
    ASSUME NEW m \in JulianPeriod, m >= 0
    PROVE  Showable(Shown(m)) /\ Number(Shown(m)) = m
<1> DEFINE D == MicrosPerDay
<1>1. m \in Int /\ D \in Nat \ {0}
  BY Units DEF JulianPeriod
<1>2. ~DateIsLate(m)
  BY <1>1 DEF DateIsLate
<1>3. /\ date(m) \in DateFields /\ DateValid(date(m)) /\ Counted(date(m))
      /\ DayNumber(date(m)) = m \div D
  BY <1>2, ShownDate
<1>4. date(m).year \in FirstYear .. LastYear
  BY DateOfThePeriod
<1>5. /\ time(m) \in TimeFields /\ TimeValid(time(m))
      /\ MicrosOfDay(time(m)) = m % D
  BY <1>1, TimeIsTimeOfDay
<1>6. Showable(Shown(m))
  BY <1>3, <1>4, <1>5 DEF Showable, Proper, Moments, Shown
<1> HIDE DEF D
<1>7. /\ m \div D \in Int /\ m % D \in Int /\ m = D * (m \div D) + (m % D)
      /\ D * (m \div D) = (m \div D) * D
  BY <1>1, DivMod
<1>8. Number(Shown(m)) = (m \div D) * D + (m % D)
  BY <1>3, <1>5 DEF Number, Shown, D
<1> QED BY <1>6, <1>7, <1>8

(* y is the proper moment k microseconds behind x.                         *)
Behind(x, y, k) == Proper(y) /\ Number(y) = Number(x) + k

LEMMA BehindTwice ==
    ASSUME NEW x, NEW y, NEW z, NEW k \in Int, NEW l \in Int,
           Proper(x), Behind(x, y, k), Behind(y, z, l)
    PROVE  Behind(x, z, k + l)
BY ProperNumbers DEF Behind

(* A day more or less.                                                     *)
LEMMA DayTurns ==
    ASSUME NEW x, Showable(x)
    PROVE  /\ Behind(x, Clock!DayUp(x), MicrosPerDay)
           /\ Behind(x, Clock!DayDown(x), -MicrosPerDay)
<1> DEFINE d == x.date
           e == Clock!NextDate(d)
           f == Clock!PreviousDate(d)
           n == DayNumber(d)
           u == MicrosOfDay(x.time)
           D == MicrosPerDay
<1>1. /\ x = [date |-> d, time |-> x.time]
      /\ d \in DateFields /\ DateValid(d) /\ Counted(d)
      /\ x.time \in TimeFields /\ TimeValid(x.time)
      /\ d.year \in FirstYear .. LastYear
  BY DEF Showable, Proper, Moments
<1>2. d.year + 1 \in I16
  <2> DEFINE y == d.year
  <2>1. y \in FirstYear .. LastYear
    BY <1>1
  <2> HIDE DEF y
  <2>2. y + 1 \in I16
    BY <2>1, SMTT(30) DEF FirstYear, LastYear, I16
  <2> QED BY <2>2, SMTT(30) DEF y
<1>3. /\ e \in DateFields /\ DateValid(e) /\ Counted(e)
      /\ DayNumber(e) = n + 1
  BY <1>1, <1>2, NextDateIsTheNextDay
<1>4. /\ f \in DateFields /\ DateValid(f) /\ Counted(f)
      /\ DayNumber(f) = n - 1
  BY <1>1, PreviousDateIsThePreviousDay
<1>5. /\ Clock!DayUp(x) = [date |-> e, time |-> x.time]
      /\ Clock!DayDown(x) = [date |-> f, time |-> x.time]
  BY <1>1 DEF Clock!DayUp, Clock!DayDown
<1>6. n \in Int /\ u \in Int /\ D \in Nat \ {0} /\ Number(x) = n * D + u
  BY ProperNumbers, Units DEF Showable, Number
<1> HIDE DEF d, e, f, n, u, D
<1>7. Proper([date |-> e, time |-> x.time]) /\ Proper([date |-> f, time |-> x.time])
  BY <1>1, <1>3, <1>4 DEF Proper, Moments
<1>8. /\ Number([date |-> e, time |-> x.time]) = (n + 1) * D + u
      /\ Number([date |-> f, time |-> x.time]) = (n - 1) * D + u
  BY <1>3, <1>4 DEF Number, u, D
<1>9. (n + 1) * D + u = (n * D + u) + D /\ (n - 1) * D + u = (n * D + u) + (-D)
  BY <1>6
<1> QED BY <1>5, <1>6, <1>7, <1>8, <1>9 DEF Behind, D

(* The fields of a time of day, set one at a time.                         *)
LEMMA SetFields ==
    ASSUME NEW x \in Moments, NEW n
    PROVE  /\ Clock!Hour(x, n) = [date |-> x.date,
                 time |-> [hour |-> n, min |-> x.time.min, sec |-> x.time.sec,
                           micros |-> x.time.micros]]
           /\ Clock!Minute(x, n) = [date |-> x.date,
                 time |-> [hour |-> x.time.hour, min |-> n, sec |-> x.time.sec,
                           micros |-> x.time.micros]]
           /\ Clock!Second(x, n) = [date |-> x.date,
                 time |-> [hour |-> x.time.hour, min |-> x.time.min, sec |-> n,
                           micros |-> x.time.micros]]
           /\ Clock!Fraction(x, n) = [date |-> x.date,
                 time |-> [hour |-> x.time.hour, min |-> x.time.min,
                           sec |-> x.time.sec, micros |-> n]]
<1> DEFINE t == x.time
<1>1. t \in TimeFields /\ x = [date |-> x.date, time |-> t]
  BY DEF Moments
<1>2. \A v : [x EXCEPT !.time = v] = [date |-> x.date, time |-> v]
  BY <1>1
<1>3. /\ [t EXCEPT !.hour = n]
             = [hour |-> n, min |-> t.min, sec |-> t.sec, micros |-> t.micros]
      /\ [t EXCEPT !.min = n]
             = [hour |-> t.hour, min |-> n, sec |-> t.sec, micros |-> t.micros]
      /\ [t EXCEPT !.sec = n]
             = [hour |-> t.hour, min |-> t.min, sec |-> n, micros |-> t.micros]
      /\ [t EXCEPT !.micros = n]
             = [hour |-> t.hour, min |-> t.min, sec |-> t.sec, micros |-> n]
  BY <1>1 DEF TimeFields
<1>4. /\ Clock!Hour(x, n) = [x EXCEPT !.time = [t EXCEPT !.hour = n]]
      /\ Clock!Minute(x, n) = [x EXCEPT !.time = [t EXCEPT !.min = n]]
      /\ Clock!Second(x, n) = [x EXCEPT !.time = [t EXCEPT !.sec = n]]
      /\ Clock!Fraction(x, n) = [x EXCEPT !.time = [t EXCEPT !.micros = n]]
  BY DEF Clock!Hour, Clock!Minute, Clock!Second, Clock!Fraction
<1> QED BY <1>2, <1>3, <1>4

(* A moment with another time of day.                                      *)
LEMMA TimeTurns ==
    ASSUME NEW x, Showable(x), NEW t \in TimeFields, TimeValid(t), NEW k \in Int,
           MicrosOfDay(t) = MicrosOfDay(x.time) + k
    PROVE  /\ Showable([date |-> x.date, time |-> t])
           /\ Behind(x, [date |-> x.date, time |-> t], k)
<1>1. Showable([date |-> x.date, time |-> t])
  BY DEF Showable, Proper, Moments
<1>2. /\ DayNumber(x.date) * MicrosPerDay \in Int
      /\ MicrosOfDay(x.time) \in Int
  BY ProperNumbers, Units DEF Showable
<1>3. Number([date |-> x.date, time |-> t]) = Number(x) + k
  BY <1>2 DEF Number
<1> QED BY <1>1, <1>3 DEF Behind, Showable

(* The fields of the time of day of a moment that is shown, and what they  *)
(* count.                                                                  *)
LEMMA ShowableTime ==
    ASSUME NEW x, Showable(x)
    PROVE  /\ x \in Moments
           /\ x.time.hour \in 0 .. HoursPerDay - 1
           /\ x.time.min \in 0 .. MinutesPerHour - 1
           /\ x.time.sec \in 0 .. SecondsPerMinute - 1
           /\ x.time.micros \in 0 .. MicrosPerSecond - 1
<1>1. x \in Moments /\ x.time \in TimeFields /\ TimeValid(x.time)
  BY DEF Showable, Proper, Moments
<1> QED BY <1>1, RadixAssumption, Units DEF TimeFields, TimeValid

(* An hour more or less.                                                 *)
LEMMA HourTurns ==
    ASSUME NEW x, Showable(x)
    PROVE  /\ Behind(x, Clock!HourUp(x), MicrosPerHour)
           /\ Behind(x, Clock!HourDown(x), -MicrosPerHour)
<1> DEFINE at(n) == Clock!Hour(x, n)
           h     == x.time.hour
           P     == HoursPerDay
           M     == MicrosPerHour
<1>1. /\ x \in Moments /\ h \in 0 .. P - 1 /\ P \in Nat \ {0} /\ M \in Nat \ {0}
      /\ MicrosPerDay = P * M
  BY ShowableTime, RadixAssumption, Units DEF MicrosPerDay
<1>2. ASSUME NEW n \in 0 .. P - 1
      PROVE  Showable(at(n)) /\ Behind(x, at(n), (n - h) * M)
  <2> DEFINE t == [hour |-> n, min |-> x.time.min, sec |-> x.time.sec, micros |-> x.time.micros]
  <2>1. t \in TimeFields /\ TimeValid(t)
    BY <1>2, ShowableTime, RadixAssumption, Units DEF TimeFields, TimeValid
  <2>2. MicrosOfDay(t) = MicrosOfDay(x.time) + (n - h) * M
    <3> DEFINE a == n * M
               b == h * M
               c == (n - h) * M
    <3>1. a \in Int /\ b \in Int /\ c = a - b
      BY <1>1, <1>2
    <3>2. /\ x.time.hour * MicrosPerHour \in Int /\ x.time.min * MicrosPerMinute \in Int
          /\ x.time.sec * MicrosPerSecond \in Int /\ x.time.micros \in Int
      BY ShowableTime, RadixAssumption, Units
    <3> QED BY <3>1, <3>2 DEF MicrosOfDay
  <2>3. (n - h) * M \in Int
    BY <1>1, <1>2
  <2>4. at(n) = [date |-> x.date, time |-> t]
    BY <1>1, SetFields
  <2> HIDE DEF t, at, h, M
  <2> QED BY <2>1, <2>2, <2>3, <2>4, TimeTurns
<1> HIDE DEF at, h, P, M
<1>3. Behind(x, Clock!HourUp(x), M)
  <2>1. CASE h + 1 < P
    <3>1. Clock!HourUp(x) = at(h + 1)
      BY <2>1 DEF Clock!HourUp, at, h, P
    <3>2. h + 1 \in 0 .. P - 1 /\ ((h + 1) - h) * M = M
      BY <1>1, <2>1
    <3> QED BY <1>2, <3>1, <3>2
  <2>2. CASE ~(h + 1 < P)
    <3>1. Clock!HourUp(x) = Clock!DayUp(at(0))
      BY <2>2 DEF Clock!HourUp, at, h, P
    <3>2. h = P - 1 /\ 0 \in 0 .. P - 1
      BY <1>1, <2>2
    <3>3. Showable(at(0)) /\ Behind(x, at(0), (0 - h) * M)
      BY <1>2, <3>2
    <3>4. Behind(at(0), Clock!DayUp(at(0)), P * M)
      BY <1>1, <3>3, DayTurns
    <3>5. (0 - h) * M \in Int /\ P * M \in Int /\ (0 - h) * M + P * M = M
      BY <1>1, <3>2
    <3> QED BY <3>1, <3>3, <3>4, <3>5, BehindTwice DEF Showable
  <2> QED BY <2>1, <2>2
<1>4. Behind(x, Clock!HourDown(x), -M)
  <2>1. CASE h > 0
    <3>1. Clock!HourDown(x) = at(h - 1)
      BY <2>1 DEF Clock!HourDown, at, h, P
    <3>2. h - 1 \in 0 .. P - 1 /\ ((h - 1) - h) * M = -M
      BY <1>1, <2>1
    <3> QED BY <1>2, <3>1, <3>2
  <2>2. CASE ~(h > 0)
    <3>1. Clock!HourDown(x) = Clock!DayDown(at(P - 1))
      BY <2>2 DEF Clock!HourDown, at, h, P
    <3>2. h = 0 /\ P - 1 \in 0 .. P - 1
      BY <1>1, <2>2
    <3>3. Showable(at(P - 1)) /\ Behind(x, at(P - 1), ((P - 1) - h) * M)
      BY <1>2, <3>2
    <3>4. Behind(at(P - 1), Clock!DayDown(at(P - 1)), -(P * M))
      BY <1>1, <3>3, DayTurns
    <3>5. /\ ((P - 1) - h) * M \in Int /\ -(P * M) \in Int
          /\ ((P - 1) - h) * M + -(P * M) = -M
      BY <1>1, <3>2
    <3> QED BY <3>1, <3>3, <3>4, <3>5, BehindTwice DEF Showable
  <2> QED BY <2>1, <2>2
<1> QED BY <1>3, <1>4 DEF M

(* A minute more or less.                                                *)
LEMMA MinuteTurns ==
    ASSUME NEW x, Showable(x)
    PROVE  /\ Behind(x, Clock!MinuteUp(x), MicrosPerMinute)
           /\ Behind(x, Clock!MinuteDown(x), -MicrosPerMinute)
<1> DEFINE at(n) == Clock!Minute(x, n)
           h     == x.time.min
           P     == MinutesPerHour
           M     == MicrosPerMinute
<1>1. /\ x \in Moments /\ h \in 0 .. P - 1 /\ P \in Nat \ {0} /\ M \in Nat \ {0}
      /\ MicrosPerHour = P * M
  BY ShowableTime, RadixAssumption, Units DEF MicrosPerHour
<1>2. ASSUME NEW n \in 0 .. P - 1
      PROVE  Showable(at(n)) /\ Behind(x, at(n), (n - h) * M)
  <2> DEFINE t == [hour |-> x.time.hour, min |-> n, sec |-> x.time.sec, micros |-> x.time.micros]
  <2>1. t \in TimeFields /\ TimeValid(t)
    BY <1>2, ShowableTime, RadixAssumption, Units DEF TimeFields, TimeValid
  <2>2. MicrosOfDay(t) = MicrosOfDay(x.time) + (n - h) * M
    <3> DEFINE a == n * M
               b == h * M
               c == (n - h) * M
    <3>1. a \in Int /\ b \in Int /\ c = a - b
      BY <1>1, <1>2
    <3>2. /\ x.time.hour * MicrosPerHour \in Int /\ x.time.min * MicrosPerMinute \in Int
          /\ x.time.sec * MicrosPerSecond \in Int /\ x.time.micros \in Int
      BY ShowableTime, RadixAssumption, Units
    <3> QED BY <3>1, <3>2 DEF MicrosOfDay
  <2>3. (n - h) * M \in Int
    BY <1>1, <1>2
  <2>4. at(n) = [date |-> x.date, time |-> t]
    BY <1>1, SetFields
  <2> HIDE DEF t, at, h, M
  <2> QED BY <2>1, <2>2, <2>3, <2>4, TimeTurns
<1> HIDE DEF at, h, P, M
<1>3. Behind(x, Clock!MinuteUp(x), M)
  <2>1. CASE h + 1 < P
    <3>1. Clock!MinuteUp(x) = at(h + 1)
      BY <2>1 DEF Clock!MinuteUp, at, h, P
    <3>2. h + 1 \in 0 .. P - 1 /\ ((h + 1) - h) * M = M
      BY <1>1, <2>1
    <3> QED BY <1>2, <3>1, <3>2
  <2>2. CASE ~(h + 1 < P)
    <3>1. Clock!MinuteUp(x) = Clock!HourUp(at(0))
      BY <2>2 DEF Clock!MinuteUp, at, h, P
    <3>2. h = P - 1 /\ 0 \in 0 .. P - 1
      BY <1>1, <2>2
    <3>3. Showable(at(0)) /\ Behind(x, at(0), (0 - h) * M)
      BY <1>2, <3>2
    <3>4. Behind(at(0), Clock!HourUp(at(0)), P * M)
      BY <1>1, <3>3, HourTurns
    <3>5. (0 - h) * M \in Int /\ P * M \in Int /\ (0 - h) * M + P * M = M
      BY <1>1, <3>2
    <3> QED BY <3>1, <3>3, <3>4, <3>5, BehindTwice DEF Showable
  <2> QED BY <2>1, <2>2
<1>4. Behind(x, Clock!MinuteDown(x), -M)
  <2>1. CASE h > 0
    <3>1. Clock!MinuteDown(x) = at(h - 1)
      BY <2>1 DEF Clock!MinuteDown, at, h, P
    <3>2. h - 1 \in 0 .. P - 1 /\ ((h - 1) - h) * M = -M
      BY <1>1, <2>1
    <3> QED BY <1>2, <3>1, <3>2
  <2>2. CASE ~(h > 0)
    <3>1. Clock!MinuteDown(x) = Clock!HourDown(at(P - 1))
      BY <2>2 DEF Clock!MinuteDown, at, h, P
    <3>2. h = 0 /\ P - 1 \in 0 .. P - 1
      BY <1>1, <2>2
    <3>3. Showable(at(P - 1)) /\ Behind(x, at(P - 1), ((P - 1) - h) * M)
      BY <1>2, <3>2
    <3>4. Behind(at(P - 1), Clock!HourDown(at(P - 1)), -(P * M))
      BY <1>1, <3>3, HourTurns
    <3>5. /\ ((P - 1) - h) * M \in Int /\ -(P * M) \in Int
          /\ ((P - 1) - h) * M + -(P * M) = -M
      BY <1>1, <3>2
    <3> QED BY <3>1, <3>3, <3>4, <3>5, BehindTwice DEF Showable
  <2> QED BY <2>1, <2>2
<1> QED BY <1>3, <1>4 DEF M

(* A second more or less.                                                *)
LEMMA SecondTurns ==
    ASSUME NEW x, Showable(x)
    PROVE  /\ Behind(x, Clock!SecondUp(x), MicrosPerSecond)
           /\ Behind(x, Clock!SecondDown(x), -MicrosPerSecond)
<1> DEFINE at(n) == Clock!Second(x, n)
           h     == x.time.sec
           P     == SecondsPerMinute
           M     == MicrosPerSecond
<1>1. /\ x \in Moments /\ h \in 0 .. P - 1 /\ P \in Nat \ {0} /\ M \in Nat \ {0}
      /\ MicrosPerMinute = P * M
  BY ShowableTime, RadixAssumption, Units DEF MicrosPerMinute
<1>2. ASSUME NEW n \in 0 .. P - 1
      PROVE  Showable(at(n)) /\ Behind(x, at(n), (n - h) * M)
  <2> DEFINE t == [hour |-> x.time.hour, min |-> x.time.min, sec |-> n, micros |-> x.time.micros]
  <2>1. t \in TimeFields /\ TimeValid(t)
    BY <1>2, ShowableTime, RadixAssumption, Units DEF TimeFields, TimeValid
  <2>2. MicrosOfDay(t) = MicrosOfDay(x.time) + (n - h) * M
    <3> DEFINE a == n * M
               b == h * M
               c == (n - h) * M
    <3>1. a \in Int /\ b \in Int /\ c = a - b
      BY <1>1, <1>2
    <3>2. /\ x.time.hour * MicrosPerHour \in Int /\ x.time.min * MicrosPerMinute \in Int
          /\ x.time.sec * MicrosPerSecond \in Int /\ x.time.micros \in Int
      BY ShowableTime, RadixAssumption, Units
    <3> QED BY <3>1, <3>2 DEF MicrosOfDay
  <2>3. (n - h) * M \in Int
    BY <1>1, <1>2
  <2>4. at(n) = [date |-> x.date, time |-> t]
    BY <1>1, SetFields
  <2> HIDE DEF t, at, h, M
  <2> QED BY <2>1, <2>2, <2>3, <2>4, TimeTurns
<1> HIDE DEF at, h, P, M
<1>3. Behind(x, Clock!SecondUp(x), M)
  <2>1. CASE h + 1 < P
    <3>1. Clock!SecondUp(x) = at(h + 1)
      BY <2>1 DEF Clock!SecondUp, at, h, P
    <3>2. h + 1 \in 0 .. P - 1 /\ ((h + 1) - h) * M = M
      BY <1>1, <2>1
    <3> QED BY <1>2, <3>1, <3>2
  <2>2. CASE ~(h + 1 < P)
    <3>1. Clock!SecondUp(x) = Clock!MinuteUp(at(0))
      BY <2>2 DEF Clock!SecondUp, at, h, P
    <3>2. h = P - 1 /\ 0 \in 0 .. P - 1
      BY <1>1, <2>2
    <3>3. Showable(at(0)) /\ Behind(x, at(0), (0 - h) * M)
      BY <1>2, <3>2
    <3>4. Behind(at(0), Clock!MinuteUp(at(0)), P * M)
      BY <1>1, <3>3, MinuteTurns
    <3>5. (0 - h) * M \in Int /\ P * M \in Int /\ (0 - h) * M + P * M = M
      BY <1>1, <3>2
    <3> QED BY <3>1, <3>3, <3>4, <3>5, BehindTwice DEF Showable
  <2> QED BY <2>1, <2>2
<1>4. Behind(x, Clock!SecondDown(x), -M)
  <2>1. CASE h > 0
    <3>1. Clock!SecondDown(x) = at(h - 1)
      BY <2>1 DEF Clock!SecondDown, at, h, P
    <3>2. h - 1 \in 0 .. P - 1 /\ ((h - 1) - h) * M = -M
      BY <1>1, <2>1
    <3> QED BY <1>2, <3>1, <3>2
  <2>2. CASE ~(h > 0)
    <3>1. Clock!SecondDown(x) = Clock!MinuteDown(at(P - 1))
      BY <2>2 DEF Clock!SecondDown, at, h, P
    <3>2. h = 0 /\ P - 1 \in 0 .. P - 1
      BY <1>1, <2>2
    <3>3. Showable(at(P - 1)) /\ Behind(x, at(P - 1), ((P - 1) - h) * M)
      BY <1>2, <3>2
    <3>4. Behind(at(P - 1), Clock!MinuteDown(at(P - 1)), -(P * M))
      BY <1>1, <3>3, MinuteTurns
    <3>5. /\ ((P - 1) - h) * M \in Int /\ -(P * M) \in Int
          /\ ((P - 1) - h) * M + -(P * M) = -M
      BY <1>1, <3>2
    <3> QED BY <3>1, <3>3, <3>4, <3>5, BehindTwice DEF Showable
  <2> QED BY <2>1, <2>2
<1> QED BY <1>3, <1>4 DEF M

(* A millisecond or a microsecond more or less.                            *)
LEMMA FractionTurns ==
    ASSUME NEW x, Showable(x), NEW step \in 1 .. MicrosPerSecond
    PROVE  /\ Behind(x, Clock!FractionUp(x, step), step)
           /\ Behind(x, Clock!FractionDown(x, step), -step)
<1> DEFINE at(n) == Clock!Fraction(x, n)
           f     == x.time.micros
           M     == MicrosPerSecond
<1>1. x \in Moments /\ f \in 0 .. M - 1 /\ M \in Nat \ {0} /\ step \in 1 .. M
  BY ShowableTime, Units
<1>2. ASSUME NEW n \in 0 .. M - 1
      PROVE  Showable(at(n)) /\ Behind(x, at(n), n - f)
  <2> DEFINE t == [hour |-> x.time.hour, min |-> x.time.min, sec |-> x.time.sec,
                   micros |-> n]
  <2>1. t \in TimeFields /\ TimeValid(t)
    BY <1>2, ShowableTime, RadixAssumption, Units DEF TimeFields, TimeValid
  <2>2. MicrosOfDay(t) = MicrosOfDay(x.time) + (n - f)
    <3>1. /\ x.time.hour * MicrosPerHour \in Int /\ x.time.min * MicrosPerMinute \in Int
          /\ x.time.sec * MicrosPerSecond \in Int /\ x.time.micros \in Int /\ n \in Int
      BY <1>2, ShowableTime, RadixAssumption, Units
    <3> QED BY <3>1 DEF MicrosOfDay
  <2>3. n - f \in Int
    BY <1>1, <1>2
  <2>4. at(n) = [date |-> x.date, time |-> t]
    BY <1>1, SetFields
  <2> HIDE DEF t, at, f
  <2> QED BY <2>1, <2>2, <2>3, <2>4, TimeTurns
<1>3. Clock!MicrosPerSecond = M
  BY ClockHasTheCalendar
<1> HIDE DEF at, f, M
<1>4. Behind(x, Clock!FractionUp(x, step), step)
  <2>1. CASE f + step < M
    <3>1. Clock!FractionUp(x, step) = at(f + step)
      BY <1>3, <2>1 DEF Clock!FractionUp, at, f
    <3>2. f + step \in 0 .. M - 1 /\ (f + step) - f = step
      BY <1>1, <2>1
    <3> QED BY <1>2, <3>1, <3>2
  <2>2. CASE ~(f + step < M)
    <3> DEFINE n == f + step - M
    <3>1. Clock!FractionUp(x, step) = Clock!SecondUp(at(n))
      BY <1>3, <2>2 DEF Clock!FractionUp, at, f
    <3>2. n \in 0 .. M - 1 /\ n - f \in Int /\ (n - f) + M = step /\ M \in Int
      BY <1>1, <2>2
    <3> HIDE DEF n
    <3>3. Showable(at(n)) /\ Behind(x, at(n), n - f)
      BY <1>2, <3>2
    <3>4. Behind(at(n), Clock!SecondUp(at(n)), M)
      BY <3>3, SecondTurns DEF M
    <3> QED BY <3>1, <3>2, <3>3, <3>4, BehindTwice DEF Showable
  <2> QED BY <2>1, <2>2
<1>5. Behind(x, Clock!FractionDown(x, step), -step)
  <2>1. CASE f >= step
    <3>1. Clock!FractionDown(x, step) = at(f - step)
      BY <1>3, <2>1 DEF Clock!FractionDown, at, f
    <3>2. f - step \in 0 .. M - 1 /\ (f - step) - f = -step
      BY <1>1, <2>1
    <3> QED BY <1>2, <3>1, <3>2
  <2>2. CASE ~(f >= step)
    <3> DEFINE n == f - step + M
    <3>1. Clock!FractionDown(x, step) = Clock!SecondDown(at(n))
      BY <1>3, <2>2 DEF Clock!FractionDown, at, f
    <3>2. n \in 0 .. M - 1 /\ n - f \in Int /\ (n - f) + -M = -step /\ -M \in Int
      BY <1>1, <2>2
    <3> HIDE DEF n
    <3>3. Showable(at(n)) /\ Behind(x, at(n), n - f)
      BY <1>2, <3>2
    <3>4. Behind(at(n), Clock!SecondDown(at(n)), -M)
      BY <3>3, SecondTurns DEF M
    <3> QED BY <3>1, <3>2, <3>3, <3>4, BehindTwice DEF Showable
  <2> QED BY <2>1, <2>2
<1> QED BY <1>4, <1>5

(* Each unit of add, forward and back, turns the clock by as many          *)
(* microseconds.                                                           *)
LEMMA UnitTurns ==
    ASSUME NEW x, Showable(x), NEW unit \in TimeUnits
    PROVE  /\ Behind(x, Clock!Up(x, unit), MicrosPer(unit))
           /\ Behind(x, Clock!Down(x, unit), -MicrosPer(unit))
<1>1. CASE unit = "days"
  BY <1>1, DayTurns DEF Clock!Up, Clock!Down, MicrosPer
<1>2. CASE unit = "hours"
  BY <1>2, HourTurns DEF Clock!Up, Clock!Down, MicrosPer
<1>3. CASE unit = "minutes"
  BY <1>3, MinuteTurns DEF Clock!Up, Clock!Down, MicrosPer
<1>4. CASE unit = "seconds"
  BY <1>4, SecondTurns DEF Clock!Up, Clock!Down, MicrosPer
<1>5. CASE unit = "milliseconds"
  <2>1. MicrosPerMilli \in 1 .. MicrosPerSecond
    BY RadixAssumption DEF MicrosPerSecond
  <2> QED BY <1>5, <2>1, FractionTurns DEF Clock!Up, Clock!Down, MicrosPer
<1>6. CASE unit = "microseconds"
  <2>1. 1 \in 1 .. MicrosPerSecond
    BY Units
  <2> QED BY <1>6, <2>1, FractionTurns DEF Clock!Up, Clock!Down, MicrosPer
<1> QED BY <1>1, <1>2, <1>3, <1>4, <1>5, <1>6 DEF TimeUnits, Precisions

(* No unit is longer than a day.                                           *)
LEMMA UnitsAreParts ==
    ASSUME NEW unit \in TimeUnits
    PROVE  MicrosPer(unit) \in 1 .. MicrosPerDay
<1>1. /\ MicrosPerMilli \in Nat \ {0}
      /\ MicrosPerMilli <= MicrosPerSecond
      /\ 1 * MicrosPerSecond <= SecondsPerMinute * MicrosPerSecond
      /\ 1 * MicrosPerMinute <= MinutesPerHour * MicrosPerMinute
      /\ 1 * MicrosPerHour <= HoursPerDay * MicrosPerHour
  <2>1. 1 * MicrosPerMilli <= MillisPerSecond * MicrosPerMilli
    BY MulMonotone, RadixAssumption
  <2>2. 1 * MicrosPerSecond <= SecondsPerMinute * MicrosPerSecond
    BY MulMonotone, RadixAssumption, Units
  <2>3. 1 * MicrosPerMinute <= MinutesPerHour * MicrosPerMinute
    BY MulMonotone, RadixAssumption, Units
  <2>4. 1 * MicrosPerHour <= HoursPerDay * MicrosPerHour
    BY MulMonotone, RadixAssumption, Units
  <2> QED BY <2>1, <2>2, <2>3, <2>4, RadixAssumption DEF MicrosPerSecond
<1>2. /\ MicrosPerSecond <= MicrosPerMinute /\ MicrosPerMinute <= MicrosPerHour
      /\ MicrosPerHour <= MicrosPerDay
  <2>1. /\ MicrosPerMinute = SecondsPerMinute * MicrosPerSecond
        /\ MicrosPerHour = MinutesPerHour * MicrosPerMinute
        /\ MicrosPerDay = HoursPerDay * MicrosPerHour
    BY DEF MicrosPerMinute, MicrosPerHour, MicrosPerDay
  <2> QED BY <1>1, <2>1, Units
<1> QED BY <1>1, <1>2, Units DEF TimeUnits, Precisions, MicrosPer

(* One unit added to or taken from an instant from 1970 on: the sum is the *)
(* number of the moment the clock turns to, and add returns it exactly     *)
(* when the clock can show that moment.                                    *)
LEMMA OneUnitTurnsTheClock ==
    ASSUME (LastDay + 2) * MicrosPerDay <= Int64Max,
           NEW m \in JulianPeriod, m >= 0,
           NEW value \in {1, -1}, NEW unit \in TimeUnits
    PROVE  LET there == Clock!Turned(Shown(m), value, unit)
           IN  /\ Clock!InCalendar(there) => add(m, value, unit) = Ok(Number(there))
               /\ ~Clock!InCalendar(there) =>
                     add(m, value, unit).error = "OutsideJulianPeriod"
               /\ Number(there) >= 0 => Shown(Number(there)) = there
<1> DEFINE x     == Shown(m)
           there == Clock!Turned(x, value, unit)
           k     == MicrosPer(unit)
           D     == MicrosPerDay
<1>1. k \in 1 .. D /\ D \in Nat \ {0} /\ m \in Int
  BY UnitsAreParts, Units DEF JulianPeriod
<1>2. Showable(x) /\ Number(x) = m
  BY ShownIsShowable
<1>3. Proper(there) /\ Number(there) = m + value * k
  <2> HIDE DEF x, k
  <2>1. Behind(x, Clock!Up(x, unit), k) /\ Behind(x, Clock!Down(x, unit), -k)
    BY <1>2, UnitTurns DEF k
  <2>2. CASE value = 1
    <3>1. there = Clock!Up(x, unit)
      BY <2>2 DEF Clock!Turned
    <3> HIDE DEF there
    <3> QED BY <1>1, <1>2, <2>1, <2>2, <3>1 DEF Behind
  <2>3. CASE value = -1
    <3>1. there = Clock!Down(x, unit)
      BY <2>3 DEF Clock!Turned
    <3> HIDE DEF there
    <3> QED BY <1>1, <1>2, <2>1, <2>3, <3>1 DEF Behind
  <2> QED BY <2>2, <2>3
<1> HIDE DEF x, there
<1>4. add(m, value, unit) = fromUnix(Number(there), "microseconds")
  <2>1. m <= (LastDay + 1) * D - 1
    BY DEF JulianPeriod, InRange, PerDay, D
  <2>2. LastDay \in Int
    BY DaysOfThePeriod
  <2>3. (LastDay + 2) * D = (LastDay + 1) * D + D /\ (LastDay + 1) * D \in Int
    BY <1>1, <2>2
  <2> DEFINE p == value * k
             l == (LastDay + 1) * D
  <2>4. p \in Int /\ -D <= p /\ p <= D
    BY <1>1
  <2> HIDE DEF p, l
  <2>5. m <= l - 1 /\ l + D <= Int64Max /\ l \in Int /\ Int64Max \in Nat
    BY <2>1, <2>3, InputAssumption DEF l, D
  <2>6. FitsInt64(p) /\ FitsInt64(m + p)
    BY <1>1, <2>4, <2>5 DEF FitsInt64
  <2>7. add(m, value, unit) = fromUnix(m + p, "microseconds")
    BY <2>6 DEF add, p
  <2> QED BY <1>3, <2>7 DEF p
<1>5. Clock!InCalendar(there) <=> YearAccepted(there.date)
  BY <1>3, ClockHasTheCalendar DEF Clock!InCalendar, Proper, YearAccepted
<1> QED BY <1>3, <1>4, <1>5, ProperIsShown DEF there, x

(* What a display may rely on.                                             *)
DisplayInv == TypeOK /\ InWindows(micros) /\ shown = Shown(micros)

(* A program that shows its instant is one that holds it.                  *)
LEMMA DisplayIsADateTime == DisplaySpec => Spec
<1>1. DisplayInit => Init
  BY DEF DisplayInit
<1>2. [DisplayNext]_<<vars, shown>> => [Next]_vars
  BY DEF DisplayNext
<1> QED BY <1>1, <1>2, PTL DEF DisplaySpec, Spec

LEMMA DisplayShows == DisplaySpec => []DisplayInv
<1>1. DisplayInit => shown = Shown(micros)
  BY DEF DisplayInit
<1>2. shown = Shown(micros) /\ [DisplayNext]_<<vars, shown>>
        => (shown = Shown(micros))'
  <2> SUFFICES ASSUME shown = Shown(micros), [DisplayNext]_<<vars, shown>>
               PROVE  shown' = Shown(micros')
    OBVIOUS
  <2>1. CASE DisplayNext
    BY <2>1 DEF DisplayNext
  <2>2. CASE UNCHANGED <<vars, shown>>
    BY <2>2 DEF vars
  <2> QED BY <2>1, <2>2
<1> QED BY <1>1, <1>2, DisplayIsADateTime, TypeCorrect, AlwaysInAWindow, PTL
        DEF DisplaySpec, DisplayInv

(* Every moment a display shows from 1970 on is one of the calendar.       *)
LEMMA ShownInCalendar ==
    ASSUME \A w \in Windows : w[1] >= 0, TypeOK, InWindows(micros)
    PROVE  Clock!InCalendar(Shown(micros))
<1>1. Showable(Shown(micros))
  BY Since1970, ShownIsShowable
<1> QED BY <1>1, ClockHasTheCalendar DEF Showable, Proper, Clock!InCalendar

(* After a call that succeeds, a moment of the calendar is shown; after    *)
(* one that fails, the same as before.                                     *)
LEMMA KeepShows ==
    ASSUME \A w \in Windows : w[1] >= 0, DisplayInv, DisplayInv',
           NEW r, Keep(r)
    PROVE  /\ r.error = "none" => /\ micros' = r.micros /\ shown' = Shown(r.micros)
                                  /\ r.micros \in Int /\ r.micros >= 0
                                  /\ Clock!InCalendar(shown')
           /\ r.error # "none" => shown' = shown
<1>1. shown = Shown(micros) /\ shown' = Shown(micros')
  BY DEF DisplayInv
<1>2. ASSUME r.error = "none"
      PROVE  /\ micros' = r.micros /\ micros' \in Int /\ micros' >= 0
             /\ Clock!InCalendar(shown')
  <2>1. micros' = r.micros
    BY <1>2 DEF Keep
  <2>2. (micros \in Int /\ micros >= 0)'
    BY InputAssumption DEF DisplayInv, TypeOK, JulianPeriod, InWindows
  <2>3. Clock!InCalendar(Shown(micros))'
    <3>1. TypeOK' /\ InWindows(micros)'
      BY DEF DisplayInv
    <3> QED BY <3>1, ShownInCalendar, PTL
  <2> QED BY <1>1, <2>1, <2>2, <2>3
<1>3. r.error # "none" => micros' = micros
  BY DEF Keep
<1> QED BY <1>1, <1>2, <1>3

(* A unit more or less moves the clock, or leaves it as it was; more at    *)
(* once is a leap.                                                         *)
LEMMA AddIsMoveOrLeap ==
    ASSUME \A w \in Windows : w[1] >= 0, (LastDay + 2) * MicrosPerDay <= Int64Max,
           DisplayInv, DisplayInv', NEW in \in AddInputs, Add(in[1], in[2])
    PROVE  Clock!Move \/ Clock!Leap
<1> DEFINE value == in[1]
           unit  == in[2]
           r     == add(micros, value, unit)
<1>1. value \in Int /\ unit \in TimeUnits
  BY InputAssumption
<1>2. /\ micros \in JulianPeriod /\ micros \in Int /\ micros >= 0
      /\ shown = Shown(micros) /\ shown' = Shown(micros')
  BY Since1970 DEF DisplayInv
<1>3. Keep(r) /\ call'.op = "add" /\ call'.value = value /\ call'.unit = unit
        /\ call'.error = r.error
  BY DEF Add, Called
<1>4. ASSUME r.error = "none"
      PROVE  /\ micros' = r.micros /\ micros' \in Int /\ micros' >= 0
             /\ Clock!InCalendar(shown')
  <2> HIDE DEF r
  <2> QED BY <1>3, <1>4, KeepShows
<1>5. ASSUME r.error # "none" PROVE shown' = shown
  <2> HIDE DEF r
  <2> QED BY <1>3, <1>5, KeepShows
<1>6. CASE value \in {1, -1}
  <2> DEFINE there == Clock!Turned(shown, value, unit)
  <2>1. /\ Clock!InCalendar(there) => r = Ok(Number(there))
        /\ ~Clock!InCalendar(there) => r.error = "OutsideJulianPeriod"
        /\ Number(there) >= 0 => Shown(Number(there)) = there
    <3> HIDE DEF value, unit
    <3> QED BY <1>1, <1>2, <1>6, OneUnitTurnsTheClock
  <2> HIDE DEF r
  <2>2. CASE Clock!InCalendar(there)
    <3>1. r.error = "none" /\ r.micros = Number(there)
      BY <2>1, <2>2 DEF Ok
    <3>2. micros' = Number(there) /\ micros' >= 0
      BY <1>4, <3>1
    <3>3. shown' = there
      BY <1>2, <2>1, <3>2
    <3> QED BY <1>3, <1>6, <2>2, <3>1, <3>3 DEF Clock!Move
  <2>3. CASE ~Clock!InCalendar(there)
    <3>1. r.error = "OutsideJulianPeriod" /\ shown' = shown
      BY <1>5, <2>1, <2>3
    <3> QED BY <1>3, <1>6, <2>3, <3>1 DEF Clock!Move
  <2> QED BY <2>2, <2>3
<1>7. CASE value \notin {1, -1}
  <2> HIDE DEF r
  <2> QED BY <1>3, <1>4, <1>5, <1>7 DEF Clock!Leap
<1> QED BY <1>6, <1>7

(* The fields initUTC accepts are the ones the clock can show, and are     *)
(* shown as they were given.                                               *)
LEMMA InitUTCSetsTheClock ==
    ASSUME \A w \in Windows : w[1] >= 0, DisplayInv, DisplayInv',
           NEW in \in FieldInputs, InitUTC(in.date, in.time)
    PROVE  Clock!SetFields
<1> DEFINE d == in.date
           t == in.time
           x == [date |-> d, time |-> t]
           r == initUTC(d, t)
<1>1. d \in DateFields /\ t \in TimeFields
  BY InputAssumption
<1>2. Keep(r) /\ call'.op = "initUTC" /\ call'.date = d /\ call'.time = t
        /\ call'.error = r.error
  BY DEF InitUTC, Called
<1>3. Clock!InCalendar(x) <=> DateValid(d) /\ TimeValid(t) /\ YearAccepted(d)
  BY ClockHasTheCalendar DEF Clock!InCalendar, YearAccepted
<1>4. CASE Clock!InCalendar(x)
  <2>1. r = Ok(Number(x))
    BY <1>1, <1>3, <1>4, CallsOfInitUTC DEF Number
  <2>2. Proper(x)
    <3>1. Counted(d)
      <4>1. d.year \in Int /\ d.year >= -4712
        BY <1>1, <1>3, <1>4 DEF DateFields, I16, YearAccepted, FirstYear
      <4>2. Carry(d) \in {0, 1}
        BY DEF Carry
      <4> HIDE DEF d
      <4> QED BY <4>1, <4>2, SMTT(30) DEF Counted
    <3> QED BY <1>1, <1>3, <1>4, <3>1 DEF Proper, Moments
  <2> HIDE DEF x, r
  <2>3. r.error = "none" /\ r.micros = Number(x)
    BY <2>1 DEF Ok
  <2>4. shown' = Shown(Number(x)) /\ Number(x) >= 0
    BY <1>2, <2>3, KeepShows
  <2>5. shown' = x
    BY <2>2, <2>4, ProperIsShown
  <2> QED BY <1>2, <1>4, <2>3, <2>5 DEF Clock!SetFields, x
<1>5. CASE ~Clock!InCalendar(x)
  <2>1. r.error # "none"
    BY <1>1, <1>3, <1>5, CallsOfInitUTC
  <2> HIDE DEF r
  <2>2. shown' = shown
    BY <1>2, <2>1, KeepShows
  <2> QED BY <1>2, <1>5, <2>1, <2>2 DEF Clock!SetFields
<1> QED BY <1>4, <1>5

(* A program that keeps to instants from 1970 on and shows its instant     *)
(* after every call is a civil clock: date() and time() turn every carry   *)
(* of the calendar the way add counts microseconds, whatever the units of  *)
(* the day are, as long as a sum fits the i64.                             *)
THEOREM DisplaysAreCivilClocks ==
    ASSUME \A w \in Windows : w[1] >= 0, (LastDay + 2) * MicrosPerDay <= Int64Max
    PROVE  DisplaySpec => ImplementsCivilClock
<1>1. DisplayInv /\ DisplayInit => Clock!Init
  <2> SUFFICES ASSUME DisplayInv, DisplayInit PROVE Clock!Init
    OBVIOUS
  <2>1. Clock!InCalendar(shown)
    BY ShownInCalendar DEF DisplayInv
  <2>2. call.error = "none"
    BY DEF DisplayInit, Init, Called
  <2> QED BY <2>1, <2>2 DEF Clock!Init
<1>2. DisplayInv /\ DisplayInv' /\ [DisplayNext]_<<vars, shown>>
        => [Clock!Next]_<<shown, call>>
  <2> SUFFICES ASSUME DisplayInv, DisplayInv', [DisplayNext]_<<vars, shown>>
               PROVE  [Clock!Next]_<<shown, call>>
    OBVIOUS
  <2>1. ASSUME NEW in \in UnixInputs, FromUnix(in[1], in[2]) PROVE Clock!SetUnix
    <3> DEFINE r == fromUnix(in[1], in[2])
    <3>1. Keep(r) /\ call'.op = "fromUnix" /\ call'.error = r.error
      BY <2>1 DEF FromUnix, Called
    <3> HIDE DEF r
    <3> QED BY <3>1, KeepShows DEF Clock!SetUnix
  <2>2. ASSUME NEW in \in FieldInputs, InitUTC(in.date, in.time)
        PROVE  Clock!SetFields
    BY <2>2, InitUTCSetsTheClock
  <2>3. ASSUME NEW in \in AddInputs, Add(in[1], in[2])
        PROVE  Clock!Move \/ Clock!Leap
    BY <2>3, AddIsMoveOrLeap
  <2>4. ASSUME NEW reading \in ClockReadings, Now(reading) PROVE Clock!SetUnix
    <3> DEFINE r == Ok(reading)
    <3>1. Keep(r) /\ call'.op = "now" /\ call'.error = "none"
      BY <2>4 DEF Now, Called
    <3>2. r.error = "none"
      BY DEF Ok
    <3> HIDE DEF r
    <3> QED BY <3>1, <3>2, KeepShows DEF Clock!SetUnix
  <2>5. CASE UNCHANGED <<vars, shown>>
    BY <2>5 DEF vars
  <2> QED BY <2>1, <2>2, <2>3, <2>4, <2>5 DEF DisplayNext, Next, Clock!Next
<1> QED BY <1>1, <1>2, DisplayShows, PTL
        DEF DisplaySpec, ImplementsCivilClock, Clock!Spec
=============================================================================
