------------------------------ MODULE Rfc3339 ------------------------------
(***************************************************************************)
(* Reading and writing dates and times as text, in datetime.zig: the       *)
(* struct Parser, the three parse functions that use it, and writeDate and *)
(* writeTime, which the JSON and format functions use.                     *)
(*                                                                         *)
(* The parser is a state machine over a text: each step takes a number of  *)
(* so many digits, or looks at the next character.  A program reads a text *)
(* and, if it was accepted, writes what it has read and reads it again.    *)
(*                                                                         *)
(* A character is a string of length one.  What is read of a DateTime are  *)
(* the fields that parseRFC3339 gives to initUTC, which makes an instant   *)
(* of them; what is written of it are the date and the time of the         *)
(* instant, which are not always these fields (DateIsLate in Instants).    *)
(***************************************************************************)
EXTENDS Instants, Decimals, FiniteSetsExt

CONSTANTS Characters,     \* what texts are made of: 256 of them in the code
          PrefixDigits,   \* digits of a milli: 3; a TLC instance has fewer
          UsizeMax,       \* largest usize: 2^64 - 1 in the code
          Builds,         \* whether reads are checked: a subset of BOOLEAN
          Texts,          \* <<kind, text>> the program may find
          Values          \* <<kind, fields>> the program may write

Kinds == {"date", "time", "datetime"}

FieldNames == {"year", "month", "day", "hour", "min", "sec", "micros"}

(* The year of a text has four digits and a sign of its own. *)
Years  == 0 .. 9999
Fields == [negative : BOOLEAN, year : Years, month : Nat, day : Nat,
           hour : Nat, min : Nat, sec : Nat, micros : Nat]

NoFields == [negative |-> FALSE, year |-> 0, month |-> 0, day |-> 0,
             hour |-> 0, min |-> 0, sec |-> 0, micros |-> 0]

Year(f) == IF f.negative THEN -f.year ELSE f.year

DateOf(f) == [year |-> Year(f), month |-> f.month, day |-> f.day]
TimeOf(f) == [hour |-> f.hour, min |-> f.min, sec |-> f.sec, micros |-> f.micros]

(* The instant initUTC makes of the fields of a DateTime, and the fields   *)
(* of the date and the time of an instant.                                 *)
Instant(f) == InstantOf(DateOf(f), TimeOf(f))

FieldsAt(m) ==
    LET d == date(m)
        t == time(m)
    IN  [negative |-> d.year < 0, year |-> IF d.year < 0 THEN -d.year ELSE d.year,
         month |-> d.month, day |-> d.day,
         hour |-> t.hour, min |-> t.min, sec |-> t.sec, micros |-> t.micros]

(* What a program may write that it can read again. *)
Writable(k, f) ==
    /\ IF k = "time" THEN DateOf(f) = DateOf(NoFields) ELSE DateValid(DateOf(f))
    /\ IF k = "date" THEN TimeOf(f) = TimeOf(NoFields) ELSE TimeValid(TimeOf(f))
    /\ k = "datetime" => Year(f) >= FirstYear

ASSUME TextAssumption ==
    /\ Digits \cup {"-", "T", ":", ".", "Z", "+"} \subseteq Characters
    /\ {HoursPerDay, MinutesPerHour, SecondsPerMinute} \subseteq 1 .. Power10[2]
    /\ PrefixDigits \in Nat \ {0}
    /\ MillisPerSecond = Power10[PrefixDigits]
    /\ MicrosPerMilli  = Power10[PrefixDigits]
    /\ UsizeMax \in Nat
    /\ Power10[3 * PrefixDigits] <= UsizeMax
    /\ Builds \subseteq BOOLEAN
    /\ Texts \subseteq Kinds \X Seq(Characters)
    /\ Values \subseteq Kinds \X Fields
    /\ \A v \in Values : Writable(v[1], v[2])
-----------------------------------------------------------------------------
(* The digits of a year beyond the fourth are overwritten by what follows. *)
WriteDate(f) ==
    (IF Year(f) < 0 THEN <<"-">> ELSE <<>>)
        \o SubSeq(Padded(4, f.year), 1, 4)
        \o <<"-">> \o Padded(2, f.month)
        \o <<"-">> \o Padded(2, f.day)

(* Mutant of WriteFraction: the zeros in front of the digits are missing.  *)
WriteFraction_Unpadded(micros) ==
    IF micros = 0 THEN <<>> ELSE <<".">> \o Padded(1, micros)

WriteFraction(micros) ==
    IF micros = 0 THEN <<>>
    ELSE IF micros % MicrosPerMilli = 0
      THEN <<".">> \o Padded(PrefixDigits, micros \div MicrosPerMilli)
    ELSE <<".">> \o Padded(2 * PrefixDigits, micros)

WriteTime(f) ==
    Padded(2, f.hour) \o <<":">> \o Padded(2, f.min)
        \o <<":">> \o Padded(2, f.sec) \o WriteFraction(f.micros)

(* A DateTime is written from its instant. *)
bufWrite(m) ==
    WriteDate(FieldsAt(m)) \o <<"T">> \o WriteTime(FieldsAt(m)) \o <<"Z">>

Write(kind, f) ==
    CASE kind = "date"     -> WriteDate(f)
      [] kind = "time"     -> WriteTime(f)
      [] kind = "datetime" -> bufWrite(Instant(f))
-----------------------------------------------------------------------------
VARIABLES checked,  \* a build that checks its reads and its arithmetic
          kind,     \* what the program expects the text to be
          text,     \* the text
          written,  \* <<the fields it was written from>>, if the program wrote it
          pos,      \* what the parser has consumed
          room,     \* what was unconsumed when the date or the time began
          fields,   \* the numbers read so far
          next,     \* what the parser does next
          outcome   \* the error of the parse, "none", or "panic"

vars == <<checked, kind, text, written, pos, room, fields, next, outcome>>

Unconsumed == Len(text) - pos
Rest       == SubSeq(text, pos + 1, Len(text))

(* What the parser may see when it looks for a character: peek and         *)
(* consumeIf do not check that there is one.  Without the bounds check of  *)
(* a safe build they compare whatever is stored behind the text.           *)
Sees(c)   == pos < Len(text) => text[pos + 1] = c
Misses(c) == pos < Len(text) => text[pos + 1] # c

(* Mutant of Blind: the reads of a safe build are not checked either. *)
Blind_Never == FALSE

Blind == pos >= Len(text) /\ checked

Start(k, t, origin) ==
    /\ checked \in Builds
    /\ kind = k
    /\ text = t
    /\ written = origin
    /\ pos = 0
    /\ room = Len(t)
    /\ fields = NoFields
    /\ next = IF k = "time" THEN "hour" ELSE "sign"
    /\ outcome = "pending"

Init == \/ \E t \in Texts  : Start(t[1], t[2], <<>>)
        \/ \E v \in Values : Start(v[1], Write(v[1], v[2]), <<v[2]>>)

Go(step, p, f) ==
    /\ next' = step
    /\ pos' = p
    /\ fields' = f
    /\ UNCHANGED <<checked, kind, text, written, room, outcome>>

End(error) ==
    /\ next' = "end"
    /\ outcome' = error
    /\ UNCHANGED <<checked, kind, text, written, pos, room, fields>>

(* consumeIf: go on behind the character, or where it is not.              *)
Look(c, found, missing) ==
    IF Blind THEN End("panic")
    ELSE \/ Sees(c) /\ found
         \/ Misses(c) /\ missing

(* paddedInt: a number of exactly so many digits. *)
HasNumber(size) == /\ size <= Unconsumed
                   /\ \A i \in 1 .. size : Rest[i] \in Digits

Take(size, field, step, error) ==
    IF HasNumber(size)
      THEN Go(step, pos + size,
              [fields EXCEPT ![field] = Number(SubSeq(Rest, 1, size))])
      ELSE End(error)
-----------------------------------------------------------------------------
(* iso8601Date *)

Sign ==
    /\ next = "sign"
    /\ IF room < 8 THEN End("InvalidDate")
       ELSE Look("-", Go("year", pos + 1, [fields EXCEPT !.negative = TRUE]),
                      Go("year", pos, fields))

TakeYear == next = "year" /\ Take(4, "year", "dash", "InvalidDate")

FirstDash ==
    /\ next = "dash"
    /\ Look("-", IF room < 10 THEN End("InvalidDate")
                 ELSE Go("month with dashes", pos + 1, fields),
                 Go("month", pos, fields))

TakeMonth ==
    \/ next = "month" /\ Take(2, "month", "no dash", "InvalidDate")
    \/ next = "month with dashes" /\ Take(2, "month", "second dash", "InvalidDate")

SecondDash ==
    \/ next = "no dash" /\ Look("-", End("InvalidDate"), Go("day", pos, fields))
    \/ next = "second dash" /\ Look("-", Go("day", pos + 1, fields), End("InvalidDate"))

TakeDay == next = "day" /\ Take(2, "day", "date", "InvalidDate")

(* Mutant of TakeDate: nothing may follow a date by itself is not checked. *)
TakeDate_MayBeFollowed ==
    /\ next = "date"
    /\ IF ~DateValid(DateOf(fields)) THEN End("InvalidDate")
       ELSE IF kind = "date" THEN End("none")
       ELSE IF Year(fields) < FirstYear THEN End("OutsideJulianPeriod")
       ELSE Go("T", pos, fields)

(* Date.init, and what the callers do with the date. *)
TakeDate ==
    /\ next = "date"
    /\ IF ~DateValid(DateOf(fields)) THEN End("InvalidDate")
       ELSE IF kind = "date"
         THEN End(IF Unconsumed = 0 THEN "none" ELSE "InvalidDate")
       ELSE IF Year(fields) < FirstYear \/ Year(fields) > LastYear
         THEN End("OutsideJulianPeriod")
       ELSE Go("T", pos, fields)

LetterT ==
    /\ next = "T"
    /\ Look("T", Go("begin time", pos + 1, fields), End("InvalidDateTime"))

BeginTime ==
    /\ next = "begin time"
    /\ next' = "hour"
    /\ room' = Unconsumed
    /\ UNCHANGED <<checked, kind, text, written, pos, fields, outcome>>
-----------------------------------------------------------------------------
(* time.  A text that ends behind the minutes or the seconds is seen from  *)
(* the number of characters there were.                                    *)

TakeHour ==
    /\ next = "hour"
    /\ IF 0 <= room /\ room < 5 THEN End("InvalidTime")
       ELSE Take(2, "hour", "colon", "InvalidTime")

FirstColon ==
    /\ next = "colon"
    /\ Look(":", Go("minute", pos + 1, fields), End("InvalidTime"))

TakeMinute == next = "minute" /\ Take(2, "min", "second colon", "InvalidTime")

(* Mutant of SecondColon: the end of the text is not seen. *)
SecondColon_AtTheEnd ==
    /\ next = "second colon"
    /\ Look(":", Go("second", pos + 1, fields), Go("time", pos, fields))

SecondColon ==
    /\ next = "second colon"
    /\ IF room = 5 THEN Go("time", pos, fields)
       ELSE Look(":", Go("second", pos + 1, fields), Go("time", pos, fields))

TakeSecond == next = "second" /\ Take(2, "sec", "dot", "InvalidTime")

Dot ==
    /\ next = "dot"
    /\ IF room = 8 THEN Go("time", pos, fields)
       ELSE Look(".", Go("fraction", pos + 1, fields), Go("time", pos, fields))

(* nanoseconds: all the digits there are, at most nine.  The number is     *)
(* computed before they are counted.                                       *)
FractionDigits ==
    CHOOSE n \in 0 .. Len(Rest) : /\ \A i \in 1 .. n : Rest[i] \in Digits
                                  /\ n < Len(Rest) => Rest[n + 1] \notin Digits

NanoDigits == 3 * PrefixDigits

(* Mutant of TakeFraction: the digits are taken for microseconds. *)
TakeFraction_Micros ==
    LET n == FractionDigits
    IN  /\ next = "fraction"
        /\ Go("time", pos + n, [fields EXCEPT !.micros = Number(SubSeq(Rest, 1, n))])

TakeFraction ==
    LET n     == FractionDigits
        value == Number(SubSeq(Rest, 1, n))
    IN  /\ next = "fraction"
        /\ IF Rest = <<>> THEN End("InvalidTime")
           ELSE IF checked /\ value > UsizeMax THEN End("panic")
           ELSE IF n > NanoDigits THEN End("InvalidTime")
           ELSE Go("time", pos + n,
                   [fields EXCEPT !.micros =
                      (value * Power10[NanoDigits - n]) \div Power10[PrefixDigits]])

(* Time.init, and what the callers do with the time. *)
TakeTime ==
    /\ next = "time"
    /\ IF ~TimeValid(TimeOf(fields)) THEN End("InvalidTime")
       ELSE IF kind = "time"
         THEN End(IF Unconsumed = 0 THEN "none" ELSE "InvalidTime")
       ELSE Go("suffix", pos, fields)

(* What initUTC says of the fields. *)
OfInitUTC == initUTCIn(checked, DateOf(fields), TimeOf(fields)).error

(* The end of parseRFC3339: behind the suffix initUTC has the last word.   *)
Suffix ==
    /\ next = "suffix"
    /\ CASE Unconsumed = 1 -> End(IF Rest = <<"Z">> THEN OfInitUTC
                                                    ELSE "InvalidDateTime")
         [] Unconsumed = 6 -> End(IF Rest[1] \notin {"+", "-"}
                                    THEN "InvalidDateTime"
                                  ELSE IF Tail(Rest) = <<"0", "0", ":", "0", "0">>
                                    THEN OfInitUTC
                                  ELSE "NonUTCNotSupported")
         [] OTHER -> End("InvalidDateTime")

(* The program writes what it has read: a DateTime from its instant. *)
WriteBack ==
    /\ next = "end"
    /\ outcome = "none"
    /\ LET t == Write(kind, fields)
       IN  /\ text' = t
           /\ written' = <<fields>>
           /\ pos' = 0
           /\ room' = Len(t)
           /\ fields' = NoFields
           /\ next' = IF kind = "time" THEN "hour" ELSE "sign"
           /\ outcome' = "pending"
           /\ UNCHANGED <<checked, kind>>

Next ==
    \/ Sign \/ TakeYear \/ FirstDash \/ TakeMonth \/ SecondDash \/ TakeDay
    \/ TakeDate \/ LetterT \/ BeginTime
    \/ TakeHour \/ FirstColon \/ TakeMinute \/ SecondColon \/ TakeSecond
    \/ Dot \/ TakeFraction \/ TakeTime \/ Suffix
    \/ WriteBack

Spec == Init /\ [][Next]_vars
-----------------------------------------------------------------------------
(* What the texts should look like: the forms of a date and of a time,     *)
(* with the name of a field in place of each of its digits.                *)

DateForms ==
    {<<"year", "year", "year", "year", "month", "month", "day", "day">>,
     <<"year", "year", "year", "year", "-", "month", "month", "-", "day", "day">>,
     <<"-", "year", "year", "year", "year", "month", "month", "day", "day">>,
     <<"-", "year", "year", "year", "year", "-", "month", "month", "-", "day", "day">>}

Minutes == <<"hour", "hour", ":", "min", "min">>
Seconds == <<"hour", "hour", ":", "min", "min", ":", "sec", "sec">>
WithFraction(n) == Seconds \o <<".">> \o [i \in 1 .. n |-> "micros"]

TimeForms(least) ==
    {Minutes, Seconds} \cup {WithFraction(n) : n \in least .. NanoDigits}

Zones == {<<"Z">>} \cup {<<sign, "0", "0", ":", "0", "0">> : sign \in {"+", "-"}}

HasForm(t, form) ==
    /\ Len(t) = Len(form)
    /\ \A i \in DOMAIN form :
          IF form[i] \in FieldNames THEN t[i] \in Digits ELSE t[i] = form[i]

(* The digits of a field in a text of such a form. *)
DigitsOf(field, t, form) ==
    LET places == {i \in DOMAIN form : form[i] = field}
    IN  IF places = {} THEN <<>> ELSE SubSeq(t, Min(places), Max(places))

NumberOf(field, t, form) == Number(DigitsOf(field, t, form))

(* The digits of a fraction are micros when there are 2 * PrefixDigits. *)
Cut(digits) ==
    SubSeq(digits \o [i \in 1 .. 2 * PrefixDigits |-> "0"], 1, 2 * PrefixDigits)

DateIn(t, form) ==
    [negative |-> form[1] = "-", year |-> NumberOf("year", t, form),
     month |-> NumberOf("month", t, form), day |-> NumberOf("day", t, form),
     hour |-> 0, min |-> 0, sec |-> 0, micros |-> 0]

TimeIn(t, form) ==
    [negative |-> FALSE, year |-> 0, month |-> 0, day |-> 0,
     hour |-> NumberOf("hour", t, form), min |-> NumberOf("min", t, form),
     sec |-> NumberOf("sec", t, form),
     micros |-> Number(Cut(DigitsOf("micros", t, form)))]

Both(d, u) ==
    [negative |-> d.negative, year |-> d.year, month |-> d.month, day |-> d.day,
     hour |-> u.hour, min |-> u.min, sec |-> u.sec, micros |-> u.micros]

(* The dates, the times and the DateTimes a text stands for. *)
Dates(t) ==
    {d \in {DateIn(t, form) : form \in {f \in DateForms : HasForm(t, f)}} :
        DateValid(DateOf(d))}

Times(t, least) ==
    {u \in {TimeIn(t, form) : form \in {f \in TimeForms(least) : HasForm(t, f)}} :
        TimeValid(TimeOf(u))}

(* The zone at the end of a text, and a T somewhere in front of it. *)
Cuts(t) ==
    {c \in {i \in DOMAIN t : t[i] = "T"} \X {Len(t) - 1, Len(t) - 6} :
        c[1] <= c[2] /\ SubSeq(t, c[2] + 1, Len(t)) \in Zones}

DateTimes(t) ==
    UNION {{Both(d, u) : d \in {d \in Dates(SubSeq(t, 1, c[1] - 1)) : Year(d) >= FirstYear},
                         u \in Times(SubSeq(t, c[1] + 1, c[2]), 0)} : c \in Cuts(t)}

Readings(k, t) ==
    CASE k = "date"     -> Dates(t)
      [] k = "time"     -> Times(t, 1)
      [] k = "datetime" -> DateTimes(t)

Ended == next = "end"
-----------------------------------------------------------------------------
Errors == {"InvalidDate", "InvalidTime", "InvalidDateTime",
           "OutsideJulianPeriod", "NonUTCNotSupported"}

(* The parser consumes no more than there is when its reads are checked,   *)
(* and one character more, at most, when they are not.                     *)
TypeOK ==
    /\ checked \in BOOLEAN
    /\ kind \in Kinds
    /\ text \in Seq(Characters)
    /\ pos \in 0 .. Len(text) + 1
    /\ checked => pos <= Len(text)
    /\ room = -1 \/ room \in 0 .. Len(text)
    /\ fields \in Fields
    /\ Ended => outcome \in Errors \cup {"none", "panic"}
    /\ ~Ended => outcome = "pending"

(* A text is accepted exactly when it is a date, a time or both of them in *)
(* UTC, with fields the calendar has: nothing is accepted that is cut off, *)
(* runs on, or mixes the two forms of a date.  A DateTime may have a dot   *)
(* without digits behind its seconds.                                      *)
AcceptsTheGrammar ==
    Ended => (outcome = "none" <=> Readings(kind, text) # {})

(* What is read from an accepted text are the numbers it stands for, the   *)
(* fraction of the second cut to microseconds, and it stands for nothing   *)
(* else.                                                                   *)
ReadsTheMeaning ==
    Ended /\ outcome = "none" => Readings(kind, text) = {fields}

(* A text the library has written reads back as what it was written from,  *)
(* however often it is read and written again; but a DateTime within the   *)
(* last second of a day before 1970 is a day later each time.              *)
WrittenReadsBack ==
    Ended /\ written # <<>> =>
        LET f == written[1]
        IN  /\ outcome = "none"
            /\ TimeOf(fields) = TimeOf(f)
            /\ IF kind = "datetime" /\ DateIsLate(Instant(f))
                 THEN Instant(fields) = Instant(f) + MicrosPerDay
                 ELSE DateOf(fields) = DateOf(f)

(* The parser looks past the end of a text only behind a date, where       *)
(* parseRFC3339 expects the time, and computes a number that is too large  *)
(* only from the digits of a fraction.                                     *)
PanicsOnlyAfterADateOrInAFraction ==
    outcome = "panic" =>
        \/ kind = "datetime" /\ \E form \in DateForms : HasForm(text, form)
        \/ Number(SubSeq(Rest, 1, FractionDigits)) > UsizeMax

(* peek and consumeIf assume that the caller has checked that there is a   *)
(* character left: no step looks past the end of the text.                 *)
LooksInsideTheText == outcome = "panic" => pos < Len(text)
=============================================================================
