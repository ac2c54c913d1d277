----------------------------- MODULE MCRfc3339 -----------------------------
(***************************************************************************)
(* Instances of Rfc3339 for TLC: the texts are accepted ones and all that  *)
(* differ from them in one character.  A milli has one digit, so that a    *)
(* fraction has at most three digits that count and a usize holds five.    *)
(* A day has two hours of one minute of three seconds: TLC can count the   *)
(* instants of the whole period in 32 bits.                                *)
(***************************************************************************)
EXTENDS Rfc3339, SequencesExt

Chars(s) == [i \in 1 .. Len(s) |-> SubSeq(s, i, i)]

Alphabet == {"0", "1", "2", "9", "-", "T", ":", ".", "Z", "+", "x"}

TextCharacters == Alphabet \cup Digits

Edits(t) ==
    {t} \cup {RemoveAt(t, i) : i \in DOMAIN t}
        \cup {ReplaceAt(t, i, c) : i \in DOMAIN t, c \in Alphabet}
        \cup {InsertAt(t, i, c) : i \in 1 .. Len(t) + 1, c \in Alphabet}

DateTexts == {"2023-09-22", "-0004-12-31", "20240229", "-00010203", "1900-02-28"}
TimeTexts == {"01:00", "01:00:02", "00:00:00.1", "00:00:02.912", "01:00:01.00000"}

DateTimeTexts ==
    {"-4712-01-01T00:00Z", "-4713-12-31T00:00Z", "9999-12-31T01:00:02.99Z",
     "1969-12-31T01:00:02Z", "1969-12-27T01:00:02.5Z", "20000229T01:00:00.987+00:00",
     "0001-02-03T01:00-00:00", "2023-01-02T00:00:01+01:00",
     "2000-02-29T00:00:00.1000000Z"}

EditsOf(k, strings) == {k} \X UNION {Edits(Chars(s)) : s \in strings}
CutsOf(k, strings)  == {k} \X UNION {Prefixes(Chars(s)) : s \in strings}

(* A late DateTime (DateIsLate) moves by a day each time it is written,    *)
(* until 1970: of these only the ones of the last DaysOfDrift days.        *)
DaysOfDrift == 900

DriftsForLong(t) ==
    /\ t[1] = "datetime"
    /\ \E f \in Readings("datetime", t[2]) :
          /\ DateIsLate(Instant(f))
          /\ Instant(f) < -DaysOfDrift * MicrosPerDay

NearTexts ==
    {t \in UNION {EditsOf("date", DateTexts), CutsOf("date", DateTexts),
                  EditsOf("time", TimeTexts), CutsOf("time", TimeTexts),
                  EditsOf("datetime", DateTimeTexts), CutsOf("datetime", DateTimeTexts)} :
        ~DriftsForLong(t)}

NoValues == {}

F(neg, y, m, d, h, mi, s, u) ==
    [negative |-> neg, year |-> y, month |-> m, day |-> d,
     hour |-> h, min |-> mi, sec |-> s, micros |-> u]

DateValues == {f \in {F(neg, y, m, d, 0, 0, 0, 0) :
                         neg \in BOOLEAN, y \in {0, 1, 4, 99, 100, 1900, 2000, 9999},
                         m \in {1, 2, 9, 10, 12}, d \in {1, 9, 10, 28, 29, 30, 31}} :
                  DateValid(DateOf(f)) /\ (f.negative => f.year > 0)}

TimeValues == {F(FALSE, 0, 0, 0, h, mi, s, u) :
                  h \in 0 .. HoursPerDay - 1, mi \in 0 .. MinutesPerHour - 1,
                  s \in 0 .. SecondsPerMinute - 1, u \in 0 .. MicrosPerSecond - 1}

(* Pairs of them that are DateTimes: those that stay where they are, and   *)
(* three that move over the end of a February and of a year.               *)
At(d, t) == [d EXCEPT !.hour = t.hour, !.min = t.min, !.sec = t.sec, !.micros = t.micros]

LateValues == {F(FALSE, y, 2, 27, 1, 0, 2, 99) : y \in {1968, 1969}}
                \cup {F(FALSE, 1969, 12, 31, 1, 0, 2, 1)}

DateTimeValues ==
    {f \in {At(d, t) : d \in {f \in DateValues : Year(f) >= FirstYear /\ f.month \in {1, 12}
                                                   /\ f.day \in {1, 31}},
                       t \in {f \in TimeValues : f.hour = 1}} :
        ~DateIsLate(Instant(f))} \cup LateValues

ValidValues == {"date"} \X DateValues \cup {"time"} \X TimeValues
                  \cup {"datetime"} \X DateTimeValues
=============================================================================
