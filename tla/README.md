# Verification of zmongo

zmongo is a Zig wrapper of the MongoDB C driver (`libmongoc`, `libbson`) with a
date and time library of its own. This directory holds TLA+ models of it, the
TLC configurations that check them, and proofs for TLAPS.

Paths below are relative to the repository (`src/datetime.zig`). In the
`source` fields of `PROJECT.json` they have one more `src/` in front.

## 1. The system

| part | state it keeps | operations | hard behaviour |
|---|---|---|---|
| `DateTime` (`src/datetime.zig`) | an `i64` count of microseconds | `fromUnix`, `initUTC`, `add`, `now`, `unix`, `date`, `time`, `order` | a calendar algorithm with signed division, cycles of 400, 100 and 4 years, and three widths of integers that may overflow |
| `Parser`, `writeDate`, `writeTime` (`src/datetime.zig`) | a text and a position | `parse` of a date, a time, a DateTime; `format`, `jsonStringify` | where the text ends: each look at a character has to be guarded by somebody |
| `BsonError` (`src/bson.zig`) | one `bson_error_t` for the process | `init`, `string`, and each call that may fail | who overwrites the message before it is read: threads, nested calls |
| `Bson` (`src/bson.zig`) | a pointer to a `bson_t` of the C library | `new`, `init`, `newFromJson`, `initFromJson`, appends, `appendDocumentBegin`/`End`, `destroy` | ownership: replies, children and cursors overwrite the `bson_t`, or the pointer, that `destroy` frees later |
| `WriteConcern` (`src/write-concern.zig`, `src/mongo.zig`) | a number `w` | `new`, `setW`, used by `Collection.insert` | what the number means on replica sets of different sizes, with members failing |
| `Cursor` (`src/cursor.zig`) | a pointer to a `mongoc_cursor_t` | `next`, `errorMessage`, `destroy` | lazy batches, a failure that looks like the end, documents that live until the next call |
| `Iter` (`src/bson.zig`) | a place in the data of a document | `init`, `next`, `find`, `iterUtf8`, `iterOid`, ... | what it points to may be gone: the next document, the next batch, an append |
| `Oid`, `Context` (`src/bson.zig`) | a context for each process: random bytes, the pid they were drawn for, a number that is counted up | `Oid.init`, `Context.new` | threads share a context, `fork` copies it, its numbers have three bytes in an id |
| `Collection` (`src/collection.zig`) | a pointer | `insert`, `insertOne`, `insertMany`, queries, commands, `countDocuments` | inserts that are cut off, get no answer and are repeated; replies and errors as out-parameters |
| `Client`, `Database`, `Uri` | a pointer each | commands, `ping` | replies and errors as out-parameters, no `destroy` |
| `Value`, `Json`, `ReadPrefs`, `Host` | a pointer each | conversions done by the C library | lifetime only |
| `mongo.init`, `mongo.cleanup` | none here | start and end of the C library | must be called once, in order |

The parts interact by calls. A program makes documents with `Bson` (dates go in
through `DateTime.unix(.milliseconds)` and `appendDateTime`), hands them with a
`BsonError` and a reply document to a `Collection` or a `Client`, and reads the
results through a `Cursor`, with an `Iter` over each document. A document that
is inserted without an id is given one by the C library, made as `Oid.init`
makes it. The only state shared between otherwise unrelated calls is the
variable `_err` of `BsonError` and the context ids are made with; the only
memory shared is that of a child document and its parent, and of a document,
the `Iter`s over it and its cursor.

The C library, the server and the replica set are not in the repository, except
for the headers. Where a property depends on them they are modelled as far as
the wrapper's use of them needs, and marked external in `PROJECT.json`.

What makes each part correct:

- **DateTime**: whatever the calls, the instant stays in the Julian period, its
  fields are a valid date and time, the fields identify the instant, later
  instants have later fields, and moving an instant by a unit shows what a
  calendar on the wall shows.
- **Texts**: the parser accepts the grammar and nothing else, reads what the
  text means, never looks outside of it, and reads back what is written.
- **Errors**: a call that failed is reported with its own message.
- **Documents**: nothing is freed twice, children write to a live buffer,
  and everything is freed.
- **Write concerns**: an acknowledged majority write survives elections, and a
  write is answered while a majority of the members is up.
- **Cursors**: a loop over `next` with `errorMessage` behind it returns all
  documents, in order, or reports that it did not; and what a program looks at
  through a `Bson`, an `Iter`, a text or an `Oid` is the document it was made
  of, until the cursor has moved on.
- **Ids**: two ids are the same only when all numbers have been used up between
  them, or a context that does not look at its pid was copied by a fork.
- **Inserts**: a document with an id of its own is stored once, however often a
  program tries again; a refusal of such a document means that it is there; and
  of a slice that was cut off the first documents are.

## 2. The modules

| module | models | proofs |
|---|---|---|
| `Calendar` | `Date.valid`, `Time.valid`, the two `order`s, and the units of a day | |
| `Instants` | the arithmetic of the struct `DateTime`: `fromUnix`, `initUTC`, `unix`, `date`, `time` | `InstantsProofs` |
| `DateTime` | the struct `DateTime`: one action per call | `DateTimeProofs` |
| `CivilClock` | abstract specification of `DateTime`: a clock that is turned | |
| `DateTimeDisplay` | `DateTime` with the refinement mapping to `CivilClock` | `DateTimeProofs` |
| `Decimals` | numbers as digits: what the parser counts up and the writers pad | `Rfc3339Proofs` |
| `Rfc3339` | the parser, step by step, and what is written: a date, a time, or those of an `Instants` instant | `Rfc3339Proofs` |
| `BsonError` | the place an error is kept, and threads that make calls | `BsonErrorProofs` |
| `Documents` | the memory of the documents of a scope, and of a cursor in it | `DocumentsProofs` |
| `QueryCursor` | a query in batches, and the loop of a program over it | `CursorProofs` |
| `Query` | abstract specification of `QueryCursor`: documents in order and an honest answer | |
| `CursorViews` | `QueryCursor` with what the program looks at in the loop | `CursorProofs` |
| `ObjectIds` | the contexts of processes and the ids their threads make | `InsertsProofs` |
| `Inserts` | `ObjectIds` with threads that insert, a network that loses, and a server | `InsertsProofs` |
| `WriteConcern` | the levels, `insert`, and a replica set with crashes and elections | `WriteConcernProofs` |
| `MC*` | inputs and symmetry of the runs | |

### Instants and DateTime

`Instants` has the operators without state, which both `DateTime` and `Rfc3339`
use. In `DateTime`, `micros` is the field of that name; `call` is the last call with its result.
A `DateTime` is a value, so the state machine is a program that holds one and
replaces it by what a call returns; a call that fails leaves it alone. The
actions are `fromUnix`, `initUTC`, `add` and `now`, each with the range test it
ends in, the overflow of its products and sums (`RuntimeSafety` chooses between
a panic and wrapping), and truncating division where the code has `@divTrunc`.
`date()` and `time()` are operators over `micros`, with the code's cycles, its
corrections at the end of a cycle and its loop over the months as the one
month that fits.

The units are CONSTANTS (`HoursPerDay`, `MinutesPerHour`, `SecondsPerMinute`,
`MillisPerSecond`, `MicrosPerMilli`), because TLC's integers have 32 bits and
the code's days have 86 400 000 000 microseconds. The theorems hold for every
value of them, in particular for 24, 60, 60, 1000, 1000: `LimitsAreTheLiterals`
states that the range of the model is then that of the literals in `fromUnix`.
Days and years are never scaled.

`DateTimeDisplay` adds what `format` and `jsonStringify` show of the instant
after every call, `date()` and `time()`. `ImplementsCivilClock` says that what
is shown is a `CivilClock`, which knows no count of days or microseconds: its
`Up` and `Down` turn the fraction, the second, the minute, the hour, the day of
the month, the month and the year, each with its carry into the next.

### Rfc3339

`kind` says which parse function runs (date, time, DateTime); the text, the
position and the program counter are the state, and each test or consumption of
the parser is an action. A text is a sequence of characters. Looking at a
character outside the text is the choice the build has: a panic, or anything at
all (`Blind`, and `Sees` and `Misses`, which are both possible there);
`checked` says which, and a run takes both (`Builds`). `UsizeMax` is the width
of the number a fraction is multiplied up to, `PrefixDigits` the digits of a
milli, `Characters` what texts are made of. In `Decimals` a number is counted up
over its digits, as `paddedInt` and `nanoseconds` do, and written by dividing it
by powers of ten, as `formatIntBuf` and `paddingTwoDigits` do; `Size` is the
width that grows when a number does not fit.

A DateTime is an instant between reading and writing. `parseRFC3339` ends in
`initUTC` of the fields it has read (`Suffix`, whose last word is `OfInitUTC`),
and `bufWrite` writes `date()` and `time()` of the `Instant` that made. These
are the operators of `Instants`, so a text that is written again (`WriteBack`)
goes through the count of microseconds, late date included (`DateIsLate`). Dates
and times are written from their own fields.

What a text should mean is said without the parser: `DateForms`, `TimeForms` and
`Zones` are the forms, with the name of a field in place of each of its digits,
and `Readings` is the set of dates, times or DateTimes that a text of such a
form stands for, wherever it can be cut into date, time and zone.

### BsonError

`stored` has the contents of the places an error can be in: `_err` and a local
variable of each call; `calls` is the stack of calls of each thread. `mixed`
remembers that two threads were in calls at the same time; no action reads it.
Filling an error in takes two steps, so another thread can see half of it.
`ProgramOps` take the error of the program, `HelperOps` (`ping`,
`countDocuments`, `initFromJson`) call `BsonError.init()` and print it
themselves, `StackOps` (`newFromJson`, `Uri.new`, `errorMessage`) have one on
the stack.

### Documents

`points` is the pointer in each `Bson`, `allocated`, `flags` and `buffer` the
`bson_t`s on the heap, `parent` the open children, `defers` the deferred
`destroy()`s, of documents and of the cursor, the next one first. `early` has
the documents that were declared before the cursor. `overwritten` and `lost`
remember what a call wrote over, `cleared` what the C library freed when
`initFromJson` failed; no action reads these four. A scope may be left at any
moment, which is what `try` does. The constant `Uses` says which of the calls
that overwrite a document the program makes: children, replies, `Cursor.next`,
`initFromJson`. What the C library does to a `bson_t` (its flags, what
`bson_destroy` frees) is taken from its headers and marked external.

### QueryCursor

`state`, `batch`, `open` and `error` are the cursor's (`mongoc_cursor_state_t`,
the documents it holds, its `cursor_id`, its `bson_error_t`), `rest` is what the
server has not sent, `program` is where the loop of the program is, `given` what
`next` has returned and `said` what `errorMessage` has. A call of `next` is
`Call` and the steps until it returns: the query (`Prime`) or the request for a
batch (`GetMore`), either of which may be lost on the way there or back, and
taking a document from the batch (`Pop`). A lost query is retried once
(`src/collection.zig:99`), `command` and later batches are not. The states and
their order come from the header (`mongoc-cursor-private.h:93`); what the C
library does in them is external. A program may ask `errorMessage` at any time,
call `next` once too often, and leave the loop when it likes.

`ImplementsQuery` maps this to `Query`, which has no batches and no network:
`broken` is an error in the cursor, and the answer of `errorMessage` counts as
"complete" only when it is `CursorError` and `next` has returned false before.

### CursorViews

This is `QueryCursor` with the memory the program sees. `shows` says what each
`Bson` points to: its own document, `current_doc` of the cursor (`current`), a
document of another cursor, or nothing while `next` has not returned. Data are
in a buffer, which is named for what it belongs to and how often that has been
replaced: a reply (`replies` counts the requests), or a document of the program
(`appends` counts the appends that moved its data). `Live` says whether a
buffer is still there; looking at one that is not shows `Undefined`. `view` is
an `Iter`, a text read with `iterUtf8`, which are pointers, or the `Oid` that
`iterOid` copies. `moved` and `view.stale` remember that a cursor has been
called since a variable or a view was made; no action reads them, they say up
to when the properties promise something, which is what the comments of
`src/cursor.zig` and of `Iter` (`src/bson.zig:799-803`) promise. `next` of
another cursor may write to a variable in the middle of the loop
(`nextElsewhere`), as in `src/mongo_test.zig:306`.

### ObjectIds

`context` has the context of each process: the random bytes, which have the name
of the process that has drawn them, the number `seq32`, and the pid. `Oid.init`
is two steps: `TakeRandomness` takes the time, and the random bytes, drawn again
when the context was made with `BSON_CONTEXT_DISABLE_PID_CACHE` and sees another
pid; `TakeNumber` counts, atomically, and completes the id. Between them other
threads may make ids, the process may fork and a second pass. `made` is the ids
in the order of their numbers; no action reads it. The comment at
`src/bson.zig:935` says that a context without flags is not for threads, the
header that making ids is always safe
(`src/libmongoc/include/bson/bson-types.h:59`); the model follows the header.
That the time is taken first, and what is in an id, is the C library's, and
external.

### Inserts

The threads of `ObjectIds` insert a slice of documents each. The `owners` have
given them ids with `Oid.init`, the others have the C library do it, in every
call again (`IdsOfRepeat`). `program` is where a thread is: naming its
documents, waiting (`sent`), and what it was told. A `Request` in `network`
stays until the server takes it, also when nobody waits any longer, so that
requests are delayed and overtake each other; `Lose` is a request that is lost
(nothing stored), a server that stops in the middle, or an answer that is lost
(everything stored). `Repeat` is a program that was told `false` and calls
again; it may do so before its first request has arrived. The server stores a
slice from its beginning and stops at the first id it has. That is an ordered
insert, which is the server's default: `opts`, which the wrapper passes on
(`src/collection.zig:79`), may hold `ordered: false`, and the server then goes on
behind a document it refuses. Such inserts are not modelled, and
`FirstOnesAreStored` and `RepeatsCompleteNothing` are not true of them.

### WriteConcern

`members` is the replica set, one of `Sets`, and `w` the number the C library is
given. `Replicate`, `Crash`, `Restart` and
`Elect` are the replica set: a member elected by a majority makes the others
drop what it does not have. As many members may be down as leave a majority
(`MaxDown`). `insert` returns when the write is on as many
members as `w` asks for, or is refused when there are not that many.

## 3. The runs

| run | shows |
|---|---|
| `DateTime_new` | from 1970 on, with arithmetic that wraps: the fields identify the instant and are chronological, and every sequence of calls is one of `CivilClock` |
| `DateTime_old` | before 1970 and before year 1, with overflow checks: instants stay in the period, their fields are valid, converting to coarser units loses less than a unit, `initUTC` accepts exactly the years of the period and keeps the fields, `add` panics only where it has no instant to return, and the one deviation of the fields is the last second of a day |
| `Rfc3339_texts` | texts one edit away from valid ones, all their beginnings, and all that is written from a choice of dates, times and instants, with and without bounds checks: grammar, meaning, reading back (a DateTime with a fraction in the last second of a day before 1970 comes back a day later, and so on until 1970), and where the parser panics |
| `Rfc3339_cut` | **violated**: the parser looks only inside its text |
| `BsonError_threads` | two threads: functions with an error on the stack print their own message; as long as the threads take turns helpers print their own, and the program reads a whole one, the last |
| `BsonError_nested` | **violated**: a program reads the message of the call it asked about |
| `Documents_scope` | three documents and a cursor used in every way, left at any moment: each `destroy()` finds what it frees or looks at, with two exceptions below, children have a buffer, and only the overwritten leaks |
| `Documents_reply` | **violated**: everything is freed |
| `QueryCursor_loop` | a query in batches with losses anywhere: every behaviour is one of `Query`, no document is skipped, and the loop ends; what the program looks at through its variables, an `Iter`, a text or an `Oid` is the document it was made of while its cursor has not moved |
| `Inserts_again` | threads and a forked process that make ids until the numbers start again, and insert and repeat over a network that loses: which ids can be the same, how often a document is stored, what a refusal means, and what of a slice is missing |
| `WriteConcern_sets` | one, three and five members, all but a majority down: majority writes survive, and writes up to `W_DEFAULT` are answered |
| `WriteConcern_seven` | **violated**: majority writes survive, on seven members |

Each violated run is a finding in `PROJECT.json`, with the comment or test of
the repository it contradicts. The models show more deviations, which the
passing properties state as exceptions:

- `date()` rounds a negative instant toward zero to whole seconds
  (`src/datetime.zig:344`), `time()` takes it modulo a day (`:397`): in the last
  second of a day before 1970, when it has a fraction, the date shown is one
  day late. One microsecond before 1970 is shown as 1970-01-01 23:59:59.999999.
  `FieldsIdentifyTheInstantOrTheNextDay` says that there is no other such
  instant; `DateTime_new`, with `FieldsIdentifyTheInstant`, keeps to 1970 and
  later.
- For the same reason such a DateTime does not survive being written:
  1960-05-05T23:59:59.5Z is read and written as 1960-05-06T23:59:59.500Z, and a
  program that stores dates as text, as `jsonStringify` and `jsonParse` do, moves
  it by another day in each round until it is in 1970. `WrittenReadsBack` says
  that the instant is a day later then, and the time of day the same; everything
  else reads back as it was.
- A fraction without digits is accepted: `AcceptsTheGrammar` allows the dot
  alone in a text with the date in front, where the test of the repository
  refuses it for a time (`src/datetime.zig:905`).
- A year of five digits is written with the wrong digits
  (`src/datetime.zig:471`), so `WrittenReadsBack` is about years of four.
- `W_MAJORITY` is 3: on three members with one down such a write waits for the
  third, and `W_DEFAULT`, which is 2, is refused by a single server.
  `WritesAreAnswered` leaves out the levels above `W_DEFAULT`.
- Children, and documents `Cursor.next` has pointed elsewhere, leak their
  `bson_t` as replies do; `OnlyTheOverwrittenLeaks` allows all three.
- When `initFromJson` fails, the C library frees the buffer, and `destroy` frees
  it again; `DestroyFindsItsMemory` excepts these (`cleared`).
- A document that is declared before the cursor it is read with, and destroyed
  after it when the scope is left inside the loop, looks at the flags of a
  `bson_t` that is gone; `DestroyFindsItsMemory` excepts these (`early`).
- `errorMessage` returns the error `CursorError` when the cursor has none, also
  before the query has been sent, and a message when `next` was called once too
  often after all documents had come. `Told` says which answers mean what.
- A context made with `BSON_CONTEXT_NONE` gives the same ids in a process and
  in one it has forked; `SameIdsAreFarApart` and `RefusedIsStored` except this.
- A document without an id is stored again by each call that is repeated, which
  is what `CopiesAreBounded` leaves to such documents; and repeating an
  `insertMany` that was cut off completes nothing (`RepeatsCompleteNothing`).
- The comment of `countDocuments` says `Returns: -1 on failure`
  (`src/collection.zig:319`), the function returns an error. No model depends on
  it.

### Bounds

- **DateTime**: a day has 32 microseconds, two of each unit in the next, so that
  every carry between units happens within two steps. `Windows` keep the program
  within a day of the days where the calendar does something: both ends of the
  period, the day before year 0, the epoch, the leap days of 1972, 2000 and
  2400, the first day of 2001 behind a cycle of 400 years, the last day of 2099,
  and the end of February 2100, which has no leap day. An instant before 1970
  that `initUTC` returns and that is elsewhere is shown once. That a step
  through all days meets each date once is proved, not run. `Int64Max` is scaled
  with the units, above the period and below what `add` can be asked for.
- **Rfc3339**: the parser looks at one character at a time and keeps nothing
  but the position and the numbers read, so a text that differs in one place
  from an accepted one, or is cut off, reaches each branch of each step; the
  alphabet has a member of each class the code tells apart. `UsizeMax` has five
  digits instead of twenty and a milli one digit instead of three: the overflow
  and the truncation of long fractions happen within texts of this length. A day
  has two hours of one minute of three seconds, so that TLC can count the
  instants of all 14 000 years in 32 bits. What is written are dates at the ends
  of months and of years of one to four digits, all times of such a day, and
  pairs of them; of the DateTimes that move, one at the end of a February with
  and one without a leap day and one on the last day of 1969 (`LateValues`), and
  those among the texts that are within `DaysOfDrift`, 900 days, of 1970: each
  goes on moving for as many rounds as there are days left. The proofs cover texts of any length and the constants of the code.
- **BsonError**: two threads cover all interleavings of one write with one read.
  Threads and messages are symmetric: none is compared or chosen. `MaxDepth` is
  2: a call whose error is unread and one call after it. The proofs cover any
  number of threads and messages.
- **QueryCursor**: four documents in batches of up to two are a full batch, a
  short one and an empty last one; two of the documents are equal. One retry is
  the code's (`MaxRetries`); `Init` also has the cursor without one.
- **CursorViews**: two variables are one that is read and one that is kept; one
  append moves the data of a document once, and a second would do the same. A
  single view is enough, as no view bears on another. With the documents of
  `QueryCursor` a variable is kept over the end of a batch and over the end of
  the query.
- **Inserts**: ids have `NumberLimit` 3 numbers instead of 2^24, and the three
  threads of two processes make up to six ids, so numbers start again while a
  thread holds a time of the round before. Thread `a` inserts two documents in
  up to two calls, a slice that can be cut off and repeated; `b` shares its
  context and only makes an id; `c` is in the child, and inserts one. One tick
  of the clock is enough to tell ids of different seconds apart.
- **Documents**: three variables make a chain of a document, a child and its
  child, or any of them and a reply. A variable is declared once in a scope.
- **WriteConcern**: one write; sets of one, three, five and seven members are
  the sizes between which the numbers 2 and 3 change their meaning.

### Fairness

Two modules claim that something happens. `QueryCursor`, and `CursorViews` for
the same loop, assumes weak fairness
of the program, which calls `next` again while it returned true (`while
(cursor.next(&doc))`), and of the steps in `next`, which blocks until the C
library has an answer or gives up. `WriteConcern` assumes weak fairness of
the answer of the server (`Acknowledge` or `Refuse`: when enough members have
the write the C library gets a reply) and strong fairness of replication to each
member and of elections, which are what a replica set promises its clients:
a member that is up again and again catches up. Nothing is assumed of crashes
and restarts. This fairness is of the external system; the code only waits.

`ObjectIds` and `Inserts` make no claim of that kind: a thread that gets no
answer may wait for ever.

`Documents`, `CursorViews`, `Inserts`, `WriteConcern` and `Rfc3339` stop when a
scope has been left, a cursor destroyed, the tries used up, a write answered or
a text read, and a program with overflow checks stops in a panic, so
`DateTime_old` and the runs of these modules do not check for deadlock.

## 4. The proofs

The proofs are for every value of the constants that the `ASSUME`s of the
modules allow (`RadixAssumption`, `InputAssumption`, `OperationAssumption`,
`MessageAssumption`, `PointerAssumption`, `ResultAssumption`,
`ViewsAssumption`, `WorkersAssumption`, `InsertsAssumption`,
`MemberAssumption`, `TextAssumption`). What a theorem assumes beyond them is in
the last column.

| theorem | says | assuming |
|---|---|---|
| *DateTimeProofs* | | |
| `TypeCorrect` | the instant stays in the Julian period, in both builds | |
| `LimitsAreTheLiterals` | the range of the model is that of the code | the units of the code |
| `FieldsAreAlwaysValid` | every instant has a valid date and time | |
| `FieldsAlwaysIdentify` | `initUTC` inverts `date()` and `time()`, but for the last second of a day before 1970 | |
| `FieldsAlwaysIdentifySince1970` | without that exception | windows from 1970 on |
| `FieldsAreAlwaysChronological` | instants have the order of their fields | windows from 1970 on |
| `InitUTCAlwaysAcceptsTheYears` | `initUTC` accepts the valid fields of -4712 .. 9999 and no others | |
| `InitUTCAlwaysKeepsTheFields` | `date()` and `time()` invert `initUTC` | |
| `StoringAlwaysLosesLessThanAUnit` | what `unix` stores `fromUnix` loads, less than a unit nearer to 1970 | |
| `OverflowAlwaysOutside` | `add` panics only where there is no instant to return | an `i64` holds the length of the period |
| `DisplaysAreCivilClocks` | what is shown implements `CivilClock` | windows from 1970 on, an `i64` holds the period and a day |
| *Rfc3339Proofs* | | |
| `TextsAreTyped` | the parser never consumes more than the text while its reads are checked, and one character more at most when they are not | |
| `TextsAreUnambiguous` | a text stands for one date, time or DateTime at most | |
| `TextsAreAccepted` | exactly the texts of the grammar are accepted, in both builds | |
| `TextsAreRead` | what is read is what the text stands for | |
| `WrittenTextsReadBack` | what is written of a valid date or time, or of the instant of a valid DateTime, is read as that date and time; a DateTime in the last second of a day before 1970 as the one a day later | |
| `TextsPanicRarely` | a checked build panics behind a date that no time follows, and in a fraction that is too large a number, and nowhere else | |
| *BsonErrorProofs* | | |
| `ErrorsAreTyped` | the calls keep their errors in places that exist | |
| `StackErrorsStayOwn` | errors on the stack are never another call's | |
| `HelperErrorsStayOwn` | helpers print their own message while the threads take turns | |
| `ProgramsReadTheLastError` | a program reads a whole message, the last, while the threads take turns | |
| *DocumentsProofs* | | |
| `DocumentsAreTyped` | the variables of `Documents` have their types | |
| `DestroysFindTheirMemory` | no `destroy()` frees what is not there, but for the two exceptions | |
| `ChildrenAlwaysWriteToABuffer` | open children write to a buffer in use | |
| `OnlyTheOverwrittenEverLeak` | what no call has overwritten is returned | |
| *CursorProofs* | | |
| `CursorIsTyped` | the variables of `QueryCursor` have their types | |
| `NothingIsEverSkipped` | the documents given, fetched and left are the result until something fails | |
| `CursorImplementsQuery` | the loop and `errorMessage` implement `Query` | |
| `VariablesAlwaysShowTheirDocument` | a variable shows the document `next` returned until `next` is called again | |
| `ViewsAlwaysShowTheirDocument` | an `Iter`, a text, an `Oid` show theirs | |
| `LoopWithViewsImplementsQuery` | with all that, the loop implements `Query` | |
| *InsertsProofs* | | |
| `IdsAreTyped` | the variables of `ObjectIds` have their types | |
| `SameIdsStayFarApart` | equal ids of a process have all numbers between them; two processes make the same only with `BSON_CONTEXT_NONE` | |
| `InsertsUseTheIds` | `Inserts` is a behaviour of `ObjectIds` | |
| `InsertedIdsStayFarApart` | so what is proved of its ids holds | |
| `FirstOnesAreAlwaysStored` | the stored documents of a slice are its first ones | |
| `RepeatsNeverComplete` | once one document of a slice with its own ids is stored, no request stores another | |
| `RefusedIsAlwaysStored` | while ids are good, what is refused is the first document of a call that is repeated, and it is stored | |
| `CopiesAreAlwaysBounded` | a document with its own id is stored once, another at most once per call | |
| *WriteConcernProofs* | | |
| `WritesAreTyped` | the variables of `WriteConcern` have their types | |
| `MajorityWritesAlwaysSurvive` | a write acknowledged at `W_MAJORITY` survives every election | sets of at most five members |

**DateTime.** `TypeOK` is inductive because all three ways to an instant end in
the range test of `fromUnix`; `InitUTCResult` and `AddResult` say what each
returns. The fields are a function of the instant, so the other theorems
are lemmas about arithmetic, which `InstantsProofs` has in the order of the code: `SecondsToDays` (what
truncating division does before 1970), `LeapEpochDaysIsTheDay`,
`MarchDateSplitsTheDays` (the cycles, with the cap at their last day),
`MonthFormula` and `MonthOfDay` (the loop over the months is the inverse of the
formula `initUTC` uses), `CivilDateIsValid`, `DayNumberInverts`. The way back,
from fields to an instant, is `MarchDateIsTheOne` (a day is in one year that
starts in March, and at one place in it), from which `CivilDateInverts` follows,
and `TimeInverts`. `YearsAreThePeriod` says that the day count of a valid date
is in the range of `fromUnix` exactly for the years of the parser, whatever the
truncating divisions do to the others; with `YearsOfInitUTC` (the `i16`) this is
`InitUTCOutcome`. `ShownFields`, `FieldsIdentify` and `InstantShowsItsFields` sum
up how `initUTC` and the fields invert each other. `StoredIsInRange` is why stored instants can be loaded.
`DatesAreOrdered` and `TimesAreOrdered` give the order of the fields.

The refinement of `CivilClock` needs no invariant beyond the types and the
windows (`DisplayInv`). Its steps rest on the two directions above: a moment is
`Behind` another by so many microseconds when the numbers `initUTC` counts for
them differ by that. `NextDateIsTheNextDay` and `PreviousDateIsThePreviousDay`
say it of the dates of the clock, and each unit is proved from the next larger
one (`DayTurns`, `HourTurns`, ..., `FractionTurns`) by setting its own digit and
turning the rest. `ProperIsShown` then says that the sum `add` makes shows the
moment the clock turns to, and is refused when the clock cannot show it. Before
1970 the theorem is false, for the late date.

**Decimals.** `Number` and `Power10` are recursive, and the induction theorems of
the library cannot be used, so the facts about them are proved from sets of
natural numbers: a set with 0 and with n + 1 for each of its n has all of them
(`NumbersInASet`, from the order of the numbers being well founded), and the
function a recursive definition chooses exists (`Iterates`). What the proofs use
of them is `NumberIsBelow`, `NumberOfConcat`, `NumberIsCut` and
`PaddedIsTheNumber`: writing a number and counting up its digits is the identity
when the width is enough.

**Rfc3339.** The forms are many and the parser looks at a few characters, so
the proof goes through positions. `Minus` and `Dash` (is there a minus in front,
a dash behind the year?) fix where the fields of a date are, `HasSeconds`,
`HasFraction` and `FractionLength` where those of a time are; `Readable` and
`Reading` are grammar and meaning said in these terms. `TextsAreUnambiguous`
shows that `Readings` is `Reading` alone, or nothing: no text of one form has
another (`DateFormIsRead`, `TimeFormIsRead`, and back `DateShapeHasAForm`,
`TimeShapeHasAForm`), and a text can be cut into date, time and zone at one
place only, because neither a date nor a time has a T or a zone in it.

The invariant (`Inv`) says for each step what has been found true of the text
so far and is in `fields`: `DateInv` up to the day, `BetweenInv` at the T,
`TimeFrame` and `TimeInv` from the hour on, relative to the place the time
begins at (`Base`), which the parser only has as `room`. `EndInv` is what the
properties say, in positions, and each error has to show that the text is not
readable at all, also where a build without checks has read past its end: what
it sees there is an error now, or a number is missing in the next step. A dot
without digits (`EndsInADot`) passes `nanoseconds` only when something follows,
which is why `parseRFC3339` accepts it and `Time.parse` does not.
`WrittenInv` keeps the written text next to the fields it was written from;
`WrittenIsRead` is then a fact about the writers alone, and for a DateTime about
`Instants`: `InstantIsWritten` says that `date()` and `time()` of the instant are
the fields it was made of, or the date of the next day (`InstantShowsItsFields`,
`FieldsIdentify`), and that they are fields a text can hold. `InitUTCOutcome` is
also why `initUTC` refuses nothing the parser has let through. `MicrosAreCut` is the
arithmetic of the fraction: multiplied up to nanoseconds and divided by 1000 it
is the number of its first six digits.

The theorems do not assume the scaled constants of the run: `TextAssumption` asks
that a second has as many millis as a number of `PrefixDigits` digits can count,
and a milli as many micros, that hours, minutes and seconds have two digits, and
that a `usize` holds a one with `NanoDigits` zeros. The code's 3, 24, 60, 60 and
2^64 - 1 are such constants.

**BsonError.** `StackErrorsAreOwn` alone is not inductive: nothing says the
message is still in place when it is read. The invariant adds that a call with
its error on the stack is at the place of its own depth, that no other call of
any thread is at that place (`PlacesDiffer`), and that the place holds the
message once the call is `failed`. For the helpers the same is true of `_err`
and the innermost call of the one thread that is in calls (`TurnInv`), because
a helper reads before it makes another call. `LastInv` says that `_err` holds
the last message unless somebody is writing the next; while threads take turns
that can only be the innermost call of the one that reads.

**Documents.** That each `destroy()` finds its memory needs the whole of `Inv`:
nothing is declared twice (`DefersInv`), each document has a `bson_t` of its
own (`BlockInv`), a `bson_t` whose flags say that it owns a buffer has one, and
a child never says so (`BufferInv`), what is destroyed after the cursor was
declared before it (`CursorInv`), and, for the children, that parent and child
are in use and that a parent has one open child (`ChildInv`). `LeakInv` says
why the rest is returned: a `bson_t` no call has overwritten is that of a
document whose `destroy()` is still to come, with flags that make it free.

**QueryCursor.** `NothingIsSkipped` needs `BatchInv`: the cursor has nothing
left when it asks for a batch, and the server has nothing left when the cursor
takes a batch for the last one. With `SaidInv` (what `errorMessage` said is
still true) each action is a step of `Query` or none: `Pop` gives the next
document (`NextIsFirst`), the failures break, `errorMessage` answers.

**CursorViews.** `VariablesInv` says that of the variables that may still be
read only the one `next` was called with last shows a document of the cursor,
and only while the program is in the body of its loop: a variable that another
cursor has taken over is no exception, as it shows something else. `ViewInv`
says that a view that may still be used points to a buffer in use, or has its
copy. The steps of `QueryCursor` keep its own invariant, so
`LoopWithViewsImplementsQuery` follows from the proof of `CursorImplementsQuery`.

**ObjectIds.** A context has the random bytes of the process whose pid it has
(`ContextInv`), so one that looks at the pid gives a thread the bytes of its own
process (`MakingInv`); an id has the low bytes of the number it was made with
(`MadeInv`), and the numbers of a process grow (`OrderInv`). Two numbers with
the same low bytes are a whole round apart (`SameLowBytes`).

**Inserts.** Only `Name`, `Named` and `Elsewhere` touch ids, and they do it by
steps of `ObjectIds`. A document with an id of its own has it in all requests
and when it is stored (`OwnInv`): that, and that the server stops at the first
id it has, is why repeats complete nothing. `RefusedIsStored` is not inductive
because nothing says where an id that is taken has come from: `UsesInv` adds
that a good id is used by one thread, for one document of a call, and `CallsInv`
that ids made by the C library are used by one call. `CountInv` counts the
requests of a thread under way together with the copies of a document: a call
makes one request, and a request at most one copy.

**WriteConcern.** Three members are a majority of five and of fewer, and a write
without a level is acknowledged by a majority, so whatever has been acknowledged
at these levels is on a majority (`KeptInv`); a primary is elected by a majority,
and two majorities meet (`MajoritiesMeet`), so no election rolls it back. Seven
members are the counterexample of `WriteConcern_seven`.

Only model-checked: `LoopEnds` and `WritesAreAnswered`, as liveness is out of
the prover's reach. Every other property of a run that passes is stated by a
theorem above.

## 5. What is not modelled

- What is in a document, its JSON text, validation and comparison: the C
  library. So is where an `Iter` stands: `iterOid` and `iterUtf8` dereference
  null when it does not stand at an element of that type (`src/bson.zig:841`).
- `Oid.toString` and `initFromString`, conversions of twelve bytes; the end of a
  context (`Context.destroy`); values, JSON options, hosts, read preferences:
  pointers that are passed on.
- Tailable cursors and `getHost`. Retries the C library makes of a write by
  itself (`retryWrites` in a URI) are a choice of the program's URI: `Inserts` is
  a program without it.
- `insertMany` fills an array of `n` with as many documents as its slice has
  (`src/collection.zig:75`). `Inserts` takes the two to be the same, as the tests
  do; what happens otherwise depends on nothing but the two numbers.
- Inserts with `ordered: false` in their `opts` (`src/collection.zig:79`):
  `Inserts` is the server's default, which stops at the first document it
  refuses. Nothing else that `opts` may hold is modelled either.
- What the server does in `countDocuments` and `drop`.
- What a program reads of `_err` while another thread fills it in: half of a
  message, or another's. `BsonError` has these reads, but no property can
  promise anything of them (`mixed`).
- The order of `mongo.init` and `cleanup` and of the other calls: no state of
  this code knows of it.
- Functions that do not compile when they are used: `Client.new`,
  `getServerStatus`, `Collection.delete`, `commandSimple` and `aggregate`,
  `appendBinary`, `iterF64`, `ReadPrefs.new`, `Host.ptr`, `errorDocument`,
  `JsonOpts.new`, `appendTimeT`, `appendTimeval`, `BsonError.message`.
- `datetime_util.zig`, the tests, the example and the build: not part of the
  library's behaviour.
- The headers of the C library, most of the lines of the repository, declare
  functions and types and hold no behaviour of this program; where it depends
  on what the library does, that is modelled as external.

## 6. What is left

1. `Documents` and `CursorViews` in one module: the memory of a scope with the
   contents of its documents, so that two cursors that read into one document
   and the order of their `destroy()`s are one question.
2. Tailable cursors: a third meaning of `false`.
3. A proof that `date()` shows a civil clock before 1970 too, with the late date
   as an exception in the abstract clock.
