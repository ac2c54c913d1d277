----------------------------- MODULE BsonError -----------------------------
(***************************************************************************)
(* Where the message of a failed call is kept until somebody reads it.     *)
(*                                                                         *)
(* BsonError.init() of bson.zig hands out a pointer to one variable of the *)
(* process, so that every BsonError is the same bson_error_t; a few        *)
(* functions of the library use a bson_error_t on their own stack instead. *)
(* The C library fills the bson_error_t of a failed call in; string()      *)
(* reads it later, through the pointer.                                    *)
(*                                                                         *)
(* The threads of a program make calls.  A program may make another call   *)
(* before it reads the error of one that failed.                           *)
(***************************************************************************)
EXTENDS Naturals, Sequences

CONSTANTS Threads,
          Messages,    \* what a failed call may report
          ProgramOps,  \* take the BsonError of the program, which reads it
          HelperOps,   \* make a BsonError with init() and read it themselves
          StackOps,    \* have a bson_error_t of their own and read it themselves
          Undefined,   \* a bson_error_t nobody has written
          Torn         \* a bson_error_t somebody is writing

Operations == ProgramOps \cup HelperOps \cup StackOps

ASSUME OperationAssumption ==
    /\ ProgramOps \cap (HelperOps \cup StackOps) = {}
    /\ HelperOps \cap StackOps = {}

ASSUME MessageAssumption ==
    /\ Undefined \notin Messages
    /\ Torn \notin Messages
    /\ Undefined # Torn

(* A call of the program and, before its error is read, one more call. *)
MaxDepth == 2
-----------------------------------------------------------------------------
(* The places an error may be kept in: the variable _err of the process,   *)
(* and a local variable of each call.                                      *)
Global == <<"_err">>
Local(t, depth) == <<t, depth>>

Places == {Global} \cup {Local(t, depth) : t \in Threads, depth \in 1 .. MaxDepth}

(* Mutants of Place: no call has a variable of its own; init() returns the *)
(* address of a local variable of its own.                                 *)
Place_Shared(op, t, depth) == Global

Place_Dangling(op, t, depth) ==
    IF op \in StackOps THEN Local(t, depth) ELSE Local(t, depth + 1)

Place(op, t, depth) == IF op \in StackOps THEN Local(t, depth) ELSE Global

VARIABLES stored,  \* the contents of each place
          calls,   \* the calls each thread is in, the innermost last
          read,    \* what the last read wanted and what it got
          last,    \* the last message written to _err
          mixed    \* two threads have been in calls at the same time

vars == <<stored, calls, read, last, mixed>>

Call(op, t, depth) == [op |-> op, at |-> Place(op, t, depth),
                       pc |-> "called", message |-> Undefined]

NoRead == [op |-> "none", wanted |-> Undefined, got |-> Undefined,
           last |-> Undefined]

In(t, pc) == calls[t] # <<>> /\ calls[t][Len(calls[t])].pc = pc
Inner(t)  == calls[t][Len(calls[t])]

Stepped(c, pc, message) == [op |-> c.op, at |-> c.at, pc |-> pc, message |-> message]

Step(t, pc, message) ==
    calls' = [calls EXCEPT ![t][Len(calls[t])] = Stepped(@, pc, message)]

Return(t) == calls' = [calls EXCEPT ![t] = SubSeq(@, 1, Len(@) - 1)]

Init ==
    /\ stored = [p \in Places |-> Undefined]
    /\ calls = [t \in Threads |-> <<>>]
    /\ read = NoRead
    /\ last = Undefined
    /\ mixed = FALSE

(* A thread calls an operation: outside of any call, or while it has not   *)
(* read the error of a call of its own that failed.  The local variable is *)
(* a new one.                                                              *)
Start(t, op) ==
    LET depth == Len(calls[t]) + 1
    IN  /\ depth <= MaxDepth
        /\ depth > 1 => In(t, "failed") /\ Inner(t).op \in ProgramOps
        /\ calls' = [calls EXCEPT ![t] = Append(@, Call(op, t, depth))]
        /\ stored' = IF op \in StackOps
                       THEN [stored EXCEPT ![Local(t, depth)] = Undefined]
                       ELSE stored
        /\ mixed' = (mixed \/ \E u \in Threads \ {t} : calls[u] # <<>>)
        /\ UNCHANGED <<read, last>>

(* Nothing is written and nothing is read of a call that succeeds. *)
Succeed(t) ==
    /\ In(t, "called")
    /\ Return(t)
    /\ UNCHANGED <<stored, read, last, mixed>>

(* The C library fills in the error of a call that fails, its domain, its  *)
(* code and its message, byte by byte: another thread may see some of it.  *)
Fail(t, message) ==
    /\ In(t, "called")
    /\ stored' = [stored EXCEPT ![Inner(t).at] = Torn]
    /\ Step(t, "failing", message)
    /\ UNCHANGED <<read, last, mixed>>

(* Mutant of Report: the message ends up in the local variable. *)
Report_Local(t) ==
    /\ In(t, "failing")
    /\ stored' = [stored EXCEPT ![Local(t, Len(calls[t]))] = Inner(t).message]
    /\ Step(t, "failed", Inner(t).message)
    /\ last' = IF Inner(t).at = Global THEN Inner(t).message ELSE last
    /\ UNCHANGED <<read, mixed>>

Report(t) ==
    /\ In(t, "failing")
    /\ stored' = [stored EXCEPT ![Inner(t).at] = Inner(t).message]
    /\ Step(t, "failed", Inner(t).message)
    /\ last' = IF Inner(t).at = Global THEN Inner(t).message ELSE last
    /\ UNCHANGED <<read, mixed>>

(* string() *)
Read(t) ==
    /\ In(t, "failed")
    /\ read' = [op |-> Inner(t).op, wanted |-> Inner(t).message,
                got |-> stored[Inner(t).at], last |-> last]
    /\ Return(t)
    /\ UNCHANGED <<stored, last, mixed>>

(* The program does not look at the error; countDocuments returns before   *)
(* it prints its own when the reply cannot be shown.                       *)
Forget(t) ==
    /\ In(t, "failed")
    /\ Inner(t).op \notin StackOps
    /\ Return(t)
    /\ UNCHANGED <<stored, read, last, mixed>>

Next == \E t \in Threads :
    \/ \E op \in Operations : Start(t, op)
    \/ Succeed(t)
    \/ \E message \in Messages : Fail(t, message)
    \/ Report(t)
    \/ Read(t)
    \/ Forget(t)

Spec == Init /\ [][Next]_vars
-----------------------------------------------------------------------------
Contents == Messages \cup {Undefined, Torn}

Calls == [op : Operations, at : Places, pc : {"called", "failing", "failed"},
          message : Messages \cup {Undefined}]

TypeOK ==
    /\ stored \in [Places -> Contents]
    /\ calls \in [Threads -> Seq(Calls)]
    /\ \A t \in Threads : Len(calls[t]) <= MaxDepth
    /\ read \in [op : Operations \cup {"none"}, wanted : Contents,
                 got : Contents, last : Contents]
    /\ last \in Contents
    /\ mixed \in BOOLEAN

(* A function with a bson_error_t on its stack prints the message of its   *)
(* own failure, whatever the other threads do and whatever the program has *)
(* left unread.                                                            *)
StackErrorsAreOwn == read.op \in StackOps => read.got = read.wanted

(* As long as the threads take turns, ping, countDocuments and             *)
(* initFromJson print the message of their own failure, although it is     *)
(* kept in the variable they share with the program, which may have left   *)
(* one of its own there.                                                   *)
HelperErrorsAreOwn == read.op \in HelperOps /\ ~mixed => read.got = read.wanted

(* As long as the threads take turns, the program reads a whole message,   *)
(* the one of the last call that failed with a BsonError.                  *)
ProgramReadsTheLastError == read.op \in ProgramOps /\ ~mixed => read.got = read.last

(* What the comment of BsonError promises: an error is an out parameter    *)
(* with a place of its own, so a program reads the message of the call it  *)
(* was given to.                                                           *)
ProgramErrorsAreOwn == read.op \in ProgramOps => read.got = read.wanted
=============================================================================
