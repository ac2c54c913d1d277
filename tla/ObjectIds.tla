----------------------------- MODULE ObjectIds -----------------------------
(***************************************************************************)
(* The ids Oid.init() of bson.zig makes.                                   *)
(*                                                                         *)
(* An id is the time in seconds, five random bytes of a context, and the   *)
(* low three bytes of the next number of the context.  The threads of a    *)
(* process share a context, which counts its numbers with one atomic step; *)
(* a process that forks leaves its child a copy of it.  The random bytes   *)
(* are drawn when the context is made, and again when it sees that it is   *)
(* in another process, which it looks for only when it was made with       *)
(* BSON_CONTEXT_DISABLE_PID_CACHE, as the default context is.              *)
(*                                                                         *)
(* No two contexts draw the same random bytes, so they are given the name  *)
(* of the process that has drawn them.                                     *)
(***************************************************************************)
EXTENDS Naturals, Sequences

CONSTANTS Processes,
          First,      \* the process that makes the context
          Workers,    \* threads: pairs of a process and a name
          NumberLimit, \* 2^24: a number has three bytes in an id
          MaxTime     \* the clock stops after so many seconds

ASSUME WorkersAssumption ==
    /\ First \in Processes
    /\ \A w \in Workers : w[1] \in Processes
    /\ NumberLimit \in Nat \ {0}

VARIABLES flags,    \* of the context
          running,  \* the processes
          context,  \* of each process
          now,      \* in seconds
          making,   \* the id each thread is making
          made      \* the ids that have been made, in the order of their numbers

idVars == <<flags, running, context, now, making, made>>

ContextFlags == {"BSON_CONTEXT_NONE", "BSON_CONTEXT_DISABLE_PID_CACHE"}

Home(w) == w[1]

Context(randomness, seq32, pid) ==
    [randomness |-> randomness, seq32 |-> seq32, pid |-> pid]

Making(pc, time, randomness) == [pc |-> pc, time |-> time, randomness |-> randomness]

Idle == Making("idle", 0, First)

IdsInit ==
    /\ flags \in ContextFlags
    /\ running = {First}
    /\ context = [p \in Processes |-> Context(First, 0, First)]
    /\ now = 0
    /\ making = [w \in Workers |-> Idle]
    /\ made = <<>>
-----------------------------------------------------------------------------
(* Mutant of PidHasChanged: the pid is never looked at. *)
PidHasChanged_Cached(p) == FALSE

PidHasChanged(p) == flags = "BSON_CONTEXT_DISABLE_PID_CACHE" /\ context[p].pid # p

Seeded(p) ==
    IF PidHasChanged(p) THEN Context(p, context[p].seq32, p) ELSE context[p]

(* Oid.init(): the time comes first, and the random bytes, in one step:   *)
(* what is done in between does not bear on them.                          *)
TakeRandomness(w) ==
    /\ Home(w) \in running
    /\ making[w].pc = "idle"
    /\ context' = [context EXCEPT ![Home(w)] = Seeded(Home(w))]
    /\ making' = [making EXCEPT ![w] = Making("mixed", now, Seeded(Home(w)).randomness)]
    /\ UNCHANGED <<flags, running, now, made>>

(* Mutant of Id: all four bytes of the number go into the id. *)
Id_Whole(w, seq32) == [time       |-> making[w].time,
                       randomness |-> making[w].randomness,
                       number     |-> seq32]

Id(w, seq32) == [time       |-> making[w].time,
                 randomness |-> making[w].randomness,
                 number     |-> seq32 % NumberLimit]

Counted(p, seq32) == Context(context[p].randomness, seq32, context[p].pid)

(* The number comes last, and completes the id. *)
TakeNumber(w) ==
    LET seq32 == context[Home(w)].seq32
    IN  /\ making[w].pc = "mixed"
        /\ made' = Append(made, [by |-> Home(w), seq32 |-> seq32, id |-> Id(w, seq32)])
        /\ context' = [context EXCEPT ![Home(w)] = Counted(Home(w), seq32 + 1)]
        /\ making' = [making EXCEPT ![w] = Idle]
        /\ UNCHANGED <<flags, running, now>>

(* The process p forks: q has a copy of its memory. *)
Fork(p, q) ==
    /\ p \in running
    /\ q \notin running
    /\ running' = running \cup {q}
    /\ context' = [context EXCEPT ![q] = context[p]]
    /\ UNCHANGED <<flags, now, making, made>>

Tick ==
    /\ now < MaxTime
    /\ now' = now + 1
    /\ UNCHANGED <<flags, running, context, making, made>>

IdsNext ==
    \/ \E w \in Workers : TakeRandomness(w) \/ TakeNumber(w)
    \/ \E p, q \in Processes : Fork(p, q)
    \/ Tick

IdsSpec == IdsInit /\ [][IdsNext]_idVars
-----------------------------------------------------------------------------
Ids == [time : Nat, randomness : Processes, number : 0 .. NumberLimit - 1]

IdsTypeOK ==
    /\ flags \in ContextFlags
    /\ running \subseteq Processes
    /\ context \in [Processes -> [randomness : Processes, seq32 : Nat, pid : Processes]]
    /\ now \in Nat
    /\ making \in [Workers -> [pc : {"idle", "mixed"}, time : Nat,
                               randomness : Processes]]
    /\ made \in Seq([by : Processes, seq32 : Nat, id : Ids])

(* However the threads of a program take their turns, and wherever it      *)
(* forks, two ids are the same only when the context has given out all     *)
(* numbers of three bytes between the one and the other; or when they are  *)
(* of different processes and the context does not look at its pid.        *)
SameIdsAreFarApart ==
    \A i, j \in DOMAIN made : i < j /\ made[i].id = made[j].id =>
        \/ made[i].by = made[j].by /\ made[j].seq32 >= made[i].seq32 + NumberLimit
        \/ made[i].by # made[j].by /\ flags = "BSON_CONTEXT_NONE"
=============================================================================
