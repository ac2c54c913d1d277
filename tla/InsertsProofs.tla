--------------------------- MODULE InsertsProofs ----------------------------
(***************************************************************************)
(* Proofs about ObjectIds, that ids that are the same are far apart, for any *)
(* number of processes, threads and numbers, and about Inserts, for any    *)
(* number of documents and calls.                                          *)
(***************************************************************************)
EXTENDS Inserts, Integers, FiniteSetTheorems, TLAPS

Contexts == [randomness : Processes, seq32 : Nat, pid : Processes]

Makings == [pc : {"idle", "mixed"}, time : Nat, randomness : Processes]

Mades == [by : Processes, seq32 : Nat, id : Ids]

(* A context has the random bytes of the process whose pid it has. *)
ContextInv == \A p \in Processes : context[p].randomness = context[p].pid

Checked == flags = "BSON_CONTEXT_DISABLE_PID_CACHE"

(* A thread that has random bytes runs, and they are those of its process  *)
(* when the context looks at the pid.                                      *)
MakingInv ==
    \A w \in Workers : making[w].pc = "mixed" =>
        /\ Home(w) \in running
        /\ Checked => making[w].randomness = Home(w)

(* An id has a number its context has passed, the low bytes of it and,     *)
(* when the context looks at the pid, the bytes of the process.            *)
MadeInv ==
    \A i \in DOMAIN made :
        /\ made[i].by \in running
        /\ made[i].seq32 < context[made[i].by].seq32
        /\ made[i].id.number = made[i].seq32 % NumberLimit
        /\ Checked => made[i].id.randomness = made[i].by

(* The numbers of a process grow. *)
OrderInv ==
    \A i, j \in DOMAIN made :
        i < j /\ made[i].by = made[j].by => made[i].seq32 < made[j].seq32

IdsInv == IdsTypeOK /\ ContextInv /\ MakingInv /\ MadeInv /\ OrderInv
-----------------------------------------------------------------------------
(* A multiple that is not negative is at least one or nothing. *)
LEMMA PositiveMultiple ==
    ASSUME NEW n \in Nat \ {0}, NEW d \in Int, n * d > 0
    PROVE  n * d >= n
<1>1. CASE d <= 0
  BY <1>1
<1>2. CASE d >= 1
  <2>1. PICK k \in Nat : d = k + 1
    BY <1>2
  <2>2. n * d = n * k + n /\ n * k >= 0
    BY <2>1
  <2> QED BY <2>2
<1> QED BY <1>1, <1>2

(* Of two numbers with the same low bytes the greater one is a whole round *)
(* ahead.                                                                  *)
LEMMA SameLowBytes ==
    ASSUME NEW n \in Nat \ {0}, NEW a \in Nat, NEW b \in Nat, a < b, (a % n) = (b % n)
    PROVE  b >= a + n
<1> DEFINE p == a \div n
           q == b \div n
           r == a % n
<1>1. p \in Int /\ r \in 0 .. n - 1 /\ a = n * p + r
  OBVIOUS
<1>2. q \in Int /\ b = n * q + (b % n)
  OBVIOUS
<1>3. b = n * q + r
  BY <1>2
<1> HIDE DEF p, q, r
<1>4. n * (q - p) = n * q - n * p /\ q - p \in Int
  BY <1>1, <1>2
<1>5. n * q \in Int /\ n * p \in Int /\ n * (q - p) = b - a
  BY <1>1, <1>2, <1>3, <1>4
<1>6. n * (q - p) >= n
  BY <1>4, <1>5, PositiveMultiple
<1> QED BY <1>5, <1>6

LEMMA IdsInvInit == IdsInit => IdsInv
<1> SUFFICES ASSUME IdsInit PROVE IdsInv
  OBVIOUS
<1> USE WorkersAssumption
<1>1. IdsTypeOK
  BY DEF IdsInit, IdsTypeOK, Context, Idle, Making
<1>2. ContextInv
  BY DEF IdsInit, ContextInv, Context
<1>3. MakingInv
  BY DEF IdsInit, MakingInv, Idle, Making
<1>4. MadeInv /\ OrderInv
  BY DEF IdsInit, MadeInv, OrderInv
<1> QED BY <1>1, <1>2, <1>3, <1>4 DEF IdsInv

LEMMA MadeAreTyped ==
    ASSUME IdsInv, NEW i \in DOMAIN made
    PROVE  made[i] \in Mades /\ made[i].by \in Processes
<1>1. made \in Seq(Mades)
  BY DEF IdsInv, IdsTypeOK, Mades
<1>2. DOMAIN made = 1 .. Len(made) /\ \A k \in 1 .. Len(made) : made[k] \in Mades
  BY <1>1
<1>3. made[i] \in Mades
  BY <1>2
<1> QED BY <1>3 DEF Mades

LEMMA TakeRandomnessKeepsIdsInv ==
    ASSUME IdsInv, NEW w \in Workers, TakeRandomness(w)
    PROVE  IdsInv'
<1> DEFINE p == Home(w)
           c == Seeded(p)
<1>1. p \in Processes /\ p \in running
  BY WorkersAssumption DEF TakeRandomness, Home
<1>2. context[p] \in Contexts /\ context[p].randomness = context[p].pid
  BY <1>1 DEF IdsInv, IdsTypeOK, ContextInv, Contexts
<1>3. /\ c \in Contexts
      /\ c.randomness = c.pid
      /\ c.seq32 = context[p].seq32
      /\ Checked => c.randomness = p
  BY <1>1, <1>2 DEF Seeded, PidHasChanged, Context, Contexts, Checked
<1>4. /\ context' = [context EXCEPT ![p] = c]
      /\ making' = [making EXCEPT ![w] = Making("mixed", now, c.randomness)]
      /\ UNCHANGED <<flags, running, now, made>>
  BY DEF TakeRandomness
<1> HIDE DEF c, p
<1>5. IdsTypeOK'
  <2>1. Making("mixed", now, c.randomness) \in Makings
    BY <1>3 DEF IdsInv, IdsTypeOK, Making, Makings, Contexts
  <2> QED BY <1>1, <1>3, <1>4, <2>1 DEF IdsInv, IdsTypeOK, Contexts, Makings
<1>6. ContextInv'
  BY <1>1, <1>3, <1>4 DEF IdsInv, IdsTypeOK, ContextInv
<1>7. MakingInv'
  <2> SUFFICES ASSUME NEW v \in Workers, making'[v].pc = "mixed"
               PROVE  Home(v) \in running /\ (Checked => making'[v].randomness = Home(v))
    BY <1>4 DEF MakingInv, Checked, Home
  <2>1. CASE v = w
    BY <1>1, <1>3, <1>4, <2>1 DEF IdsInv, IdsTypeOK, Making, p
  <2>2. CASE v # w
    BY <1>4, <2>2 DEF IdsInv, IdsTypeOK, MakingInv
  <2> QED BY <2>1, <2>2
<1>8. \A q \in Processes : context'[q].seq32 = context[q].seq32
  BY <1>1, <1>3, <1>4 DEF IdsInv, IdsTypeOK
<1>9. MadeInv'
  <2> SUFFICES ASSUME NEW i \in DOMAIN made
               PROVE  /\ made[i].by \in running
                      /\ made[i].seq32 < context'[made[i].by].seq32
                      /\ made[i].id.number = made[i].seq32 % NumberLimit
                      /\ Checked => made[i].id.randomness = made[i].by
    BY <1>4 DEF MadeInv, Checked
  <2>1. made[i].by \in Processes
    BY MadeAreTyped
  <2> QED BY <1>8, <2>1 DEF IdsInv, MadeInv
<1>10. OrderInv'
  BY <1>4 DEF IdsInv, OrderInv
<1> QED BY <1>5, <1>6, <1>7, <1>9, <1>10 DEF IdsInv

(* A number the context has not given out yet goes behind all others.      *)
LEMMA TakeNumberKeepsIdsInv ==
    ASSUME IdsInv, NEW w \in Workers, TakeNumber(w)
    PROVE  IdsInv'
<1> DEFINE p == Home(w)
           k == context[p].seq32
           id == Id(w, k)
           m == [by |-> p, seq32 |-> k, id |-> id]
           c == Counted(p, k + 1)
<1>1. p \in Processes
  BY WorkersAssumption DEF Home
<1>2. /\ making[w].pc = "mixed"
      /\ made' = Append(made, m)
      /\ context' = [context EXCEPT ![p] = c]
      /\ making' = [making EXCEPT ![w] = Idle]
      /\ UNCHANGED <<flags, running, now>>
  BY DEF TakeNumber
<1>3. p \in running /\ (Checked => making[w].randomness = p)
  BY <1>2 DEF IdsInv, MakingInv
<1>4. context[p] \in Contexts /\ k \in Nat
  BY <1>1 DEF IdsInv, IdsTypeOK, Contexts
<1>5. /\ c \in Contexts
      /\ c.randomness = context[p].randomness
      /\ c.pid = context[p].pid
      /\ c.seq32 = k + 1
  BY <1>4 DEF Counted, Context, Contexts
<1>6. id \in Ids /\ id.number = k % NumberLimit /\ id.randomness = making[w].randomness
  <2>1. k % NumberLimit \in 0 .. NumberLimit - 1
    BY <1>4, WorkersAssumption
  <2>2. making[w] \in Makings
    BY DEF IdsInv, IdsTypeOK, Makings
  <2> QED BY <2>1, <2>2 DEF Id, Ids, Makings
<1>7. m \in Mades /\ m.by = p /\ m.seq32 = k /\ m.id = id
  BY <1>1, <1>4, <1>6 DEF Mades
<1> HIDE DEF m, c, id
<1>8. made \in Seq(Mades)
  BY DEF IdsInv, IdsTypeOK, Mades
<1>9. /\ DOMAIN made' = 1 .. Len(made) + 1
      /\ \A i \in DOMAIN made : made'[i] = made[i] /\ made[i] \in Mades /\ i \in 1 .. Len(made)
      /\ made'[Len(made) + 1] = m
      /\ DOMAIN made = 1 .. Len(made) /\ Len(made) \in Nat
  BY <1>2, <1>7, <1>8
<1>10. IdsTypeOK'
  <2>1. made' \in Seq(Mades)
    BY <1>2, <1>7, <1>8
  <2>2. Idle \in Makings
    BY WorkersAssumption DEF Idle, Making, Makings
  <2> QED BY <1>1, <1>2, <1>5, <2>1, <2>2 DEF IdsInv, IdsTypeOK, Contexts, Makings, Mades
<1>11. ContextInv'
  BY <1>1, <1>2, <1>5 DEF IdsInv, IdsTypeOK, ContextInv
<1>12. MakingInv'
  BY <1>2 DEF IdsInv, IdsTypeOK, MakingInv, Checked, Idle, Making, Home
<1>13. \A q \in Processes : context'[q].seq32 >= context[q].seq32 /\ context[q].seq32 \in Nat
  BY <1>1, <1>2, <1>4, <1>5 DEF IdsInv, IdsTypeOK
<1>14. context'[p].seq32 = k + 1
  BY <1>1, <1>2, <1>5 DEF IdsInv, IdsTypeOK
<1>15. MadeInv'
  <2> SUFFICES ASSUME NEW i \in DOMAIN made'
               PROVE  /\ made'[i].by \in running
                      /\ made'[i].seq32 < context'[made'[i].by].seq32
                      /\ made'[i].id.number = made'[i].seq32 % NumberLimit
                      /\ Checked => made'[i].id.randomness = made'[i].by
    BY <1>2 DEF MadeInv, Checked
  <2>1. CASE i \in DOMAIN made
    <3>1. made[i].by \in Processes /\ made[i].seq32 \in Nat /\ made'[i] = made[i]
      BY <1>9, <2>1 DEF Mades
    <3>2. /\ made[i].by \in running
          /\ made[i].seq32 < context[made[i].by].seq32
          /\ made[i].id.number = made[i].seq32 % NumberLimit
          /\ Checked => made[i].id.randomness = made[i].by
      BY <2>1 DEF IdsInv, MadeInv
    <3>3. context'[made[i].by].seq32 \in Nat
      BY <1>10, <3>1 DEF IdsTypeOK
    <3> QED BY <1>13, <3>1, <3>2, <3>3
  <2>2. CASE i = Len(made) + 1
    <3>1. made'[i] = m
      BY <1>9, <2>2
    <3> QED BY <1>3, <1>4, <1>6, <1>7, <1>14, <3>1
  <2> QED BY <1>9, <2>1, <2>2
<1>16. OrderInv'
  <2> SUFFICES ASSUME NEW i \in DOMAIN made', NEW j \in DOMAIN made',
                      i < j, made'[i].by = made'[j].by
               PROVE  made'[i].seq32 < made'[j].seq32
    BY DEF OrderInv
  <2>1. i \in DOMAIN made /\ made'[i] = made[i]
    BY <1>9
  <2>2. CASE j \in DOMAIN made
    BY <1>9, <2>1, <2>2 DEF IdsInv, OrderInv
  <2>3. CASE j = Len(made) + 1
    <3>1. made'[j] = m
      BY <1>9, <2>3
    <3>2. made[i].by = p
      BY <1>7, <2>1, <3>1
    <3> QED BY <1>7, <2>1, <3>1, <3>2 DEF IdsInv, MadeInv
  <2> QED BY <1>9, <2>2, <2>3
<1> QED BY <1>10, <1>11, <1>12, <1>15, <1>16 DEF IdsInv

(* A new process has made no ids yet. *)
LEMMA ForkKeepsIdsInv ==
    ASSUME IdsInv, NEW p \in Processes, NEW q \in Processes, Fork(p, q)
    PROVE  IdsInv'
<1>1. /\ p \in running /\ q \notin running
      /\ running' = running \cup {q}
      /\ context' = [context EXCEPT ![q] = context[p]]
      /\ UNCHANGED <<flags, now, making, made>>
  BY DEF Fork
<1>2. IdsTypeOK'
  BY <1>1 DEF IdsInv, IdsTypeOK
<1>3. ContextInv'
  BY <1>1 DEF IdsInv, IdsTypeOK, ContextInv
<1>4. MakingInv'
  BY <1>1 DEF IdsInv, MakingInv, Checked, Home
<1>5. MadeInv'
  <2> SUFFICES ASSUME NEW i \in DOMAIN made
               PROVE  /\ made[i].by \in running'
                      /\ made[i].seq32 < context'[made[i].by].seq32
                      /\ made[i].id.number = made[i].seq32 % NumberLimit
                      /\ Checked => made[i].id.randomness = made[i].by
    BY <1>1 DEF MadeInv, Checked
  <2>1. made[i].by \in running /\ made[i].by # q
    BY <1>1 DEF IdsInv, MadeInv
  <2>2. made[i].by \in Processes
    BY MadeAreTyped
  <2>3. context'[made[i].by] = context[made[i].by]
    BY <1>1, <2>1, <2>2 DEF IdsInv, IdsTypeOK
  <2> QED BY <1>1, <2>1, <2>3 DEF IdsInv, MadeInv
<1>6. OrderInv'
  BY <1>1 DEF IdsInv, OrderInv
<1> QED BY <1>2, <1>3, <1>4, <1>5, <1>6 DEF IdsInv

LEMMA OtherStepsKeepIdsInv ==
    ASSUME IdsInv, Tick \/ UNCHANGED idVars
    PROVE  IdsInv'
<1>1. /\ UNCHANGED <<flags, running, context, making, made>>
      /\ now' = now \/ now' = now + 1
  BY DEF Tick, idVars
<1>2. IdsTypeOK'
  BY <1>1 DEF IdsInv, IdsTypeOK
<1>3. ContextInv' /\ MakingInv' /\ OrderInv'
  BY <1>1 DEF IdsInv, ContextInv, MakingInv, OrderInv, Checked, Home
<1>4. MadeInv'
  BY <1>1 DEF IdsInv, MadeInv, Checked
<1> QED BY <1>2, <1>3, <1>4 DEF IdsInv

LEMMA IdsInvNext == IdsInv /\ [IdsNext]_idVars => IdsInv'
<1> SUFFICES ASSUME IdsInv, [IdsNext]_idVars PROVE IdsInv'
  OBVIOUS
<1>1. CASE \E w \in Workers : TakeRandomness(w) \/ TakeNumber(w)
  BY <1>1, TakeRandomnessKeepsIdsInv, TakeNumberKeepsIdsInv
<1>2. CASE \E p, q \in Processes : Fork(p, q)
  BY <1>2, ForkKeepsIdsInv
<1>3. CASE Tick \/ UNCHANGED idVars
  BY <1>3, OtherStepsKeepIdsInv
<1> QED BY <1>1, <1>2, <1>3 DEF IdsNext

LEMMA IdsInvIsFarApart == IdsInv => SameIdsAreFarApart
<1> SUFFICES ASSUME IdsInv, NEW i \in DOMAIN made, NEW j \in DOMAIN made,
                    i < j, made[i].id = made[j].id
             PROVE  \/ made[i].by = made[j].by /\ made[j].seq32 >= made[i].seq32 + NumberLimit
                    \/ made[i].by # made[j].by /\ flags = "BSON_CONTEXT_NONE"
  BY DEF SameIdsAreFarApart
<1>1. made[i] \in Mades /\ made[j] \in Mades
  BY MadeAreTyped
<1>2. CASE made[i].by = made[j].by
  <2>1. made[i].seq32 < made[j].seq32
    BY <1>2 DEF IdsInv, OrderInv
  <2>2. (made[i].seq32 % NumberLimit) = (made[j].seq32 % NumberLimit)
    BY DEF IdsInv, MadeInv
  <2>3. made[i].seq32 \in Nat /\ made[j].seq32 \in Nat
    BY <1>1 DEF Mades
  <2>4. made[j].seq32 >= made[i].seq32 + NumberLimit
    BY <2>1, <2>2, <2>3, WorkersAssumption, SameLowBytes
  <2> QED BY <1>2, <2>4
<1>3. CASE made[i].by # made[j].by
  <2>1. ~Checked
    BY <1>3 DEF IdsInv, MadeInv
  <2> QED BY <1>3, <2>1 DEF IdsInv, IdsTypeOK, ContextFlags, Checked
<1> QED BY <1>2, <1>3
-----------------------------------------------------------------------------
(* Oid.init() makes ids of its kind, whatever the flags of the context.    *)
THEOREM IdsAreTyped == IdsSpec => []IdsTypeOK
<1>1. IdsInv => IdsTypeOK
  BY DEF IdsInv
<1> QED BY <1>1, IdsInvInit, IdsInvNext, PTL DEF IdsSpec

(* For any number of processes that fork each other and of threads in them *)
(* that call Oid.init(), the same id is made twice by a process only after *)
(* all numbers of three bytes, and by two only if the context was made     *)
(* with BSON_CONTEXT_NONE.                                                 *)
THEOREM SameIdsStayFarApart == IdsSpec => []SameIdsAreFarApart
BY IdsInvInit, IdsInvNext, IdsInvIsFarApart, PTL DEF IdsSpec
-----------------------------------------------------------------------------
(* Threads that insert: Inserts.                                           *)

Pcs == {"naming", "sent", "inserted", "duplicate"}

Threads == [pc : Pcs, ids : Seq(Ids), tries : Nat, refused : Nat]

Requests == [from : Workers, try : Nat, ids : Seq(Ids)]

Documents == Workers \X (Nat \ {0})

Stored == [document : Documents, id : Ids]

InsertsTypeOK ==
    /\ owners \subseteq Workers
    /\ program \in [Workers -> Threads]
    /\ network \subseteq Requests
    /\ stored \subseteq Stored

(* A request has an id for each document of its slice. *)
LengthInv == \A r \in network : Len(r.ids) = Slice[r.from]

(* A document with an id of its own has it in all requests and when it is  *)
(* stored.                                                                 *)
OwnInv ==
    \A w \in owners :
        /\ \A r \in network : r.from = w => r.ids = program[w].ids
        /\ \A s \in stored : s.document[1] = w =>
             /\ Len(program[w].ids) = Slice[w]
             /\ s.document[2] \in 1 .. Slice[w]
             /\ s.id = program[w].ids[s.document[2]]

InsertsInv == InsertsTypeOK /\ LengthInv /\ OwnInv /\ FirstOnesAreStored
-----------------------------------------------------------------------------
(* The steps of Inserts that change ids are steps of ObjectIds. *)
LEMMA StepsOfIds == [Next]_vars => [IdsNext]_idVars
<1> SUFFICES ASSUME [Next]_vars PROVE [IdsNext]_idVars
  OBVIOUS
<1>1. CASE \E w \in Workers : Name(w) \/ Named(w)
  BY <1>1 DEF Name, Named, IdsNext
<1>2. CASE \E w \in Workers : Send(w) \/ Repeat(w)
  BY <1>2 DEF Send, Repeat
<1>3. CASE \E r \in network : Serve(r)
  BY <1>3 DEF Serve, StoreAll, Refuse, Lose, StoreFirst
<1>4. CASE Elsewhere
  BY <1>4 DEF Elsewhere, IdsNext
<1>5. CASE UNCHANGED vars
  BY <1>5 DEF vars
<1> QED BY <1>1, <1>2, <1>3, <1>4, <1>5 DEF Next

(* The ids of documents are made by Oid.init() and by nothing else: what   *)
(* ObjectIds says of them is true here.                                    *)
THEOREM InsertsUseTheIds == Spec => IdsSpec
<1>1. Init => IdsInit
  BY DEF Init
<1> QED BY <1>1, StepsOfIds, PTL DEF Spec, IdsSpec

LEMMA IdsInvAlways == Spec => []IdsInv
<1>1. IdsSpec => []IdsInv
  BY IdsInvInit, IdsInvNext, PTL DEF IdsSpec
<1> QED BY <1>1, InsertsUseTheIds, PTL

(* Two documents of a program have the same id only when all numbers were  *)
(* given out between them, or an unchecked context was forked.             *)
THEOREM InsertedIdsStayFarApart == Spec => []SameIdsAreFarApart
BY InsertsUseTheIds, SameIdsStayFarApart, PTL
-----------------------------------------------------------------------------
(* Every step but those of the server is one of a thread, or of no matter. *)
LEMMA ThreadsAreTyped ==
    ASSUME InsertsTypeOK, NEW w \in Workers
    PROVE  /\ program[w] \in Threads
           /\ program[w].ids \in Seq(Ids)
           /\ Len(program[w].ids) \in Nat
BY DEF InsertsTypeOK, Threads

LEMMA SlicesAreTyped ==
    ASSUME NEW w \in Workers
    PROVE  Slice[w] \in Nat \ {0}
BY InsertsAssumption

LEMMA ThreadIsTyped ==
    ASSUME NEW pc \in Pcs, NEW ids \in Seq(Ids), NEW tries \in Nat, NEW refused \in Nat
    PROVE  /\ Thread(pc, ids, tries, refused) \in Threads
           /\ Thread(pc, ids, tries, refused).pc = pc
           /\ Thread(pc, ids, tries, refused).ids = ids
           /\ Thread(pc, ids, tries, refused).tries = tries
           /\ Thread(pc, ids, tries, refused).refused = refused
BY DEF Thread, Threads

(* What serving a request does, in all its ways. *)
LEMMA ServesSome ==
    ASSUME InsertsTypeOK, LengthInv, NEW r \in network, Serve(r)
    PROVE  \E n \in 0 .. Slice[r.from] :
             /\ StoreFirst(r, n)
             /\ \/ program' = program
                \/ n = Slice[r.from] /\ Answer(r, "inserted", 0)
                \/ n < Slice[r.from] /\ ~Insertable(r, n + 1) /\ Answer(r, "duplicate", n + 1)
<1>1. r \in Requests /\ Len(r.ids) = Slice[r.from] /\ r.from \in Workers
  BY DEF InsertsTypeOK, LengthInv, Requests
<1>2. Slice[r.from] \in Nat \ {0}
  BY <1>1, SlicesAreTyped
<1>3. CASE StoreAll(r)
  BY <1>1, <1>2, <1>3 DEF StoreAll
<1>4. CASE \E n \in 0 .. Len(r.ids) - 1 : Refuse(r, n)
  BY <1>1, <1>2, <1>4 DEF Refuse
<1>5. CASE \E n \in 0 .. Len(r.ids) : Lose(r, n)
  BY <1>1, <1>2, <1>5 DEF Lose
<1> QED BY <1>3, <1>4, <1>5 DEF Serve

(* An answer changes no ids and no number of tries. *)
LEMMA AnswersKeepIds ==
    ASSUME InsertsTypeOK, NEW r \in Requests, NEW n \in Nat,
           \/ program' = program
           \/ Answer(r, "inserted", 0)
           \/ Answer(r, "duplicate", n)
    PROVE  /\ program' \in [Workers -> Threads]
           /\ \A w \in Workers : /\ program'[w].ids = program[w].ids
                                 /\ program'[w].tries = program[w].tries
<1>1. r.from \in Workers /\ program[r.from] \in Threads
  BY DEF Requests, InsertsTypeOK
<1>2. ASSUME NEW pc \in Pcs, NEW k \in Nat, Answer(r, pc, k)
      PROVE  /\ program' \in [Workers -> Threads]
             /\ \A w \in Workers : /\ program'[w].ids = program[w].ids
                                   /\ program'[w].tries = program[w].tries
  <2> DEFINE t == Thread(pc, program[r.from].ids, program[r.from].tries, k)
  <2>1. /\ t \in Threads
        /\ t.ids = program[r.from].ids
        /\ t.tries = program[r.from].tries
    <3>1. program[r.from].ids \in Seq(Ids) /\ program[r.from].tries \in Nat
      BY <1>1 DEF Threads
    <3> QED BY <1>2, <3>1, ThreadIsTyped
  <2>2. program' = program \/ program' = [program EXCEPT ![r.from] = t]
    BY <1>2 DEF Answer
  <2> HIDE DEF t
  <2> QED BY <1>1, <2>1, <2>2 DEF InsertsTypeOK
<1>3. CASE program' = program
  BY <1>3 DEF InsertsTypeOK
<1> QED BY <1>2, <1>3 DEF Pcs

LEMMA InsertsInvInit == Init => InsertsInv
<1> SUFFICES ASSUME Init PROVE InsertsInv
  OBVIOUS
<1>1. Thread("naming", <<>>, 0, 0) \in Threads
  BY DEF Thread, Threads, Pcs
<1>2. InsertsTypeOK
  BY <1>1 DEF Init, InsertsTypeOK
<1>3. LengthInv /\ OwnInv /\ FirstOnesAreStored
  BY DEF Init, LengthInv, OwnInv, FirstOnesAreStored
<1> QED BY <1>2, <1>3 DEF InsertsInv

(* A step of a thread replaces what the thread knows. *)
LEMMA ThreadMoves ==
    ASSUME InsertsTypeOK, NEW w \in Workers, NEW t \in Threads,
           program' = [program EXCEPT ![w] = t]
    PROVE  /\ program' \in [Workers -> Threads]
           /\ program'[w] = t
           /\ \A v \in Workers : v # w => program'[v] = program[v]
BY DEF InsertsTypeOK

(* Where all ids of a thread are made, it makes no more. *)
LEMMA NamedKeepsInsertsInv ==
    ASSUME InsertsInv, IdsTypeOK, IdsTypeOK', NEW w \in Workers, Named(w)
    PROVE  InsertsInv'
<1> DEFINE x == made'[Len(made')].id
           t == Thread("naming", Append(program[w].ids, x), program[w].tries, 0)
<1>1. InsertsTypeOK /\ LengthInv /\ OwnInv /\ FirstOnesAreStored
  BY DEF InsertsInv
<1>2. /\ program' = [program EXCEPT ![w] = t]
      /\ UNCHANGED <<owners, network, stored>>
      /\ Len(program[w].ids) < Slice[w]
  BY DEF Named, Unnamed
<1>3. x \in Ids
  <2>1. made' \in Seq(Mades)
    BY DEF IdsTypeOK, Mades
  <2>2. Len(made') \in DOMAIN made'
    <3>1. made \in Seq(Mades)
      BY DEF IdsTypeOK, Mades
    <3>2. PICK m : made' = Append(made, m)
      BY DEF Named, TakeNumber
    <3>3. Len(made') = Len(made) + 1 /\ Len(made) \in Nat /\ DOMAIN made' = 1 .. Len(made')
      BY <2>1, <3>1, <3>2
    <3> QED BY <3>3
  <2>3. made'[Len(made')] \in Mades
    BY <2>1, <2>2
  <2> QED BY <2>3 DEF Mades
<1>4. /\ t \in Threads
      /\ t.ids = Append(program[w].ids, x)
  <2>1. program[w].ids \in Seq(Ids) /\ program[w].tries \in Nat
    BY <1>1 DEF InsertsTypeOK, Threads
  <2>2. Append(program[w].ids, x) \in Seq(Ids)
    BY <1>3, <2>1
  <2> QED BY <2>1, <2>2 DEF Thread, Threads, Pcs
<1> HIDE DEF t, x
<1>5. InsertsTypeOK'
  BY <1>1, <1>2, <1>4, ThreadMoves DEF InsertsTypeOK
<1>6. LengthInv' /\ FirstOnesAreStored'
  BY <1>1, <1>2 DEF LengthInv, FirstOnesAreStored, Document
<1>7. OwnInv'
  <2> SUFFICES ASSUME NEW v \in owners
               PROVE  /\ \A r \in network : r.from = v => r.ids = program'[v].ids
                      /\ \A s \in stored : s.document[1] = v =>
                           /\ Len(program'[v].ids) = Slice[v]
                           /\ s.document[2] \in 1 .. Slice[v]
                           /\ s.id = program'[v].ids[s.document[2]]
    BY <1>2 DEF OwnInv
  <2>1. v \in Workers
    BY <1>1 DEF InsertsTypeOK
  <2>2. CASE v # w
    BY <1>1, <1>2, <1>4, <2>1, <2>2, ThreadMoves DEF OwnInv
  <2>3. CASE v = w
    <3>1. \A r \in network : r.from # w
      BY <1>1, <1>2, <2>3, ThreadsAreTyped, SlicesAreTyped DEF OwnInv, LengthInv
    <3>2. \A s \in stored : s.document[1] # w
      BY <1>1, <1>2, <2>3, ThreadsAreTyped, SlicesAreTyped DEF OwnInv
    <3> QED BY <2>3, <3>1, <3>2
  <2> QED BY <2>2, <2>3
<1> QED BY <1>5, <1>6, <1>7 DEF InsertsInv

LEMMA SendKeepsInsertsInv ==
    ASSUME InsertsInv, NEW w \in Workers, Send(w)
    PROVE  InsertsInv'
<1> DEFINE q == Request(w)
           t == Thread("sent", program[w].ids, program[w].tries + 1, 0)
<1>1. InsertsTypeOK /\ LengthInv /\ OwnInv /\ FirstOnesAreStored
  BY DEF InsertsInv
<1>2. /\ Len(program[w].ids) = Slice[w]
      /\ network' = network \cup {q}
      /\ program' = [program EXCEPT ![w] = t]
      /\ UNCHANGED <<owners, stored>>
  BY DEF Send
<1>3. program[w].ids \in Seq(Ids) /\ program[w].tries \in Nat
  BY <1>1 DEF InsertsTypeOK, Threads
<1>4. t \in Threads /\ t.ids = program[w].ids
  BY <1>3 DEF Thread, Threads, Pcs
<1>5. q \in Requests /\ q.from = w /\ q.ids = program[w].ids
  BY <1>3 DEF Request, Requests
<1> HIDE DEF q, t
<1>6. program' \in [Workers -> Threads] /\ \A v \in Workers : program'[v].ids = program[v].ids
  BY <1>1, <1>2, <1>4, ThreadMoves
<1>7. InsertsTypeOK'
  BY <1>1, <1>2, <1>5, <1>6 DEF InsertsTypeOK
<1>8. LengthInv' /\ FirstOnesAreStored'
  BY <1>1, <1>2, <1>5 DEF LengthInv, FirstOnesAreStored, Document
<1>9. OwnInv'
  BY <1>1, <1>2, <1>5, <1>6 DEF OwnInv, InsertsTypeOK
<1> QED BY <1>7, <1>8, <1>9 DEF InsertsInv

LEMMA RepeatKeepsInsertsInv ==
    ASSUME InsertsInv, NEW w \in Workers, Repeat(w)
    PROVE  InsertsInv'
<1> DEFINE t == Thread("naming", IdsOfRepeat(w), program[w].tries, 0)
<1>1. InsertsTypeOK /\ LengthInv /\ OwnInv /\ FirstOnesAreStored
  BY DEF InsertsInv
<1>2. /\ program' = [program EXCEPT ![w] = t]
      /\ UNCHANGED <<owners, network, stored>>
  BY DEF Repeat
<1>3. IdsOfRepeat(w) \in Seq(Ids) /\ program[w].tries \in Nat
  BY <1>1 DEF InsertsTypeOK, Threads, IdsOfRepeat
<1>4. t \in Threads /\ t.ids = IdsOfRepeat(w)
  BY <1>3 DEF Thread, Threads, Pcs
<1> HIDE DEF t
<1>5. \A v \in owners : program'[v].ids = program[v].ids
  BY <1>1, <1>2, <1>4, ThreadMoves DEF IdsOfRepeat, InsertsTypeOK
<1>6. InsertsTypeOK'
  BY <1>1, <1>2, <1>4, ThreadMoves DEF InsertsTypeOK
<1>7. LengthInv' /\ FirstOnesAreStored'
  BY <1>1, <1>2 DEF LengthInv, FirstOnesAreStored, Document
<1>8. OwnInv'
  BY <1>1, <1>2, <1>5 DEF OwnInv
<1> QED BY <1>6, <1>7, <1>8 DEF InsertsInv

(* The documents a request stores. *)
LEMMA StoredByRequest ==
    ASSUME InsertsTypeOK, LengthInv, NEW r \in network, NEW n \in 0 .. Slice[r.from],
           StoreFirst(r, n), NEW s \in stored'
    PROVE  \/ s \in stored
           \/ \E i \in 1 .. n : /\ i \in 1 .. Slice[r.from]
                                /\ s = [document |-> <<r.from, i>>, id |-> r.ids[i]]
                                /\ s.document = <<r.from, i>>
                                /\ s.id = r.ids[i]
                                /\ s \in Stored
<1>1. r \in Requests /\ Len(r.ids) = Slice[r.from] /\ r.from \in Workers
  BY DEF InsertsTypeOK, LengthInv, Requests
<1>2. Slice[r.from] \in Nat \ {0}
  BY <1>1, SlicesAreTyped
<1>3. r.ids \in Seq(Ids)
  BY <1>1 DEF Requests
<1>4. CASE \E i \in 1 .. n : s = [document |-> <<r.from, i>>, id |-> r.ids[i]]
  <2>1. PICK i \in 1 .. n : s = [document |-> <<r.from, i>>, id |-> r.ids[i]]
    BY <1>4
  <2>2. i \in 1 .. Slice[r.from] /\ i \in Nat \ {0}
    BY <1>2
  <2>3. r.ids[i] \in Ids
    BY <1>1, <1>3, <2>2
  <2> QED BY <1>1, <2>1, <2>2, <2>3 DEF Stored, Documents
<1> QED BY <1>4 DEF StoreFirst, Document

LEMMA ServeKeepsInsertsInv ==
    ASSUME InsertsInv, NEW r \in network, Serve(r)
    PROVE  InsertsInv'
<1>1. InsertsTypeOK /\ LengthInv /\ OwnInv /\ FirstOnesAreStored
  BY DEF InsertsInv
<1>2. r \in Requests /\ Len(r.ids) = Slice[r.from] /\ r.from \in Workers
  BY <1>1 DEF InsertsTypeOK, LengthInv, Requests
<1>3. Slice[r.from] \in Nat \ {0}
  BY <1>2, SlicesAreTyped
<1>4. PICK n \in 0 .. Slice[r.from] :
        /\ StoreFirst(r, n)
        /\ \/ program' = program
           \/ n = Slice[r.from] /\ Answer(r, "inserted", 0)
           \/ n < Slice[r.from] /\ ~Insertable(r, n + 1) /\ Answer(r, "duplicate", n + 1)
  BY <1>1, ServesSome
<1>5. /\ program' \in [Workers -> Threads]
      /\ \A w \in Workers : program'[w].ids = program[w].ids
  <2>1. n + 1 \in Nat
    BY <1>3
  <2>2. \/ program' = program
        \/ Answer(r, "inserted", 0)
        \/ Answer(r, "duplicate", n + 1)
    BY <1>4
  <2> QED BY <1>1, <1>2, <2>1, <2>2, AnswersKeepIds
<1>6. /\ network' \subseteq network
      /\ stored \subseteq stored'
      /\ owners' = owners
      /\ \A i \in 1 .. n : [document |-> <<r.from, i>>, id |-> r.ids[i]] \in stored'
  BY <1>4 DEF StoreFirst, Document
<1>7. InsertsTypeOK'
  BY <1>1, <1>4, <1>5, <1>6, StoredByRequest DEF InsertsTypeOK
<1>8. LengthInv'
  BY <1>1, <1>6 DEF LengthInv
<1>9. OwnInv'
  <2> SUFFICES ASSUME NEW w \in owners
               PROVE  /\ \A q \in network' : q.from = w => q.ids = program[w].ids
                      /\ \A s \in stored' : s.document[1] = w =>
                           /\ Len(program[w].ids) = Slice[w]
                           /\ s.document[2] \in 1 .. Slice[w]
                           /\ s.id = program[w].ids[s.document[2]]
    BY <1>1, <1>5, <1>6 DEF OwnInv, InsertsTypeOK
  <2>1. \A q \in network' : q.from = w => q.ids = program[w].ids
    BY <1>1, <1>6 DEF OwnInv
  <2>2. ASSUME NEW s \in stored', s.document[1] = w
        PROVE  /\ Len(program[w].ids) = Slice[w]
               /\ s.document[2] \in 1 .. Slice[w]
               /\ s.id = program[w].ids[s.document[2]]
    <3>1. CASE s \in stored
      BY <1>1, <2>2, <3>1 DEF OwnInv
    <3>2. CASE s \notin stored
      <4>1. PICK i \in 1 .. n : /\ i \in 1 .. Slice[r.from]
                                /\ s.document = <<r.from, i>>
                                /\ s.id = r.ids[i]
        BY <1>1, <1>4, <3>2, StoredByRequest
      <4>2. r.from = w /\ r.ids = program[w].ids
        BY <1>1, <2>2, <4>1 DEF OwnInv
      <4> QED BY <1>2, <4>1, <4>2
    <3> QED BY <3>1, <3>2
  <2> QED BY <2>1, <2>2
<1>10. FirstOnesAreStored'
  <2> SUFFICES ASSUME NEW s \in stored', NEW k \in 1 .. s.document[2]
               PROVE  \E t \in stored' : t.document = <<s.document[1], k>>
    BY DEF FirstOnesAreStored, Document
  <2>1. CASE s \in stored
    BY <1>1, <1>6, <2>1 DEF FirstOnesAreStored, Document
  <2>2. CASE s \notin stored
    <3>1. PICK i \in 1 .. n : s.document = <<r.from, i>>
      BY <1>1, <1>4, <2>2, StoredByRequest
    <3>2. k \in 1 .. n
      BY <1>3, <3>1
    <3>3. [document |-> <<r.from, k>>, id |-> r.ids[k]] \in stored'
      BY <1>6, <3>2
    <3>4. s.document[1] = r.from
      BY <3>1
    <3> QED BY <3>3, <3>4
  <2> QED BY <2>1, <2>2
<1> QED BY <1>7, <1>8, <1>9, <1>10 DEF InsertsInv

LEMMA OtherStepsKeepInsertsInv ==
    ASSUME InsertsInv, UNCHANGED <<owners, program, network, stored>>
    PROVE  InsertsInv'
BY DEF InsertsInv, InsertsTypeOK, LengthInv, OwnInv, FirstOnesAreStored, Document

LEMMA InsertsInvNext == InsertsInv /\ IdsInv /\ IdsInv' /\ [Next]_vars => InsertsInv'
<1> SUFFICES ASSUME InsertsInv, IdsInv, IdsInv', [Next]_vars PROVE InsertsInv'
  OBVIOUS
<1>1. ASSUME NEW w \in Workers, Name(w) PROVE InsertsInv'
  BY <1>1, OtherStepsKeepInsertsInv DEF Name
<1>2. ASSUME NEW w \in Workers, Named(w) PROVE InsertsInv'
  BY <1>2, NamedKeepsInsertsInv DEF IdsInv
<1>3. CASE \E w \in Workers : Send(w) \/ Repeat(w)
  BY <1>3, SendKeepsInsertsInv, RepeatKeepsInsertsInv
<1>4. CASE \E r \in network : Serve(r)
  BY <1>4, ServeKeepsInsertsInv
<1>5. CASE Elsewhere \/ UNCHANGED vars
  BY <1>5, OtherStepsKeepInsertsInv DEF Elsewhere, vars
<1> QED BY <1>1, <1>2, <1>3, <1>4, <1>5 DEF Next

LEMMA InsertsInvAlways == Spec => []InsertsInv
BY InsertsInvInit, InsertsInvNext, IdsInvAlways, PTL DEF Spec

(* Of the documents of one request either the first one is new to the      *)
(* server, or none is stored, when the request is of documents with ids of *)
(* their own.                                                              *)
LEMMA FirstIsNewOrNone ==
    ASSUME InsertsInv, NEW r \in network, r.from \in owners,
           NEW n \in Nat, Insertable(r, n),
           NEW s \in stored, s.document[1] = r.from
    PROVE  /\ n = 0
           /\ \E t \in stored : t.document = <<r.from, 1>> /\ t.id = program[r.from].ids[1]
<1>1. InsertsTypeOK /\ LengthInv /\ OwnInv /\ FirstOnesAreStored
  BY DEF InsertsInv
<1>2. s.document[2] \in Nat \ {0}
  BY <1>1 DEF InsertsTypeOK, Stored, Documents
<1>3. PICK t \in stored : t.document = <<r.from, 1>>
  <2>1. 1 \in 1 .. s.document[2]
    BY <1>2
  <2>2. \E t \in stored : t.document = <<s.document[1], 1>>
    BY <1>1, <2>1 DEF FirstOnesAreStored, Document
  <2> QED BY <2>2
<1>4. t.document[1] = r.from /\ t.document[2] = 1
  BY <1>3
<1>5. t.id = program[r.from].ids[1] /\ r.ids = program[r.from].ids
  BY <1>1, <1>4 DEF OwnInv
<1>6. n = 0
  <2>1. SUFFICES ASSUME n # 0 PROVE FALSE
    OBVIOUS
  <2>2. r.ids[1] \notin Taken
    BY <2>1 DEF Insertable
  <2> QED BY <1>5, <2>2 DEF Taken
<1> QED BY <1>3, <1>5, <1>6

(* Whatever is lost, refused or repeated, the stored documents of a slice  *)
(* are its first ones, as inserts are ordered.                             *)
THEOREM FirstOnesAreAlwaysStored == Spec => []FirstOnesAreStored
<1>1. InsertsInv => FirstOnesAreStored
  BY DEF InsertsInv
<1> QED BY <1>1, InsertsInvAlways, PTL

(* Once a document of a slice with ids of its own is stored, no ordered    *)
(* insert of it, an old or a new one, stores another.                      *)
THEOREM RepeatsNeverComplete == Spec => RepeatsCompleteNothing
<1>1. InsertsInv /\ [Next]_vars =>
        [\A w \in owners : StoredOf(w) # {} => StoredOf(w)' = StoredOf(w)]_vars
  <2> SUFFICES ASSUME InsertsInv, Next,
                      NEW w \in owners, StoredOf(w) # {}
               PROVE  StoredOf(w)' = StoredOf(w)
    OBVIOUS
  <2>1. CASE UNCHANGED stored
    BY <2>1 DEF StoredOf
  <2>2. ASSUME NEW r \in network, Serve(r) PROVE StoredOf(w)' = StoredOf(w)
    <3>1. InsertsTypeOK /\ LengthInv
      BY DEF InsertsInv
    <3>2. PICK n \in 0 .. Slice[r.from] : StoreFirst(r, n)
      BY <2>2, <3>1, ServesSome
    <3>3. r.from \in Workers /\ Slice[r.from] \in Nat
      BY <3>1, SlicesAreTyped DEF InsertsTypeOK, Requests
    <3>4. CASE r.from = w
      <4>1. PICK s \in stored : s.document[1] = w
        BY DEF StoredOf
      <4>2. n = 0
        BY <3>2, <3>3, <3>4, <4>1, FirstIsNewOrNone DEF StoreFirst
      <4>3. stored' = stored
        BY <3>2, <4>2 DEF StoreFirst
      <4> QED BY <4>3 DEF StoredOf
    <3>5. CASE r.from # w
      <4>1. stored \subseteq stored'
        BY <3>2 DEF StoreFirst
      <4>2. \A s \in stored' : s \in stored \/ s.document[1] = r.from
        BY <3>1, <3>2, StoredByRequest
      <4> QED BY <3>5, <4>1, <4>2 DEF StoredOf
    <3> QED BY <3>4, <3>5
  <2>3. CASE \E v \in Workers : Name(v) \/ Named(v) \/ Send(v) \/ Repeat(v)
    BY <2>1, <2>3 DEF Name, Named, Send, Repeat
  <2>4. CASE Elsewhere
    BY <2>1, <2>4 DEF Elsewhere
  <2> QED BY <2>2, <2>3, <2>4 DEF Next
<1> QED BY <1>1, InsertsInvAlways, PTL DEF Spec, RepeatsCompleteNothing
-----------------------------------------------------------------------------
(* An id of a thread is in what it knows, in a request of it that is on    *)
(* its way, or in a document of it that is stored.                         *)
Uses(w, id) ==
    \/ \E k \in DOMAIN program[w].ids : id = program[w].ids[k]
    \/ \E r \in network : r.from = w /\ \E k \in DOMAIN r.ids : id = r.ids[k]
    \/ \E s \in stored : s.document[1] = w /\ s.id = id

MadeIds == {made[i].id : i \in DOMAIN made}

Distinct(ids) == \A k, l \in DOMAIN ids : k # l => ids[k] # ids[l]

Apart(ids, others) == \A k \in DOMAIN ids, l \in DOMAIN others : ids[k] # others[l]

(* No two threads use the same id, nor do two calls that were given ids by *)
(* the C library, nor two documents of one call.                           *)
UsesInv ==
    /\ \A w \in Workers : \A id \in Ids : Uses(w, id) => id \in MadeIds
    /\ IdsAreGood =>
         /\ \A v, w \in Workers : \A id \in Ids : Uses(v, id) /\ Uses(w, id) => v = w
         /\ \A w \in Workers : Distinct(program[w].ids)
         /\ \A r \in network : Distinct(r.ids)

CallsInv ==
    IdsAreGood =>
        /\ \A r \in network : r.from \notin owners =>
             /\ \A q \in network : q # r /\ q.from = r.from => Apart(q.ids, r.ids)
             /\ \A s \in stored : s.document[1] = r.from =>
                  \A k \in DOMAIN r.ids : s.id # r.ids[k]
        /\ \A w \in Workers : w \notin owners /\ At(w, "naming") =>
             /\ \A r \in network : r.from = w => Apart(r.ids, program[w].ids)
             /\ \A s \in stored : s.document[1] = w =>
                  \A k \in DOMAIN program[w].ids : s.id # program[w].ids[k]

RefusedInv == UsesInv /\ CallsInv /\ RefusedIsStored
-----------------------------------------------------------------------------
LEMMA IdsWereGood ==
    ASSUME IdsInv, [IdsNext]_idVars, IdsAreGood'
    PROVE  IdsAreGood
<1>1. IdsTypeOK
  BY DEF IdsInv
<1>2. ASSUME NEW w \in Workers, TakeRandomness(w) PROVE IdsAreGood
  <2>1. /\ Home(w) \in Processes
        /\ context' = [context EXCEPT ![Home(w)] = Seeded(Home(w))]
        /\ UNCHANGED <<flags, running>>
    BY <1>2, WorkersAssumption DEF TakeRandomness, Home
  <2>2. Seeded(Home(w)).seq32 = context[Home(w)].seq32
    BY DEF Seeded, Context
  <2>3. \A p \in Processes : context'[p].seq32 = context[p].seq32
    BY <1>1, <2>1, <2>2 DEF IdsTypeOK
  <2> QED BY <1>1, <2>1, <2>3 DEF IdsAreGood, IdsTypeOK
<1>3. ASSUME NEW w \in Workers, TakeNumber(w) PROVE IdsAreGood
  <2>1. /\ Home(w) \in Processes
        /\ context' = [context EXCEPT ![Home(w)] = Counted(Home(w), context[Home(w)].seq32 + 1)]
        /\ UNCHANGED <<flags, running>>
    BY <1>3, WorkersAssumption DEF TakeNumber, Home
  <2>2. Counted(Home(w), context[Home(w)].seq32 + 1).seq32 = context[Home(w)].seq32 + 1
    BY DEF Counted, Context
  <2>3. \A p \in Processes : context'[p].seq32 >= context[p].seq32 /\ context[p].seq32 \in Nat
    BY <1>1, <2>1, <2>2 DEF IdsTypeOK
  <2>4. \A p \in Processes : context'[p].seq32 \in Nat
    BY <1>1, <2>1, <2>2 DEF IdsTypeOK
  <2>5. ASSUME NEW p \in running PROVE context[p].seq32 <= NumberLimit
    <3>1. p \in Processes /\ context'[p].seq32 <= NumberLimit
      BY <1>1, <2>1 DEF IdsAreGood, IdsTypeOK
    <3> QED BY <2>3, <2>4, <3>1, WorkersAssumption
  <2> QED BY <2>1, <2>5 DEF IdsAreGood
<1>4. ASSUME NEW p \in Processes, NEW q \in Processes, Fork(p, q) PROVE IdsAreGood
  <2>1. /\ p \in running /\ q \notin running
        /\ running' = running \cup {q}
        /\ context' = [context EXCEPT ![q] = context[p]]
        /\ flags' = flags
    BY <1>4 DEF Fork
  <2>2. \A o \in running : context'[o] = context[o]
    BY <1>1, <2>1 DEF IdsTypeOK
  <2> QED BY <1>1, <2>1, <2>2 DEF IdsAreGood
<1>5. CASE Tick \/ UNCHANGED idVars
  BY <1>5 DEF Tick, idVars, IdsAreGood
<1> QED BY <1>2, <1>3, <1>4, <1>5 DEF IdsNext

(* As long as ids are good, the one that is made is a new one. *)
LEMMA NewIdIsNew ==
    ASSUME IdsInv, IdsInv', NEW w \in Workers, TakeNumber(w)
    PROVE  /\ made'[Len(made')].id \in Ids
           /\ MadeIds' = MadeIds \cup {made'[Len(made')].id}
           /\ IdsAreGood' => made'[Len(made')].id \notin MadeIds
<1>1. made \in Seq(Mades) /\ made' \in Seq(Mades)
  BY DEF IdsInv, IdsTypeOK, Mades
<1>2. PICK m : made' = Append(made, m)
  BY DEF TakeNumber
<1>3. /\ Len(made) \in Nat
      /\ Len(made') = Len(made) + 1
      /\ DOMAIN made = 1 .. Len(made)
      /\ DOMAIN made' = 1 .. Len(made')
      /\ \A i \in 1 .. Len(made) : made'[i] = made[i]
  BY <1>1, <1>2
<1>4. Len(made') \in DOMAIN made'
  BY <1>3
<1>5. made'[Len(made')].id \in Ids
  <2>1. made'[Len(made')] \in Mades
    BY <1>1, <1>4
  <2> QED BY <2>1 DEF Mades
<1>6. MadeIds' = MadeIds \cup {made'[Len(made')].id}
  <2>1. \A i \in DOMAIN made' : i \in DOMAIN made \/ i = Len(made')
    BY <1>3
  <2>2. \A i \in DOMAIN made : i \in DOMAIN made' /\ made'[i] = made[i]
    BY <1>3
  <2> QED BY <1>4, <2>1, <2>2 DEF MadeIds
<1>7. ASSUME IdsAreGood', NEW i \in DOMAIN made, made[i].id = made'[Len(made')].id
      PROVE  FALSE
  <2> DEFINE j == Len(made')
  <2>1. /\ i \in DOMAIN made' /\ j \in DOMAIN made' /\ i < j
        /\ made'[i].id = made'[j].id
    BY <1>3, <1>4, <1>7
  <2>2. \/ made'[i].by = made'[j].by /\ made'[j].seq32 >= made'[i].seq32 + NumberLimit
        \/ made'[i].by # made'[j].by /\ flags' = "BSON_CONTEXT_NONE"
    <3>1. SameIdsAreFarApart'
      BY IdsInvIsFarApart, PTL
    <3> QED BY <2>1, <3>1 DEF SameIdsAreFarApart
  <2> HIDE DEF j
  <2>3. /\ made'[i].by \in running' /\ made'[j].by \in running'
        /\ made'[j].seq32 < context'[made'[j].by].seq32
    BY <2>1 DEF IdsInv, MadeInv
  <2>4. CASE made'[i].by = made'[j].by /\ made'[j].seq32 >= made'[i].seq32 + NumberLimit
    <3>1. made'[i] \in Mades /\ made'[j] \in Mades
      BY <1>1, <2>1
    <3>2. made'[i].seq32 \in Nat /\ made'[j].seq32 \in Nat
      BY <3>1 DEF Mades
    <3>3. context'[made'[j].by].seq32 <= NumberLimit
      BY <1>7, <2>3 DEF IdsAreGood
    <3>4. context'[made'[j].by].seq32 \in Nat
      BY <3>1 DEF IdsInv, IdsTypeOK, Mades
    <3> QED BY <2>3, <2>4, <3>2, <3>3, <3>4, WorkersAssumption
  <2>5. CASE made'[i].by # made'[j].by /\ flags' = "BSON_CONTEXT_NONE"
    BY <1>7, <2>3, <2>5 DEF IdsAreGood
  <2> QED BY <2>2, <2>4, <2>5
<1> QED BY <1>5, <1>6, <1>7 DEF MadeIds

LEMMA RefusedInvInit == Init => RefusedInv
<1> SUFFICES ASSUME Init PROVE RefusedInv
  OBVIOUS
<1>1. \A w \in Workers : program[w].ids = <<>> /\ program[w].pc = "naming"
  BY DEF Init, Thread
<1>2. network = {} /\ stored = {}
  BY DEF Init
<1>3. UsesInv
  BY <1>1, <1>2 DEF UsesInv, Uses, Distinct
<1>4. CallsInv
  BY <1>1, <1>2 DEF CallsInv
<1>5. RefusedIsStored
  BY <1>1 DEF RefusedIsStored, At
<1> QED BY <1>3, <1>4, <1>5 DEF RefusedInv

LEMMA IdsAreTypedEverywhere ==
    ASSUME InsertsTypeOK
    PROVE  /\ \A w \in Workers : /\ program[w].ids \in Seq(Ids)
                                 /\ \A k \in DOMAIN program[w].ids : program[w].ids[k] \in Ids
           /\ \A r \in network : /\ r.from \in Workers
                                 /\ r.ids \in Seq(Ids)
                                 /\ \A k \in DOMAIN r.ids : r.ids[k] \in Ids
           /\ \A s \in stored : s.document[1] \in Workers /\ s.id \in Ids
<1>1. \A ids \in Seq(Ids) : \A k \in DOMAIN ids : ids[k] \in Ids
  OBVIOUS
<1>2. ASSUME NEW w \in Workers PROVE program[w].ids \in Seq(Ids)
  BY ThreadsAreTyped
<1>3. ASSUME NEW r \in network PROVE r.from \in Workers /\ r.ids \in Seq(Ids)
  BY DEF InsertsTypeOK, Requests
<1>4. ASSUME NEW s \in stored PROVE s.document[1] \in Workers /\ s.id \in Ids
  BY DEF InsertsTypeOK, Stored, Documents
<1> QED BY <1>1, <1>2, <1>3, <1>4

LEMMA NamedKeepsRefusedInv ==
    ASSUME InsertsInv, IdsInv, IdsInv', IdsAreGood' => IdsAreGood, RefusedInv,
           NEW w \in Workers, Named(w)
    PROVE  RefusedInv'
<1> DEFINE x == made'[Len(made')].id
           t == Thread("naming", Append(program[w].ids, x), program[w].tries, 0)
<1>1. InsertsTypeOK /\ UsesInv /\ CallsInv /\ RefusedIsStored
  BY DEF InsertsInv, RefusedInv
<1>2. /\ program' = [program EXCEPT ![w] = t]
      /\ UNCHANGED <<owners, network, stored>>
      /\ program[w].pc = "naming"
  BY DEF Named, Unnamed, At
<1>3. /\ x \in Ids
      /\ MadeIds' = MadeIds \cup {x}
      /\ IdsAreGood' => x \notin MadeIds
  BY NewIdIsNew DEF Named
<1> HIDE DEF x
<1>4. program[w].ids \in Seq(Ids) /\ Len(program[w].ids) \in Nat
  BY <1>1, ThreadsAreTyped
<1>5. t \in Threads /\ t.pc = "naming" /\ t.ids = Append(program[w].ids, x)
  <2>1. program[w].tries \in Nat
    BY <1>1 DEF InsertsTypeOK, Threads
  <2>2. Append(program[w].ids, x) \in Seq(Ids)
    BY <1>3, <1>4
  <2> QED BY <2>1, <2>2 DEF Thread, Threads, Pcs
<1> HIDE DEF t
<1>6. /\ program'[w].pc = "naming"
      /\ program'[w].ids = Append(program[w].ids, x)
      /\ \A v \in Workers : v # w => program'[v] = program[v]
  BY <1>1, <1>2, <1>5, ThreadMoves
<1>7. \A k \in DOMAIN program'[w].ids :
        \/ k \in DOMAIN program[w].ids /\ program'[w].ids[k] = program[w].ids[k]
        \/ k = Len(program[w].ids) + 1 /\ program'[w].ids[k] = x
  BY <1>3, <1>4, <1>6
<1>8. \A v \in Workers : \A id \in Ids :
        Uses(v, id)' => Uses(v, id) \/ (v = w /\ id = x)
  BY <1>2, <1>6, <1>7 DEF Uses
<1>9. UsesInv'
  <2>1. \A v \in Workers : \A id \in Ids : Uses(v, id)' => id \in MadeIds'
    BY <1>1, <1>3, <1>8 DEF UsesInv
  <2>2. ASSUME IdsAreGood',
               NEW u \in Workers, NEW v \in Workers, NEW id \in Ids,
               Uses(u, id)', Uses(v, id)'
        PROVE  u = v
    BY <1>1, <1>3, <1>8, <2>2 DEF UsesInv
  <2>3. ASSUME IdsAreGood', NEW v \in Workers PROVE Distinct(program'[v].ids)
    <3>1. Distinct(program[v].ids)
      BY <1>1, <2>3 DEF UsesInv
    <3>2. CASE v # w
      BY <1>6, <3>1, <3>2
    <3>3. CASE v = w
      <4>1. \A k \in DOMAIN program[w].ids : program[w].ids[k] \in Ids /\ program[w].ids[k] \in MadeIds
        BY <1>1, IdsAreTypedEverywhere DEF UsesInv, Uses
      <4>2. \A k \in DOMAIN program[w].ids : program[w].ids[k] # x
        BY <1>3, <2>3, <4>1
      <4> QED BY <1>7, <3>1, <3>3, <4>2 DEF Distinct
    <3> QED BY <3>2, <3>3
  <2>4. IdsAreGood' => \A r \in network' : Distinct(r.ids)
    BY <1>1, <1>2 DEF UsesInv
  <2> QED BY <2>1, <2>2, <2>3, <2>4 DEF UsesInv
<1>10. CallsInv'
  <2> SUFFICES ASSUME IdsAreGood'
               PROVE  /\ \A r \in network : r.from \notin owners =>
                           /\ \A q \in network : q # r /\ q.from = r.from => Apart(q.ids, r.ids)
                           /\ \A s \in stored : s.document[1] = r.from =>
                                \A k \in DOMAIN r.ids : s.id # r.ids[k]
                      /\ \A v \in Workers : v \notin owners /\ program'[v].pc = "naming" =>
                           /\ \A r \in network : r.from = v => Apart(r.ids, program'[v].ids)
                           /\ \A s \in stored : s.document[1] = v =>
                                \A k \in DOMAIN program'[v].ids : s.id # program'[v].ids[k]
    BY <1>2 DEF CallsInv, At
  <2>1. \A r \in network : r.from \notin owners =>
          /\ \A q \in network : q # r /\ q.from = r.from => Apart(q.ids, r.ids)
          /\ \A s \in stored : s.document[1] = r.from =>
               \A k \in DOMAIN r.ids : s.id # r.ids[k]
    BY <1>1 DEF CallsInv
  <2>2. ASSUME NEW v \in Workers, v \notin owners, program'[v].pc = "naming"
        PROVE  /\ \A r \in network : r.from = v => Apart(r.ids, program'[v].ids)
               /\ \A s \in stored : s.document[1] = v =>
                    \A k \in DOMAIN program'[v].ids : s.id # program'[v].ids[k]
    <3>1. program[v].pc = "naming"
      BY <1>2, <1>6, <2>2
    <3>2. /\ \A r \in network : r.from = v => Apart(r.ids, program[v].ids)
          /\ \A s \in stored : s.document[1] = v =>
               \A k \in DOMAIN program[v].ids : s.id # program[v].ids[k]
      BY <1>1, <2>2, <3>1 DEF CallsInv, At
    <3>3. CASE v # w
      BY <1>6, <3>2, <3>3
    <3>4. CASE v = w
      <4>1. \A r \in network : r.from = w => \A k \in DOMAIN r.ids : r.ids[k] # x
        <5>1. \A r \in network : r.from = w =>
                \A k \in DOMAIN r.ids : r.ids[k] \in Ids /\ Uses(w, r.ids[k])
          BY <1>1, IdsAreTypedEverywhere DEF Uses
        <5> QED BY <1>1, <1>3, <5>1 DEF UsesInv
      <4>2. \A s \in stored : s.document[1] = w => s.id # x
        <5>1. \A s \in stored : s.document[1] = w => s.id \in Ids /\ Uses(w, s.id)
          BY <1>1, IdsAreTypedEverywhere DEF Uses
        <5> QED BY <1>1, <1>3, <5>1 DEF UsesInv
      <4>3. \A r \in network : r.from = w => Apart(r.ids, program'[w].ids)
        BY <1>7, <3>2, <3>4, <4>1 DEF Apart
      <4>4. \A s \in stored : s.document[1] = w =>
               \A k \in DOMAIN program'[w].ids : s.id # program'[w].ids[k]
        BY <1>7, <3>2, <3>4, <4>2
      <4> QED BY <3>4, <4>3, <4>4
    <3> QED BY <3>3, <3>4
  <2> QED BY <2>1, <2>2
<1>11. RefusedIsStored'
  <2> SUFFICES ASSUME NEW v \in Workers, program'[v].pc = "duplicate", IdsAreGood'
               PROVE  /\ v \in owners
                      /\ program'[v].refused = 1
                      /\ [document |-> <<v, 1>>, id |-> program'[v].ids[1]] \in stored
    BY <1>2 DEF RefusedIsStored, At, Document
  <2>1. program'[v] = program[v]
    BY <1>6
  <2> QED BY <1>1, <2>1 DEF RefusedIsStored, At, Document
<1> QED BY <1>9, <1>10, <1>11 DEF RefusedInv

LEMMA SendKeepsRefusedInv ==
    ASSUME InsertsInv, IdsAreGood' => IdsAreGood, RefusedInv, NEW w \in Workers, Send(w)
    PROVE  RefusedInv'
<1> DEFINE q == Request(w)
           t == Thread("sent", program[w].ids, program[w].tries + 1, 0)
<1>1. InsertsTypeOK /\ UsesInv /\ CallsInv /\ RefusedIsStored
  BY DEF InsertsInv, RefusedInv
<1>2. /\ program[w].pc = "naming"
      /\ network' = network \cup {q}
      /\ program' = [program EXCEPT ![w] = t]
      /\ UNCHANGED <<owners, stored>>
      /\ made' = made
  BY DEF Send, At, idVars
<1>3. program[w].ids \in Seq(Ids) /\ program[w].tries \in Nat
  BY <1>1 DEF InsertsTypeOK, Threads
<1>4. t \in Threads /\ t.ids = program[w].ids /\ t.pc = "sent"
  BY <1>3 DEF Thread, Threads, Pcs
<1>5. q.from = w /\ q.ids = program[w].ids
  BY DEF Request
<1> HIDE DEF q, t
<1>6. /\ program'[w].pc = "sent"
      /\ \A v \in Workers : v # w => program'[v] = program[v]
      /\ \A v \in Workers : program'[v].ids = program[v].ids
  BY <1>1, <1>2, <1>4, ThreadMoves
<1>7. \A v \in Workers : \A id \in Ids : Uses(v, id)' => Uses(v, id)
  BY <1>2, <1>5, <1>6 DEF Uses
<1>8. UsesInv'
  <2>1. \A v \in Workers : \A id \in Ids : Uses(v, id)' => id \in MadeIds'
    BY <1>1, <1>2, <1>7 DEF UsesInv, MadeIds
  <2>2. ASSUME IdsAreGood', NEW u \in Workers, NEW v \in Workers, NEW id \in Ids,
               Uses(u, id)', Uses(v, id)'
        PROVE  u = v
    BY <1>1, <1>7, <2>2 DEF UsesInv
  <2>3. IdsAreGood' => /\ \A v \in Workers : Distinct(program'[v].ids)
                       /\ \A r \in network' : Distinct(r.ids)
    BY <1>1, <1>2, <1>5, <1>6 DEF UsesInv
  <2> QED BY <2>1, <2>2, <2>3 DEF UsesInv
<1>9. CallsInv'
  <2> SUFFICES ASSUME IdsAreGood'
               PROVE  /\ \A r \in network' : r.from \notin owners =>
                           /\ \A o \in network' : o # r /\ o.from = r.from => Apart(o.ids, r.ids)
                           /\ \A s \in stored : s.document[1] = r.from =>
                                \A k \in DOMAIN r.ids : s.id # r.ids[k]
                      /\ \A v \in Workers : v \notin owners /\ program'[v].pc = "naming" =>
                           /\ \A r \in network' : r.from = v => Apart(r.ids, program'[v].ids)
                           /\ \A s \in stored : s.document[1] = v =>
                                \A k \in DOMAIN program'[v].ids : s.id # program'[v].ids[k]
    BY <1>2 DEF CallsInv, At
  <2>1. w \notin owners =>
          /\ \A r \in network : r.from = w => Apart(r.ids, q.ids) /\ Apart(q.ids, r.ids)
          /\ \A s \in stored : s.document[1] = w => \A k \in DOMAIN q.ids : s.id # q.ids[k]
    BY <1>1, <1>2, <1>5 DEF CallsInv, At, Apart
  <2>2. ASSUME NEW r \in network', r.from \notin owners
        PROVE  /\ \A o \in network' : o # r /\ o.from = r.from => Apart(o.ids, r.ids)
               /\ \A s \in stored : s.document[1] = r.from =>
                    \A k \in DOMAIN r.ids : s.id # r.ids[k]
    BY <1>1, <1>2, <1>5, <2>1, <2>2 DEF CallsInv
  <2>3. ASSUME NEW v \in Workers, v \notin owners, program'[v].pc = "naming"
        PROVE  /\ \A r \in network' : r.from = v => Apart(r.ids, program'[v].ids)
               /\ \A s \in stored : s.document[1] = v =>
                    \A k \in DOMAIN program'[v].ids : s.id # program'[v].ids[k]
    <3>1. v # w /\ program'[v] = program[v]
      BY <1>6, <2>3
    <3> QED BY <1>1, <1>2, <1>5, <2>3, <3>1 DEF CallsInv, At
  <2> QED BY <2>2, <2>3
<1>10. RefusedIsStored'
  <2> SUFFICES ASSUME NEW v \in Workers, program'[v].pc = "duplicate", IdsAreGood'
               PROVE  /\ v \in owners
                      /\ program'[v].refused = 1
                      /\ [document |-> <<v, 1>>, id |-> program'[v].ids[1]] \in stored
    BY <1>2 DEF RefusedIsStored, At, Document
  <2>1. program'[v] = program[v]
    BY <1>6
  <2> QED BY <1>1, <2>1 DEF RefusedIsStored, At, Document
<1> QED BY <1>8, <1>9, <1>10 DEF RefusedInv

LEMMA RepeatKeepsRefusedInv ==
    ASSUME InsertsInv, IdsAreGood' => IdsAreGood, RefusedInv, NEW w \in Workers, Repeat(w)
    PROVE  RefusedInv'
<1> DEFINE t == Thread("naming", IdsOfRepeat(w), program[w].tries, 0)
<1>1. InsertsTypeOK /\ UsesInv /\ CallsInv /\ RefusedIsStored
  BY DEF InsertsInv, RefusedInv
<1>2. /\ program' = [program EXCEPT ![w] = t]
      /\ UNCHANGED <<owners, network, stored>>
      /\ made' = made
  BY DEF Repeat, idVars
<1>3. IdsOfRepeat(w) \in Seq(Ids) /\ program[w].tries \in Nat
  BY <1>1 DEF InsertsTypeOK, Threads, IdsOfRepeat
<1>4. t \in Threads /\ t.ids = IdsOfRepeat(w) /\ t.pc = "naming"
  BY <1>3 DEF Thread, Threads, Pcs
<1> HIDE DEF t
<1>5. /\ program'[w].pc = "naming"
      /\ \A v \in Workers : v # w => program'[v] = program[v]
      /\ w \in owners => program'[w].ids = program[w].ids
      /\ w \notin owners => program'[w].ids = <<>>
  BY <1>1, <1>2, <1>4, ThreadMoves DEF IdsOfRepeat
<1>6. \A v \in Workers : program'[v].ids = program[v].ids \/ program'[v].ids = <<>>
  BY <1>5
<1>7. \A v \in Workers : \A id \in Ids : Uses(v, id)' => Uses(v, id)
  BY <1>2, <1>6 DEF Uses
<1>8. UsesInv'
  <2>1. \A v \in Workers : \A id \in Ids : Uses(v, id)' => id \in MadeIds'
    BY <1>1, <1>2, <1>7 DEF UsesInv, MadeIds
  <2>2. ASSUME IdsAreGood', NEW u \in Workers, NEW v \in Workers, NEW id \in Ids,
               Uses(u, id)', Uses(v, id)'
        PROVE  u = v
    BY <1>1, <1>7, <2>2 DEF UsesInv
  <2>3. Distinct(<<>>)
    BY DEF Distinct
  <2>4. IdsAreGood' => /\ \A v \in Workers : Distinct(program'[v].ids)
                       /\ \A r \in network' : Distinct(r.ids)
    BY <1>1, <1>2, <1>6, <2>3 DEF UsesInv
  <2> QED BY <2>1, <2>2, <2>4 DEF UsesInv
<1>9. CallsInv'
  <2> SUFFICES ASSUME IdsAreGood'
               PROVE  /\ \A r \in network : r.from \notin owners =>
                           /\ \A o \in network : o # r /\ o.from = r.from => Apart(o.ids, r.ids)
                           /\ \A s \in stored : s.document[1] = r.from =>
                                \A k \in DOMAIN r.ids : s.id # r.ids[k]
                      /\ \A v \in Workers : v \notin owners /\ program'[v].pc = "naming" =>
                           /\ \A r \in network : r.from = v => Apart(r.ids, program'[v].ids)
                           /\ \A s \in stored : s.document[1] = v =>
                                \A k \in DOMAIN program'[v].ids : s.id # program'[v].ids[k]
    BY <1>2 DEF CallsInv, At
  <2>1. \A r \in network : r.from \notin owners =>
          /\ \A o \in network : o # r /\ o.from = r.from => Apart(o.ids, r.ids)
          /\ \A s \in stored : s.document[1] = r.from =>
               \A k \in DOMAIN r.ids : s.id # r.ids[k]
    BY <1>1 DEF CallsInv
  <2>2. ASSUME NEW v \in Workers, v \notin owners, program'[v].pc = "naming"
        PROVE  /\ \A r \in network : r.from = v => Apart(r.ids, program'[v].ids)
               /\ \A s \in stored : s.document[1] = v =>
                    \A k \in DOMAIN program'[v].ids : s.id # program'[v].ids[k]
    <3>1. CASE v = w
      BY <1>5, <2>2, <3>1 DEF Apart
    <3>2. CASE v # w
      BY <1>1, <1>5, <2>2, <3>2 DEF CallsInv, At
    <3> QED BY <3>1, <3>2
  <2> QED BY <2>1, <2>2
<1>10. RefusedIsStored'
  <2> SUFFICES ASSUME NEW v \in Workers, program'[v].pc = "duplicate", IdsAreGood'
               PROVE  /\ v \in owners
                      /\ program'[v].refused = 1
                      /\ [document |-> <<v, 1>>, id |-> program'[v].ids[1]] \in stored
    BY <1>2 DEF RefusedIsStored, At, Document
  <2>1. program'[v] = program[v]
    BY <1>5
  <2> QED BY <1>1, <2>1 DEF RefusedIsStored, At, Document
<1> QED BY <1>8, <1>9, <1>10 DEF RefusedInv

(* An answer reaches one thread, and only if it waits for it. *)
LEMMA AnswersGoToOne ==
    ASSUME InsertsTypeOK, NEW r \in Requests, NEW pc, NEW k, Answer(r, pc, k)
    PROVE  \A w \in Workers :
             \/ program'[w] = program[w]
             \/ w = r.from /\ program'[w].pc = pc /\ program'[w].refused = k
<1> DEFINE t == Thread(pc, program[r.from].ids, program[r.from].tries, k)
<1>1. t.pc = pc /\ t.refused = k
  BY DEF Thread
<1>2. program' = program \/ program' = [program EXCEPT ![r.from] = t]
  BY DEF Answer
<1> HIDE DEF t
<1> QED BY <1>1, <1>2 DEF InsertsTypeOK

(* When ids are good a request is refused at its first document, which is  *)
(* stored, and has an id of its own.                                       *)
LEMMA RefusedOnesAreStored ==
    ASSUME InsertsInv, UsesInv, CallsInv, IdsAreGood, NEW r \in network,
           NEW n \in Nat, n < Slice[r.from], Insertable(r, n), ~Insertable(r, n + 1)
    PROVE  /\ r.from \in owners
           /\ n = 0
           /\ [document |-> <<r.from, 1>>, id |-> program[r.from].ids[1]] \in stored
<1>1. InsertsTypeOK /\ LengthInv /\ OwnInv /\ FirstOnesAreStored
  BY DEF InsertsInv
<1>2. /\ r.from \in Workers
      /\ Slice[r.from] \in Nat \ {0}
      /\ r.ids \in Seq(Ids)
      /\ Len(r.ids) = Slice[r.from]
  BY <1>1, SlicesAreTyped DEF InsertsTypeOK, Requests, LengthInv
<1>3. \A i \in 1 .. n + 1 : i \in DOMAIN r.ids /\ r.ids[i] \in Ids
  BY <1>2
<1>4. Distinct(r.ids)
  BY DEF UsesInv
<1>5. r.ids[n + 1] \in Taken
  <2>1. PICK i \in 1 .. n + 1 :
          \/ r.ids[i] \in Taken
          \/ \E j \in 1 .. i - 1 : r.ids[j] = r.ids[i]
    BY DEF Insertable
  <2>2. ~ \E j \in 1 .. i - 1 : r.ids[j] = r.ids[i]
    <3>1. \A j \in 1 .. i - 1 : j \in 1 .. n + 1 /\ j # i
      OBVIOUS
    <3> QED BY <1>3, <1>4, <3>1 DEF Distinct
  <2>3. i \notin 1 .. n
    BY <2>1, <2>2 DEF Insertable
  <2>4. i = n + 1
    BY <2>3
  <2> QED BY <2>1, <2>2, <2>4
<1>6. PICK s \in stored : s.id = r.ids[n + 1]
  BY <1>5 DEF Taken
<1>7. n + 1 \in DOMAIN r.ids /\ r.ids[n + 1] \in Ids
  BY <1>3
<1>8. s.document[1] = r.from
  <2>1. s.document[1] \in Workers
    BY <1>1, IdsAreTypedEverywhere
  <2>2. Uses(s.document[1], r.ids[n + 1]) /\ Uses(r.from, r.ids[n + 1])
    BY <1>6, <1>7 DEF Uses
  <2> QED BY <1>2, <1>7, <2>1, <2>2 DEF UsesInv
<1>9. r.from \in owners
  BY <1>6, <1>7, <1>8 DEF CallsInv
<1>10. PICK t \in stored : t.document = <<r.from, 1>> /\ t.id = program[r.from].ids[1]
  BY <1>8, <1>9, FirstIsNewOrNone
<1>11. n = 0
  BY <1>8, <1>9, FirstIsNewOrNone
<1>12. t = [document |-> <<r.from, 1>>, id |-> program[r.from].ids[1]]
  BY <1>1, <1>10 DEF InsertsTypeOK, Stored
<1> QED BY <1>9, <1>10, <1>11, <1>12

LEMMA ServeKeepsRefusedInv ==
    ASSUME InsertsInv, RefusedInv, NEW r \in network, Serve(r)
    PROVE  RefusedInv'
<1>1. InsertsTypeOK /\ LengthInv /\ UsesInv /\ CallsInv /\ RefusedIsStored
  BY DEF InsertsInv, RefusedInv
<1>2. r \in Requests /\ Len(r.ids) = Slice[r.from] /\ r.from \in Workers /\ r.ids \in Seq(Ids)
  BY <1>1 DEF InsertsTypeOK, LengthInv, Requests
<1>3. Slice[r.from] \in Nat \ {0}
  BY <1>2, SlicesAreTyped
<1>4. PICK n \in 0 .. Slice[r.from] :
        /\ StoreFirst(r, n)
        /\ \/ program' = program
           \/ n = Slice[r.from] /\ Answer(r, "inserted", 0)
           \/ n < Slice[r.from] /\ ~Insertable(r, n + 1) /\ Answer(r, "duplicate", n + 1)
  BY <1>1, ServesSome
<1>5. n \in Nat /\ n + 1 \in Nat
  BY <1>3
<1>6. \A w \in Workers : program'[w].ids = program[w].ids
  <2>1. \/ program' = program
        \/ Answer(r, "inserted", 0)
        \/ Answer(r, "duplicate", n + 1)
    BY <1>4
  <2> QED BY <1>1, <1>2, <1>5, <2>1, AnswersKeepIds
<1>7. \A w \in Workers :
        \/ program'[w] = program[w]
        \/ w = r.from /\ program'[w].pc = "inserted"
        \/ /\ w = r.from /\ program'[w].pc = "duplicate" /\ program'[w].refused = n + 1
           /\ n < Slice[r.from] /\ ~Insertable(r, n + 1)
  BY <1>1, <1>2, <1>4, AnswersGoToOne
<1>8. /\ network' = network \ {r}
      /\ stored \subseteq stored'
      /\ UNCHANGED <<owners, flags, running, context, made>>
      /\ Insertable(r, n)
  BY <1>4 DEF StoreFirst, idVars
<1>9. \A s \in stored' : \/ s \in stored
                         \/ /\ s.document[1] = r.from
                            /\ \E i \in DOMAIN r.ids : s.id = r.ids[i]
  <2> SUFFICES ASSUME NEW s \in stored', s \notin stored
               PROVE  s.document[1] = r.from /\ \E i \in DOMAIN r.ids : s.id = r.ids[i]
    OBVIOUS
  <2>1. PICK i \in 1 .. n : /\ i \in 1 .. Slice[r.from]
                            /\ s.document = <<r.from, i>>
                            /\ s.id = r.ids[i]
    BY <1>1, <1>4, StoredByRequest
  <2>2. i \in DOMAIN r.ids
    BY <1>2, <2>1
  <2> QED BY <2>1, <2>2
<1>10. IdsAreGood' <=> IdsAreGood
  BY <1>8 DEF IdsAreGood
<1>11. UsesInv'
  <2>1. \A v \in Workers : \A id \in Ids : Uses(v, id)' => Uses(v, id)
    BY <1>6, <1>8, <1>9 DEF Uses
  <2>2. \A v \in Workers : \A id \in Ids : Uses(v, id)' => id \in MadeIds'
    BY <1>1, <1>8, <2>1 DEF UsesInv, MadeIds
  <2>3. ASSUME IdsAreGood', NEW u \in Workers, NEW v \in Workers, NEW id \in Ids,
               Uses(u, id)', Uses(v, id)'
        PROVE  u = v
    BY <1>1, <1>10, <2>1, <2>3 DEF UsesInv
  <2>4. IdsAreGood' => /\ \A v \in Workers : Distinct(program'[v].ids)
                       /\ \A q \in network' : Distinct(q.ids)
    BY <1>1, <1>6, <1>8, <1>10 DEF UsesInv
  <2> QED BY <2>2, <2>3, <2>4 DEF UsesInv
<1>12. CallsInv'
  <2> SUFFICES ASSUME IdsAreGood
               PROVE  /\ \A q \in network' : q.from \notin owners =>
                           /\ \A o \in network' : o # q /\ o.from = q.from => Apart(o.ids, q.ids)
                           /\ \A s \in stored' : s.document[1] = q.from =>
                                \A k \in DOMAIN q.ids : s.id # q.ids[k]
                      /\ \A v \in Workers : v \notin owners /\ program'[v].pc = "naming" =>
                           /\ \A q \in network' : q.from = v => Apart(q.ids, program'[v].ids)
                           /\ \A s \in stored' : s.document[1] = v =>
                                \A k \in DOMAIN program'[v].ids : s.id # program'[v].ids[k]
    BY <1>8, <1>10 DEF CallsInv, At
  <2>1. ASSUME NEW q \in network', q.from \notin owners
        PROVE  /\ \A o \in network' : o # q /\ o.from = q.from => Apart(o.ids, q.ids)
               /\ \A s \in stored' : s.document[1] = q.from =>
                    \A k \in DOMAIN q.ids : s.id # q.ids[k]
    <3>1. q \in network /\ q # r
      BY <1>8
    <3>2. \A o \in network : o # q /\ o.from = q.from => Apart(o.ids, q.ids)
      BY <1>1, <2>1, <3>1 DEF CallsInv
    <3>3. \A s \in stored : s.document[1] = q.from => \A k \in DOMAIN q.ids : s.id # q.ids[k]
      BY <1>1, <2>1, <3>1 DEF CallsInv
    <3>4. r.from = q.from => \A i \in DOMAIN r.ids, k \in DOMAIN q.ids : r.ids[i] # q.ids[k]
      BY <3>1, <3>2 DEF Apart
    <3> QED BY <1>8, <1>9, <3>2, <3>3, <3>4
  <2>2. ASSUME NEW v \in Workers, v \notin owners, program'[v].pc = "naming"
        PROVE  /\ \A q \in network' : q.from = v => Apart(q.ids, program'[v].ids)
               /\ \A s \in stored' : s.document[1] = v =>
                    \A k \in DOMAIN program'[v].ids : s.id # program'[v].ids[k]
    <3>1. program'[v] = program[v]
      BY <1>7, <2>2
    <3>2. /\ \A q \in network : q.from = v => Apart(q.ids, program[v].ids)
          /\ \A s \in stored : s.document[1] = v =>
               \A k \in DOMAIN program[v].ids : s.id # program[v].ids[k]
      BY <1>1, <2>2, <3>1 DEF CallsInv, At
    <3>3. r.from = v => \A i \in DOMAIN r.ids, k \in DOMAIN program[v].ids :
                            r.ids[i] # program[v].ids[k]
      BY <3>2 DEF Apart
    <3> QED BY <1>8, <1>9, <3>1, <3>2, <3>3
  <2> QED BY <2>1, <2>2
<1>13. RefusedIsStored'
  <2> SUFFICES ASSUME NEW v \in Workers, program'[v].pc = "duplicate", IdsAreGood
               PROVE  /\ v \in owners
                      /\ program'[v].refused = 1
                      /\ [document |-> <<v, 1>>, id |-> program'[v].ids[1]] \in stored'
    BY <1>8, <1>10 DEF RefusedIsStored, At, Document
  <2>1. CASE program'[v] = program[v]
    BY <1>1, <1>8, <2>1 DEF RefusedIsStored, At, Document
  <2>2. CASE /\ v = r.from /\ program'[v].refused = n + 1
             /\ n < Slice[r.from] /\ ~Insertable(r, n + 1)
    <3>1. /\ r.from \in owners
          /\ n = 0
          /\ [document |-> <<r.from, 1>>, id |-> program[r.from].ids[1]] \in stored
      BY <1>1, <1>5, <1>8, <2>2, RefusedOnesAreStored
    <3> QED BY <1>6, <1>8, <2>2, <3>1
  <2> QED BY <1>7, <2>1, <2>2
<1> QED BY <1>11, <1>12, <1>13 DEF RefusedInv

LEMMA OtherStepsKeepRefusedInv ==
    ASSUME IdsAreGood' => IdsAreGood, RefusedInv,
           UNCHANGED <<made, owners, program, network, stored>>
    PROVE  RefusedInv'
<1>1. UsesInv'
  BY DEF RefusedInv, UsesInv, Uses, MadeIds
<1>2. CallsInv'
  BY DEF RefusedInv, CallsInv, At
<1>3. RefusedIsStored'
  BY DEF RefusedInv, RefusedIsStored, At, Document
<1> QED BY <1>1, <1>2, <1>3 DEF RefusedInv

LEMMA RefusedInvNext ==
    InsertsInv /\ IdsInv /\ IdsInv' /\ RefusedInv /\ [Next]_vars => RefusedInv'
<1> SUFFICES ASSUME InsertsInv, IdsInv, IdsInv', RefusedInv, [Next]_vars PROVE RefusedInv'
  OBVIOUS
<1>1. IdsAreGood' => IdsAreGood
  BY StepsOfIds, IdsWereGood
<1>2. ASSUME NEW w \in Workers, Name(w) PROVE RefusedInv'
  BY <1>1, <1>2, OtherStepsKeepRefusedInv DEF Name, TakeRandomness
<1>3. ASSUME NEW w \in Workers, Named(w) PROVE RefusedInv'
  BY <1>1, <1>3, NamedKeepsRefusedInv
<1>4. ASSUME NEW w \in Workers, Send(w) PROVE RefusedInv'
  BY <1>1, <1>4, SendKeepsRefusedInv
<1>5. ASSUME NEW w \in Workers, Repeat(w) PROVE RefusedInv'
  BY <1>1, <1>5, RepeatKeepsRefusedInv
<1>6. CASE \E r \in network : Serve(r)
  BY <1>6, ServeKeepsRefusedInv
<1>7. CASE Elsewhere
  BY <1>1, <1>7, OtherStepsKeepRefusedInv DEF Elsewhere, Tick, Fork
<1>8. CASE UNCHANGED vars
  BY <1>1, <1>8, OtherStepsKeepRefusedInv DEF vars, idVars
<1> QED BY <1>2, <1>3, <1>4, <1>5, <1>6, <1>7, <1>8 DEF Next

(* A program whose document has an id of its own may take the refusal of a *)
(* repeated call for a success, whatever was lost before and whoever else  *)
(* inserts: the document it is refused for is the first one, and stored.   *)
THEOREM RefusedIsAlwaysStored == Spec => []RefusedIsStored
<1>1. RefusedInv => RefusedIsStored
  BY DEF RefusedInv
<1> QED BY <1>1, RefusedInvInit, RefusedInvNext, InsertsInvAlways, IdsInvAlways, PTL DEF Spec
-----------------------------------------------------------------------------
CopiesOf(w, i) == {s \in stored : s.document = <<w, i>>}

RequestsOf(w) == {r \in network : r.from = w}

(* Each call leaves a request or at most one copy of a document. *)
CountInv ==
    \A w \in Workers : \A i \in 1 .. Slice[w] :
        /\ IsFiniteSet(CopiesOf(w, i))
        /\ IsFiniteSet(RequestsOf(w))
        /\ Cardinality(CopiesOf(w, i)) + Cardinality(RequestsOf(w)) <= program[w].tries

LEMMA AtMostOneMore ==
    ASSUME NEW S, IsFiniteSet(S), NEW x, NEW T, T = S \/ T = S \cup {x}
    PROVE  /\ IsFiniteSet(T)
           /\ Cardinality(T) \in Nat /\ Cardinality(S) \in Nat
           /\ Cardinality(T) <= Cardinality(S) + 1
<1>1. Cardinality(S) \in Nat
  BY FS_CardinalityType
<1>2. CASE T = S
  BY <1>1, <1>2
<1>3. CASE T = S \cup {x}
  <2>1. /\ IsFiniteSet(S \cup {x})
        /\ Cardinality(S \cup {x}) = IF x \in S THEN Cardinality(S) ELSE Cardinality(S) + 1
    BY FS_AddElement
  <2> QED BY <1>1, <1>3, <2>1
<1> QED BY <1>2, <1>3

LEMMA CountInvInit == Init => CountInv
<1> SUFFICES ASSUME Init, NEW w \in Workers, NEW i \in 1 .. Slice[w]
             PROVE  /\ IsFiniteSet(CopiesOf(w, i))
                    /\ IsFiniteSet(RequestsOf(w))
                    /\ Cardinality(CopiesOf(w, i)) + Cardinality(RequestsOf(w)) <= program[w].tries
  BY DEF CountInv
<1>1. CopiesOf(w, i) = {} /\ RequestsOf(w) = {}
  BY DEF Init, CopiesOf, RequestsOf
<1>2. program[w].tries = 0
  BY DEF Init, Thread
<1> QED BY <1>1, <1>2, FS_EmptySet

LEMMA SendKeepsCountInv ==
    ASSUME InsertsTypeOK, CountInv, NEW v \in Workers, Send(v)
    PROVE  CountInv'
<1> DEFINE t == Thread("sent", program[v].ids, program[v].tries + 1, 0)
           q == Request(v)
<1>1. /\ network' = network \cup {q}
      /\ program' = [program EXCEPT ![v] = t]
      /\ stored' = stored
  BY DEF Send
<1>2. t.tries = program[v].tries + 1 /\ q.from = v
  BY DEF Thread, Request
<1>3. t \in Threads
  BY DEF InsertsTypeOK, Thread, Threads, Pcs
<1> HIDE DEF t, q
<1>4. program'[v].tries = program[v].tries + 1 /\ \A w \in Workers : w # v => program'[w] = program[w]
  BY <1>1, <1>2, <1>3, ThreadMoves
<1> SUFFICES ASSUME NEW w \in Workers, NEW i \in 1 .. Slice[w]
             PROVE  /\ IsFiniteSet(CopiesOf(w, i)')
                    /\ IsFiniteSet(RequestsOf(w)')
                    /\ Cardinality(CopiesOf(w, i)') + Cardinality(RequestsOf(w)')
                         <= program'[w].tries
  BY DEF CountInv
<1>5. CopiesOf(w, i)' = CopiesOf(w, i)
  BY <1>1 DEF CopiesOf
<1>6. /\ IsFiniteSet(CopiesOf(w, i)) /\ IsFiniteSet(RequestsOf(w))
      /\ Cardinality(CopiesOf(w, i)) + Cardinality(RequestsOf(w)) <= program[w].tries
      /\ Cardinality(CopiesOf(w, i)) \in Nat
      /\ program[w].tries \in Nat
  BY FS_CardinalityType, ThreadsAreTyped DEF CountInv, Threads
<1>7. CASE w = v
  <2>1. RequestsOf(w)' = RequestsOf(w) \cup {q}
    BY <1>1, <1>2, <1>7 DEF RequestsOf
  <2>2. /\ IsFiniteSet(RequestsOf(w)')
        /\ Cardinality(RequestsOf(w)') \in Nat /\ Cardinality(RequestsOf(w)) \in Nat
        /\ Cardinality(RequestsOf(w)') <= Cardinality(RequestsOf(w)) + 1
    BY <1>6, <2>1, AtMostOneMore
  <2> QED BY <1>4, <1>5, <1>6, <1>7, <2>2
<1>8. CASE w # v
  <2>1. RequestsOf(w)' = RequestsOf(w)
    BY <1>1, <1>2, <1>8 DEF RequestsOf
  <2> QED BY <1>4, <1>5, <1>6, <1>8, <2>1
<1> QED BY <1>7, <1>8

LEMMA ServeKeepsCountInv ==
    ASSUME InsertsTypeOK, LengthInv, CountInv, NEW r \in network, Serve(r)
    PROVE  CountInv'
<1>1. PICK n \in 0 .. Slice[r.from] :
        /\ StoreFirst(r, n)
        /\ \/ program' = program
           \/ n = Slice[r.from] /\ Answer(r, "inserted", 0)
           \/ n < Slice[r.from] /\ ~Insertable(r, n + 1) /\ Answer(r, "duplicate", n + 1)
  BY ServesSome
<1>2. r \in Requests /\ r.from \in Workers /\ n + 1 \in Nat
  BY SlicesAreTyped DEF InsertsTypeOK, Requests
<1>3. \A w \in Workers : program'[w].tries = program[w].tries
  <2>1. \/ program' = program
        \/ Answer(r, "inserted", 0)
        \/ Answer(r, "duplicate", n + 1)
    BY <1>1
  <2> QED BY <1>2, <2>1, AnswersKeepIds
<1>4. network' = network \ {r} /\ stored \subseteq stored'
  BY <1>1 DEF StoreFirst
<1> SUFFICES ASSUME NEW w \in Workers, NEW i \in 1 .. Slice[w]
             PROVE  /\ IsFiniteSet(CopiesOf(w, i)')
                    /\ IsFiniteSet(RequestsOf(w)')
                    /\ Cardinality(CopiesOf(w, i)') + Cardinality(RequestsOf(w)')
                         <= program'[w].tries
  BY DEF CountInv
<1>5. /\ IsFiniteSet(CopiesOf(w, i)) /\ IsFiniteSet(RequestsOf(w))
      /\ Cardinality(CopiesOf(w, i)) + Cardinality(RequestsOf(w)) <= program[w].tries
      /\ Cardinality(CopiesOf(w, i)) \in Nat
      /\ Cardinality(RequestsOf(w)) \in Nat
      /\ program[w].tries \in Nat
  BY FS_CardinalityType, ThreadsAreTyped DEF CountInv, Threads
<1>6. CASE w = r.from
  <2> DEFINE x == [document |-> <<w, i>>, id |-> r.ids[i]]
  <2>1. CopiesOf(w, i)' = CopiesOf(w, i) \/ CopiesOf(w, i)' = CopiesOf(w, i) \cup {x}
    <3>1. ASSUME NEW s \in CopiesOf(w, i)' PROVE s \in CopiesOf(w, i) \/ s = x
      <4>1. s \in stored' /\ s.document = <<w, i>>
        BY <3>1 DEF CopiesOf
      <4>2. CASE s \in stored
        BY <4>1, <4>2 DEF CopiesOf
      <4>3. CASE s \notin stored
        <5>1. PICK k \in 1 .. n : /\ s = [document |-> <<r.from, k>>, id |-> r.ids[k]]
                                  /\ s.document = <<r.from, k>>
          BY <1>1, <4>1, <4>3, StoredByRequest
        <5>2. k = i
          BY <4>1, <5>1
        <5> QED BY <1>6, <5>1, <5>2
      <4> QED BY <4>2, <4>3
    <3>2. CopiesOf(w, i) \subseteq CopiesOf(w, i)'
      BY <1>4 DEF CopiesOf
    <3> HIDE DEF x
    <3> QED BY <3>1, <3>2
  <2> HIDE DEF x
  <2>2. /\ IsFiniteSet(CopiesOf(w, i)')
        /\ Cardinality(CopiesOf(w, i)') \in Nat
        /\ Cardinality(CopiesOf(w, i)') <= Cardinality(CopiesOf(w, i)) + 1
    BY <1>5, <2>1, AtMostOneMore
  <2>3. RequestsOf(w)' = RequestsOf(w) \ {r} /\ r \in RequestsOf(w)
    BY <1>4, <1>6 DEF RequestsOf
  <2>4. /\ IsFiniteSet(RequestsOf(w)')
        /\ Cardinality(RequestsOf(w)') = Cardinality(RequestsOf(w)) - 1
    BY <1>5, <2>3, FS_RemoveElement
  <2> QED BY <1>3, <1>5, <2>2, <2>4
<1>7. CASE w # r.from
  <2>1. RequestsOf(w)' = RequestsOf(w)
    BY <1>4, <1>7 DEF RequestsOf
  <2>2. CopiesOf(w, i)' = CopiesOf(w, i)
    <3>1. ASSUME NEW s \in stored', s.document = <<w, i>> PROVE s \in stored
      BY <1>1, <1>7, <3>1, StoredByRequest
    <3> QED BY <1>4, <3>1 DEF CopiesOf
  <2> QED BY <1>3, <1>5, <2>1, <2>2
<1> QED BY <1>6, <1>7

LEMMA CountInvNext == InsertsInv /\ CountInv /\ [Next]_vars => CountInv'
<1> SUFFICES ASSUME InsertsInv, CountInv, [Next]_vars PROVE CountInv'
  OBVIOUS
<1>1. InsertsTypeOK /\ LengthInv
  BY DEF InsertsInv
<1>2. ASSUME UNCHANGED <<network, stored>>,
             \A w \in Workers : program'[w].tries = program[w].tries
      PROVE  CountInv'
  BY <1>2 DEF CountInv, CopiesOf, RequestsOf
<1>3. ASSUME NEW w \in Workers, NEW ids, program' = [program EXCEPT ![w] =
                 Thread("naming", ids, program[w].tries, 0)]
      PROVE  \A v \in Workers : program'[v].tries = program[v].tries
  BY <1>1, <1>3 DEF InsertsTypeOK, Thread
<1>4. CASE \E w \in Workers : Name(w)
  BY <1>2, <1>4 DEF Name
<1>5. CASE \E w \in Workers : Named(w) \/ Repeat(w)
  BY <1>2, <1>3, <1>5 DEF Named, Repeat
<1>6. CASE \E w \in Workers : Send(w)
  BY <1>1, <1>6, SendKeepsCountInv
<1>7. CASE \E r \in network : Serve(r)
  BY <1>1, <1>7, ServeKeepsCountInv
<1>8. CASE Elsewhere \/ UNCHANGED vars
  BY <1>2, <1>8 DEF Elsewhere, vars
<1> QED BY <1>4, <1>5, <1>6, <1>7, <1>8 DEF Next

LEMMA CountInvIsBounded == InsertsInv /\ CountInv => CopiesAreBounded
<1> SUFFICES ASSUME InsertsInv, CountInv, NEW w \in Workers, NEW i \in 1 .. Slice[w]
             PROVE  Cardinality(CopiesOf(w, i)) <= IF w \in owners THEN 1 ELSE program[w].tries
  BY DEF CopiesAreBounded, CopiesOf, Document
<1>1. InsertsTypeOK /\ OwnInv
  BY DEF InsertsInv
<1>2. /\ IsFiniteSet(CopiesOf(w, i)) /\ IsFiniteSet(RequestsOf(w))
      /\ Cardinality(CopiesOf(w, i)) + Cardinality(RequestsOf(w)) <= program[w].tries
      /\ Cardinality(CopiesOf(w, i)) \in Nat
      /\ Cardinality(RequestsOf(w)) \in Nat
      /\ program[w].tries \in Nat
  BY <1>1, FS_CardinalityType, ThreadsAreTyped DEF CountInv, Threads
<1>3. CASE w \in owners
  <2> DEFINE x == [document |-> <<w, i>>, id |-> program[w].ids[i]]
  <2>1. ASSUME NEW s \in CopiesOf(w, i) PROVE s = x
    <3>1. s \in stored /\ s.document = <<w, i>>
      BY <2>1 DEF CopiesOf
    <3>2. s.document[1] = w /\ s.document[2] = i
      BY <3>1
    <3>3. s.id = program[w].ids[i]
      BY <1>1, <1>3, <3>1, <3>2 DEF OwnInv
    <3>4. s \in [document : Documents, id : Ids]
      BY <1>1, <3>1 DEF InsertsTypeOK, Stored
    <3> QED BY <3>1, <3>3, <3>4
  <2> HIDE DEF x
  <2>2. CopiesOf(w, i) = {} \/ CopiesOf(w, i) = {} \cup {x}
    BY <2>1
  <2>3. Cardinality(CopiesOf(w, i)) <= Cardinality({}) + 1
    BY <2>2, FS_EmptySet, AtMostOneMore
  <2> QED BY <1>3, <2>3, FS_EmptySet
<1>4. CASE w \notin owners
  BY <1>2, <1>4
<1> QED BY <1>3, <1>4

(* However often the documents of a slice are inserted again, each is      *)
(* stored once when it has an id of its own, and otherwise at most once    *)
(* per call, even when ids are given out twice.                            *)
THEOREM CopiesAreAlwaysBounded == Spec => []CopiesAreBounded
BY CountInvInit, CountInvNext, CountInvIsBounded, InsertsInvAlways, PTL DEF Spec
=============================================================================
