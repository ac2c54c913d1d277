---------------------------- MODULE CursorProofs ----------------------------
(***************************************************************************)
(* Theorems about QueryCursor, for every result of a query, every size of  *)
(* a batch and any number of retries, and about CursorViews, for any number *)
(* of variables and any number of appends.                                 *)
(***************************************************************************)
EXTENDS CursorViews, SequenceTheorems, TLAPS

(* Between two batches there is nothing in the cursor, and the server has  *)
(* nothing left when the cursor takes a batch for the last one.            *)
BatchInv ==
    error = "none" =>
        /\ state \in {"UNPRIMED", "END_OF_BATCH"} => batch = <<>>
        /\ state = "IN_BATCH" /\ ~open /\ program # "destroyed" => rest = <<>>
        /\ program = "end" => state = "DONE"

(* What errorMessage() has said is what there is to say.                   *)
SaidInv ==
    /\ program = "next" => said = "nothing"
    /\ said = "CursorError" => error = "none"
    /\ said \in {"message", "OutOfMemory"} => error # "none"

Inv == TypeOK /\ NothingIsSkipped /\ BatchInv /\ SaidInv
-----------------------------------------------------------------------------
LEMMA ResultType == Result \in Seq(Documents)
BY ResultAssumption DEF Documents

(* A sequence that is sent in two parts arrives whole.                     *)
LEMMA SplitIsWhole ==
    ASSUME NEW S, NEW s \in Seq(S), NEW n \in Nat, n <= Len(s)
    PROVE  /\ SubSeq(s, 1, n) \in Seq(S)
           /\ SubSeq(s, n + 1, Len(s)) \in Seq(S)
           /\ SubSeq(s, 1, n) \o SubSeq(s, n + 1, Len(s)) = s
<1> DEFINE l == Len(s)
<1>1. l \in Nat /\ \A i \in 1 .. l : s[i] \in S
  BY LenProperties, ElementOfSeq
<1>2. 1 \in 1 .. l + 1 /\ n \in 1 - 1 .. l /\ l \in n .. l
  BY <1>1
<1>3. SubSeq(s, 1, n) \o SubSeq(s, n + 1, l) = SubSeq(s, 1, l)
  <2> HIDE DEF l
  <2>1. 1 \in 1 .. l + 1 /\ n \in 1 - 1 .. l /\ l \in n .. l
    BY <1>2
  <2> USE DEF l
  <2> QED BY <2>1, ConcatAdjacentSubSeq
<1>4. SubSeq(s, 1, l) = s
  BY SubSeqFull
<1>5. \A i \in 1 .. n : s[i] \in S
  BY <1>1
<1>6. \A i \in n + 1 .. l : s[i] \in S
  BY <1>1
<1>7. SubSeq(s, 1, n) \in Seq(S)
  BY <1>5, SubSeqProperties, n \in Int, 1 \in Int
<1>8. SubSeq(s, n + 1, l) \in Seq(S)
  BY <1>1, <1>6, SubSeqProperties, n + 1 \in Int, l \in Int
<1> QED BY <1>3, <1>4, <1>7, <1>8

(* Moving the first element of t to the end of s keeps the two together.   *)
LEMMA MoveOne ==
    ASSUME NEW S, NEW s \in Seq(S), NEW t \in Seq(S), t # <<>>
    PROVE  /\ Append(s, Head(t)) \in Seq(S)
           /\ Tail(t) \in Seq(S)
           /\ Append(s, Head(t)) \o Tail(t) = s \o t
<1> DEFINE a == Append(s, Head(t))
<1>1. Head(t) \in S /\ Tail(t) \in Seq(S)
  BY HeadTailProperties
<1>2. a \in Seq(S) /\ a = s \o <<Head(t)>>
  BY <1>1, AppendProperties, AppendIsConcat
<1>3. <<Head(t)>> \in Seq(S) /\ <<Head(t)>> \o Tail(t) = t
  BY <1>1
<1>4. (s \o <<Head(t)>>) \o Tail(t) = s \o (<<Head(t)>> \o Tail(t))
  BY <1>1, <1>3, ConcatAssociative
<1> QED BY <1>1, <1>2, <1>3, <1>4

(* The document that follows those given is the first one of the batch.    *)
LEMMA NextIsFirst ==
    ASSUME NEW S, NEW g \in Seq(S), NEW b \in Seq(S), NEW r \in Seq(S), b # <<>>
    PROVE  /\ Len(g) < Len((g \o b) \o r)
           /\ ((g \o b) \o r)[Len(g) + 1] = Head(b)
<1> DEFINE l == Len(g)
           m == Len(b)
           k == Len(r)
<1>1. l \in Nat /\ m \in Nat \ {0} /\ k \in Nat
  BY LenProperties, EmptySeq
<1>2. g \o b \in Seq(S) /\ Len(g \o b) = l + m /\ Len((g \o b) \o r) = (l + m) + k
  BY ConcatProperties
<1>3. \A i \in 1 .. (l + m) + k :
        ((g \o b) \o r)[i] = IF i <= l + m THEN (g \o b)[i] ELSE r[i - (l + m)]
  BY <1>2, ConcatProperties
<1>4. \A i \in 1 .. l + m : (g \o b)[i] = IF i <= l THEN g[i] ELSE b[i - l]
  BY ConcatProperties
<1>5. Head(b) = b[1]
  OBVIOUS
<1> HIDE DEF l, m, k
<1>6. /\ l + 1 \in 1 .. (l + m) + k /\ l + 1 <= l + m
      /\ l + 1 \in 1 .. l + m /\ ~(l + 1 <= l) /\ (l + 1) - l = 1
      /\ l < (l + m) + k
  BY <1>1
<1>7. ((g \o b) \o r)[l + 1] = b[1]
  BY <1>3, <1>4, <1>6
<1> QED BY <1>2, <1>5, <1>6, <1>7 DEF l
-----------------------------------------------------------------------------
LEMMA InvInit == Init => Inv
<1> SUFFICES ASSUME Init PROVE Inv
  OBVIOUS
<1>1. <<>> \in Seq(Documents) /\ Result \in Seq(Documents)
  BY ResultType, EmptySeq
<1>2. (<<>> \o <<>>) \o Result = Result
  <2>1. <<>> \o <<>> = <<>> /\ <<>> \o Result = Result
    BY <1>1, ConcatEmptySeq
  <2> QED BY <2>1
<1>3. TypeOK
  BY <1>1, ResultAssumption DEF Init, TypeOK, States, Errors, Programs, Answers
<1>4. NothingIsSkipped
  BY <1>2 DEF Init, NothingIsSkipped
<1> QED BY <1>3, <1>4 DEF Init, Inv, BatchInv, SaidInv

LEMMA SendsKeepsInv ==
    ASSUME Inv, NEW n \in 0 .. MaxBatch, NEW more \in BOOLEAN,
           Prime(n, more) \/ GetMore(n, more)
    PROVE  Inv'
<1>1. /\ program = "next" /\ error = "none" /\ state \in {"UNPRIMED", "END_OF_BATCH"}
      /\ n \in Nat /\ n <= Len(rest)
      /\ batch' = SubSeq(rest, 1, n)
      /\ rest' = SubSeq(rest, n + 1, Len(rest))
      /\ rest' # <<>> => more
      /\ open' = more
      /\ state' = "IN_BATCH"
      /\ UNCHANGED <<error, retries, program, given, said>>
  BY ResultAssumption DEF Prime, GetMore, Sends, InNext
<1>2. batch = <<>> /\ (given \o batch) \o rest = Result
  BY <1>1 DEF Inv, BatchInv, NothingIsSkipped
<1>3. /\ given \in Seq(Documents) /\ rest \in Seq(Documents)
  BY DEF Inv, TypeOK
<1>4. /\ batch' \in Seq(Documents) /\ rest' \in Seq(Documents)
      /\ batch' \o rest' = rest
  BY <1>1, <1>3, SplitIsWhole
<1>5. (given \o batch') \o rest' = Result
  <2>1. (given \o batch') \o rest' = given \o (batch' \o rest')
    <3>1. \A g, b, r \in Seq(Documents) : (g \o b) \o r = g \o (b \o r)
      BY ConcatAssociative
    <3> QED BY <1>3, <1>4, <3>1, Zenon
  <2>2. given \o batch = given
    BY <1>2, <1>3, ConcatEmptySeq
  <2> QED BY <1>2, <1>4, <2>1, <2>2
<1>6. TypeOK'
  BY <1>1, <1>4 DEF Inv, TypeOK, States
<1>7. NothingIsSkipped'
  BY <1>1, <1>5 DEF NothingIsSkipped
<1>8. BatchInv' /\ SaidInv'
  BY <1>1 DEF Inv, BatchInv, SaidInv
<1> QED BY <1>6, <1>7, <1>8 DEF Inv

LEMMA PopKeepsInv ==
    ASSUME Inv, Pop
    PROVE  Inv'
<1>1. /\ program = "next" /\ error = "none" /\ state = "IN_BATCH" /\ batch # <<>>
      /\ given' = Append(given, Head(batch))
      /\ batch' = Tail(batch)
      /\ program' = "document"
      /\ UNCHANGED <<state, rest, open, error, retries, said>>
  BY DEF Pop, InNext
<1>2. /\ given \in Seq(Documents) /\ batch \in Seq(Documents)
      /\ (given \o batch) \o rest = Result
  BY <1>1 DEF Inv, TypeOK, NothingIsSkipped
<1>3. /\ given' \in Seq(Documents) /\ batch' \in Seq(Documents)
      /\ given' \o batch' = given \o batch
  BY <1>1, <1>2, MoveOne
<1>4. TypeOK'
  BY <1>1, <1>3 DEF Inv, TypeOK, Programs
<1>5. NothingIsSkipped'
  BY <1>1, <1>2, <1>3 DEF NothingIsSkipped
<1>6. BatchInv' /\ SaidInv'
  BY <1>1 DEF Inv, BatchInv, SaidInv
<1> QED BY <1>4, <1>5, <1>6 DEF Inv

LEMMA BatchIsUsedUpKeepsInv ==
    ASSUME Inv, BatchIsUsedUp
    PROVE  Inv'
<1>1. /\ program = "next" /\ error = "none" /\ state = "IN_BATCH" /\ batch = <<>>
      /\ state' = IF open THEN "END_OF_BATCH" ELSE "DONE"
      /\ program' = IF open THEN program ELSE "end"
      /\ UNCHANGED <<batch, rest, open, error, retries, given, said>>
  BY DEF BatchIsUsedUp, InNext
<1>2. /\ given \in Seq(Documents)
      /\ (given \o batch) \o rest = Result
      /\ ~open => rest = <<>>
  BY <1>1 DEF Inv, TypeOK, NothingIsSkipped, BatchInv
<1>3. ~open => given = Result
  <2>1. given \o <<>> = given
    BY <1>2, ConcatEmptySeq
  <2> QED BY <1>1, <1>2, <2>1
<1>4. TypeOK'
  BY <1>1 DEF Inv, TypeOK, States, Programs
<1>5. NothingIsSkipped'
  BY <1>1, <1>2, <1>3 DEF NothingIsSkipped
<1>6. BatchInv' /\ SaidInv'
  BY <1>1 DEF Inv, BatchInv, SaidInv
<1> QED BY <1>4, <1>5, <1>6 DEF Inv

LEMMA FailsKeepsInv ==
    ASSUME Inv, PrimeFails \/ \E n \in 0 .. MaxBatch : GetMoreFails(n)
    PROVE  Inv'
<1>1. /\ program = "next" /\ error' = "failed" /\ state' = "DONE" /\ program' = "end"
      /\ UNCHANGED <<batch, open, retries, given, said>>
  BY DEF PrimeFails, GetMoreFails, InNext, Fails
<1>2. rest' \in Seq(Documents)
  <2>1. CASE PrimeFails
    BY <2>1 DEF PrimeFails, Inv, TypeOK
  <2>2. ASSUME NEW n \in 0 .. MaxBatch, GetMoreFails(n) PROVE rest' \in Seq(Documents)
    BY <2>2, SplitIsWhole, ResultAssumption DEF GetMoreFails, Inv, TypeOK
  <2> QED BY <2>1, <2>2
<1>3. TypeOK'
  BY <1>1, <1>2 DEF Inv, TypeOK, States, Programs, Errors
<1>4. NothingIsSkipped' /\ BatchInv' /\ SaidInv'
  BY <1>1 DEF Inv, NothingIsSkipped, BatchInv, SaidInv
<1> QED BY <1>3, <1>4 DEF Inv

(* The actions that move no document.                                      *)
LEMMA OthersKeepInv ==
    ASSUME Inv, Call \/ Refuse \/ RetryPrime \/ errorMessage \/ destroy \/ UNCHANGED vars
    PROVE  Inv'
<1>1. CASE Call
  BY <1>1 DEF Call, OutOfNext, Inv, TypeOK, NothingIsSkipped, BatchInv, SaidInv, Programs, Answers
<1>2. CASE Refuse
  BY <1>2 DEF Refuse, Inv, TypeOK, NothingIsSkipped, BatchInv, SaidInv, Programs, Errors
<1>3. CASE RetryPrime
  BY <1>3, ResultAssumption DEF RetryPrime, InNext, Inv, TypeOK, NothingIsSkipped, BatchInv, SaidInv
<1>4. CASE errorMessage
  BY <1>4 DEF errorMessage, OutOfNext, Inv, TypeOK, NothingIsSkipped, BatchInv, SaidInv, Answers
<1>5. CASE destroy
  BY <1>5 DEF destroy, OutOfNext, Inv, TypeOK, NothingIsSkipped, BatchInv, SaidInv, Programs
<1>6. CASE UNCHANGED vars
  BY <1>6 DEF vars, Inv, TypeOK, NothingIsSkipped, BatchInv, SaidInv
<1> QED BY <1>1, <1>2, <1>3, <1>4, <1>5, <1>6

LEMMA NextKeepsInv == Inv /\ [Next]_vars => Inv'
BY SendsKeepsInv, PopKeepsInv, BatchIsUsedUpKeepsInv, FailsKeepsInv, OthersKeepInv
   DEF Next, Proceed
-----------------------------------------------------------------------------
(* Whatever the server sends and loses, every variable has its type.       *)
THEOREM CursorIsTyped == Spec => []TypeOK
<1>1. Inv => TypeOK
  BY DEF Inv
<1> QED BY InvInit, NextKeepsInv, <1>1, PTL DEF Spec

(* However the result is cut into batches, next() returns each document of *)
(* it once, in order, as long as nothing has failed.                       *)
THEOREM NothingIsEverSkipped == Spec => []NothingIsSkipped
<1>1. Inv => NothingIsSkipped
  BY DEF Inv
<1> QED BY InvInit, NextKeepsInv, <1>1, PTL DEF Spec
-----------------------------------------------------------------------------
(* Each step of the cursor is one of Query, or none.                       *)
LEMMA PopGives ==
    ASSUME Inv, Pop
    PROVE  Query!Give
<1>1. /\ program = "next" /\ error = "none" /\ batch # <<>>
      /\ given' = Append(given, Head(batch))
      /\ program' = "document"
      /\ UNCHANGED <<error, said>>
  BY DEF Pop, InNext
<1>2. /\ given \in Seq(Documents) /\ batch \in Seq(Documents) /\ rest \in Seq(Documents)
      /\ (given \o batch) \o rest = Result
  BY <1>1 DEF Inv, TypeOK, NothingIsSkipped
<1>3. Len(given) < Len(Result) /\ Result[Len(given) + 1] = Head(batch)
  BY <1>1, <1>2, NextIsFirst
<1>4. Told = "unknown" /\ Told' = Told
  BY <1>1 DEF Told, Inv, SaidInv
<1> QED BY <1>1, <1>3, <1>4 DEF Query!Give

LEMMA RefuseBreaks ==
    ASSUME Inv, Refuse
    PROVE  Query!Break
<1>1. /\ program = "next" /\ error' # "none" /\ UNCHANGED <<given, said>>
  BY DEF Refuse
<1>2. said = "nothing"
  BY <1>1 DEF Inv, SaidInv
<1> QED BY <1>1, <1>2 DEF Query!Break, Told

LEMMA FailsBreaks ==
    ASSUME Inv, PrimeFails \/ \E n \in 0 .. MaxBatch : GetMoreFails(n)
    PROVE  Query!Break
<1>1. /\ program = "next" /\ error' = "failed" /\ UNCHANGED <<given, said>>
  BY DEF PrimeFails, GetMoreFails, InNext, Fails
<1>2. said = "nothing"
  BY <1>1 DEF Inv, SaidInv
<1> QED BY <1>1, <1>2 DEF Query!Break, Told

LEMMA errorMessageAnswers ==
    ASSUME Inv, errorMessage
    PROVE  Query!Answer \/ Query!Resume
<1>1. /\ OutOfNext
      /\ said' \in IF error = "none" THEN {"CursorError"} ELSE {"message", "OutOfMemory"}
      /\ UNCHANGED <<state, error, program, given>>
  BY DEF errorMessage
<1>2. CASE error # "none"
  BY <1>1, <1>2 DEF Query!Answer, Told
<1>3. CASE error = "none" /\ program = "end"
  BY <1>1, <1>3 DEF Query!Answer, Told, Inv, BatchInv, NothingIsSkipped
<1>4. CASE error = "none" /\ program # "end"
  BY <1>1, <1>4 DEF Query!Resume, Told
<1> QED BY <1>2, <1>3, <1>4

LEMMA CallResumes ==
    ASSUME Inv, Call
    PROVE  Query!Resume
BY DEF Call, Query!Resume, Told

LEMMA destroyResumes ==
    ASSUME Inv, destroy
    PROVE  Query!Resume \/ UNCHANGED <<given, error, Told>>
BY DEF destroy, Query!Resume, Told

LEMMA OthersStutter ==
    ASSUME Inv,
           \/ \E n \in 0 .. MaxBatch, more \in BOOLEAN : Prime(n, more) \/ GetMore(n, more)
           \/ RetryPrime \/ BatchIsUsedUp \/ UNCHANGED vars
    PROVE  UNCHANGED <<given, error, Told>>
<1>1. UNCHANGED <<given, error, said>> /\ (program = "next" \/ program' = program)
  BY DEF Prime, GetMore, Sends, RetryPrime, BatchIsUsedUp, InNext, vars
<1>2. program = "next" => said = "nothing"
  BY DEF Inv, SaidInv
<1> QED BY <1>1, <1>2 DEF Told

LEMMA StepsRefine ==
    Inv /\ [Next]_vars => [Query!Next]_<<given, error # "none", Told>>
<1> SUFFICES ASSUME Inv, [Next]_vars
             PROVE  Query!Next \/ UNCHANGED <<given, error, Told>>
  OBVIOUS
<1> QED
  BY PopGives, RefuseBreaks, FailsBreaks, errorMessageAnswers, CallResumes,
     destroyResumes, OthersStutter
     DEF Next, Proceed, Query!Next

(* For every result, however it is cut into batches and wherever a request *)
(* or a reply is lost, a program that loops over next() and asks           *)
(* errorMessage() behind the loop has the abstract query.                  *)
THEOREM CursorImplementsQuery == Spec => ImplementsQuery
<1>1. Init => Query!Init
  BY DEF Init, Query!Init, Told
<1> QED BY InvInit, NextKeepsInv, <1>1, StepsRefine, PTL DEF Spec, ImplementsQuery, Query!Spec
-----------------------------------------------------------------------------
(* What the program looks at in the loop: CursorViews.                     *)

(* A variable that is not to be read any more is out of date; of the       *)
(* others only the one next() was called with last shows a document of the *)
(* cursor, and only while the program is in its loop.                      *)
VariablesInv ==
    \A v \in Variables : shows[v] = "current" /\ v \notin moved =>
        /\ v = target
        /\ program = "document"
        /\ current = Data(Reply, <<"given", Len(given)>>)

(* Where the data of a view are that is in use.                            *)
InUse(data) ==
    \/ data.buffer = Reply /\ program = "document"
    \/ data.buffer = <<"other", 0>>
    \/ \E v \in Variables : data.buffer = <<v, appends[v]>>

ViewInv ==
    ~view.stale =>
        /\ view.kind \in {"iter", "text"} => InUse(view.at) /\ view.at.doc = view.of
        /\ view.kind = "oid" => view.copy = view.of

ViewsInv == ViewsTypeOK /\ VariablesInv /\ ViewInv
-----------------------------------------------------------------------------
LEMMA PlacesAreTyped ==
    ASSUME ViewsTypeOK
    PROVE  /\ \A v \in Variables : Pointed(v) \in Places
           /\ \A d \in Places : Seen(d) \in Contents
           /\ \A k \in Nat : Data(Reply, <<"given", k>>) \in Places
<1>1. \A b \in Buffers, d \in Contents : Data(b, d) \in Places
  BY DEF Data, Places
<1>2. /\ <<"undefined", 0>> \in Buffers \cap Contents
      /\ <<"other", 0>> \in Buffers \cap Contents
  BY DEF Buffers, Contents
<1>3. Nothing \in Places
  BY <1>1, <1>2 DEF Nothing, Undefined
<1>4. \A v \in Variables : Pointed(v) \in Places
  <2> TAKE v \in Variables
  <2>1. appends[v] \in 0 .. MaxAppends /\ current \in Places
    BY DEF ViewsTypeOK
  <2>2. <<v, appends[v]>> \in Buffers /\ <<v, 0>> \in Contents
    BY <2>1 DEF Buffers, Contents
  <2> QED BY <1>1, <1>2, <1>3, <2>1, <2>2 DEF Pointed
<1>5. \A d \in Places : Seen(d) \in Contents
  BY <1>2 DEF Seen, Undefined, Places
<1>6. ASSUME NEW k \in Nat PROVE Data(Reply, <<"given", k>>) \in Places
  <2>1. <<"given", k>> \in Contents
    BY DEF Contents
  <2>2. Reply \in Buffers
    BY DEF Buffers, Reply, ViewsTypeOK
  <2> QED BY <1>1, <2>1, <2>2
<1> QED BY <1>4, <1>5, <1>6

LEMMA ViewsInvInit == ViewsInit => ViewsInv
<1> SUFFICES ASSUME ViewsInit PROVE ViewsInv
  OBVIOUS
<1>1. Undefined \in Buffers \cap Contents
  BY DEF Undefined, Buffers, Contents
<1>2. Nothing \in Places
  BY <1>1 DEF Nothing, Data, Places
<1>3. ViewsTypeOK
  BY <1>1, <1>2, ViewsAssumption DEF ViewsInit, ViewsTypeOK, Kinds
<1> QED BY <1>3 DEF ViewsInit, ViewsInv, VariablesInv, ViewInv
-----------------------------------------------------------------------------
(* A buffer has the name of what it belongs to. *)
LEMMA NamesDiffer ==
    /\ Reply[1] = "reply"
    /\ \A v \in Variables : v # "reply" /\ v # "other"
BY ViewsAssumption DEF Reply

LEMMA nextKeepsInv ==
    ASSUME ViewsInv, NEW v \in Variables, next(v)
    PROVE  ViewsInv'
<1>1. /\ OutOfNext /\ program' = "next" /\ given' = given
      /\ target' = v
      /\ shows' = [shows EXCEPT ![v] = "null"]
      /\ moved' = InCursor \ {v}
      /\ UNCHANGED <<current, replies, appends>>
      /\ Spoil("reply")
  BY DEF next, Call
<1>2. ViewsTypeOK'
  BY <1>1 DEF ViewsInv, ViewsTypeOK, Spoil, InCursor
<1>3. VariablesInv'
  BY <1>1 DEF ViewsInv, ViewsTypeOK, VariablesInv, InCursor
<1>4. ViewInv'
  <2> SUFFICES ASSUME ~view'.stale
               PROVE  /\ view'.kind \in {"iter", "text"} =>
                            InUse(view.at)' /\ view'.at.doc = view'.of
                      /\ view'.kind = "oid" => view'.copy = view'.of
    BY DEF ViewInv
  <2>1. /\ view'.kind = view.kind /\ view'.at = view.at /\ view'.of = view.of
        /\ view'.copy = view.copy
        /\ ~view.stale /\ (view.kind # "oid" => view.at.buffer[1] # "reply")
    BY <1>1 DEF Spoil, ViewsInv, ViewsTypeOK
  <2>2. view.kind \in {"iter", "text"} => InUse(view.at) /\ view.at.buffer # Reply
    BY <2>1, NamesDiffer DEF ViewsInv, ViewInv
  <2>3. InUse(view.at) /\ view.at.buffer # Reply => InUse(view.at)'
    BY <1>1, <2>1 DEF InUse
  <2> QED BY <2>1, <2>2, <2>3 DEF ViewsInv, ViewInv
<1> QED BY <1>2, <1>3, <1>4 DEF ViewsInv

LEMMA ReturnsTrueKeepsInv ==
    ASSUME ViewsInv, ReturnsTrue, given \in Seq(Documents)
    PROVE  ViewsInv'
<1>1. /\ program = "next" /\ program' = "document"
      /\ given' = Append(given, Head(batch))
      /\ shows' = [shows EXCEPT ![target] = "current"]
      /\ current' = Data(Reply, <<"given", Len(given) + 1>>)
      /\ UNCHANGED <<target, replies, appends, moved, view>>
  BY DEF ReturnsTrue, Pop, InNext
<1>2. Len(given) \in Nat /\ Len(given') = Len(given) + 1
  BY <1>1, LenProperties, AppendProperties
<1>3. ViewsTypeOK'
  <2>1. current' \in Places
    BY <1>1, <1>2, PlacesAreTyped DEF ViewsInv
  <2> QED BY <1>1, <2>1 DEF ViewsInv, ViewsTypeOK
<1>4. VariablesInv'
  BY <1>1, <1>2 DEF ViewsInv, ViewsTypeOK, VariablesInv, Reply
<1>5. ViewInv'
  BY <1>1 DEF ViewsInv, ViewInv, InUse, Reply
<1> QED BY <1>3, <1>4, <1>5 DEF ViewsInv

(* The other steps in next(): the reply may go, but nothing in use is in it. *)
LEMMA StepsInNextKeepInv ==
    ASSUME ViewsInv, AsksServer \/ Goes
    PROVE  ViewsInv'
<1>1. /\ program = "next" /\ program' \in {"next", "end"}
      /\ replies' \in {replies, replies + 1}
      /\ UNCHANGED <<shows, target, current, appends, moved, view>>
  BY DEF AsksServer, Asks, Goes, views, RetryPrime, PrimeFails, Prime, GetMore,
         GetMoreFails, Sends, Fails, InNext, Refuse, BatchIsUsedUp
<1>2. ViewsTypeOK'
  BY <1>1 DEF ViewsInv, ViewsTypeOK
<1>3. VariablesInv'
  BY <1>1 DEF ViewsInv, VariablesInv
<1>4. ViewInv'
  BY <1>1 DEF ViewsInv, ViewInv, InUse
<1> QED BY <1>2, <1>3, <1>4 DEF ViewsInv

LEMMA nextElsewhereKeepsInv ==
    ASSUME ViewsInv, NEW v \in Variables, nextElsewhere(v)
    PROVE  ViewsInv'
<1>1. /\ shows' = [shows EXCEPT ![v] = "other"]
      /\ moved' = moved \ {v}
      /\ UNCHANGED <<program, given, target, current, replies, appends, view>>
  BY DEF nextElsewhere, vars
<1>2. ViewsTypeOK'
  BY <1>1 DEF ViewsInv, ViewsTypeOK
<1>3. VariablesInv'
  BY <1>1 DEF ViewsInv, ViewsTypeOK, VariablesInv, Reply
<1>4. ViewInv'
  BY <1>1 DEF ViewsInv, ViewInv, InUse, Reply
<1> QED BY <1>2, <1>3, <1>4 DEF ViewsInv

LEMMA appendKeepsInv ==
    ASSUME ViewsInv, NEW v \in Variables, append(v)
    PROVE  ViewsInv'
<1>1. /\ appends[v] < MaxAppends
      /\ appends' = [appends EXCEPT ![v] = @ + 1]
      /\ Spoil(v)
      /\ UNCHANGED <<program, given, shows, target, current, replies, moved>>
  BY DEF append, vars
<1>2. ViewsTypeOK'
  <2>1. appends' \in [Variables -> 0 .. MaxAppends]
    BY <1>1, ViewsAssumption DEF ViewsInv, ViewsTypeOK
  <2>2. view' \in [kind : Kinds, at : Places, of : Contents, copy : Contents,
                   stale : BOOLEAN]
    BY <1>1 DEF ViewsInv, ViewsTypeOK, Spoil
  <2> QED BY <1>1, <2>1, <2>2 DEF ViewsInv, ViewsTypeOK
<1>3. VariablesInv'
  BY <1>1 DEF ViewsInv, VariablesInv, Reply
<1>4. ViewInv'
  <2> SUFFICES ASSUME ~view'.stale
               PROVE  /\ view'.kind \in {"iter", "text"} =>
                            InUse(view.at)' /\ view'.at.doc = view'.of
                      /\ view'.kind = "oid" => view'.copy = view'.of
    <3>1. view'.at = view.at
      BY <1>1 DEF Spoil, ViewsInv, ViewsTypeOK
    <3> QED BY <3>1 DEF ViewInv
  <2>1. /\ view'.kind = view.kind /\ view'.at = view.at /\ view'.of = view.of
        /\ view'.copy = view.copy
        /\ ~view.stale /\ (view.kind # "oid" => view.at.buffer[1] # v)
    BY <1>1 DEF Spoil, ViewsInv, ViewsTypeOK
  <2>2. view.kind \in {"iter", "text"} => InUse(view.at) /\ view.at.buffer[1] # v
    BY <2>1 DEF ViewsInv, ViewInv
  <2>3. InUse(view.at) /\ view.at.buffer[1] # v => InUse(view.at)'
    <3>1. \A u \in Variables : u # v => appends'[u] = appends[u]
      BY <1>1 DEF ViewsInv, ViewsTypeOK
    <3>2. \A u \in Variables : <<u, appends[u]>>[1] = u
      OBVIOUS
    <3> QED BY <1>1, <2>1, <3>1, <3>2 DEF InUse, Reply
  <2> QED BY <2>1, <2>2, <2>3 DEF ViewsInv, ViewInv
<1> QED BY <1>2, <1>3, <1>4 DEF ViewsInv

LEMMA iterInitKeepsInv ==
    ASSUME ViewsInv, NEW v \in Variables, iterInit(v)
    PROVE  ViewsInv'
<1>1. /\ shows[v] # "null"
      /\ view' = [kind |-> "iter", at |-> Pointed(v), of |-> Pointed(v).doc,
                  copy |-> Undefined, stale |-> v \in moved]
      /\ UNCHANGED <<program, given, shows, target, current, replies, appends, moved>>
  BY DEF iterInit, vars
<1>2. Pointed(v) \in Places /\ Pointed(v).doc \in Contents
  BY PlacesAreTyped DEF ViewsInv, Places
<1>3. ViewsTypeOK'
  <2>1. Undefined \in Contents /\ (v \in moved) \in BOOLEAN
    BY DEF Undefined, Contents
  <2> QED BY <1>1, <1>2, <2>1 DEF ViewsInv, ViewsTypeOK, Kinds
<1>4. VariablesInv'
  BY <1>1 DEF ViewsInv, VariablesInv, Reply
<1>5. v \notin moved => InUse(Pointed(v))
  <2>1. CASE shows[v] = "current"
    BY <2>1 DEF Pointed, InUse, ViewsInv, VariablesInv, Data
  <2>2. CASE shows[v] # "current"
    BY <1>1, <2>2 DEF Pointed, InUse, ViewsInv, ViewsTypeOK, Data
  <2> QED BY <2>1, <2>2
<1>6. InUse(Pointed(v)) => InUse(Pointed(v))'
  BY <1>1 DEF InUse, Reply, Pointed
<1>7. ViewInv'
  <2>1. /\ view'.kind = "iter" /\ view'.at = Pointed(v) /\ view'.of = Pointed(v).doc
        /\ (~view'.stale => v \notin moved)
    BY <1>1
  <2>2. InUse(Pointed(v)) => InUse(view.at)'
    BY <1>1, <2>1 DEF InUse, Reply
  <2> QED BY <1>5, <2>1, <2>2 DEF ViewInv
<1> QED BY <1>3, <1>4, <1>7 DEF ViewsInv

LEMMA InUseIsSeen ==
    ASSUME NEW data, InUse(data)
    PROVE  Seen(data) = data.doc
BY DEF InUse, Seen, Live

LEMMA ReadingKeepsInv ==
    ASSUME ViewsInv, iterUtf8 \/ iterOid
    PROVE  ViewsInv'
<1>1. /\ view.kind = "iter" /\ view'.kind \in {"text", "oid"}
      /\ view'.at = view.at /\ view'.of = view.of /\ view'.stale = view.stale
      /\ view'.kind = "oid" => view'.copy = Seen(view.at)
      /\ UNCHANGED <<program, given, shows, target, current, replies, appends, moved>>
  BY DEF iterUtf8, iterOid, vars, ViewsInv, ViewsTypeOK
<1>2. ViewsTypeOK'
  <2>1. Seen(view.at) \in Contents
    BY PlacesAreTyped DEF ViewsInv, ViewsTypeOK
  <2>2. view' \in [kind : Kinds, at : Places, of : Contents, copy : Contents,
                   stale : BOOLEAN]
    BY <2>1 DEF iterUtf8, iterOid, ViewsInv, ViewsTypeOK, Kinds
  <2> QED BY <1>1, <2>2 DEF ViewsInv, ViewsTypeOK
<1>3. VariablesInv'
  BY <1>1 DEF ViewsInv, VariablesInv, Reply
<1>4. ViewInv'
  <2>1. ~view.stale => InUse(view.at) /\ view.at.doc = view.of
    BY <1>1 DEF ViewsInv, ViewInv
  <2>2. InUse(view.at) => InUse(view.at)'
    BY <1>1 DEF InUse, Reply
  <2>3. ~view.stale => Seen(view.at) = view.of
    BY <2>1, InUseIsSeen
  <2> QED BY <1>1, <2>1, <2>2, <2>3 DEF ViewInv
<1> QED BY <1>2, <1>3, <1>4 DEF ViewsInv

LEMMA destroyedKeepsInv ==
    ASSUME ViewsInv, destroyed
    PROVE  ViewsInv'
<1>1. /\ moved' = InCursor
      /\ Spoil("reply")
      /\ UNCHANGED <<given, shows, target, current, replies, appends>>
  BY DEF destroyed, destroy
<1>2. ViewsTypeOK'
  <2>1. view' \in [kind : Kinds, at : Places, of : Contents, copy : Contents,
                   stale : BOOLEAN]
    BY <1>1 DEF ViewsInv, ViewsTypeOK, Spoil
  <2> QED BY <1>1, <2>1 DEF ViewsInv, ViewsTypeOK, InCursor
<1>3. VariablesInv'
  BY <1>1 DEF VariablesInv, InCursor
<1>4. ViewInv'
  <2> SUFFICES ASSUME ~view'.stale
               PROVE  /\ view'.kind \in {"iter", "text"} =>
                            InUse(view.at)' /\ view'.at.doc = view'.of
                      /\ view'.kind = "oid" => view'.copy = view'.of
    BY DEF ViewInv
  <2>1. /\ view'.kind = view.kind /\ view'.at = view.at /\ view'.of = view.of
        /\ view'.copy = view.copy
        /\ ~view.stale /\ (view.kind # "oid" => view.at.buffer[1] # "reply")
    BY <1>1 DEF Spoil, ViewsInv, ViewsTypeOK
  <2>2. view.kind \in {"iter", "text"} => InUse(view.at) /\ view.at.buffer # Reply
    BY <2>1, NamesDiffer DEF ViewsInv, ViewInv
  <2>3. InUse(view.at) /\ view.at.buffer # Reply => InUse(view.at)'
    BY <1>1, <2>1 DEF InUse
  <2> QED BY <2>1, <2>2, <2>3 DEF ViewsInv, ViewInv
<1> QED BY <1>2, <1>3, <1>4 DEF ViewsInv

LEMMA AskedKeepsInv ==
    ASSUME ViewsInv, Asked \/ UNCHANGED <<vars, views>>
    PROVE  ViewsInv'
<1>1. UNCHANGED <<program, given, views>>
  BY DEF Asked, errorMessage, vars
<1>2. ViewsTypeOK'
  BY <1>1 DEF ViewsInv, ViewsTypeOK, views
<1>3. VariablesInv'
  BY <1>1 DEF ViewsInv, VariablesInv, Reply, views
<1>4. ViewInv'
  BY <1>1 DEF ViewsInv, ViewInv, InUse, Reply, views
<1> QED BY <1>2, <1>3, <1>4 DEF ViewsInv
-----------------------------------------------------------------------------
(* Looking at documents does nothing to the query.                         *)
LEMMA StepsAreOfTheQuery == [ViewsNext]_<<vars, views>> => [Next]_vars
BY DEF ViewsNext, next, nextElsewhere, append, iterInit, Moves, ReturnsTrue, AsksServer,
       Asks, Goes, iterUtf8, iterOid, Asked, destroyed, Next, Proceed, vars

LEMMA BothInvs == ViewsSpec => [](Inv /\ ViewsInv)
<1>1. ViewsInit => Inv /\ ViewsInv
  BY InvInit, ViewsInvInit DEF ViewsInit
<1>2. Inv /\ ViewsInv /\ [ViewsNext]_<<vars, views>> => (Inv /\ ViewsInv)'
  <2> SUFFICES ASSUME Inv, ViewsInv, [ViewsNext]_<<vars, views>>
               PROVE  Inv' /\ ViewsInv'
    OBVIOUS
  <2>1. Inv'
    BY StepsAreOfTheQuery, NextKeepsInv
  <2>2. given \in Seq(Documents)
    BY DEF Inv, TypeOK
  <2>3. ViewsInv'
    BY <2>2, nextKeepsInv, ReturnsTrueKeepsInv, StepsInNextKeepInv, nextElsewhereKeepsInv,
       appendKeepsInv, iterInitKeepsInv, ReadingKeepsInv, destroyedKeepsInv, AskedKeepsInv
       DEF ViewsNext, Moves
  <2> QED BY <2>1, <2>3
<1> QED BY <1>1, <1>2, PTL DEF ViewsSpec

(* Whatever other documents a program reads, and wherever the batches end, *)
(* the variable it has called next() with shows the document next() has    *)
(* returned, until it calls next() again or destroys the cursor.           *)
THEOREM VariablesAlwaysShowTheirDocument == ViewsSpec => []VariablesShowTheirDocument
<1>1. ViewsInv => VariablesShowTheirDocument
  <2> SUFFICES ASSUME ViewsInv, NEW v \in Variables, shows[v] = "current", v \notin moved
               PROVE  v = target /\ Seen(Pointed(v)) = <<"given", Len(given)>>
    BY DEF VariablesShowTheirDocument
  <2>1. /\ v = target /\ program = "document"
        /\ Pointed(v) = Data(Reply, <<"given", Len(given)>>)
    BY DEF ViewsInv, VariablesInv, Pointed
  <2>2. InUse(Pointed(v)) /\ Pointed(v).doc = <<"given", Len(given)>>
    BY <2>1 DEF InUse, Data
  <2> QED BY <2>1, <2>2, InUseIsSeen
<1> QED BY BothInvs, <1>1, PTL

(* An Iter and the texts read with it are good until the cursor moves or   *)
(* the document is appended to, whatever happens to the variable they were *)
(* made of; an Oid that was copied in time is good for ever.               *)
THEOREM ViewsAlwaysShowTheirDocument == ViewsSpec => []ViewsShowTheirDocument
<1>1. ViewsInv => ViewsShowTheirDocument
  BY InUseIsSeen DEF ViewsInv, ViewsTypeOK, ViewInv, ViewsShowTheirDocument, Shown, OidOf, Kinds
<1> QED BY BothInvs, <1>1, PTL

(* A program that looks at the documents while it loops has the abstract   *)
(* query still.                                                            *)
THEOREM LoopWithViewsImplementsQuery == ViewsSpec => ImplementsQuery
<1>1. Init => Query!Init
  BY DEF Init, Query!Init, Told
<1>2. Inv /\ [ViewsNext]_<<vars, views>> => [Query!Next]_<<given, error # "none", Told>>
  BY StepsAreOfTheQuery, StepsRefine
<1> QED BY BothInvs, <1>1, <1>2, PTL DEF ViewsSpec, ViewsInit, ImplementsQuery, Query!Spec
=============================================================================
