------------------------------ MODULE Inserts ------------------------------
(***************************************************************************)
(* Threads that insert documents, and try again when they get no answer.   *)
(*                                                                         *)
(* A document has an id that the program made with Oid.init(), or has none *)
(* and is given one by the C library, in every call of insert(),           *)
(* insertOne() or insertMany() anew.  The server stores the documents of a *)
(* call one after the other, as long as there is none with the same id;    *)
(* it may stop in between, the request or the answer may be lost, and a    *)
(* request that nobody waits for any longer may arrive after all.          *)
(*                                                                         *)
(* insert() and insertOne() are insertMany() of one document here.  The    *)
(* inserts are ordered ones, the default of the server; opts, which        *)
(* insertMany() passes on, may ask for others, which are not modelled.     *)
(***************************************************************************)
EXTENDS ObjectIds, FiniteSets

CONSTANTS Slice,    \* the number of documents each thread inserts
          Tries     \* how often each thread calls, or 0 if it only makes ids

ASSUME InsertsAssumption ==
    /\ Slice \in [Workers -> Nat \ {0}]
    /\ Tries \in [Workers -> Nat]

VARIABLES owners,   \* the threads whose documents have ids of their own
          program,  \* where each thread is, and what it knows
          network,  \* requests on their way to the server
          stored    \* by the server

vars == <<idVars, owners, program, network, stored>>

Thread(pc, ids, tries, refused) ==
    [pc |-> pc, ids |-> ids, tries |-> tries, refused |-> refused]

(* Mutant of Document: the array is filled from its end. *)
Document_FromTheEnd(w, i) == <<w, Slice[w] + 1 - i>>

Document(w, i) == <<w, i>>

(* A call: the i-th document of the slice has the i-th id. *)
Request(w) == [from |-> w, try |-> program[w].tries + 1, ids |-> program[w].ids]

Init ==
    /\ IdsInit
    /\ owners \in SUBSET Workers
    /\ \A w \in Workers : Tries[w] = 0 => w \in owners
    /\ program = [w \in Workers |-> Thread("naming", <<>>, 0, 0)]
    /\ network = {}
    /\ stored = {}

At(w, pc) == program[w].pc = pc
-----------------------------------------------------------------------------
Unnamed(w) == At(w, "naming") /\ Len(program[w].ids) < Slice[w]

(* The steps of Oid.init(), called by the program or by the C library. *)
Name(w) ==
    /\ Unnamed(w)
    /\ TakeRandomness(w)
    /\ UNCHANGED <<owners, program, network, stored>>

Named(w) ==
    /\ Unnamed(w)
    /\ TakeNumber(w)
    /\ program' = [program EXCEPT ![w] =
                     Thread("naming", Append(@.ids, made'[Len(made')].id), @.tries, 0)]
    /\ UNCHANGED <<owners, network, stored>>

(* insertMany(), its opts without ordered: false: the request leaves when  *)
(* all documents have ids.                                                 *)
Send(w) ==
    /\ At(w, "naming")
    /\ Len(program[w].ids) = Slice[w]
    /\ program[w].tries < Tries[w]
    /\ network' = network \cup {Request(w)}
    /\ program' = [program EXCEPT ![w] = Thread("sent", @.ids, @.tries + 1, 0)]
    /\ UNCHANGED <<idVars, owners, stored>>

(* Mutant of IdsOfRepeat: a document is given an id in every call. *)
IdsOfRepeat_Anew(w) == <<>>

(* The ids the documents of the program have when it calls again. *)
IdsOfRepeat(w) == IF w \in owners THEN program[w].ids ELSE <<>>

(* No answer in time: the call returns false, and the program calls again. *)
Repeat(w) ==
    /\ At(w, "sent")
    /\ program[w].tries < Tries[w]
    /\ program' = [program EXCEPT ![w] = Thread("naming", IdsOfRepeat(w), @.tries, 0)]
    /\ UNCHANGED <<idVars, owners, network, stored>>

Taken == {s.id : s \in stored}

(* The first n documents of a request have ids nobody else has. *)
Insertable(r, n) ==
    \A i \in 1 .. n :
        /\ r.ids[i] \notin Taken
        /\ \A j \in 1 .. i - 1 : r.ids[j] # r.ids[i]

(* An ordered insert: the server goes on only while nothing is refused.    *)
StoreFirst(r, n) ==
    /\ Insertable(r, n)
    /\ network' = network \ {r}
    /\ stored' = stored \cup {[document |-> Document(r.from, i), id |-> r.ids[i]] : i \in 1 .. n}
    /\ UNCHANGED <<idVars, owners>>

Waits(r) == At(r.from, "sent") /\ program[r.from].tries = r.try

(* The answer reaches the call, or nobody. *)
Answer(r, pc, refused) ==
    program' = IF Waits(r)
                 THEN [program EXCEPT ![r.from] = Thread(pc, @.ids, @.tries, refused)]
                 ELSE program

StoreAll(r) ==
    /\ StoreFirst(r, Len(r.ids))
    /\ Answer(r, "inserted", 0)

(* The document n + 1 has an id that is taken: those behind it are not     *)
(* looked at.                                                              *)
Refuse(r, n) ==
    /\ StoreFirst(r, n)
    /\ ~Insertable(r, n + 1)
    /\ Answer(r, "duplicate", n + 1)

(* The request is lost, the server stops after n documents, or its answer  *)
(* is lost.                                                                *)
Lose(r, n) ==
    /\ StoreFirst(r, n)
    /\ UNCHANGED program

Serve(r) ==
    \/ StoreAll(r)
    \/ \E n \in 0 .. Len(r.ids) - 1 : Refuse(r, n)
    \/ \E n \in 0 .. Len(r.ids) : Lose(r, n)

Elsewhere ==
    /\ Tick \/ \E p, q \in Processes : Fork(p, q)
    /\ UNCHANGED <<owners, program, network, stored>>

Next ==
    \/ \E w \in Workers : Name(w) \/ Named(w) \/ Send(w) \/ Repeat(w)
    \/ \E r \in network : Serve(r)
    \/ Elsewhere

Spec == Init /\ [][Next]_vars
-----------------------------------------------------------------------------
StoredOf(w) == {s \in stored : s.document[1] = w}

(* The context looks at the pid, or nobody has forked, and no process has  *)
(* given out all its numbers.                                              *)
IdsAreGood ==
    /\ flags = "BSON_CONTEXT_DISABLE_PID_CACHE" \/ running = {First}
    /\ \A p \in running : context[p].seq32 <= NumberLimit

(* When ids are good the server refuses only documents with an id of the   *)
(* program, and only those that an earlier call of the same thread has     *)
(* stored already: a program that gave its document an id may take the     *)
(* refusal for a success.                                                  *)
RefusedIsStored ==
    \A w \in Workers : At(w, "duplicate") /\ IdsAreGood =>
        /\ w \in owners
        /\ program[w].refused = 1
        /\ [document |-> Document(w, 1), id |-> program[w].ids[1]] \in stored

(* However often a program repeats a call and whenever its requests        *)
(* arrive, a document with an id of its own is stored once, and one        *)
(* without at most once per call.                                          *)
CopiesAreBounded ==
    \A w \in Workers : \A i \in 1 .. Slice[w] :
        Cardinality({s \in stored : s.document = Document(w, i)})
            <= IF w \in owners THEN 1 ELSE program[w].tries

(* An ordered insertMany() that was cut off is not completed by repeating  *)
(* it: the server refuses the first document, and looks no further.        *)
RepeatsCompleteNothing ==
    [][\A w \in owners : StoredOf(w) # {} => StoredOf(w)' = StoredOf(w)]_vars

(* What is stored of the slice of an ordered insertMany(), whatever was    *)
(* lost and refused, are its first documents.                              *)
FirstOnesAreStored ==
    \A s \in stored : \A i \in 1 .. s.document[2] :
        \E t \in stored : t.document = Document(s.document[1], i)
=============================================================================
