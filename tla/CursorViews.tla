---------------------------- MODULE CursorViews ----------------------------
(***************************************************************************)
(* What a program looks at while it loops over a cursor.                   *)
(*                                                                         *)
(* next() makes a Bson point to the document inside the cursor; an Iter    *)
(* over a Bson and a text read with it point to the data of the document,  *)
(* which is a part of the reply of the server, and an Oid is copied out of *)
(* it.  None of them knows when what it points to is gone: the document in *)
(* the cursor is replaced by the next one, a reply by the next batch, the  *)
(* data of a document of the program by an append that moves it.  The      *)
(* program may have several variables, and let next() of another cursor    *)
(* write to one of them in the middle of the loop.                         *)
(***************************************************************************)
EXTENDS QueryCursor

CONSTANTS Variables,  \* of type Bson, which Bson.new() has made
          MaxAppends  \* to a document of the program that move its data

ASSUME ViewsAssumption ==
    /\ MaxAppends \in Nat
    /\ Variables \cap {"reply", "other", "given", "undefined"} = {}

VARIABLES shows,    \* what each Bson points to
          target,   \* the Bson next() was called with
          current,  \* current_doc: the data, and the document they are of
          replies,  \* the query and the requests for a batch that were sent
          appends,  \* to the document of each Bson
          moved,    \* the Bsons whose cursor has been called since they were read
          view      \* an Iter, a text read with it, or an Oid copied from it

views == <<shows, target, current, replies, appends, moved, view>>

Kinds == {"none", "iter", "text", "oid"}

Undefined == <<"undefined", 0>>

(* A place with data, and the document a program finds there. *)
Data(buffer, doc) == [buffer |-> buffer, doc |-> doc]

Nothing == Data(Undefined, Undefined)

Reply == <<"reply", replies>>

(* What the variable v points to.  Data in a reply are there until the     *)
(* next request for a batch is sent, data of a document of the program     *)
(* until it moves them.                                                    *)
Pointed(v) ==
    CASE shows[v] = "own"     -> Data(<<v, appends[v]>>, <<v, 0>>)
      [] shows[v] = "current" -> current
      [] shows[v] = "other"   -> Data(<<"other", 0>>, <<"other", 0>>)
      [] OTHER                -> Nothing

Live(buffer) ==
    \/ buffer = Reply /\ program # "destroyed"
    \/ buffer = <<"other", 0>>
    \/ \E v \in Variables : buffer = <<v, appends[v]>>

Seen(data) == IF Live(data.buffer) THEN data.doc ELSE Undefined

ViewsInit ==
    /\ Init
    /\ shows = [v \in Variables |-> "own"]
    /\ target \in Variables
    /\ current = Nothing
    /\ replies = 0
    /\ appends = [v \in Variables |-> 0]
    /\ moved = {}
    /\ view = [kind |-> "none", at |-> Nothing, of |-> Undefined,
               copy |-> Undefined, stale |-> FALSE]
-----------------------------------------------------------------------------
(* The views of data in a buffer of that name are not to be used any more. *)
(* An Oid is a copy.                                                       *)
Spoil(name) ==
    view' = [view EXCEPT !.stale = @ \/ (view.kind # "oid" /\ view.at.buffer[1] = name)]

InCursor == {v \in Variables : shows[v] = "current"}

(* Cursor.next(&v) *)
next(v) ==
    /\ Call
    /\ target' = v
    /\ shows' = [shows EXCEPT ![v] = "null"]
    /\ moved' = InCursor \ {v}
    /\ Spoil("reply")
    /\ UNCHANGED <<current, replies, appends>>

(* Mutant of ReturnsTrue: the reply goes with its last document. *)
ReturnsTrue_Frees ==
    /\ Pop
    /\ shows' = [shows EXCEPT ![target] = "current"]
    /\ current' = Data(Reply, <<"given", Len(given) + 1>>)
    /\ replies' = IF Tail(batch) = <<>> THEN replies + 1 ELSE replies
    /\ UNCHANGED <<target, appends, moved, view>>

(* A document of the batch becomes current_doc, whatever points to it. *)
ReturnsTrue ==
    /\ Pop
    /\ shows' = [shows EXCEPT ![target] = "current"]
    /\ current' = Data(Reply, <<"given", Len(given) + 1>>)
    /\ UNCHANGED <<target, replies, appends, moved, view>>

Asks ==
    \/ RetryPrime
    \/ PrimeFails
    \/ \E n \in 0 .. MaxBatch, more \in BOOLEAN : Prime(n, more) \/ GetMore(n, more)
    \/ \E n \in 0 .. MaxBatch : GetMoreFails(n)

(* The reply of the last request is destroyed before there is a new one. *)
AsksServer ==
    /\ Asks
    /\ replies' = replies + 1
    /\ UNCHANGED <<shows, target, current, appends, moved, view>>

Goes ==
    /\ Refuse \/ BatchIsUsedUp
    /\ UNCHANGED views

(* next() of another cursor, which the program does not move again. *)
nextElsewhere(v) ==
    /\ OutOfNext
    /\ shows' = [shows EXCEPT ![v] = "other"]
    /\ moved' = moved \ {v}
    /\ UNCHANGED <<vars, target, current, replies, appends, view>>

(* An append to a document of the program moves its data. *)
append(v) ==
    /\ OutOfNext
    /\ shows[v] = "own"
    /\ appends[v] < MaxAppends
    /\ appends' = [appends EXCEPT ![v] = @ + 1]
    /\ Spoil(v)
    /\ UNCHANGED <<vars, shows, target, current, replies, moved>>

(* Iter.init(&v).  An Iter over a document that is gone is one over        *)
(* nothing from the beginning.                                             *)
iterInit(v) ==
    /\ OutOfNext
    /\ shows[v] # "null"
    /\ view' = [kind |-> "iter", at |-> Pointed(v), of |-> Pointed(v).doc,
                copy |-> Undefined, stale |-> v \in moved]
    /\ UNCHANGED <<vars, shows, target, current, replies, appends, moved>>

iterUtf8 ==
    /\ OutOfNext
    /\ view.kind = "iter"
    /\ view' = [view EXCEPT !.kind = "text"]
    /\ UNCHANGED <<vars, shows, target, current, replies, appends, moved>>

iterOid ==
    /\ OutOfNext
    /\ view.kind = "iter"
    /\ view' = [view EXCEPT !.kind = "oid", !.copy = Seen(view.at)]
    /\ UNCHANGED <<vars, shows, target, current, replies, appends, moved>>

Asked ==
    /\ errorMessage
    /\ UNCHANGED views

destroyed ==
    /\ destroy
    /\ moved' = InCursor
    /\ Spoil("reply")
    /\ UNCHANGED <<shows, target, current, replies, appends>>

Moves == ReturnsTrue \/ AsksServer \/ Goes

ViewsNext ==
    \/ \E v \in Variables : next(v) \/ nextElsewhere(v) \/ append(v) \/ iterInit(v)
    \/ Moves
    \/ iterUtf8
    \/ iterOid
    \/ Asked
    \/ destroyed

LoopNext == program # "end" /\ \E v \in Variables : next(v)

ViewsSpec ==
    /\ ViewsInit
    /\ [][ViewsNext]_<<vars, views>>
    /\ WF_<<vars, views>>(LoopNext)
    /\ WF_<<vars, views>>(Moves)
-----------------------------------------------------------------------------
(* Mutant of OidOf: the Oid is the pointer bson_iter_oid() returns. *)
OidOf_Pointer(w) == Seen(w.at)

OidOf(w) == w.copy

Shown(w) == IF w.kind = "oid" THEN OidOf(w) ELSE Seen(w.at)

Buffers == {<<"undefined", 0>>, <<"other", 0>>} \cup ({"reply"} \X Nat)
             \cup (Variables \X (0 .. MaxAppends))

Contents == {<<"undefined", 0>>, <<"other", 0>>} \cup ({"given"} \X Nat)
              \cup (Variables \X {0})

Places == [buffer : Buffers, doc : Contents]

ViewsTypeOK ==
    /\ shows \in [Variables -> {"own", "current", "other", "null"}]
    /\ target \in Variables
    /\ current \in Places
    /\ replies \in Nat
    /\ appends \in [Variables -> 0 .. MaxAppends]
    /\ moved \subseteq Variables
    /\ view \in [kind : Kinds, at : Places, of : Contents, copy : Contents,
                 stale : BOOLEAN]

(* A Bson that a cursor has read into shows the document next() returned   *)
(* last, in a reply that is still there, until the cursor is called again  *)
(* or destroyed: in whatever order other documents are read into other     *)
(* variables, and wherever the batches end.  (A Bson read before shows     *)
(* that document, too.)                                                    *)
VariablesShowTheirDocument ==
    \A v \in Variables : shows[v] = "current" /\ v \notin moved =>
        v = target /\ Seen(Pointed(v)) = <<"given", Len(given)>>

(* An Iter, and a text read with it, show the document the Iter was made   *)
(* of until its cursor is called or destroyed, or an append is made to it, *)
(* even when the variable it was made of points elsewhere in the meantime; *)
(* and an Oid that was copied in time shows it ever after.                 *)
ViewsShowTheirDocument ==
    view.kind # "none" /\ ~view.stale => Shown(view) = view.of
=============================================================================
