---------------------------- MODULE QueryCursor ----------------------------
(***************************************************************************)
(* The cursor of a query, and the loop of a program over it.               *)
(*                                                                         *)
(* findWithOpts() and command() of collection.zig return a cursor that has *)
(* done nothing yet.  next() of cursor.zig makes it send the query and, as *)
(* often as a batch is used up, ask the server for another one; it returns *)
(* true and a document, or false when there are no more, and false when    *)
(* something has failed.  errorMessage() tells the two apart: it returns   *)
(* the message, or the error CursorError when there is none.               *)
(*                                                                         *)
(* A query is retried once when its reply is lost; the request for another *)
(* batch is not, because the server may have sent it already.              *)
(***************************************************************************)
EXTENDS Naturals, Sequences

CONSTANTS Result,     \* the documents of the query, in order
          MaxBatch,   \* the server sends no more at a time
          MaxRetries  \* of a query: 1, or 0 for command()

ASSUME ResultAssumption ==
    /\ Result \in Seq({Result[i] : i \in DOMAIN Result})
    /\ MaxBatch \in Nat \ {0}
    /\ MaxRetries \in Nat

VARIABLES state,    \* mongoc_cursor_state_t
          batch,    \* the documents in the cursor
          rest,     \* the documents the server has not sent
          open,     \* cursor_id: the server has, or had, more
          error,    \* of the cursor: none, or why it has ended
          retries,  \* left for the query
          program,  \* where the loop of the program is
          given,    \* the documents next() has returned
          said      \* what errorMessage() has returned since

vars == <<state, batch, rest, open, error, retries, program, given, said>>

States   == {"UNPRIMED", "IN_BATCH", "END_OF_BATCH", "DONE"}
Errors   == {"none", "failed", "completed"}
Programs == {"start", "next", "document", "end", "destroyed"}
Answers  == {"nothing", "message", "OutOfMemory", "CursorError"}

(* A cursor is returned also when the query has an error in it. *)
Init ==
    /\ state = "UNPRIMED"
    /\ batch = <<>>
    /\ rest = Result
    /\ open = FALSE
    /\ error \in {"none", "failed"}
    /\ retries \in 0 .. MaxRetries
    /\ program = "start"
    /\ given = <<>>
    /\ said = "nothing"

InNext(s) == program = "next" /\ error = "none" /\ state = s
OutOfNext == program \in {"start", "document", "end"}
-----------------------------------------------------------------------------
(* The program calls next(). *)
Call ==
    /\ OutOfNext
    /\ program' = "next"
    /\ said' = "nothing"
    /\ UNCHANGED <<state, batch, rest, open, error, retries, given>>

(* next() returns false at once when the cursor has failed.  It fails when *)
(* the cursor has come to its end before.                                  *)
Refuse ==
    /\ program = "next"
    /\ error # "none" \/ state = "DONE"
    /\ error' = IF error = "none" THEN "completed" ELSE error
    /\ program' = "end"
    /\ UNCHANGED <<state, batch, rest, open, retries, given, said>>

(* The server sends n documents, and keeps its cursor when it has, or does *)
(* not know whether it has, more.                                          *)
Sends(n, more) ==
    /\ n <= MaxBatch
    /\ n <= Len(rest)
    /\ rest # <<>> => n > 0
    /\ batch' = SubSeq(rest, 1, n)
    /\ rest' = SubSeq(rest, n + 1, Len(rest))
    /\ rest' # <<>> => more
    /\ more => n > 0
    /\ open' = more
    /\ state' = "IN_BATCH"
    /\ UNCHANGED <<error, retries, program, given, said>>

(* The query is sent by the first next(). *)
Prime(n, more) == InNext("UNPRIMED") /\ Sends(n, more)

GetMore(n, more) == InNext("END_OF_BATCH") /\ Sends(n, more)

(* next() returns false, and errorMessage() will say why. *)
Fails ==
    /\ error' = "failed"
    /\ state' = "DONE"
    /\ program' = "end"

(* Mutant of RetryPrime: the retries are counted upwards. *)
RetryPrime_Twice ==
    /\ InNext("UNPRIMED")
    /\ retries' = retries + 1
    /\ UNCHANGED <<state, batch, rest, open, error, program, given, said>>

(* The query, or its reply, is lost.  What the server has prepared for it  *)
(* is of no use to the query that is sent again.                           *)
RetryPrime ==
    /\ InNext("UNPRIMED")
    /\ retries > 0
    /\ retries' = retries - 1
    /\ UNCHANGED <<state, batch, rest, open, error, program, given, said>>

PrimeFails ==
    /\ InNext("UNPRIMED")
    /\ Fails
    /\ UNCHANGED <<batch, rest, open, retries, given, said>>

(* Mutant of GetMoreFails: the request is sent again. *)
GetMoreFails_Again(n) ==
    /\ InNext("END_OF_BATCH")
    /\ n <= MaxBatch
    /\ n < Len(rest)
    /\ rest' = SubSeq(rest, n + 1, Len(rest))
    /\ UNCHANGED <<state, batch, open, error, retries, program, given, said>>

(* The request for a batch is lost, the server has forgotten the cursor,   *)
(* or it has sent n documents that are lost.                               *)
GetMoreFails(n) ==
    /\ InNext("END_OF_BATCH")
    /\ n <= MaxBatch
    /\ n <= Len(rest)
    /\ rest' = SubSeq(rest, n + 1, Len(rest))
    /\ Fails
    /\ UNCHANGED <<batch, open, retries, given, said>>

(* next() returns true, and the next document of the batch. *)
Pop ==
    /\ InNext("IN_BATCH")
    /\ batch # <<>>
    /\ given' = Append(given, Head(batch))
    /\ batch' = Tail(batch)
    /\ program' = "document"
    /\ UNCHANGED <<state, rest, open, error, retries, said>>

(* Mutant of BatchIsUsedUp: next() returns true when there are no more. *)
BatchIsUsedUp_True ==
    /\ InNext("IN_BATCH")
    /\ batch = <<>>
    /\ state' = IF open THEN "END_OF_BATCH" ELSE state
    /\ program' = IF open THEN program ELSE "document"
    /\ UNCHANGED <<batch, rest, open, error, retries, given, said>>

(* The batch is used up: next() asks for another, or returns false. *)
BatchIsUsedUp ==
    /\ InNext("IN_BATCH")
    /\ batch = <<>>
    /\ state' = IF open THEN "END_OF_BATCH" ELSE "DONE"
    /\ program' = IF open THEN program ELSE "end"
    /\ UNCHANGED <<batch, rest, open, error, retries, given, said>>

(* Mutant of errorMessage: the result of the C library is inverted. *)
errorMessage_Inverted ==
    /\ OutOfNext
    /\ said' \in IF error = "none" THEN {"message", "OutOfMemory"} ELSE {"CursorError"}
    /\ UNCHANGED <<state, batch, rest, open, error, retries, program, given>>

(* The message is copied to memory the program has to free. *)
errorMessage ==
    /\ OutOfNext
    /\ said' \in IF error = "none" THEN {"CursorError"} ELSE {"message", "OutOfMemory"}
    /\ UNCHANGED <<state, batch, rest, open, error, retries, program, given>>

(* The program has enough, or leaves the loop by `try`. *)
destroy ==
    /\ OutOfNext
    /\ program' = "destroyed"
    /\ open' = FALSE
    /\ UNCHANGED <<state, batch, rest, error, retries, given, said>>

Proceed ==
    \/ Refuse
    \/ \E n \in 0 .. MaxBatch, more \in BOOLEAN : Prime(n, more) \/ GetMore(n, more)
    \/ RetryPrime
    \/ PrimeFails
    \/ \E n \in 0 .. MaxBatch : GetMoreFails(n)
    \/ Pop
    \/ BatchIsUsedUp

Next == Call \/ Proceed \/ errorMessage \/ destroy

(* while (cursor.next(&doc)): the program goes on until next() returns     *)
(* false, and next(), which blocks, returns: what the C library asks of    *)
(* the server is answered or given up.                                     *)
Loop == program # "end" /\ Call

Spec == Init /\ [][Next]_vars /\ WF_vars(Loop) /\ WF_vars(Proceed)
-----------------------------------------------------------------------------
Documents == {Result[i] : i \in DOMAIN Result}

TypeOK ==
    /\ state \in States
    /\ batch \in Seq(Documents)
    /\ rest \in Seq(Documents)
    /\ open \in BOOLEAN
    /\ error \in Errors
    /\ retries \in 0 .. MaxRetries
    /\ program \in Programs
    /\ given \in Seq(Documents)
    /\ said \in Answers

(* As long as nothing has failed each document of the result has been      *)
(* given to the program, is in the batch or is still to be sent, once and  *)
(* in its order; and a cursor that has come to its end has none left.      *)
NothingIsSkipped ==
    error = "none" =>
        /\ given \o batch \o rest = Result
        /\ state = "DONE" => given = Result

(* What the loop and errorMessage() tell a program.  CursorError, asked    *)
(* for when next() has returned false, means that all has been given; when *)
(* it is asked for earlier it means nothing.                               *)
Told == IF said \in {"message", "OutOfMemory"} THEN "failed"
        ELSE IF said = "CursorError" /\ program = "end" THEN "complete"
        ELSE "unknown"

Query == INSTANCE Query WITH given <- given, broken <- (error # "none"), answer <- Told

(* The loop over next() and the question to errorMessage() behind it are a *)
(* query: the documents come in their order, none twice and none left out, *)
(* the program is told that it has all of them only when it has, and after *)
(* a failure it is told so and is given nothing more.                      *)
ImplementsQuery == Query!Spec

(* The loop ends: after the last document, at a failure, or because the    *)
(* program has left it.                                                    *)
LoopEnds == <>(program \in {"end", "destroyed"})
=============================================================================
