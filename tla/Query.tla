------------------------------- MODULE Query -------------------------------
(***************************************************************************)
(* What a program may expect of a query: the documents of the result, one  *)
(* after the other, and an answer to the question whether it has seen all  *)
(* of them.  Batches, the network and the states of a cursor do not occur. *)
(***************************************************************************)
EXTENDS Naturals, Sequences

CONSTANT Result  \* the documents of the query, in order

VARIABLES given,   \* the documents the program has been given
          broken,  \* no more will be given
          answer   \* what the program has been told of the documents given

Answers == {"unknown", "complete", "failed"}

Init ==
    /\ given = <<>>
    /\ broken \in BOOLEAN
    /\ answer = "unknown"

(* The next document, and no other one. *)
Give ==
    /\ ~broken
    /\ Len(given) < Len(Result)
    /\ given' = Append(given, Result[Len(given) + 1])
    /\ answer = "unknown"
    /\ UNCHANGED <<broken, answer>>

(* Something goes wrong, or the program asks for more than there is. *)
Break ==
    /\ broken' = TRUE
    /\ answer = "unknown"
    /\ UNCHANGED <<given, answer>>

Answer ==
    /\ answer' = IF broken THEN "failed" ELSE "complete"
    /\ answer' = "complete" => given = Result
    /\ UNCHANGED <<given, broken>>

(* The program wants another document after all. *)
Resume ==
    /\ answer' = "unknown"
    /\ UNCHANGED <<given, broken>>

Next == Give \/ Break \/ Answer \/ Resume

Spec == Init /\ [][Next]_<<given, broken, answer>>
=============================================================================
