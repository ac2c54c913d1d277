----------------------------- MODULE MCInserts -----------------------------
(***************************************************************************)
(* Inserts with a process of two threads, one of which inserts two         *)
(* documents, and a child with one thread.                                 *)
(***************************************************************************)
EXTENDS Inserts

MCWorkers == {<<"parent", "a">>, <<"parent", "b">>, <<"child", "c">>}

MCSlice == [w \in MCWorkers |-> IF w[2] = "a" THEN 2 ELSE 1]

MCTries == [w \in MCWorkers |-> CASE w[2] = "a" -> 2 [] w[2] = "b" -> 0 [] w[2] = "c" -> 1]
=============================================================================
