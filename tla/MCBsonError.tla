---------------------------- MODULE MCBsonError ----------------------------
(***************************************************************************)
(* BsonError with few threads and messages: two threads suffice for every  *)
(* interleaving of a call of one with the write and the read of another.   *)
(***************************************************************************)
EXTENDS BsonError, TLC

Symmetry == Permutations(Messages) \cup Permutations(Threads)
=============================================================================
