---------------------------- MODULE MCDocuments ----------------------------
(***************************************************************************)
(* Documents with three variables: a document, a child and a child of that *)
(* or a reply.  Each variable is declared once, so that three bson_t's are *)
(* all the program ever allocates.                                         *)
(***************************************************************************)
EXTENDS Documents, TLC

Symmetry == Permutations(Variables) \cup Permutations(Blocks)
=============================================================================
