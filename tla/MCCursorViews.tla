--------------------------- MODULE MCCursorViews ---------------------------
(* Documents in the result of a query: one of them is in it twice, as two  *)
(* documents that are equal.                                               *)
EXTENDS CursorViews

MCResult == <<"a", "b", "a", "c">>
=============================================================================
