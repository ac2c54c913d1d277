------------------------- MODULE MCDateTimeDisplay -------------------------
(***************************************************************************)
(* DateTimeDisplay with the inputs of MCDateTime.                          *)
(***************************************************************************)
EXTENDS MCDateTime, DateTimeDisplay
=============================================================================
