--------------------------- MODULE MCWriteConcern ---------------------------
(***************************************************************************)
(* Replica sets for TLC: the sizes between which a number of two, three or *)
(* four members changes its meaning.                                       *)
(***************************************************************************)
EXTENDS WriteConcern, TLC

CONSTANTS m1, m2, m3, m4, m5, m6, m7

SmallSets == {{m1}, {m1, m2, m3}, {m1, m2, m3, m4, m5}}
SevenMembers == {{m1, m2, m3, m4, m5, m6, m7}}

Symmetry == Permutations({m1, m2, m3, m4, m5, m6, m7})

AllLevels == LevelNames \cup {NotSet}
=============================================================================
