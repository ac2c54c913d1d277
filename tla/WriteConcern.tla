---------------------------- MODULE WriteConcern ----------------------------
(***************************************************************************)
(* What a write waits for.  A program sets the level of a WriteConcern by  *)
(* the name WriteConcernLevels of mongo.zig gives it; setW hands the       *)
(* number of that name to the C library, insert sends it with the write,   *)
(* and a replica set answers when so many members have the write.          *)
(*                                                                         *)
(* The replica set is what the program relies on: a primary, members that  *)
(* copy from it, and an election when it is down.  One write is followed.  *)
(***************************************************************************)
EXTENDS Integers, FiniteSets

CONSTANTS Sets,   \* replica sets, as the members they have
          Levels  \* the names the program uses, or NotSet

NotSet == "not set"

LevelNames == {"W_UNACKNOWLEDGED", "W_ERRORS_IGNORED", "W_DEFAULT",
               "W_MAJORITY", "W_TAG"}

ASSUME MemberAssumption ==
    /\ \A S \in Sets : IsFiniteSet(S) /\ S # {}
    /\ Levels \subseteq LevelNames \cup {NotSet}
-----------------------------------------------------------------------------
(* Mutants of LevelValue: two levels change places; the last is one off.   *)
LevelValue_Swapped(level) ==
    CASE level = "W_UNACKNOWLEDGED" -> 0
      [] level = "W_ERRORS_IGNORED" -> 3
      [] level = "W_DEFAULT"        -> 2
      [] level = "W_MAJORITY"       -> 1
      [] level = "W_TAG"            -> 4

LevelValue_Late(level) ==
    CASE level = "W_UNACKNOWLEDGED" -> 1
      [] level = "W_ERRORS_IGNORED" -> 2
      [] level = "W_DEFAULT"        -> 3
      [] level = "W_MAJORITY"       -> 4
      [] level = "W_TAG"            -> 5

(* WriteConcernLevels: the numbers of the enum. *)
LevelValue(level) ==
    CASE level = "W_UNACKNOWLEDGED" -> 0
      [] level = "W_ERRORS_IGNORED" -> 1
      [] level = "W_DEFAULT"        -> 2
      [] level = "W_MAJORITY"       -> 3
      [] level = "W_TAG"            -> 4

(* The numbers the C library gives a name (mongoc-write-concern.h); every  *)
(* other one is a number of members.                                       *)
UnsetValue    == -2
MajorityValue == -3

VARIABLES members,  \* the replica set the program writes to
          level,    \* the level the program has asked for
          w,        \* the number the WriteConcern holds
          up,       \* members that run
          primary,  \* the member that takes writes, if it is up
          has,      \* members that have the write
          lost,     \* the write was rolled back
          answer    \* what insert has told the program

vars == <<members, level, w, up, primary, has, lost, answer>>

Majority == Cardinality(members) \div 2 + 1

(* As many members may be down as leave a majority. *)
MaxDown == Cardinality(members) - Majority

(* How many members must have a write: a server that is sent no number     *)
(* waits for a majority.                                                   *)
Needed == IF w \in {UnsetValue, MajorityValue} THEN Majority
          ELSE IF w < 0 THEN 0 ELSE w

Init ==
    /\ members \in Sets
    /\ level = NotSet
    /\ w = UnsetValue
    /\ up = members
    /\ primary \in members
    /\ has = {}
    /\ lost = FALSE
    /\ answer = "none"

(* WriteConcern.setW *)
SetW(l) ==
    /\ answer = "none"
    /\ level = NotSet
    /\ level' = l
    /\ w' = LevelValue(l)
    /\ UNCHANGED <<members, up, primary, has, lost, answer>>

(* Collection.insert sends the write and its concern to the primary. *)
Insert ==
    /\ answer = "none"
    /\ primary \in up
    /\ level \in Levels
    /\ has' = {primary}
    /\ answer' = "waiting"
    /\ UNCHANGED <<members, level, w, up, primary, lost>>

(* insert returns true: enough members have the write. *)
Acknowledge ==
    /\ answer = "waiting"
    /\ Cardinality(has) >= Needed
    /\ answer' = "acknowledged"
    /\ UNCHANGED <<members, level, w, up, primary, has, lost>>

(* insert returns false: there are not so many members. *)
Refuse ==
    /\ answer = "waiting"
    /\ Needed > Cardinality(members)
    /\ answer' = "refused"
    /\ UNCHANGED <<members, level, w, up, primary, has, lost>>
-----------------------------------------------------------------------------
(* The replica set. *)

Replicate(m) ==
    /\ {m, primary} \subseteq up
    /\ primary \in has
    /\ m \notin has
    /\ has' = has \cup {m}
    /\ UNCHANGED <<members, level, w, up, primary, lost, answer>>

(* insert returns false when the connection to the primary breaks.         *)
Crash(m) ==
    /\ m \in up
    /\ Cardinality(members \ up) < MaxDown
    /\ up' = up \ {m}
    /\ answer' = IF m = primary /\ answer = "waiting" THEN "unknown" ELSE answer
    /\ UNCHANGED <<members, level, w, primary, has, lost>>

Restart(m) ==
    /\ m \notin up
    /\ up' = up \cup {m}
    /\ UNCHANGED <<members, level, w, primary, has, lost, answer>>

(* A majority elects a member that lacks nothing any of them has.  What it *)
(* lacks is rolled back everywhere.                                        *)
Elect(m) ==
    /\ primary \notin up
    /\ m \in up
    /\ \E voters \in SUBSET up :
          /\ Cardinality(voters) >= Majority
          /\ m \in voters
          /\ voters \cap has # {} => m \in has
    /\ primary' = m
    /\ IF has # {} /\ m \notin has
         THEN has' = {} /\ lost' = TRUE
         ELSE UNCHANGED <<has, lost>>
    /\ UNCHANGED <<members, level, w, up, answer>>

Next ==
    \/ \E l \in Levels \ {NotSet} : SetW(l)
    \/ Insert \/ Acknowledge \/ Refuse
    \/ \E m \in members : Replicate(m) \/ Crash(m) \/ Restart(m) \/ Elect(m)

(* A member that is up, or comes up again and again, copies what the       *)
(* primary has; a majority elects a primary; and the primary answers.      *)
Fairness ==
    /\ \A m \in UNION Sets : SF_vars(m \in members /\ Replicate(m))
    /\ SF_vars(\E m \in members : Elect(m))
    /\ WF_vars(Acknowledge \/ Refuse)

Spec == Init /\ [][Next]_vars /\ Fairness
-----------------------------------------------------------------------------
TypeOK ==
    /\ level \in Levels \cup {NotSet}
    /\ w \in {UnsetValue} \cup 0 .. 4
    /\ level = NotSet <=> w = UnsetValue
    /\ members \in Sets
    /\ up \subseteq members /\ has \subseteq members
    /\ primary \in members
    /\ lost \in BOOLEAN
    /\ answer \in {"none", "waiting", "acknowledged", "refused", "unknown"}

(* A write that was acknowledged at the level W_MAJORITY, or at the level  *)
(* of a WriteConcern nobody has set, is not rolled back when the primary   *)
(* and other members go down and another primary is elected.               *)
MajorityWritesSurvive ==
    answer = "acknowledged" /\ level \in {"W_MAJORITY", NotSet} => ~lost

(* At the levels that are not above W_DEFAULT, and when nobody has set     *)
(* one, insert answers on every replica set, even when as many members are *)
(* down as a majority can do without.                                      *)
WritesAreAnswered ==
    answer = "waiting" /\ level \notin {"W_MAJORITY", "W_TAG"} ~> answer # "waiting"
=============================================================================
