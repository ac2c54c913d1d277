------------------------- MODULE WriteConcernProofs -------------------------
(***************************************************************************)
(* Theorems about WriteConcern, for replica sets of every size, of which   *)
(* the second is true as long as three members are a majority.             *)
(***************************************************************************)
EXTENDS WriteConcern, FiniteSetTheorems, TLAPS

(* The number a WriteConcern holds is the one of its level.                *)
NumberInv == level # NotSet => level \in LevelNames /\ w = LevelValue(level)

(* Nobody has a write that was not sent, or that was rolled back.          *)
SentInv == /\ answer = "none" => has = {} /\ ~lost
           /\ lost => has = {}

(* A write that is to survive is on a majority of the members.             *)
KeptInv == answer = "acknowledged" /\ level \in {"W_MAJORITY", NotSet}
             => Cardinality(has) >= Majority

Inv == TypeOK /\ NumberInv /\ SentInv /\ KeptInv

Small == \A S \in Sets : Cardinality(S) <= 5
-----------------------------------------------------------------------------
(* Every level but the one nobody has set has a number from 0 to 4.        *)
LEMMA LevelsHaveNumbers ==
    ASSUME NEW l \in Levels \ {NotSet}
    PROVE  l \in LevelNames /\ LevelValue(l) \in 0 .. 4
<1>1. l \in LevelNames
  BY MemberAssumption
<1> QED BY <1>1 DEF LevelNames, LevelValue

(* The members of a replica set are finitely many, and two majorities of   *)
(* them have a member in common.                                           *)
LEMMA MajoritiesMeet ==
    ASSUME NEW S, IsFiniteSet(S), NEW A \in SUBSET S, NEW B \in SUBSET S,
           Cardinality(A) >= Cardinality(S) \div 2 + 1,
           Cardinality(B) >= Cardinality(S) \div 2 + 1
    PROVE  A \cap B # {}
<1> SUFFICES ASSUME A \cap B = {} PROVE FALSE
  OBVIOUS
<1>1. IsFiniteSet(A) /\ IsFiniteSet(B)
  BY FS_Subset
<1>2. /\ IsFiniteSet(A \cup B)
      /\ Cardinality(A \cup B) = Cardinality(A) + Cardinality(B) - Cardinality(A \cap B)
  BY <1>1, FS_Union
<1>3. Cardinality(A \cup B) <= Cardinality(S)
  BY FS_Subset, A \cup B \subseteq S
<1>4. Cardinality(A \cap B) = 0
  BY FS_EmptySet
<1>5. /\ Cardinality(A) \in Nat /\ Cardinality(B) \in Nat
      /\ Cardinality(S) \in Nat
  BY <1>1, FS_CardinalityType
<1> QED BY <1>2, <1>3, <1>4, <1>5

(* A member that has got the write is one more at most, never one less.    *)
LEMMA OneMoreHasIt ==
    ASSUME TypeOK, NEW m \in members
    PROVE  /\ Cardinality(has) \in Nat /\ Majority \in Nat \ {0}
           /\ Cardinality(has \cup {m}) >= Cardinality(has)
<1>1. IsFiniteSet(members) /\ has \subseteq members
  BY MemberAssumption DEF TypeOK
<1>2. IsFiniteSet(has) /\ IsFiniteSet(has \cup {m})
  BY <1>1, FS_Subset, has \cup {m} \subseteq members
<1>3. Cardinality(has) <= Cardinality(has \cup {m})
  BY <1>2, FS_Subset
<1>4. /\ Cardinality(has) \in Nat
      /\ Cardinality(has \cup {m}) \in Nat
      /\ Cardinality(members) \in Nat
  BY <1>1, <1>2, FS_CardinalityType
<1> QED BY <1>3, <1>4 DEF Majority
-----------------------------------------------------------------------------
(* A program starts with a WriteConcern nobody has set.                    *)
LEMMA TypesInit == Init => TypeOK
<1> SUFFICES ASSUME Init PROVE TypeOK
  OBVIOUS
<1>1. lost \in BOOLEAN
  BY Zenon DEF Init
<1> QED BY <1>1 DEF Init, TypeOK, UnsetValue

(* Every step of the program and of the replica set keeps the types.       *)
LEMMA NextKeepsTypes == TypeOK /\ [Next]_vars => TypeOK'
<1> SUFFICES ASSUME TypeOK, [Next]_vars PROVE TypeOK'
  OBVIOUS
<1>1. ASSUME NEW l \in Levels \ {NotSet}, SetW(l) PROVE TypeOK'
  <2>1. LevelValue(l) \in 0 .. 4
    BY LevelsHaveNumbers
  <2>2. lost' \in BOOLEAN
    BY <1>1, Zenon DEF SetW, TypeOK
  <2> QED BY <1>1, <2>1, <2>2 DEF SetW, TypeOK, UnsetValue
<1>2. ASSUME Insert \/ Acknowledge \/ Refuse PROVE TypeOK'
  <2>1. lost' \in BOOLEAN
    BY <1>2, Zenon DEF Insert, Acknowledge, Refuse, TypeOK
  <2> QED BY <1>2, <2>1 DEF Insert, Acknowledge, Refuse, TypeOK
<1>3. ASSUME NEW m \in members, Replicate(m) \/ Crash(m) \/ Restart(m) PROVE TypeOK'
  <2>1. lost' \in BOOLEAN
    BY <1>3, Zenon DEF Replicate, Crash, Restart, TypeOK
  <2> QED BY <1>3, <2>1 DEF Replicate, Crash, Restart, TypeOK
<1>4. ASSUME NEW m \in members, Elect(m) PROVE TypeOK'
  <2>1. lost' \in BOOLEAN
    BY <1>4, Zenon DEF Elect, TypeOK
  <2>2. has' \subseteq members
    BY <1>4 DEF Elect, TypeOK
  <2> QED BY <1>4, <2>1, <2>2 DEF Elect, TypeOK
<1>5. CASE UNCHANGED vars
  <2>1. lost' \in BOOLEAN
    BY <1>5, Zenon DEF vars, TypeOK
  <2> QED BY <1>5, <2>1 DEF vars, TypeOK
<1> QED BY <1>1, <1>2, <1>3, <1>4, <1>5 DEF Next

(* On every replica set and at every level the WriteConcern holds a number *)
(* of WriteConcernLevels, or the one of a WriteConcern nobody has set.     *)
THEOREM WritesAreTyped == Spec => []TypeOK
BY TypesInit, NextKeepsTypes, PTL DEF Spec
-----------------------------------------------------------------------------
(* Before the write is sent nobody has it.                                 *)
LEMMA InvInit == Init => Inv
<1> SUFFICES ASSUME Init PROVE Inv
  OBVIOUS
<1>1. SentInv
  BY Zenon DEF Init, SentInv
<1>2. NumberInv /\ KeptInv
  BY DEF Init, NumberInv, KeptInv
<1> QED BY TypesInit, <1>1, <1>2 DEF Inv

(* An acknowledged write was on as many members as its number says, which  *)
(* are a majority when the sets are small.                                 *)
LEMMA AcknowledgeKeepsInv ==
    ASSUME Small, Inv, TypeOK', Acknowledge PROVE Inv'
<1>1. /\ answer = "waiting" /\ Cardinality(has) >= Needed
      /\ UNCHANGED <<members, level, w, up, primary, has, lost>>
  BY DEF Acknowledge
<1>2. NumberInv'
  BY <1>1 DEF Inv, NumberInv
<1>3. SentInv'
  <2>1. answer' # "none" /\ has' = has
    BY DEF Acknowledge
  <2>2. lost' => has = {}
    BY <1>1, Zenon DEF Inv, SentInv
  <2> QED BY <2>1, <2>2 DEF SentInv
<1>4. members \in Sets /\ Cardinality(members) \in Nat /\ Cardinality(members) <= 5
  BY MemberAssumption, FS_CardinalityType DEF Inv, TypeOK, Small
<1>5. Majority \in Nat /\ Majority <= 3
  BY <1>4 DEF Majority
<1>6. level = "W_MAJORITY" => Needed = 3
  BY DEF Inv, NumberInv, Needed, LevelValue, NotSet, UnsetValue, MajorityValue
<1>7. level = NotSet => Needed = Majority
  BY DEF Inv, TypeOK, Needed
<1>8. IsFiniteSet(has) /\ Cardinality(has) \in Nat
  BY MemberAssumption, FS_Subset, FS_CardinalityType DEF Inv, TypeOK
<1>9. KeptInv'
  <2>1. level \in {"W_MAJORITY", NotSet} => Cardinality(has) >= Majority
    BY <1>1, <1>5, <1>6, <1>7, <1>8
  <2> QED BY <1>1, <2>1 DEF KeptInv, Majority
<1> QED BY <1>2, <1>3, <1>9 DEF Inv

(* Those who elect a primary have a member among them that has a write a   *)
(* majority has, so that the new primary has it, too.                      *)
LEMMA ElectKeepsInv ==
    ASSUME Inv, TypeOK', NEW m \in members, Elect(m) PROVE Inv'
<1>1. UNCHANGED <<members, level, w, answer>>
  BY DEF Elect
<1>2. NumberInv'
  BY <1>1 DEF Inv, NumberInv
<1>3. SentInv'
  <2>1. CASE has # {} /\ m \notin has
    <3>1. has' = {} /\ lost'
      BY <2>1, Zenon DEF Elect
    <3>2. answer # "none"
      BY <2>1 DEF Inv, SentInv
    <3> QED BY <3>1, <3>2, <1>1 DEF SentInv
  <2>2. CASE ~(has # {} /\ m \notin has)
    BY <2>2, <1>1, Zenon DEF Elect, Inv, SentInv
  <2> QED BY <2>1, <2>2
<1>4. KeptInv'
  <2> SUFFICES ASSUME answer = "acknowledged", level \in {"W_MAJORITY", NotSet}
               PROVE  has' = has
    BY <1>1 DEF KeptInv, Inv, Majority
  <2>1. PICK voters \in SUBSET up :
           /\ Cardinality(voters) >= Majority
           /\ m \in voters
           /\ voters \cap has # {} => m \in has
    BY DEF Elect
  <2>2. /\ IsFiniteSet(members)
        /\ voters \subseteq members /\ has \subseteq members
    BY <2>1, MemberAssumption DEF Inv, TypeOK
  <2>3. Cardinality(has) >= Majority
    BY DEF Inv, KeptInv
  <2>4. voters \cap has # {}
    BY <2>1, <2>2, <2>3, MajoritiesMeet DEF Majority
  <2> QED BY <2>1, <2>4 DEF Elect
<1> QED BY <1>2, <1>3, <1>4 DEF Inv

(* The other steps take the write from nobody.                             *)
LEMMA NextKeepsInv == Small /\ Inv /\ [Next]_vars => Inv'
<1> SUFFICES ASSUME Small, Inv, [Next]_vars PROVE Inv'
  OBVIOUS
<1> TypeOK'
  BY NextKeepsTypes DEF Inv
<1>1. ASSUME NEW l \in Levels \ {NotSet}, SetW(l) PROVE Inv'
  <2>1. SentInv'
    BY <1>1, Zenon DEF SetW, Inv, SentInv
  <2>2. NumberInv'
    BY <1>1, LevelsHaveNumbers DEF SetW, NumberInv, LevelValue
  <2>3. KeptInv'
    BY <1>1 DEF SetW, KeptInv
  <2> QED BY <2>1, <2>2, <2>3 DEF Inv
<1>2. ASSUME Insert PROVE Inv'
  <2>1. ~lost
    BY <1>2 DEF Insert, Inv, SentInv
  <2>2. SentInv'
    BY <1>2, <2>1 DEF Insert, SentInv
  <2>3. NumberInv' /\ KeptInv'
    BY <1>2 DEF Insert, Inv, NumberInv, KeptInv
  <2> QED BY <2>2, <2>3 DEF Inv
<1>3. ASSUME Acknowledge PROVE Inv'
  BY <1>3, AcknowledgeKeepsInv
<1>4. ASSUME Refuse PROVE Inv'
  <2>1. SentInv'
    BY <1>4, Zenon DEF Refuse, Inv, SentInv
  <2>2. NumberInv' /\ KeptInv'
    BY <1>4 DEF Refuse, Inv, NumberInv, KeptInv
  <2> QED BY <2>1, <2>2 DEF Inv
<1>5. ASSUME NEW m \in members, Replicate(m) PROVE Inv'
  <2>1. has # {}
    BY <1>5 DEF Replicate
  <2>2. SentInv'
    BY <1>5, <2>1 DEF Replicate, Inv, SentInv
  <2>3. NumberInv'
    BY <1>5 DEF Replicate, Inv, NumberInv
  <2>4. KeptInv'
    <3>1. /\ Cardinality(has) \in Nat /\ Majority \in Nat \ {0}
          /\ Cardinality(has \cup {m}) >= Cardinality(has)
      BY OneMoreHasIt DEF Inv
    <3>2. IsFiniteSet(has \cup {m})
      BY MemberAssumption, FS_Subset, has \cup {m} \subseteq members DEF Inv, TypeOK
    <3>3. Cardinality(has \cup {m}) \in Nat
      BY <3>2, FS_CardinalityType
    <3>4. Cardinality(has) >= Majority => Cardinality(has \cup {m}) >= Majority
      BY <3>1, <3>3
    <3> QED BY <1>5, <3>4 DEF Replicate, Inv, KeptInv, Majority
  <2> QED BY <2>2, <2>3, <2>4 DEF Inv
<1>6. ASSUME NEW m \in members, Crash(m) \/ Restart(m) PROVE Inv'
  <2>1. SentInv'
    <3>1. answer' = "none" => answer = "none"
      BY <1>6 DEF Crash, Restart
    <3>2. has' = has /\ lost' = lost
      BY <1>6, Zenon DEF Crash, Restart
    <3> QED BY <3>1, <3>2, Zenon DEF Inv, SentInv
  <2>2. NumberInv'
    BY <1>6 DEF Crash, Restart, Inv, NumberInv
  <2>3. KeptInv'
    BY <1>6 DEF Crash, Restart, Inv, KeptInv, Majority
  <2> QED BY <2>1, <2>2, <2>3 DEF Inv
<1>7. ASSUME NEW m \in members, Elect(m) PROVE Inv'
  BY <1>7, ElectKeepsInv
<1>8. CASE UNCHANGED vars
  <2>1. SentInv'
    BY <1>8, Zenon DEF vars, Inv, SentInv
  <2>2. NumberInv' /\ KeptInv'
    BY <1>8 DEF vars, Inv, NumberInv, KeptInv, Majority
  <2> QED BY <2>1, <2>2 DEF Inv
<1> QED BY <1>1, <1>2, <1>3, <1>4, <1>5, <1>6, <1>7, <1>8 DEF Next

(* On replica sets of at most five members a write that was acknowledged   *)
(* at the level W_MAJORITY, or at the level nobody has set, survives every *)
(* election, although W_MAJORITY asks for three members and not for a      *)
(* majority.                                                               *)
THEOREM MajorityWritesAlwaysSurvive ==
    ASSUME \A S \in Sets : Cardinality(S) <= 5
    PROVE  Spec => []MajorityWritesSurvive
<1>1. Small
  BY DEF Small
<1>2. Inv /\ [Next]_vars => Inv'
  BY <1>1, NextKeepsInv
<1>3. Inv => MajorityWritesSurvive
  <2> SUFFICES ASSUME Inv, answer = "acknowledged", level \in {"W_MAJORITY", NotSet}
               PROVE  ~lost
    BY DEF MajorityWritesSurvive
  <2>1. Cardinality(has) >= Majority /\ Majority \in Nat \ {0}
    BY OneMoreHasIt DEF Inv, KeptInv, TypeOK
  <2>2. has # {}
    BY <2>1, FS_EmptySet
  <2> QED BY <2>2 DEF Inv, SentInv
<1> QED BY InvInit, <1>2, <1>3, PTL DEF Spec
=============================================================================
