SPECIFICATION Spec
CHECK_DEADLOCK FALSE
CONSTANTS
  m1 = m1
  m2 = m2
  m3 = m3
  m4 = m4
  m5 = m5
  m6 = m6
  m7 = m7
  Sets <- SmallSets
  Levels <- AllLevels
INVARIANTS
  TypeOK
  MajorityWritesSurvive
PROPERTIES
  WritesAreAnswered
