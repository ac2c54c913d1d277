SPECIFICATION Spec
CONSTANTS
  Threads = {t1, t2}
  Messages = {m1, m2}
  ProgramOps = {insert}
  HelperOps = {ping}
  StackOps = {newFromJson}
  Undefined = Undefined
  Torn = Torn
SYMMETRY Symmetry
INVARIANTS
  TypeOK
  StackErrorsAreOwn
  HelperErrorsAreOwn
  ProgramReadsTheLastError
