SPECIFICATION Spec
CONSTANTS
  Threads = {t1}
  Messages = {m1, m2, m3}
  ProgramOps = {insert}
  HelperOps = {ping}
  StackOps = {newFromJson}
  Undefined = Undefined
  Torn = Torn
SYMMETRY Symmetry
INVARIANTS
  ProgramErrorsAreOwn
