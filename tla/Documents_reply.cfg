SPECIFICATION Spec
CHECK_DEADLOCK FALSE
CONSTANTS
  Variables = {v1, v2, v3}
  Blocks = {b1, b2, b3}
  Cursor = Cursor
  Null = Null
  Uses = {"reply"}
SYMMETRY Symmetry
INVARIANTS
  NothingLeaks
