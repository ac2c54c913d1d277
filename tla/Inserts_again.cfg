SPECIFICATION Spec
CONSTANTS
    Processes = {"parent", "child"}
    First = "parent"
    Workers <- MCWorkers
    NumberLimit = 3
    MaxTime = 1
    Slice <- MCSlice
    Tries <- MCTries
INVARIANTS
    IdsTypeOK
    SameIdsAreFarApart
    RefusedIsStored
    CopiesAreBounded
    FirstOnesAreStored
PROPERTIES
    RepeatsCompleteNothing
CHECK_DEADLOCK FALSE
