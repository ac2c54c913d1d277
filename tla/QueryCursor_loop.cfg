SPECIFICATION ViewsSpec
CONSTANTS
    Result <- MCResult
    MaxBatch = 2
    MaxRetries = 1
    Variables = {"doc", "kept"}
    MaxAppends = 1
INVARIANTS
    TypeOK
    NothingIsSkipped
    VariablesShowTheirDocument
    ViewsShowTheirDocument
PROPERTIES
    ImplementsQuery
    LoopEnds
CHECK_DEADLOCK FALSE
