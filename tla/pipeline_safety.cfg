SPECIFICATION Spec
CONSTANTS
    s = s  p = p  k = k
    Node <- ThreeNodes
    Kind <- WasmKind
    Edge <- Chain
    Overflow <- ChainOverflow
    Capacity <- One
    DlqCapacity = 1
    MaxPollErrors = 2
    MaxMsgs = 2
INVARIANTS
    PipelineTypeOK
    Conserved
    DlqComplete
    CleanRunDelivers
    FailuresSurface
