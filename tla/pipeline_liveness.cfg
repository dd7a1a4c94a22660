SPECIFICATION Spec
CONSTANTS
    s = s  p = p  k = k
    Node <- ThreeNodes
    Kind <- RouterKind
    Edge <- Diamond
    Overflow <- MixedOverflow
    Capacity <- One
    DlqCapacity = 0
    MaxPollErrors = 1
    MaxMsgs = 1
PROPERTIES
    CancelEndsRun
    FailureEndsRun
    EofEndsRun
