SPECIFICATION Spec
CONSTANTS
    m1 = m1  m2 = m2  m3 = m3  r1 = r1  r2 = r2
    Msg <- TwoMsgs
    Req <- TwoReqs
    Initial = Initial
    None = None
    Role = "transform"
    Policy <- MixedPolicy
    HasDlq = TRUE
    CanarySuccess = 1
SYMMETRY Symmetry
INVARIANTS
    TypeOK
    Accounted
    PluginConsistent
    SignalBarrier
    RollbackRestores
    StateHonest
PROPERTY
    FateIsFinal
