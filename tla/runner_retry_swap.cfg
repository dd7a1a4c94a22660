SPECIFICATION Spec
CONSTANTS
    m1 = m1  m2 = m2  m3 = m3  r1 = r1  r2 = r2
    Msg <- TwoMsgs
    Req <- OneReq
    Initial = Initial
    None = None
    Role = "transform"
    Policy <- MixedPolicy
    HasDlq = TRUE
    CanarySuccess = 1
PROPERTY RetriesDoNotCrossSwap
