SPECIFICATION ApiSpec
CONSTANTS
    m1 = m1  m2 = m2  r1 = r1  r2 = r2
    Msg <- TwoMsgs
    Req <- OneReq
    Initial = Initial
    None = None
    Role = "transform"
    Policy <- StrictPolicy
    HasDlq = FALSE
    CanarySuccess = 2
PROPERTIES
    RequestsAnswered
    CancelEndsNode
