SPECIFICATION ApiSpec
CONSTANTS
    m1 = m1  m2 = m2  r1 = r1  r2 = r2
    Msg <- OneMsg
    Req <- TwoReqs
    Initial = Initial
    None = None
    Role = "transform"
    Policy <- NoRetryPolicy
    HasDlq = FALSE
    CanarySuccess = 2
SYMMETRY Symmetry
INVARIANTS
    GuardProtects
    AnswersHold
    DisownedNeverRuns
PROPERTY
    ImplementsReplacement
