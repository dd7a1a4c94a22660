SPECIFICATION Spec
CONSTANTS
    MaxPollErrors = 2
    Inputs <- SmallInputs
    MaxFaults = 3
    ChannelCap = 1
    Rejects = TRUE
    MaxBroken = 3
    Conn = {"c1", "c2"}
    BufferSize = 1
    MaxRequests = 3
    Configs <- SmallSinks
    Timeout = 1
    WriterCap = 3
    MaxInflight = 2
    MaxSinkBroken = 1
    RequestCap = 1
    MaxMessages = 4
INVARIANTS
    SourcesFaithful
    SinksFaithful
PROPERTIES
    AdaptersEnd
    AdaptersRecover
