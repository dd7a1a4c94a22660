SPECIFICATION Spec
CONSTANTS
    None = None
    Garbled = Garbled
INVARIANTS
    GuestContained
    PluginOutputExact
PROPERTIES
    VerdictExact
    GuestsEnd
CHECK_DEADLOCK FALSE
