CONSTANTS
    TERM = TERM
    HUP = HUP
    MaxPlugins = 2
    Signals <- OneSignal
    SaverOnly = FALSE
    RootFallback = TRUE
    TtyPlugin = 2
SPECIFICATION Spec
INVARIANT EndCalledIfKilled
