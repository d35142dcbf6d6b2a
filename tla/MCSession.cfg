CONSTANTS
    TERM = TERM
    HUP = HUP
    MaxPlugins = 3
    Signals <- TwoSignals
    SaverOnly = FALSE
    RootFallback = TRUE
    TtyPlugin = 2
SPECIFICATION Spec
INVARIANTS
    TypeOK
    EndMatchesStart
    TerminalRestored
    NoSaverAtPrompt
PROPERTIES
    PluginLives
    EndInReverse
    ExitCompletes
