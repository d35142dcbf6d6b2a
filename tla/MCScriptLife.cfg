CONSTANTS
    Outputs <- ShortOutputs
    Kinds = 2
    Timeout = 2
    LINE_MAX = 4
    PipeSize = 3
    MaxSaves = 3
    MaxSignals = 2
SPECIFICATION Spec
INVARIANTS
    WithinLimits
    SurvivesScripts
    ReportedIffSent
    NothingLeft
PROPERTIES
    AllOrError
    OpenEnds
    SilentAfterMiss
CHECK_DEADLOCK FALSE
