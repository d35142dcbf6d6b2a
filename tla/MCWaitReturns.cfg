CONSTANTS
    Calls = {"wait"}
    CallerTimers = {"off"}
    CallerActions = {"default"}
SPECIFICATION Spec
PROPERTY
    WaitReturns
CHECK_DEADLOCK FALSE
