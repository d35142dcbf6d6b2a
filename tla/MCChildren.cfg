\* vlock itself uses neither SIGALRM nor the interval timer; the functions are
\* written for callers that do.
CONSTANTS
    Users = {"saver", "script", "dependencies", "wait", "wait_zero"}
    CallerTimers = {"off", "caller"}
    CallerActions = {"default", "handler"}
SPECIFICATION Spec
INVARIANTS
    CreationAccounted
    NoStrayEnds
    AlarmsKept
    OnlyChildSignalled
    GivenBack
PROPERTY
    CallsReturn
CHECK_DEADLOCK FALSE
