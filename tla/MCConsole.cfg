CONSTANTS
    Consoles = {1, 2, 3}
    First = 1
    Free = 2
SPECIFICATION Spec
INVARIANTS
    SurvivesSwitching
    NotSelfBlocked
    EverythingBack
PROPERTY
    HeldWhenGoverned
CHECK_DEADLOCK FALSE
