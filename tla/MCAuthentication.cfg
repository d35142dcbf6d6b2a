\* The flags as secure_terminal() leaves them, and as they are where setting
\* them failed, which it ignores.
CONSTANTS
    InitialFlags <- SecuredOrNot
    BufferSize = 2
    Timeouts = {TRUE, FALSE}
    MaxKeys = 4
    MaxSignals = 1
    Methods = {"pam", "shadow"}
    Conversations <- FewConversations
    MaxCalls = 2
SPECIFICATION Spec
INVARIANTS
    ReplyIsMeant
    ErrorTellsWhy
    NothingRemains
PROPERTY
    AuthReturns
CHECK_DEADLOCK FALSE
