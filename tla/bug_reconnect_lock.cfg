SPECIFICATION FairSpec
CONSTANTS
    InLegs = {a1}
    OutLegs = {}
    TgCalls = {t1, t2}
    Cmds = {}
    Kinds = {}
    CallWaiting = TRUE
    Reconnect = TRUE
    NotifyRaises = FALSE
    None = None
CHECK_DEADLOCK FALSE
PROPERTIES
    LockServed
