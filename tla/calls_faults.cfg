SPECIFICATION Spec
CONSTANTS
    InLegs = {a1}
    OutLegs = {b1}
    TgCalls = {t1, t2, t3}
    Cmds = {c1}
    Kinds = {"hangup", "dial"}
    CallWaiting = TRUE
    Reconnect = TRUE
    NotifyRaises = TRUE
    None = None
SYMMETRY Symmetry
CHECK_DEADLOCK FALSE
INVARIANTS
    LockHeld
    TgWatched
