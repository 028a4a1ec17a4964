SPECIFICATION Spec
CONSTANTS
    InLegs = {a1}
    OutLegs = {b1, b2}
    TgCalls = {t1, t2}
    Cmds = {c1, c2}
    Kinds = {"dial", "direct", "hangup", "transfer"}
    CallWaiting = TRUE
    Reconnect = FALSE
    NotifyRaises = FALSE
    None = None
SYMMETRY Symmetry
INVARIANTS
    PendingBacked
    TypeOK
    NoSelfWait
