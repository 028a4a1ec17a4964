SPECIFICATION Spec
CONSTANTS
    InLegs = {a1, a2, a3}
    OutLegs = {}
    TgCalls = {t1}
    Cmds = {c1, c2}
    Kinds = {"switch"}
    CallWaiting = TRUE
    Reconnect = FALSE
    NotifyRaises = FALSE
    None = None
INVARIANTS
    NoOrphanLeg
