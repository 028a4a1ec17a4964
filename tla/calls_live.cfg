SPECIFICATION FairSpec
CONSTANTS
    InLegs = {a1, a2}
    OutLegs = {}
    TgCalls = {t1, t2}
    Cmds = {c1}
    Kinds = {"switch", "decline", "transfer", "conf"}
    CallWaiting = TRUE
    Reconnect = FALSE
    NotifyRaises = FALSE
    None = None
INVARIANTS
    NoOrphanLeg
PROPERTIES
    NeverLeftRinging
    HangupEndsLegs
    PendingSettles
    LockServed
