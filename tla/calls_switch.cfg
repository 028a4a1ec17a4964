SPECIFICATION Spec
CONSTANTS
    InLegs = {a1, a2}
    OutLegs = {b1}
    TgCalls = {t1, t2, t3}
    Cmds = {c1, c2}
    Kinds = {"switch", "decline"}
    CallWaiting = TRUE
    Reconnect = FALSE
    NotifyRaises = FALSE
    None = None
SYMMETRY Symmetry
INVARIANTS
    BridgeMatches
    LegWatched
    SlotsDistinct
    TgServed

    
