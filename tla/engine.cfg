SPECIFICATION FairSpec
CONSTANTS
    Out = {o1}
    In = {i1}
    Enders = {e1, e2}
    None = None
INVARIANTS
    TypeOK
    
    EndedAtTelegram
    ReturnedWasUp
PROPERTIES
    LegSpec
    CallSettles
