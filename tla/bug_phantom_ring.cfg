SPECIFICATION Spec
CONSTANTS
    Out = {o1, o2}
    In = {}
    Enders = {e1}
    None = None
SYMMETRY Symmetry
INVARIANTS
    OneCallPlaced
