SPECIFICATION Spec
CONSTANTS
    None = None
    Token = {t1, t2, t3}
    Load = {p1, p2}
    Errors = FALSE
    Lossy = FALSE
SYMMETRY Symmetry
CHECK_DEADLOCK FALSE
INVARIANT SingleSuccessor
