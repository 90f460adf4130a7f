SPECIFICATION Spec
CONSTANTS
    None = None
    Token = {t1, t2, t3, t4, t5}
    Load = {p1, p2}
    Errors = TRUE
    Lossy = TRUE
SYMMETRY Symmetry
CHECK_DEADLOCK FALSE
INVARIANTS
    QuietBrowserHoldsLiveToken
    ReplayWindowCloses
    LogoutSticks
