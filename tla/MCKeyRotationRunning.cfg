SPECIFICATION Spec
CONSTANTS
    None = None
    N = 3
    Rotator = {x1}
    BatchSize = 2
    Plans = {FALSE}
CHECK_DEADLOCK FALSE
INVARIANT RotatesEveryStoredKey
