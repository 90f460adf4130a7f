SPECIFICATION Spec
CONSTANTS
    None = None
    N = 3
    Rotator = {x1, x2}
    BatchSize = 2
    Plans = {TRUE, FALSE}
SYMMETRY Symmetry
CHECK_DEADLOCK FALSE
INVARIANTS
    DataKeyPreserved
    RunCoversItsStart
    PlannedRestartReadsAll
