SPECIFICATION Spec
CONSTANTS
    None = None
    User = {ann, bob}
    Slot = {r1, r2}
    Invites = FALSE
SYMMETRY Symmetry
CHECK_DEADLOCK FALSE
INVARIANT WorkspaceKeepsOwner
