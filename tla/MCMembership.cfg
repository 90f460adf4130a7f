SPECIFICATION Spec
CONSTANTS
    None = None
    User = {ann, bob, eve}
    Slot = {r1, r2}
    Invites = TRUE
SYMMETRY Symmetry
CHECK_DEADLOCK FALSE
PROPERTIES
    OnlyRaceOrReinviteOrphans
    NoResurrection
    LostOwnershipIsFinal
