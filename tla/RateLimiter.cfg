SPECIFICATION Spec
CONSTANTS
    None = None
    Key = {k1}
    Request = {r1, r2}
    Bucket = {b1, b2, b3}
    Burst = 2
    IdleTTL = 3
    MaxDebt = 2
INVARIANTS
    RateHolds
    RefusalIsFree
PROPERTY IdleBucketsGo
