SPECIFICATION MCSpec
CONSTANTS
    None = None
    editor = editor
    dev = dev
    prod = prod
    k1 = k1
    k2 = k2
    s1 = s1
    s2 = s2
    s3 = s3
    s4 = s4
    s5 = s5
    User = {editor}
    Role <- MCRole
    EnvRank <- MCEnvRank
    KeyRank <- MCKeyRank
    Secret = {s1, s2, s3, s4, s5}
    Seeded = {s1, s2, s3}
    Env = {dev, prod}
    Key = {k1, k2}
    Value = {a, b}
    Request = {r1, r2}
INVARIANTS
    StoreInvariants
    PromotionAllOrNothing
    PromotedFromSource
    NoWaitCycle
PROPERTY EveryRequestAnswered
