SPECIFICATION Spec
CONSTANTS
    None = None
    alice = alice
    bob = bob
    dev = dev
    prod = prod
    ci = ci
    Project = {p1, p2}
    Slug = {s1, s2}
    EnvName = {dev, prod, qa}
    DefaultEnvironments = {dev, prod}
    User = {alice, bob}
    Role <- MCRole
    Request = {r1, r2}
    Token = {t1}
    Network = {ci, home}
    Kinds <- MCKinds
SYMMETRY Symmetry
INVARIANTS
    ProjectsAreWhole
    RevocationReportedOnce
    CutOffHolds
