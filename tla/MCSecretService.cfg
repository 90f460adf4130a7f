SPECIFICATION Spec
CONSTANTS
    None = None
    editor = editor
    reader = reader
    User = {editor, reader}
    Role <- MCRole
    Secret = {s1, s2, s3}
    Seeded = {s1}
    Env = {dev}
    Key = {k1, k2}
    Value = {a, b}
    Request = {r1, r2, r3}
SYMMETRY Symmetry
INVARIANTS
    VersionsContiguous
    OneLiveSecretPerKey
    EveryVersionDecrypts
    NoBlindOverwrite
    RollbackRestores
    AuditTruthful
PROPERTY HistoryAppendOnly
