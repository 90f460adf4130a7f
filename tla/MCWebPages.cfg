SPECIFICATION WebSpec
CONSTANTS
    RevealSeconds = 2
    MaxReveals = 3
    MaxSaved = 4
    MaxDrafts = 2
    l1 = l1
    l2 = l2
    Line <- MCLine
    Text <- MCText
    Blank <- MCBlank
    MaxVersions = 3
    NoPair = NoPair
    Recorder = {p, q}
    RowId = {1, 2, 3}
    Action = {"read", "write"}
    Limits = {0, 2}
    DefaultLimit = 1
    MaxLimit = 2
    MaxTime = 2
    NoRow = NoRow
    Email = {"ann", "bob"}
    UserId = {"a1", "a2", "b"}
    Slug <- MCSlug
    Name <- MCName
    Candidates <- MCCandidates
    Fallback <- MCFallback
    Personal <- MCPersonal
    Client = {c, d}
INVARIANTS
    DraftReplacesItsBase
    AwayOnlyIfLeftEarly
    NumberStandsOverItsText
    DiffIsShortest
    PagingIsExact
    OnlyOverlapMisses
    AccountHasHome
    RefusalsAreDue
PROPERTY RevealEnds
