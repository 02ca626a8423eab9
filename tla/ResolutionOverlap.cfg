SPECIFICATION Spec
CONSTANTS
    v1 = v1
    v2 = v2
    s1 = s1
    s2 = s2
    r1 = r1
    r2 = r2
    r3 = r3
    Visitors = {v1, v2}
    Segments = {s1, s2}
    Requests = {r1, r2, r3}
    Tokens = {1, 2}
    VisitorOf <- FirstTwice
    SegmentOf <- FirstAgain
    Places = {0, 1}
    FirstPlace <- BothStored
    None = None
    ActionLimit = 0
    StaleRunAfter = 1
    RecoveryDeadline = 2
    Retention = 2
    MaxResolutionRuns = 2
    MaxStaleRejudges = 1
    AdvanceBatch = 1
    Clocked = FALSE
    Retriers = {r1}
    Clearers = {v1}
INVARIANTS
    OneActivePerClick
    OccurrencesWhole
    EncountersAgree
PROPERTIES
    ImplementsRegistry
