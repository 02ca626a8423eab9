SPECIFICATION FairSpec
CONSTANTS
    v1 = v1
    v2 = v2
    s1 = s1
    s2 = s2
    r1 = r1
    r2 = r2
    r3 = r3
    Visitors = {v1, v2}
    Segments = {s1}
    Requests = {r1, r2}
    Tokens = {1, 2}
    VisitorOf <- TwoVisitors
    SegmentOf <- SameSegment
    Places = {0}
    FirstPlace <- OneStored
    None = None
    ActionLimit = 0
    StaleRunAfter = 1
    RecoveryDeadline = 2
    Retention = 2
    MaxResolutionRuns = 2
    MaxStaleRejudges = 1
    AdvanceBatch = 1
    Clocked = TRUE
    Retriers = {r1, r2}
    Clearers = {}
INVARIANTS
    SegmentStateExact
PROPERTIES
    FailureNeverHidesCommit
    SessionsEnd
    EncountersConverge
