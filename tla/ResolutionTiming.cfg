SPECIFICATION Spec
CONSTANTS
    v1 = v1
    v2 = v2
    s1 = s1
    s2 = s2
    r1 = r1
    r2 = r2
    r3 = r3
    Visitors = {v1}
    Segments = {s1, s2}
    Requests = {r1}
    Tokens = {1, 2, 3}
    VisitorOf <- OneClick
    SegmentOf <- OneSegment
    Places = {0, 1}
    FirstPlace <- BothStored
    None = None
    ActionLimit = 2
    StaleRunAfter = 3
    RecoveryDeadline = 4
    Retention = 6
    MaxResolutionRuns = 3
    MaxStaleRejudges = 1
    AdvanceBatch = 1
    Clocked = TRUE
    Retriers = {r1}
    Clearers = {v1}
INVARIANTS
    StaleMeansDead
    OnlyTwoRunsFit
    CheckpointsMatchProgress
PROPERTIES
    ProgressKept
