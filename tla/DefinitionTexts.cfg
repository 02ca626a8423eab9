CONSTANTS
    d1 = d1  d2 = d2  s1 = s1  s2 = s2  s3 = s3  None = None
    Definitions = {d1, d2}
    Scrolls = {s1, s2}
    ActionLimit = 1
    StaleAfter = 2
    MaxInterrupted = 2
    Clocked = TRUE
    Removable = TRUE
    Slots = {1, 2}
    MaxRuns = 3
    MaxChanges = 3
SPECIFICATION FairSpec
INVARIANTS
    OnlyLateRunsFalsifyReady
    OnlyLateRunsLeaveTexts
    QuietTextRunIsDead
PROPERTIES
    TextsComeToRest
