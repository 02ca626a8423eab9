CONSTANTS
    f1 = f1
    Folios = {f1}
    Sentences = {0, 1, 2}
    FolioOf <- MCFolioOf
    None = None
    MaxCut = 3
    Cuts = {0, 1, 3}
    SaveSize = 2
    WindowSize = 2
    ActionLimit = 2
    RunBudget = 1
    StaleAfter = 3
    Slots = {1, 2}
    MaxRuns = 2
    MaxStrips = 1
    Discardable = {f1}
SPECIFICATION FairSpec
INVARIANTS
    ProcessedSentencesAreWhole
    ProcessingFolioIsWatched
    QuietFolioRunIsDead
PROPERTIES
    ImplementsPassages
    FoliosComeToRest
CHECK_DEADLOCK FALSE
