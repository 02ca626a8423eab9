CONSTANTS
    k1 = k1  k2 = k2  k3 = k3
    o1 = o1  o2 = o2  v1 = v1  v2 = v2  en = en  ru = ru
    Attempts = {k1, k2, k3}
    Readings = {o1}
    Visitors = {v1, v2}
    Languages = {en, ru}
    ReadingOf <- OneReading
    VisitorOf <- FirstAlone
    Wants <- TwoWants
    ActionLimit = 1
    StaleAfter = 2
    Cooldown = 1
    Clocked = TRUE
    Slots = {1}
    MaxRuns = 1
    Retriers = {}
    Deletable = {}
SPECIFICATION FairSpec
INVARIANTS
    OneActivePerReading
    LostRaceIsCovered
PROPERTIES
    CooldownHolds
    AttemptsEnd
    WaitingServed
