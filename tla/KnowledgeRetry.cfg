CONSTANTS
    k1 = k1  k2 = k2  k3 = k3
    o1 = o1  o2 = o2  v1 = v1  v2 = v2  en = en  ru = ru
    Attempts = {k1, k2}
    Readings = {o1}
    Visitors = {v1, v2}
    Languages = {en, ru}
    ReadingOf <- OneReading
    VisitorOf <- FirstAlone
    Wants <- TwoWants
    ActionLimit = 0
    StaleAfter = 1
    Cooldown = 1
    Clocked = TRUE
    Slots = {1, 2}
    MaxRuns = 2
    Retriers = {k1}
    Deletable = {k1}
SPECIFICATION Spec
INVARIANTS
    QuietRunIsDead
    WaitingHasStarter
