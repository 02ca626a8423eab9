CONSTANTS
    k1 = k1  k2 = k2  k3 = k3
    o1 = o1  o2 = o2  v1 = v1  v2 = v2  en = en  ru = ru
    Attempts = {k1}
    Readings = {o1}
    Visitors = {v1, v2}
    Languages = {en, ru}
    ReadingOf <- OneReading
    VisitorOf <- OneVisitor
    Wants <- OneWant
    ActionLimit = 1
    StaleAfter = 2
    Cooldown = 1
    Clocked = FALSE
    Slots = {1, 2}
    MaxRuns = 2
    Retriers = {}
    Deletable = {k1}
SPECIFICATION Spec
PROPERTIES
    LateRunNeverSettles
\* Without a clock the one attempt may use up its runs and stop.
CHECK_DEADLOCK FALSE
