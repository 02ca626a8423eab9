CONSTANTS
    a = a  b = b  k1 = k1  k2 = k2
    Subjects = {a, b}
    Keys = {k1, k2}
    None = None
    Opened = a
    Deals <- MCDeals
    Updates <- MCUpdates
    MaxWalk = 1
    MaxId = 9
SPECIFICATION Spec
INVARIANTS
    TypeOK
    IdsNameOneThing
    PresentationsAreOnce
    CheckpointKeepsUp
PROPERTIES
    CollapsesInFront
CHECK_DEADLOCK FALSE
