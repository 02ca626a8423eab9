CONSTANTS
    s1 = s1  s2 = s2  s3 = s3  t1 = t1
    x1 = x1  x2 = x2  y1 = y1  sc1 = sc1  sc2 = sc2
    r1 = r1  r2 = r2  l1 = l1  a1 = a1  a2 = a2  v1 = v1  v2 = v2  p1 = p1  w1 = w1
    Segments = {s1, s2, s3, t1}
    Sentences = {x1, x2, y1}
    Scrolls = {sc1, sc2}
    SentenceOf <- MCSentenceOf
    ScrollOf <- MCScrollOf
    PositionOf <- MCPositionOf
    Resolvable = {s1, s2, t1}
    Readings = {r1, r2}
    Lemmas = {l1}
    LemmaOf <- OneLemma
    Attestations = {a1, a2}
    Analyses = {v1, v2}
    None = None
    Lost = Lost
    Batch = 1
    Protections = {{}}
    SensesOf <- MCSensesOf
    Wanted = {r1}
    Clicked = {{s1, t1}}
    Stripped = {sc1}
    Stored = {sc2}
    Strips = {p1}
    Submitters = {w1}
    Stoppable = TRUE
SPECIFICATION Spec
INVARIANTS
    AttestedNeverPruned
CHECK_DEADLOCK FALSE
