CONSTANTS
    r1 = r1  r2 = r2  r3 = r3  m1 = m1  m2 = m2  m3 = m3  m4 = m4
    Envelope = {m1, m2, m3}
    Run = {r1, r2}
    RunOf <- MCRunOf
    Asks = {m2}
    Absorbable = {m2}
    Answers = {m2}
    MaxActors = 2
    MaxBatch = 2
    Deletes = TRUE
    Drains = TRUE
SYMMETRY Alike
SPECIFICATION Spec
INVARIANTS TypeOK DepthExact BookedIsHeld
PROPERTIES ReadsInOrder NeverEndedUnread
CHECK_DEADLOCK FALSE
