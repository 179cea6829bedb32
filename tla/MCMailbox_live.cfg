CONSTANTS
    r1 = r1  r2 = r2  r3 = r3  m1 = m1  m2 = m2  m3 = m3  m4 = m4
    Envelope = {m1, m2, m4}
    Run = {r1, r2, r3}
    RunOf <- MCRunOf
    Asks = {m2, m4}
    Absorbable = {m2}
    Answers = {m2}
    MaxActors = 1
    MaxBatch = 2
    Deletes = FALSE
    Drains = TRUE
SPECIFICATION FairSpec
PROPERTIES StopEnds ResumeWakes DrainEmpties
CHECK_DEADLOCK FALSE
