CONSTANTS
    a = a  b = b  out = out  r1 = r1  r2 = r2
    m1 = m1  m2 = m2  m3 = m3  m4 = m4
    Agent = {a, b}
    Outside = out
    Run = {r1, r2}
    Envelope = {m1, m2, m4}
    RunOf <- MCRunOf
    To <- MCTo
    From <- MCFrom
    Asks = {m2}
    Answers = {}
    Pausable = {}
    Deletable = {b}
    StoreFails = TRUE
    MaxCrashes = 2
SPECIFICATION Spec
INVARIANTS TypeOK BookingsExact WholeMeansIdle NeverReplayed
PROPERTIES SettlesWhenOver
CHECK_DEADLOCK FALSE
