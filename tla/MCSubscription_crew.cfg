CONSTANTS
    t1 = t1  t2 = t2  t3 = t3  None = None
    Turn = {t1, t2}
    MaxGrants = 3
SYMMETRY Crew
SPECIFICATION Spec
INVARIANTS SpentOnce RefreshedForCause
