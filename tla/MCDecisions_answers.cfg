CONSTANTS
    q1 = q1  q2 = q2  w1 = w1  w2 = w2  None = None
    Question = {q1, q2}
    Window = {w1, w2}
    Half = 3
    Lead = 1
    MaxNow = 3
    MaxStamp = 3
    MaxRuns = 2
    MaxStops = 2
SYMMETRY Screens
SPECIFICATION Spec
INVARIANTS AnswerFits CarriedOnce BootAccounts RemindersHold
CHECK_DEADLOCK FALSE
