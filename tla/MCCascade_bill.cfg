CONSTANTS
    p = p  q = q  r = r  Human = h
    Agent = {p, q}
    First = p
    Thinks <- Talk
    Text = {"hi", "ho"}
    LastWords = {"hi", "ho"}
    Stops = TRUE
    StoreFails = TRUE
    MaxHops = 3
    MaxSteps = 5
    MaxPair = 2
    MaxRounds = 2
    MaxBatch = 2
    MostAtOnce = 1
    Headroom = 1
SPECIFICATION Spec
INVARIANTS TypeOK BillExact RepliesAnswerAsks
CHECK_DEADLOCK FALSE
