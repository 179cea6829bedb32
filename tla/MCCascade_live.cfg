CONSTANTS
    p = p  q = q  r = r  Human = h
    Agent = {p, q, r}
    First = p
    Thinks <- Tri
    Text = {"hi", "ho"}
    LastWords = {"hi"}
    Stops = FALSE
    StoreFails = FALSE
    MaxHops = 2
    MaxSteps = 4
    MaxPair = 2
    MaxRounds = 1
    MaxBatch = 2
    MostAtOnce = 0
    Headroom = 1
SPECIFICATION FairSpec
PROPERTY CascadeEnds
CHECK_DEADLOCK FALSE
