CONSTANTS
    a = a  b = b  r = r  k1 = k1  k2 = k2  k3 = k3
    create = create  question = question
    Agent = {a, b}
    Run = {r}
    Request = {k1, k2, k3}
    By <- MCBy
    Within <- MCWithin
    Action = {create}
    For <- MCFor
    Stands = {create}
    Nothing = Nothing
    Drains = TRUE
    Fails = {k3}
SPECIFICATION FairSpec
INVARIANTS TypeOK VerdictIsTheRow NoDeadButtons NoLostWake
PROPERTIES StopReleases
CHECK_DEADLOCK FALSE
