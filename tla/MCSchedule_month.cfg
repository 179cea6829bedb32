CONSTANTS
    a = a  p = p  q = q  None = None
    Routine = {p}
    Agent = {a}
    Of <- MCOf
    Triggers = {"monthly"}
    Delays = {3}
    Gap = 1
    Week = 2
    Weekend <- MCWeekend
    Calendar <- MCCalendar
    Horizon = 9
    MaxWrites = 1
    MaxTroubles = 1
SPECIFICATION Spec
INVARIANT KeepsItsDay
CHECK_DEADLOCK FALSE
