CONSTANTS
    a = a  p = p  q = q  None = None
    Routine = {p}
    Agent = {a}
    Of <- MCOf
    Triggers = {"once", "every", "weekly", "weekdays", "event"}
    Delays = {1}
    Gap = 1
    Week = 2
    Weekend <- MCWeekend
    Calendar <- MCCalendar
    Horizon = 2
    MaxWrites = 2
    MaxTroubles = 2
SPECIFICATION FairSpec
INVARIANTS FiresOnce LabelHolds
PROPERTIES DueFires
CHECK_DEADLOCK FALSE
