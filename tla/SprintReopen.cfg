SPECIFICATION PartsSpec
CONSTANTS
    Parts = {"sprints"}
    Sprint = {s1}
    Ticket = {t1}
    Request = {r1, r2}
    Worker = {}
    None = None
    MaxQueued = 1
    Ops = {"start", "complete"}
    PlanTicket = {1}
    Points <- MCPoints
    Length = 1
PROPERTY NoReopen
CHECK_DEADLOCK FALSE
