SPECIFICATION PartsSpec
CONSTANTS
    Parts = {"sprints", "plan"}
    Sprint = {s1, s2}
    Ticket = {t1}
    Request = {r1, r2}
    Worker = {}
    None = None
    MaxQueued = 1
    Ops = {"start", "complete", "removeSprint", "assign",
           "create", "patch", "trash", "restore"}
    PlanTicket = {1, 2}
    Points <- MCPoints
    Length = 3
SYMMETRY Symmetry
INVARIANTS
    TypesOK
    RowsAgree
    CountIsOfMarks
PROPERTIES
    FinishedWorkStays
    SlotSpec
    RiskOutlivesTheDay
    CompletionKeepsPoints
