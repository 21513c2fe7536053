SPECIFICATION PartsSpec
CONSTANTS
    State = {s1, s2, s3}
    Ticket = {t1, t2}
    Request = {r1, r2, r3}
    ConfigRequest = {r1}
    Seeded = {s1, s2}
    Backlog = s1
    None = None
    Editor = {r2, r3}
    Node = {n1, t1, t2}
    Type = {"story", "subtask"}
    Retype = {n1}
    Reparent = {n1}
    Unset = Unset
SYMMETRY Symmetry
INVARIANTS
    TypesOK
    BoardSound
    TreeShowsRest
    SettledSubtaskRule
PROPERTIES
    LostOnlyByReparentOrRestore
    NoOrphanByDelete
