SPECIFICATION PartsSpec
CONSTANTS
    User = {u1, u2, u3}
    Email = {e1, e2}
    Invite = {i1, i2}
    Request = {r1, r2}
    RoleRequest = {r1}
    Founder = u1
    FounderEmail = e1
    None = None
    Parts = {"members", "bells"}
    Note = {i1, i2}
    Sender = {u2, u3}
    Bell = {b1}
    PageSize = 1
SYMMETRY Symmetry
INVARIANTS
    TypesOK
    AdminExists
    BellTellsTruth
PROPERTIES
    JoinAcceptsInvite
    AssignedIsTold
