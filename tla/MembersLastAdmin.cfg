SPECIFICATION PartsSpec
CONSTANTS
    User = {u1, u2}
    Email = {e1, e2}
    Invite = {i1}
    Request = {r1, r2}
    RoleRequest = {r1, r2}
    Founder = u1
    FounderEmail = e1
    None = None
    Parts = {"members"}
    Note = {i1}
    Sender = {}
    Bell = {}
    PageSize = 1
INVARIANT AdminExists
