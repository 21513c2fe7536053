SPECIFICATION Spec
CONSTANTS
    ada = ada
    ben = ben
    carl = carl
    acme = acme
    bolt = bolt
    User = {ada, ben, carl}
    OrgOf <- MCOrgOf
    Conn = {c1, c2}
    Request = {r1, r2}
    Kind = {"write", "sprint"}
    Unset = Unset
    Empty = Empty
    None = None
INVARIANT TotalsSeeTickets
