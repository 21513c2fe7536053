SPECIFICATION Spec
CONSTANTS
    Note = {n1}
    Request = {r1}
    Bell = {b1}
    PageSize = 1
    None = None
INVARIANT RemovalNotBlocked
