SPECIFICATION PartsSpec
CONSTANTS
    Token = {t1, t2, t3}
    Link = {l1}
    Request = {r1, r2}
    None = None
    Issuer = {i1}
    Sender = {r1, r2, i1}
    Grant = {i1}
    Socket = {r1, r2}
    TokenLife = 2
    TicketLife = 1
    GrantTime = 3
    AskTime = 3
    HandshakeTime = 1
    Conn = {r1, r2}
    User = {ada, ben, carl}
    ada = ada
    ben = ben
    carl = carl
    acme = acme
    bolt = bolt
    Kind = {"write", "sprint", "assign", "bell", "login", "signup", "job"}
    Unset = Unset
    Empty = Empty
    ClaimLife = 1
    AuthTime = 1
    RequestTime = 1
SYMMETRY Symmetry
INVARIANTS
    TypesOK
    RotatedOnce
    RevocationKills
    RemovedGetsNothing
    LinksSound
    RoomsSound
    OnlyOwnRows
    StatementsSucceed
    CreatorExists
PROPERTIES
    StaleRoleEnds
    HiddenProjectIsStill
CHECK_DEADLOCK FALSE
