SPECIFICATION PartsSpec
CONSTANTS
    Parts = {"enrich", "calls"}
    plain = plain
    login = login
    crypto = crypto
    auth = auth
    secrets = secrets
    Text <- MCText
    Category <- MCCategory
    Matches <- MCMatches
    Request = {r1, r2}
    Worker = {w1}
    Kind = {"embed", "appsec"}
    None = None
    MaxQueued = 1
    Caller = {"parse", "duplicates", "triage", "review", "retro", "embed"}
    PoolSize = 1
    PoolTimeout = 3
    AttemptTime = 1
SYMMETRY Symmetry
INVARIANTS
    TypesOK
    PendingHasJob
    EmbedCurrent
    SettlesInTime
    AnswerIsFit
