SPECIFICATION PartsSpec
CONSTANTS
    Parts = {"enrich"}
    plain = plain
    login = login
    crypto = crypto
    auth = auth
    secrets = secrets
    Text <- MCText
    Category <- MCCategory
    Matches <- MCMatches
    Request = {r1, r2}
    Worker = {w1}
    Kind = {"appsec"}
    None = None
    MaxQueued = 1
    Caller = {"review"}
    PoolSize = 1
    PoolTimeout = 1
    AttemptTime = 1
PROPERTY FlagsGrow
