SPECIFICATION PartsFairSpec
CONSTANTS
    Sprint = {s1}
    Ticket = {t1, t2}
    Request = {r1}
    Worker = {w1}
    None = None
    MaxQueued = 1
    Ops = {"start", "complete", "removeSprint", "regenerate", "assign",
           "create", "patch"}
    plain = plain
    login = login
    crypto = crypto
    auth = auth
    secrets = secrets
    Text <- MCText
    Category <- MCCategory
    Matches <- MCMatches
    Kind = {"triage", "appsec"}
PROPERTIES
    SnapshotIsReturned
    QueuedRetroSettles
    VerdictsSettle
    NothingTakenBack
