SPECIFICATION FairSpec
CONSTANTS
    w = w
    f = f
    t1 = t1
    t2 = t2
    r1 = r1
    r2 = r2
    None = None
    todo = todo
    done = done
    Tab = {w, f}
    Ticket = {t1, t2}
    Column = {todo, done}
    Request = {r1, r2}
    Default = todo
    Live <- MCFollowers
    UserOf <- MCUserOf
    MayMove <- MCMayMove
    Handles <- MCHandles
    MaxMoves = 2
    MaxLoads = 1
INVARIANTS
    FollowerCurrent
PROPERTIES
    FollowerCatchesUp
CHECK_DEADLOCK FALSE
