\* A refresh is under way while its user logs out.
SPECIFICATION Spec
CONSTANTS
    Users = {u1}
    NoUser = NoUser
    Requests = {r1, r2}
    Tokens = {t1, t2}
    NoToken = NoToken
    AccessLife = 1
    RefreshLife = 1
    BlacklistTTL = 1
    RedisMayBeAway = FALSE
    MaxTime = 0
INVARIANT LoggedOutHasNone
CHECK_DEADLOCK FALSE
