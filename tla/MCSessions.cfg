\* Two users, two requests, two pairs that live for one or two ticks of two.
SPECIFICATION Spec
CONSTANTS
    Users = {u1, u2}
    NoUser = NoUser
    Requests = {r1, r2}
    Tokens = {t1, t2}
    NoToken = NoToken
    AccessLife = 1
    RefreshLife = 2
    BlacklistTTL = 2
    RedisMayBeAway = TRUE
    MaxTime = 2
SYMMETRY Symmetry
INVARIANTS ExchangedIsRevoked StoredIsLive
PROPERTY RevokedIsRefused
CHECK_DEADLOCK FALSE
