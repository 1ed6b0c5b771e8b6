\* One user, two resets, two one-time passwords, one session, two pairs of tokens.
SPECIFICATION ResetSpec
CONSTANTS
    Users = {u1}
    NoUser = NoUser
    Requests = {r1}
    Tokens = {t1, t2}
    NoToken = NoToken
    AccessLife = 1
    RefreshLife = 1
    BlacklistTTL = 1
    RedisMayBeAway = TRUE
    MaxTime = 1
    Resets = {p1, p2}
    Otps = {o1, o2}
    NoOtp = NoOtp
    OtpLife = 1
SYMMETRY Symmetry
INVARIANT ResetTypeOK
PROPERTY SpentIsRefused
CHECK_DEADLOCK FALSE
