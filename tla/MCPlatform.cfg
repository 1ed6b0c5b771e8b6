\* Each component of MCPlatform on the smallest instance that shows its cases.
\* A walk of a listing ends, and everybody may be barred: no deadlock check.
SPECIFICATION MCSpec
CONSTANTS
    r1 = r1
    r2 = r2
    i1 = i1
    i2 = i2
    rate = rate
    bonus = bonus
    \* daily profit: one user and two instances; a day is three ticks
    Users = {u1}
    NoUser = NoUser
    Requests = {r1, r2}
    Instances = {i1, i2}
    InstanceOf <- MCInstanceOf
    Day = 3
    \* rate limit: three requests, limits of one and three
    Callers = {c1, c2, c3}
    AuthMax = 1
    OtherMax = 3
    Window = 2
    CountCap = 5
    \* caches: a profile and a list
    Profiles = {p1}
    Lists = {l1}
    NoEntryKey = NoEntryKey
    Readers = {q1, q2}
    CacheTTL = 2
    MaxVersion = 2
    \* files: two requests, three objects
    FileKeys = {k1, k2, k3}
    NoFile = NoFile
    Submissions = {s1}
    Uploaders = {w1, w2}
    \* settings: two requests, two fields
    Fields = {rate, bonus}
    Values = {0, 1}
    SchemaDefaults <- MCSchemaDefaults
    ConfigDefaults <- MCConfigDefaults
    Clerks = {d1, d2}
    \* listings: pages of one and two
    LimitCap = 2
    LimitsAsked = {1, 3}
    LastDocument = 3
    \* accounts: a chain of two administrators behind the founder
    People = {a1, a2, a3}
    Nobody = Nobody
    Founder = a1
    Doors = {g1, g2}
INVARIANTS
    PlatformTypeOK
    OneProfitADay KeyHasCause
    LimitHolds
    StaleHasCause
    NamedIsThere OrphanHasCause
    LatestInForce
    WalkIsComplete
    AdminsFromFounder
PROPERTIES
    KeyIsReleased
    CounterExpires
    CachesSettle
    BarredStaysOut
CHECK_DEADLOCK FALSE
