------------------------------ MODULE Sessions ------------------------------
(***************************************************************************)
(* AuthService's token pairs: login (and the end of register), refresh,    *)
(* logout, and JwtStrategy's check of an access token.                     *)
(*                                                                         *)
(* A pair is one access and one refresh token with one jti.  Two stores    *)
(* say what a pair is worth: `hashedRefreshToken` of the user document and *)
(* the blacklist in Redis, whose keys expire and which may be away at any  *)
(* command: then nothing is blacklisted, and nothing found there.          *)
(* Handlers are cut at each await of MongoDB or Redis.                     *)
(***************************************************************************)
EXTENDS Integers, FiniteSets

CONSTANTS
    Users, NoUser,
    Requests,
    Tokens,             \* token pairs, by jti
    NoToken,
    AccessLife,         \* jwt.accessExpiresIn
    RefreshLife,        \* jwt.refreshExpiresIn
    BlacklistTTL,       \* parseExpiryToSeconds(jwt.refreshExpiresIn)
    RedisMayBeAway,     \* FALSE: every command reaches Redis
    MaxTime             \* bound: the clock stops here

\* parseExpiryToSeconds understands the lifetimes 90s, 15m, 12h, 7d, and then
\* answers what the JWT library makes of them; for anything else it answers a
\* week, which is assumed here to be no less than the lifetime.
ASSUME SessionAssumption ==
    /\ NoUser \notin Users
    /\ NoToken \notin Tokens
    /\ AccessLife \in Nat /\ RefreshLife \in Nat /\ BlacklistTTL \in Nat
    /\ AccessLife <= RefreshLife
    /\ RefreshLife <= BlacklistTTL
    /\ RedisMayBeAway \in BOOLEAN
    /\ MaxTime \in Nat

VARIABLES
    now,
    pair,           \* pair[t]: the claims signed into t's two tokens
    delivered,      \* pairs a client has
    hashed,         \* users.hashedRefreshToken, as the pair it was made from
    blacklist,      \* blacklist[t]: when the key blacklist:<t> expires
    job,
    revoked,        \* history: pairs whose blacklist key was once written
    dropped,        \* history: pairs whose blacklist write found Redis away
    broken,         \* history: pairs whose revoking request then broke off
    foreign,        \* history: pairs named in the logout of another user
    exchanged,      \* history: pairs for which another was delivered
    loggedOut       \* history: users who logged out and have not logged in since

tokenVars == <<pair, delivered, hashed, blacklist>>
history == <<revoked, dropped, broken, foreign, exchanged, loggedOut>>
vars == <<now, pair, delivered, hashed, blacklist, job,
          revoked, dropped, broken, foreign, exchanged, loggedOut>>

\* sub and iat of the payload; NoUser while t is not signed.
Pair == [sub : Users \cup {NoUser}, iat : Nat]

Unsigned == [sub |-> NoUser, iat |-> 0]

Ops == {"idle", "store", "reply", "authenticated", "logoutClear",
        "refresh", "refreshRevoke"}

\* token: the pair the request presented; issued: the pair it makes;
\* redis: whether Redis answered its check.
Job == [op : Ops, user : Users \cup {NoUser}, token : Tokens \cup {NoToken},
        issued : Tokens \cup {NoToken}, redis : BOOLEAN]

Idle == [op |-> "idle", user |-> NoUser, token |-> NoToken, issued |-> NoToken,
         redis |-> TRUE]

Init ==
    /\ now = 0
    /\ pair = [t \in Tokens |-> Unsigned]
    /\ delivered = {}
    /\ hashed = [u \in Users |-> NoToken]
    /\ blacklist = [t \in Tokens |-> 0]
    /\ job = [r \in Requests |-> Idle]
    /\ revoked = {}
    /\ dropped = {}
    /\ broken = {}
    /\ foreign = {}
    /\ exchanged = {}
    /\ loggedOut = {}

-----------------------------------------------------------------------------
Is(r, op) == job[r].op = op
Finish(r) == job' = [job EXCEPT ![r] = Idle]

\* Mutant of GenerateTokens: issued a moment ago, against clocks that differ.
GenerateTokensBackdated(t, u) ==
    /\ pair[t] = Unsigned
    /\ pair' = [pair EXCEPT ![t] = [sub |-> u, iat |-> now - 1]]

\* signAsync for both tokens of a pair that did not exist before.
GenerateTokens(t, u) ==
    /\ pair[t] = Unsigned
    /\ pair' = [pair EXCEPT ![t] = [sub |-> u, iat |-> now]]

\* verifyAsync, and passport's check of the access token.
Alive(t, life) == now < pair[t].iat + life

\* compareValues(token, hash of h): bcrypt hashes the first 72 bytes.  A JWT
\* spends 37 on its header and has the payload's beginning, {"sub":"..., in
\* the rest: the user, and nothing that tells two tokens of a user apart.
Matches(t, h) == pair[t].sub = pair[h].sub

\* What ensureReady may answer to a command.
Answers == IF RedisMayBeAway THEN BOOLEAN ELSE {TRUE}

\* isBlacklisted, answered by Redis or not: get is null while it is away.
IsBlacklisted(t, redis) == redis /\ now < blacklist[t]

\* Mutant of AddToBlacklist: the value of jwt.refreshExpiresIn without its unit.
AddToBlacklistShort(t) ==
    \/ /\ blacklist' = [blacklist EXCEPT ![t] = now + 1]
       /\ revoked' = revoked \cup {t}
       /\ UNCHANGED dropped
    \/ /\ FALSE \in Answers
       /\ dropped' = dropped \cup {t}
       /\ UNCHANGED <<blacklist, revoked>>

\* addToBlacklist: SET with EX, or nothing.
AddToBlacklist(t) ==
    \/ /\ blacklist' = [blacklist EXCEPT ![t] = now + BlacklistTTL]
       /\ revoked' = revoked \cup {t}
       /\ UNCHANGED dropped
    \/ /\ FALSE \in Answers
       /\ dropped' = dropped \cup {t}
       /\ UNCHANGED <<blacklist, revoked>>

-----------------------------------------------------------------------------
\* login up to updateRefreshToken: the password is right and the account may
\* sign in.  register continues in the same way for the user it created.
Login(r, u, t) ==
    /\ Is(r, "idle")
    /\ GenerateTokens(t, u)
    /\ job' = [job EXCEPT ![r] = [Idle EXCEPT !.op = "store", !.user = u, !.issued = t]]
    /\ UNCHANGED <<now, delivered, hashed, blacklist, history>>

\* updateRefreshToken, for login and refresh: one findByIdAndUpdate.
Store(r) ==
    /\ Is(r, "store")
    /\ hashed' = [hashed EXCEPT ![job[r].user] = job[r].issued]
    /\ loggedOut' = IF job[r].token = NoToken
                      THEN loggedOut \ {job[r].user} ELSE loggedOut
    /\ job' = [job EXCEPT ![r].op = "reply"]
    /\ UNCHANGED <<now, pair, delivered, blacklist, revoked, dropped, broken, foreign,
                   exchanged>>

\* The client has the new pair.
Reply(r) ==
    /\ Is(r, "reply")
    /\ delivered' = delivered \cup {job[r].issued}
    /\ exchanged' = exchanged \cup ({job[r].token} \ {NoToken})
    /\ Finish(r)
    /\ UNCHANGED <<now, pair, hashed, blacklist, revoked, dropped, broken, foreign,
                   loggedOut>>

-----------------------------------------------------------------------------
\* refreshToken: verify, which awaits nobody else, and the look at Redis.
RefreshCheck(r, t) ==
    /\ Is(r, "idle")
    /\ t \in delivered
    /\ Alive(t, RefreshLife)
    /\ \E redis \in Answers :
         /\ ~ IsBlacklisted(t, redis)
         /\ job' = [job EXCEPT ![r] = [Idle EXCEPT !.op = "refresh", !.token = t,
                                         !.user = pair[t].sub, !.redis = redis]]
    /\ UNCHANGED <<now, tokenVars, history>>

\* The user's hash is read and compared with the token.
RefreshMatch(r) ==
    LET h == hashed[job[r].user]
    IN  /\ Is(r, "refresh")
        /\ IF h # NoToken /\ Matches(job[r].token, h)
             THEN job' = [job EXCEPT ![r].op = "refreshRevoke"]
             ELSE Finish(r)
        /\ UNCHANGED <<now, tokenVars, history>>

\* Mutant of RefreshRevoke: the old pair is not revoked.
RefreshRevokeNothing(r, t) ==
    /\ Is(r, "refreshRevoke")
    /\ GenerateTokens(t, job[r].user)
    /\ job' = [job EXCEPT ![r].op = "store", ![r].issued = t]
    /\ UNCHANGED <<now, delivered, hashed, blacklist, history>>

\* The presented pair is revoked, then a new one is made.
RefreshRevoke(r, t) ==
    /\ Is(r, "refreshRevoke")
    /\ AddToBlacklist(job[r].token)
    /\ GenerateTokens(t, job[r].user)
    /\ job' = [job EXCEPT ![r].op = "store", ![r].issued = t]
    /\ UNCHANGED <<now, delivered, hashed, broken, foreign, exchanged, loggedOut>>

-----------------------------------------------------------------------------
\* JwtStrategy.validate, before the handler of a protected route.
Authenticate(r, t) ==
    /\ Is(r, "idle")
    /\ t \in delivered
    /\ Alive(t, AccessLife)
    /\ \E redis \in Answers :
         /\ ~ IsBlacklisted(t, redis)
         /\ job' = [job EXCEPT ![r] = [Idle EXCEPT !.op = "authenticated", !.token = t,
                                         !.user = pair[t].sub, !.redis = redis]]
    /\ UNCHANGED <<now, tokenVars, history>>

\* Any other protected route: nothing here changes.
Serve(r) ==
    /\ Is(r, "authenticated")
    /\ Finish(r)
    /\ UNCHANGED <<now, tokenVars, history>>

\* logout: whatever jti the body's token names is blacklisted.  It is decoded
\* and not verified, it may have expired, and nobody asks whose it is.  A jti is
\* drawn at random, so it is one of a pair somebody was given; NoToken is a body
\* that cannot be decoded, or names the jti of no pair.
LogoutRevoke(r, t) ==
    /\ Is(r, "authenticated")
    /\ IF t = NoToken
         THEN UNCHANGED <<blacklist, revoked, dropped, foreign>>
         ELSE /\ t \in delivered
              /\ AddToBlacklist(t)
              /\ foreign' = IF pair[t].sub = job[r].user THEN foreign ELSE foreign \cup {t}
    /\ job' = [job EXCEPT ![r].op = "logoutClear", ![r].token = t]
    /\ UNCHANGED <<now, pair, delivered, hashed, broken, exchanged, loggedOut>>

\* Mutant of LogoutClear: logout relies on the blacklist alone.
LogoutClearNothing(r) ==
    /\ Is(r, "logoutClear")
    /\ loggedOut' = loggedOut \cup {job[r].user}
    /\ Finish(r)
    /\ UNCHANGED <<now, tokenVars, revoked, dropped, broken, foreign, exchanged>>

\* updateRefreshToken(userId, null)
LogoutClear(r) ==
    /\ Is(r, "logoutClear")
    /\ hashed' = [hashed EXCEPT ![job[r].user] = NoToken]
    /\ loggedOut' = loggedOut \cup {job[r].user}
    /\ Finish(r)
    /\ UNCHANGED <<now, pair, delivered, blacklist, revoked, dropped, broken, foreign,
                   exchanged>>

-----------------------------------------------------------------------------
\* The request dies where it stands: an await throws, its instance crashes.
Drop(r) ==
    /\ ~ Is(r, "idle")
    /\ broken' = IF job[r].op \in {"store", "logoutClear"} /\ job[r].token # NoToken
                   THEN broken \cup {job[r].token} ELSE broken
    /\ Finish(r)
    /\ UNCHANGED <<now, tokenVars, revoked, dropped, foreign, exchanged, loggedOut>>

Tick ==
    /\ now < MaxTime
    /\ now' = now + 1
    /\ UNCHANGED <<tokenVars, job, history>>

Step(r) ==
    \/ Store(r) \/ Reply(r)
    \/ RefreshMatch(r) \/ \E t \in Tokens : RefreshRevoke(r, t)
    \/ Serve(r) \/ LogoutClear(r) \/ \E t \in Tokens \cup {NoToken} : LogoutRevoke(r, t)

Arrive(r) ==
    \/ \E u \in Users, t \in Tokens : Login(r, u, t)
    \/ \E t \in Tokens : RefreshCheck(r, t) \/ Authenticate(r, t)

Next ==
    \/ \E r \in Requests : Arrive(r) \/ Step(r) \/ Drop(r)
    \/ Tick

Spec == Init /\ [][Next]_vars
-----------------------------------------------------------------------------
\* Type invariant: what the stores and the requests' local state hold.
TypeOK ==
    /\ now \in 0 .. MaxTime
    /\ pair \in [Tokens -> Pair]
    /\ delivered \in SUBSET Tokens
    /\ hashed \in [Users -> Tokens \cup {NoToken}]
    /\ blacklist \in [Tokens -> Nat]
    /\ job \in [Requests -> Job]
    /\ revoked \in SUBSET Tokens
    /\ dropped \in SUBSET Tokens
    /\ broken \in SUBSET Tokens
    /\ foreign \in SUBSET Tokens
    /\ exchanged \in SUBSET Tokens
    /\ loggedOut \in SUBSET Users

\* A revoked pair is never honoured again by a check that Redis answers,
\* neither its refresh nor its access token, however late it is presented: the
\* blacklist key outlives both tokens.
RevokedIsRefused ==
    [][\A r \in Requests :
         /\ job[r].op = "idle"
         /\ job'[r].op \in {"refresh", "authenticated"}
         /\ job'[r].redis
         => job'[r].token \notin revoked]_vars

\* Whoever got a new pair for an old one had the old one revoked before, or
\* Redis was away at that moment: refreshToken blacklists before it issues, and
\* a crash in between costs the session, never the revocation.
ExchangedIsRevoked == exchanged \subseteq revoked \cup dropped

\* No user's own requests leave that user with a stored token that is refused.
\* A stored token is revoked only while the request that revoked it is about to
\* replace it, or when that request broke off in between, or when the logout of
\* another user named it, which nothing in logout prevents.
StoredIsLive ==
    \A u \in Users :
        hashed[u] \in revoked \ (broken \cup foreign) =>
            \E r \in Requests : /\ job[r].op \in {"store", "logoutClear"}
                                /\ job[r].user = u
                                /\ job[r].token = hashed[u]

\* Stated by the code or its docs, and not so (see README, findings).
\* 'Logout and invalidate active refresh token': nothing that can be refreshed
\* is stored for a user who logged out and has not logged in since.
LoggedOutHasNone == \A u \in loggedOut : hashed[u] = NoToken
=============================================================================
