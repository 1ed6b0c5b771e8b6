--------------------------- MODULE SessionsProofs ---------------------------
(***************************************************************************)
(* What MCSessions checks on two users and two pairs of tokens, for any    *)
(* number of users, requests and pairs, any lifetimes and any clock.       *)
(*                                                                         *)
(*   Shape    the types, and whose pair a request presents or makes: a     *)
(*            pair is made by one request, and nobody has it before that   *)
(*            request has answered; only the pair a logout names may be    *)
(*            of another user than the one who asks;                       *)
(*   Covered  the blacklist key of a revoked pair outlives the pair;       *)
(*   Spent    a request that makes a pair for another has revoked that;    *)
(*   Live     a stored token is not a revoked one, with the exceptions     *)
(*            StoredIsLive names.                                          *)
(*                                                                         *)
(* Then the same of PasswordReset, for any number of one-time passwords    *)
(* and resets: a reset begins only with the one-time password stored last, *)
(* never with one that a reset has deleted, and the sessions' properties   *)
(* hold beside resets.                                                     *)
(*                                                                         *)
(*   ResetShape    the types, and that the key of a user holds the one     *)
(*                 made last for that user, and none that is spent.        *)
(***************************************************************************)
EXTENDS PasswordReset, TLAPS

Making == {"store", "reply"}

\* What the job j of a request knows of the pairs p and the deliveries d.
JobShape(j, p, d) ==
    /\ j.op # "idle" => j.user \in Users
    /\ j.token # NoToken => /\ j.token \in d
                            /\ j.op # "logoutClear" => p[j.token].sub = j.user
    /\ j.op \in {"refresh", "refreshRevoke"} => j.token # NoToken
    /\ j.op \in Making => j.issued \in Tokens \ d /\ p[j.issued].sub = j.user

\* Everything but the jobs.
StoreOK ==
    /\ now \in 0 .. MaxTime
    /\ pair \in [Tokens -> Pair]
    /\ delivered \in SUBSET Tokens
    /\ hashed \in [Users -> Tokens \cup {NoToken}]
    /\ blacklist \in [Tokens -> Nat]
    /\ revoked \in SUBSET Tokens
    /\ dropped \in SUBSET Tokens
    /\ broken \in SUBSET Tokens /\ foreign \in SUBSET Tokens
    /\ exchanged \in SUBSET Tokens
    /\ loggedOut \in SUBSET Users
    /\ \A t \in Tokens : pair[t].iat <= now
    /\ \A t \in delivered : pair[t].sub \in Users
    /\ \A u \in Users : hashed[u] # NoToken => pair[hashed[u]].sub = u

Shape ==
    /\ StoreOK
    /\ job \in [Requests -> Job]
    /\ \A r \in Requests : JobShape(job[r], pair, delivered)
    /\ \A r, q \in Requests :
         r # q /\ job[r].op \in Making /\ job[q].op \in Making =>
           job[r].issued # job[q].issued

-----------------------------------------------------------------------------
\* A request that has nothing to do presents and makes nothing.
LEMMA IdleShape ==
    /\ Idle \in Job
    /\ Idle.op \notin Making
    /\ \A p, d : JobShape(Idle, p, d)
BY DEF Idle, Job, Ops, Making, JobShape

\* What is known of a request in the middle of something.
LEMMA InHand ==
    ASSUME Shape, NEW r \in Requests
    PROVE  /\ job[r] \in Job
           /\ job[r].token \in Tokens \cup {NoToken}
           /\ job[r].issued \in Tokens \cup {NoToken}
           /\ job[r].op # "idle" => job[r].user \in Users
           /\ job[r].token # NoToken =>
                /\ job[r].token \in delivered /\ job[r].token \in Tokens
                /\ job[r].op # "logoutClear" => pair[job[r].token].sub = job[r].user
           /\ job[r].op \in {"refresh", "refreshRevoke"} => job[r].token # NoToken
           /\ job[r].op \in Making =>
                /\ job[r].issued \in Tokens /\ job[r].issued \notin delivered
                /\ pair[job[r].issued].sub = job[r].user
<1>1. job[r] \in Job /\ JobShape(job[r], pair, delivered)
  BY DEF Shape
<1>2. job[r].token \in Tokens \cup {NoToken} /\ job[r].issued \in Tokens \cup {NoToken}
  BY <1>1 DEF Job
<1> QED BY <1>1, <1>2 DEF JobShape

\* A step of one request that signs no pair twice, delivers only its own, and
\* leaves that request in shape keeps Shape.
LEMMA ShapeStep ==
    ASSUME Shape, NEW r \in Requests, NEW j \in Job, StoreOK',
           job' = [job EXCEPT ![r] = j],
           \A t \in Tokens : pair[t].sub \in Users => pair'[t] = pair[t],
           delivered \subseteq delivered',
           JobShape(j, pair', delivered'),
           \A q \in Requests \ {r} : job[q].op \in Making =>
              job[q].issued \notin delivered' \ delivered,
           j.op \in Making => \A q \in Requests \ {r} :
              job[q].op \in Making => job[q].issued # j.issued
    PROVE  Shape'
<1>1. job' \in [Requests -> Job] /\ job'[r] = j
      /\ \A q \in Requests \ {r} : job'[q] = job[q]
  BY DEF Shape
<1>2. ASSUME NEW q \in Requests PROVE JobShape(job'[q], pair', delivered')
  <2>1. CASE q = r
    BY <1>1, <2>1
  <2>2. CASE q # r
    <3>1. job'[q] = job[q]
      BY <1>1, <2>2
    <3>2. job[q].token # NoToken =>
            /\ job[q].token \in delivered'
            /\ job[q].op # "logoutClear" => pair'[job[q].token].sub = job[q].user
      BY InHand DEF Shape, StoreOK
    <3>3. job[q].op \in Making =>
            /\ job[q].issued \in Tokens \ delivered'
            /\ pair'[job[q].issued].sub = job[q].user
      <4>1. job[q].op \in Making => job[q].op # "idle"
        BY DEF Making
      <4> QED BY <2>2, <4>1, InHand
    <3> QED BY <3>1, <3>2, <3>3, InHand DEF JobShape
  <2> QED BY <2>1, <2>2
<1>3. ASSUME NEW p \in Requests, NEW q \in Requests, p # q,
             job'[p].op \in Making, job'[q].op \in Making
      PROVE  job'[p].issued # job'[q].issued
  <2>1. CASE p = r
    BY <1>1, <1>3, <2>1
  <2>2. CASE q = r
    BY <1>1, <1>3, <2>2
  <2>3. CASE p # r /\ q # r
    BY <1>1, <1>3, <2>3 DEF Shape
  <2> QED BY <2>1, <2>2, <2>3
<1> QED BY <1>1, <1>2, <1>3 DEF Shape

\* A step that ends what a request was doing.
LEMMA ShapeFinish ==
    ASSUME Shape, NEW r \in Requests, StoreOK', Finish(r), UNCHANGED pair,
           delivered \subseteq delivered',
           \A q \in Requests \ {r} : job[q].op \in Making =>
              job[q].issued \notin delivered' \ delivered
    PROVE  Shape'
<1>1. job' = [job EXCEPT ![r] = Idle]
  BY DEF Finish
<1> QED BY <1>1, IdleShape, ShapeStep

\* A step that moves a request on, and nothing else.
LEMMA ShapeGoto ==
    ASSUME Shape, NEW r \in Requests, NEW j \in Job, StoreOK',
           job' = [job EXCEPT ![r] = j],
           j.user = job[r].user, j.token = job[r].token, j.issued = job[r].issued,
           job[r].op # "idle", job[r].op # "logoutClear",
           j.op \in {"refresh", "refreshRevoke"} => job[r].token # NoToken,
           j.op \in Making => job[r].op \in Making,
           UNCHANGED <<pair, delivered>>
    PROVE  Shape'
<1>1. JobShape(j, pair', delivered')
  BY InHand DEF JobShape
<1>2. j.op \in Making => \A q \in Requests \ {r} :
        job[q].op \in Making => job[q].issued # j.issued
  BY DEF Shape
<1> QED BY <1>1, <1>2, ShapeStep

\* A pair signed by a step did not exist: nobody has it, makes it or stores it.
LEMMA Generated ==
    ASSUME Shape, NEW t \in Tokens, NEW u \in Users, GenerateTokens(t, u)
    PROVE  /\ pair' \in [Tokens -> Pair]
           /\ pair'[t].sub = u /\ pair'[t].iat = now
           /\ \A s \in Tokens \ {t} : pair'[s] = pair[s]
           /\ \A s \in Tokens : pair[s].sub \in Users => pair'[s] = pair[s]
           /\ t \notin delivered
           /\ \A v \in Users : hashed[v] # t
           /\ \A q \in Requests : job[q].op \in Making => job[q].issued # t
<1>1. now \in Nat /\ [sub |-> u, iat |-> now] \in Pair
  BY SessionAssumption DEF Shape, StoreOK, Pair
<1>2. /\ pair' \in [Tokens -> Pair]
      /\ pair'[t] = [sub |-> u, iat |-> now]
      /\ \A s \in Tokens \ {t} : pair'[s] = pair[s]
  BY <1>1 DEF GenerateTokens, Shape, StoreOK
<1>3. pair[t].sub \notin Users
  BY SessionAssumption DEF GenerateTokens, Unsigned
<1>4. t \notin delivered /\ \A v \in Users : hashed[v] # t
  BY <1>3, SessionAssumption DEF Shape, StoreOK
<1>5. ASSUME NEW q \in Requests, job[q].op \in Making PROVE job[q].issued # t
  <2>1. job[q].op # "idle"
    BY <1>5 DEF Making
  <2> QED BY <1>3, <1>5, <2>1, InHand
<1> QED BY <1>2, <1>3, <1>4, <1>5

\* The stores stay in order while a pair is signed.
LEMMA GeneratedStore ==
    ASSUME Shape, NEW t \in Tokens, NEW u \in Users, GenerateTokens(t, u),
           UNCHANGED <<now, delivered, hashed, broken, foreign, exchanged, loggedOut>>,
           blacklist' \in [Tokens -> Nat],
           revoked' \in SUBSET Tokens, dropped' \in SUBSET Tokens
    PROVE  StoreOK'
<1>1. now \in Int /\ \A s \in Tokens : pair'[s].iat <= now
  BY Generated, SessionAssumption DEF Shape, StoreOK
<1>2. \A s \in delivered : pair'[s].sub \in Users
  BY Generated DEF Shape, StoreOK
<1>3. \A v \in Users : hashed[v] # NoToken => pair'[hashed[v]].sub = v
  BY Generated DEF Shape, StoreOK
<1>4. pair' \in [Tokens -> Pair]
  BY Generated
<1> QED BY <1>1, <1>2, <1>3, <1>4 DEF Shape, StoreOK

\* What a write to the blacklist does, with Redis there or away.
LEMMA Blacklisted ==
    ASSUME StoreOK, NEW t \in Tokens, AddToBlacklist(t)
    PROVE  /\ blacklist' \in [Tokens -> Nat]
           /\ revoked' \in SUBSET Tokens /\ dropped' \in SUBSET Tokens
           /\ revoked \subseteq revoked' /\ dropped \subseteq dropped'
           /\ revoked' \subseteq revoked \cup {t}
           /\ t \in revoked' \cup dropped'
           /\ \A s \in Tokens \ {t} : blacklist'[s] = blacklist[s]
           /\ \/ blacklist'[t] = now + BlacklistTTL
              \/ revoked' = revoked /\ blacklist'[t] = blacklist[t]
<1>1. now \in Nat /\ now + BlacklistTTL \in Nat
  BY SessionAssumption DEF StoreOK
<1> QED BY <1>1 DEF AddToBlacklist, StoreOK

-----------------------------------------------------------------------------
\* Initially nothing is signed, delivered or stored.
LEMMA InitShape == Init => Shape
<1> SUFFICES ASSUME Init PROVE Shape
  OBVIOUS
<1>1. Unsigned \in Pair /\ Unsigned.iat = 0
  BY DEF Unsigned, Pair
<1>2. StoreOK
  BY <1>1, SessionAssumption DEF Init, StoreOK
<1> QED BY <1>2, IdleShape DEF Init, Shape

\* A login signs a pair and will store it.
LEMMA ShapeLogin ==
    ASSUME Shape, NEW r \in Requests, NEW u \in Users, NEW t \in Tokens, Login(r, u, t)
    PROVE  Shape'
<1> DEFINE j == [Idle EXCEPT !.op = "store", !.user = u, !.issued = t]
<1>1. /\ j \in Job /\ j.op = "store" /\ j.user = u /\ j.issued = t
      /\ j.token = NoToken
  BY DEF Idle, Job, Ops
<1>2. /\ job' = [job EXCEPT ![r] = j] /\ GenerateTokens(t, u)
      /\ UNCHANGED <<now, delivered, hashed, blacklist, revoked, dropped, broken,
                     foreign, exchanged, loggedOut>>
  BY DEF Login, history
<1> HIDE DEF j
<1>3. StoreOK'
  BY <1>2, GeneratedStore DEF Shape, StoreOK
<1>4. JobShape(j, pair', delivered')
  BY <1>1, <1>2, Generated DEF JobShape
<1> QED BY <1>1, <1>2, <1>3, <1>4, Generated, ShapeStep

\* A token was presented and let through, to be refreshed or to call a route.
LEMMA ShapeCheck ==
    ASSUME Shape, NEW r \in Requests, NEW t \in delivered,
           NEW op \in {"refresh", "authenticated"}, NEW redis \in BOOLEAN,
           job' = [job EXCEPT ![r] = [Idle EXCEPT !.op = op, !.token = t,
                                        !.user = pair[t].sub, !.redis = redis]],
           UNCHANGED <<now, tokenVars, history>>
    PROVE  Shape'
<1> DEFINE j == [Idle EXCEPT !.op = op, !.token = t,
                             !.user = pair[t].sub, !.redis = redis]
<1>1. t \in Tokens /\ pair[t].sub \in Users /\ StoreOK'
  BY DEF Shape, StoreOK, tokenVars, history
<1>2. /\ j \in Job /\ j.op = op /\ j.user = pair[t].sub /\ j.token = t
  BY <1>1 DEF Idle, Job, Ops
<1>3. job' = [job EXCEPT ![r] = j] /\ pair' = pair /\ delivered' = delivered
  BY DEF tokenVars
<1>4. t # NoToken /\ op \notin Making
  BY <1>1, SessionAssumption DEF Making
<1> HIDE DEF j
<1>5. JobShape(j, pair', delivered')
  BY <1>1, <1>2, <1>3, <1>4 DEF JobShape
<1> QED BY <1>1, <1>2, <1>3, <1>4, <1>5, ShapeStep

\* Presenting a token keeps Shape.
LEMMA ShapeArrive ==
    ASSUME Shape, NEW r \in Requests, Arrive(r)
    PROVE  Shape'
<1>1. ASSUME NEW u \in Users, NEW t \in Tokens, Login(r, u, t)
      PROVE  Shape'
  BY <1>1, ShapeLogin
<1>2. Answers \subseteq BOOLEAN
  BY DEF Answers
<1>3. ASSUME NEW t \in Tokens, RefreshCheck(r, t)
      PROVE  Shape'
  BY <1>2, <1>3, ShapeCheck DEF RefreshCheck
<1>4. ASSUME NEW t \in Tokens, Authenticate(r, t)
      PROVE  Shape'
  BY <1>2, <1>4, ShapeCheck DEF Authenticate
<1> QED BY <1>1, <1>3, <1>4 DEF Arrive

-----------------------------------------------------------------------------
\* Storing the new pair's hash: it is a pair of that user.
LEMMA ShapeStore ==
    ASSUME Shape, NEW r \in Requests, Store(r)
    PROVE  Shape'
<1> DEFINE j == [job[r] EXCEPT !.op = "reply"]
<1>1. job[r].op = "store" /\ job[r].op # "idle" /\ job[r].op \in Making
  BY DEF Store, Is, Making
<1>2. /\ job[r].user \in Users /\ job[r].issued \in Tokens
      /\ pair[job[r].issued].sub = job[r].user
  BY <1>1, InHand
<1>3. StoreOK'
  <2>1. hashed' \in [Users -> Tokens \cup {NoToken}]
    BY <1>2 DEF Store, Shape, StoreOK
  <2>2. loggedOut' \in SUBSET Users
    BY DEF Store, Shape, StoreOK
  <2>3. \A u \in Users : hashed'[u] # NoToken => pair[hashed'[u]].sub = u
    BY <1>2 DEF Store, Shape, StoreOK
  <2> QED BY <2>1, <2>2, <2>3 DEF Store, Shape, StoreOK
<1>4. /\ j \in Job /\ j.op = "reply" /\ j.user = job[r].user
      /\ j.token = job[r].token /\ j.issued = job[r].issued
  BY InHand DEF Job, Ops
<1>5. job' = [job EXCEPT ![r] = j] /\ UNCHANGED <<pair, delivered>>
  BY DEF Store
<1> HIDE DEF j
<1> QED BY <1>1, <1>3, <1>4, <1>5, ShapeGoto

\* The answer delivers the pair this request made, which no other makes.
LEMMA ShapeReply ==
    ASSUME Shape, NEW r \in Requests, Reply(r)
    PROVE  Shape'
<1>1. job[r].op \in Making /\ job[r].op # "idle"
  BY DEF Reply, Is, Making
<1>2. /\ job[r].user \in Users /\ job[r].issued \in Tokens
      /\ pair[job[r].issued].sub = job[r].user
  BY <1>1, InHand
<1>3. /\ delivered' = delivered \cup {job[r].issued}
      /\ UNCHANGED <<now, pair, hashed, blacklist, revoked, dropped, broken, foreign,
                     loggedOut>>
      /\ Finish(r)
  BY DEF Reply
<1>4. exchanged' \in SUBSET Tokens
  BY InHand DEF Reply, Shape, StoreOK
<1>5. StoreOK'
  BY <1>2, <1>3, <1>4 DEF Shape, StoreOK
<1>6. \A q \in Requests \ {r} : job[q].op \in Making =>
        job[q].issued \notin delivered' \ delivered
  BY <1>1, <1>3 DEF Shape
<1> QED BY <1>3, <1>5, <1>6, ShapeFinish

\* Comparing with the stored hash changes the request alone.
LEMMA ShapeMatch ==
    ASSUME Shape, NEW r \in Requests, RefreshMatch(r)
    PROVE  Shape'
<1> DEFINE j == [job[r] EXCEPT !.op = "refreshRevoke"]
<1>1. job[r].op = "refresh" /\ job[r].op # "idle"
  BY DEF RefreshMatch, Is
<1>2. job[r].user \in Users /\ job[r].token # NoToken
  BY <1>1, InHand
<1>3. StoreOK' /\ UNCHANGED <<pair, delivered>>
  BY DEF RefreshMatch, Shape, StoreOK, tokenVars, history
<1>4. /\ j \in Job /\ j.op = "refreshRevoke" /\ j.user = job[r].user
      /\ j.token = job[r].token /\ j.issued = job[r].issued
  BY InHand DEF Job, Ops
<1>5. job' = [job EXCEPT ![r] = j] \/ Finish(r)
  BY DEF RefreshMatch
<1> HIDE DEF j
<1>6. CASE Finish(r)
  BY <1>3, <1>6, ShapeFinish
<1>7. CASE job' = [job EXCEPT ![r] = j]
  BY <1>1, <1>2, <1>3, <1>4, <1>7, ShapeGoto DEF Making
<1> QED BY <1>5, <1>6, <1>7

\* A refresh revokes what was presented and signs a pair for the same user.
LEMMA ShapeRevoke ==
    ASSUME Shape, NEW r \in Requests, NEW t \in Tokens, RefreshRevoke(r, t)
    PROVE  Shape'
<1> DEFINE j == [job[r] EXCEPT !.op = "store", !.issued = t]
<1>1. job[r].op = "refreshRevoke" /\ job[r].op # "idle"
  BY DEF RefreshRevoke, Is
<1>2. /\ job[r].user \in Users /\ job[r].token \in Tokens
      /\ job[r].token \in delivered /\ pair[job[r].token].sub = job[r].user
  BY <1>1, InHand
<1>3. /\ AddToBlacklist(job[r].token) /\ GenerateTokens(t, job[r].user)
      /\ job' = [job EXCEPT ![r] = j]
      /\ UNCHANGED <<now, delivered, hashed, broken, foreign, exchanged, loggedOut>>
  BY DEF RefreshRevoke
<1>4. /\ j \in Job /\ j.op = "store" /\ j.user = job[r].user
      /\ j.token = job[r].token /\ j.issued = t
  BY InHand DEF Job, Ops
<1> HIDE DEF j
<1>5. StoreOK'
  <2>1. /\ blacklist' \in [Tokens -> Nat]
        /\ revoked' \in SUBSET Tokens /\ dropped' \in SUBSET Tokens
    BY <1>2, <1>3, Blacklisted DEF Shape
  <2> QED BY <1>2, <1>3, <2>1, GeneratedStore
<1>6. JobShape(j, pair', delivered')
  BY <1>2, <1>3, <1>4, Generated DEF JobShape
<1> QED BY <1>2, <1>3, <1>4, <1>5, <1>6, Generated, ShapeStep

\* A logout blacklists a pair somebody has, whoever it is, or none.
LEMMA ShapeLogout ==
    ASSUME Shape, NEW r \in Requests, NEW t \in Tokens \cup {NoToken},
           LogoutRevoke(r, t)
    PROVE  Shape'
<1> DEFINE j == [job[r] EXCEPT !.op = "logoutClear", !.token = t]
<1>1. job[r].op # "idle" /\ job[r].user \in Users
  BY InHand DEF LogoutRevoke, Is
<1>2. /\ j \in Job /\ j.op = "logoutClear" /\ j.user = job[r].user
      /\ j.token = t
  BY InHand DEF Job, Ops
<1>3. /\ job' = [job EXCEPT ![r] = j]
      /\ UNCHANGED <<now, pair, delivered, hashed, broken, exchanged, loggedOut>>
      /\ t # NoToken => t \in delivered /\ AddToBlacklist(t)
      /\ t = NoToken => UNCHANGED <<blacklist, revoked, dropped>>
  BY DEF LogoutRevoke
<1> HIDE DEF j
<1>4. /\ blacklist' \in [Tokens -> Nat]
      /\ revoked' \in SUBSET Tokens /\ dropped' \in SUBSET Tokens
      /\ foreign' \in SUBSET Tokens
  <2>1. foreign' \subseteq foreign \cup delivered
    BY DEF LogoutRevoke
  <2>2. CASE t = NoToken
    BY <1>3, <2>1, <2>2 DEF Shape, StoreOK
  <2>3. CASE t # NoToken
    BY <1>3, <2>1, <2>3, Blacklisted DEF Shape, StoreOK
  <2> QED BY <2>2, <2>3
<1>5. StoreOK'
  BY <1>3, <1>4 DEF Shape, StoreOK
<1>6. JobShape(j, pair', delivered') /\ j.op \notin Making
  BY <1>1, <1>2, <1>3 DEF JobShape, Making
<1> QED BY <1>2, <1>3, <1>5, <1>6, ShapeStep

\* The last step of a logout, of another route, or of a request that dies.
LEMMA ShapeEnd ==
    ASSUME Shape, NEW r \in Requests, LogoutClear(r) \/ Serve(r) \/ Drop(r)
    PROVE  Shape'
<1>1. CASE LogoutClear(r)
  <2>1. job[r].user \in Users
    BY <1>1, InHand DEF LogoutClear, Is
  <2>2. StoreOK' /\ Finish(r) /\ UNCHANGED <<pair, delivered>>
    BY <1>1, <2>1 DEF LogoutClear, Shape, StoreOK
  <2> QED BY <2>2, ShapeFinish
<1>2. CASE Serve(r)
  <2>1. StoreOK' /\ Finish(r) /\ UNCHANGED <<pair, delivered>>
    BY <1>2 DEF Serve, Shape, StoreOK, tokenVars, history
  <2> QED BY <2>1, ShapeFinish
<1>3. CASE Drop(r)
  <2>1. broken' \in SUBSET Tokens
    BY <1>3, InHand DEF Drop, Shape, StoreOK
  <2>2. StoreOK' /\ Finish(r) /\ UNCHANGED <<pair, delivered>>
    BY <1>3, <2>1 DEF Drop, Shape, StoreOK, tokenVars
  <2> QED BY <2>2, ShapeFinish
<1> QED BY <1>1, <1>2, <1>3

\* Time passes below the bound; what was signed was signed before.
LEMMA ShapeTick ==
    ASSUME Shape, Tick
    PROVE  Shape'
<1>1. /\ now' \in 0 .. MaxTime /\ now <= now' /\ now \in Int /\ now' \in Int
      /\ UNCHANGED <<pair, delivered, hashed, blacklist, job, revoked, dropped,
                     broken, foreign, exchanged, loggedOut>>
  BY SessionAssumption DEF Tick, Shape, StoreOK, tokenVars, history
<1>2. \A t \in Tokens : pair'[t].iat <= now'
  <2> SUFFICES ASSUME NEW t \in Tokens PROVE pair'[t].iat <= now'
    OBVIOUS
  <2>1. pair[t].iat \in Int /\ pair[t].iat <= now
    BY DEF Shape, StoreOK, Pair
  <2> QED BY <1>1, <2>1
<1>3. StoreOK'
  BY <1>1, <1>2 DEF Shape, StoreOK
<1> QED BY <1>1, <1>3 DEF Shape

\* Every step keeps Shape.
LEMMA ShapeNext == Shape /\ [Next]_vars => Shape'
<1> SUFFICES ASSUME Shape, [Next]_vars PROVE Shape'
  OBVIOUS
<1>1. CASE UNCHANGED vars
  BY <1>1 DEF Shape, StoreOK, vars
<1>2. CASE Tick
  BY <1>2, ShapeTick
<1>3. ASSUME NEW r \in Requests, Arrive(r) PROVE Shape'
  BY <1>3, ShapeArrive
<1>4. ASSUME NEW r \in Requests, Step(r) PROVE Shape'
  BY <1>4, ShapeStore, ShapeReply, ShapeMatch, ShapeRevoke, ShapeEnd, ShapeLogout
     DEF Step
<1>5. ASSUME NEW r \in Requests, Drop(r) PROVE Shape'
  BY <1>5, ShapeEnd
<1> QED BY <1>1, <1>2, <1>3, <1>4, <1>5 DEF Next

\* Shape holds of every state of the sessions.
LEMMA ShapeInvariant == Spec => []Shape
BY InitShape, ShapeNext, PTL DEF Spec

\* The stores and the requests keep their types, for any number of users,
\* requests and pairs.
THEOREM TypeCorrect == Spec => []TypeOK
<1>1. Shape => TypeOK
  BY DEF Shape, StoreOK, TypeOK
<1> QED BY <1>1, ShapeInvariant, PTL

-----------------------------------------------------------------------------
\* What every step does to the pairs, the deliveries and the blacklist.
LEMMA StepOfPairs ==
    ASSUME Shape, [Next]_vars
    PROVE  /\ delivered \subseteq delivered'
           /\ \A t \in delivered : pair'[t] = pair[t]
           /\ \/ UNCHANGED <<blacklist, revoked, dropped>>
              \/ \E k \in delivered : AddToBlacklist(k)
<1>1. \A t \in delivered : t \in Tokens /\ pair[t].sub \in Users
  BY DEF Shape, StoreOK
<1>2. CASE UNCHANGED vars
  BY <1>2 DEF vars
<1>3. CASE Tick
  BY <1>3 DEF Tick, tokenVars, history
<1>4. ASSUME NEW r \in Requests, NEW u \in Users, NEW t \in Tokens, Login(r, u, t)
      PROVE  /\ delivered' = delivered /\ \A s \in delivered : pair'[s] = pair[s]
             /\ UNCHANGED <<blacklist, revoked, dropped>>
  <2>1. GenerateTokens(t, u) /\ UNCHANGED <<delivered, blacklist, revoked, dropped>>
    BY <1>4 DEF Login, history
  <2> QED BY <1>1, <2>1, Generated
<1>5. ASSUME NEW r \in Requests, NEW t \in Tokens, RefreshRevoke(r, t)
      PROVE  /\ delivered' = delivered /\ \A s \in delivered : pair'[s] = pair[s]
             /\ \E k \in delivered : AddToBlacklist(k)
  <2>1. /\ job[r].op = "refreshRevoke" /\ GenerateTokens(t, job[r].user)
        /\ AddToBlacklist(job[r].token) /\ delivered' = delivered
    BY <1>5 DEF RefreshRevoke, Is
  <2>2. job[r].user \in Users /\ job[r].token \in delivered
    BY <2>1, InHand
  <2> QED BY <1>1, <2>1, <2>2, Generated
<1>6. ASSUME NEW r \in Requests, NEW t \in Tokens \cup {NoToken}, LogoutRevoke(r, t)
      PROVE  /\ UNCHANGED <<delivered, pair>>
             /\ \/ UNCHANGED <<blacklist, revoked, dropped>>
                \/ \E k \in delivered : AddToBlacklist(k)
  BY <1>6 DEF LogoutRevoke
<1>7. ASSUME NEW r \in Requests, Reply(r)
      PROVE  /\ delivered \subseteq delivered'
             /\ UNCHANGED <<pair, blacklist, revoked, dropped>>
  BY <1>7 DEF Reply
<1>8. ASSUME NEW r \in Requests,
             \/ \E t \in Tokens : RefreshCheck(r, t) \/ Authenticate(r, t)
             \/ Store(r) \/ RefreshMatch(r) \/ Serve(r) \/ LogoutClear(r) \/ Drop(r)
      PROVE  UNCHANGED <<delivered, pair, blacklist, revoked, dropped>>
  BY <1>8 DEF RefreshCheck, Authenticate, Store, RefreshMatch, Serve, LogoutClear,
              Drop, tokenVars, history
<1>9. ASSUME NEW r \in Requests, Arrive(r) \/ Step(r) \/ Drop(r)
      PROVE  /\ delivered \subseteq delivered'
             /\ \A t \in delivered : pair'[t] = pair[t]
             /\ \/ UNCHANGED <<blacklist, revoked, dropped>>
                \/ \E k \in delivered : AddToBlacklist(k)
  BY <1>4, <1>5, <1>6, <1>7, <1>8, <1>9 DEF Arrive, Step
<1> QED BY <1>2, <1>3, <1>9 DEF Next

\* A request's step leaves the other requests where they are.
LEMMA StepOfOne ==
    ASSUME Shape, NEW r \in Requests, Arrive(r) \/ Step(r) \/ Drop(r)
    PROVE  \A q \in Requests \ {r} : job'[q] = job[q]
<1>1. job \in [Requests -> Job]
  BY DEF Shape
<1> QED BY <1>1 DEF Arrive, Step, Drop, Login, RefreshCheck, Authenticate, Store, Reply,
      RefreshMatch, RefreshRevoke, Serve, LogoutRevoke, LogoutClear, Finish

-----------------------------------------------------------------------------
\* The key of a revoked pair is there as long as its refresh token is valid.
Covered ==
    /\ revoked \subseteq delivered
    /\ \A t \in revoked : blacklist[t] >= pair[t].iat + RefreshLife

\* addToBlacklist keeps the key for the whole of a refresh token's life, from
\* a moment at which the pair had already been signed.
LEMMA CoveredNext == Shape /\ Covered /\ [Next]_vars => Covered'
<1> SUFFICES ASSUME Shape, Covered, [Next]_vars PROVE Covered'
  OBVIOUS
<1>1. /\ delivered \subseteq delivered' /\ \A t \in delivered : pair'[t] = pair[t]
      /\ \/ UNCHANGED <<blacklist, revoked, dropped>>
         \/ \E k \in delivered : AddToBlacklist(k)
  BY StepOfPairs
<1>2. CASE UNCHANGED <<blacklist, revoked, dropped>>
  BY <1>1, <1>2 DEF Covered
<1>3. ASSUME NEW k \in delivered, AddToBlacklist(k) PROVE Covered'
  <2>1. StoreOK /\ k \in Tokens
    BY DEF Shape, StoreOK
  <2>2. /\ revoked' \subseteq revoked \cup {k}
        /\ \A s \in Tokens \ {k} : blacklist'[s] = blacklist[s]
        /\ \/ blacklist'[k] = now + BlacklistTTL
           \/ revoked' = revoked /\ blacklist'[k] = blacklist[k]
    BY <1>3, <2>1, Blacklisted
  <2>3. now \in Int /\ pair[k].iat \in Int /\ pair[k].iat <= now
    BY <2>1, SessionAssumption DEF StoreOK, Pair
  <2>4. now + BlacklistTTL >= pair[k].iat + RefreshLife
    BY <2>3, SessionAssumption
  <2>5. ASSUME NEW t \in revoked' PROVE blacklist'[t] >= pair'[t].iat + RefreshLife
    <3>1. CASE t # k
      BY <1>1, <2>1, <2>2, <2>5, <3>1 DEF Covered, StoreOK
    <3>2. CASE t = k
      BY <1>1, <2>2, <2>4, <2>5, <3>2 DEF Covered
    <3> QED BY <3>1, <3>2
  <2> QED BY <1>1, <2>2, <2>5 DEF Covered
<1> QED BY <1>1, <1>2, <1>3

\* A revoked pair is covered by its blacklist key for as long as it could be used.
LEMMA CoveredInvariant == Spec => []Covered
<1>1. Init => Covered
  BY DEF Init, Covered
<1> QED BY <1>1, CoveredNext, ShapeInvariant, PTL DEF Spec

\* What RevokedIsRefused says of a step of r.
Refused(r) ==
    /\ job[r].op = "idle"
    /\ job'[r].op \in {"refresh", "authenticated"}
    /\ job'[r].redis
    => job'[r].token \notin revoked

\* A check that Redis answers lets only pairs through that were never revoked.
LEMMA RefusedNext ==
    ASSUME Shape, Covered, [Next]_vars, NEW r \in Requests
    PROVE  Refused(r)
<1> SUFFICES ASSUME job[r].op = "idle", job'[r].op \in {"refresh", "authenticated"},
                    job'[r].redis
             PROVE  job'[r].token \notin revoked
  BY DEF Refused
<1>1. ASSUME NEW t \in delivered, NEW redis \in BOOLEAN, NEW op,
             ~ IsBlacklisted(t, redis),
             Alive(t, AccessLife) \/ Alive(t, RefreshLife),
             job' = [job EXCEPT ![r] = [Idle EXCEPT !.op = op, !.token = t,
                                         !.user = pair[t].sub, !.redis = redis]]
      PROVE  job'[r].token \notin revoked
  <2>1. job'[r].token = t /\ redis
    BY <1>1 DEF Shape, Idle
  <2>2. ~ (now < blacklist[t])
    BY <1>1, <2>1 DEF IsBlacklisted
  <2>3. now \in Int /\ pair[t].iat \in Int /\ blacklist[t] \in Int
    BY SessionAssumption DEF Shape, StoreOK, Pair
  <2>4. now < pair[t].iat + RefreshLife
    BY <1>1, <2>3, SessionAssumption DEF Alive
  <2>5. ~ (blacklist[t] >= pair[t].iat + RefreshLife)
    BY <2>2, <2>3, <2>4, SessionAssumption
  <2> QED BY <2>1, <2>5 DEF Covered
<1>2. Answers \subseteq BOOLEAN
  BY DEF Answers
<1>3. ASSUME NEW t \in Tokens, RefreshCheck(r, t) \/ Authenticate(r, t)
      PROVE  job'[r].token \notin revoked
  BY <1>1, <1>2, <1>3 DEF RefreshCheck, Authenticate
<1>4. ASSUME NEW u \in Users, NEW t \in Tokens, Login(r, u, t) PROVE FALSE
  BY <1>4 DEF Login, Shape, Idle
<1>5. ASSUME Step(r) \/ Drop(r) PROVE FALSE
  BY <1>5 DEF Step, Drop, Store, Reply, RefreshMatch, RefreshRevoke, Serve,
              LogoutClear, LogoutRevoke, Is
<1>6. job'[r] # job[r]
  OBVIOUS
<1>7. ASSUME NEW q \in Requests, Arrive(q) \/ Step(q) \/ Drop(q) PROVE q = r
  BY <1>6, <1>7, StepOfOne
<1>8. Arrive(r)
  <2>1. ~ UNCHANGED vars /\ ~ Tick
    BY <1>6 DEF vars, Tick
  <2> QED BY <1>5, <1>7, <2>1 DEF Next
<1> QED BY <1>3, <1>4, <1>8 DEF Arrive

\* For any lifetimes and clock: once a pair was written to the blacklist, no
\* check that Redis answers lets either of its tokens through again.
THEOREM RevokedRefused == Spec => RevokedIsRefused
<1>1. Shape /\ Covered /\ [Next]_vars =>
        [\A r \in Requests :
           /\ job[r].op = "idle"
           /\ job'[r].op \in {"refresh", "authenticated"}
           /\ job'[r].redis
           => job'[r].token \notin revoked]_vars
  BY RefusedNext DEF Refused
<1> QED BY <1>1, ShapeInvariant, CoveredInvariant, PTL DEF Spec, RevokedIsRefused

-----------------------------------------------------------------------------
\* A request that makes a pair for another has tried to revoke that one.
Spent ==
    /\ \A r \in Requests :
         job[r].op \in Making /\ job[r].token # NoToken =>
           job[r].token \in revoked \cup dropped
    /\ ExchangedIsRevoked

\* The step that begins to make a pair for another revokes that one, and the
\* answer is the only step that delivers.
LEMMA SpentNext == Shape /\ Spent /\ [Next]_vars => Spent'
<1> SUFFICES ASSUME Shape, Spent, [Next]_vars PROVE Spent'
  OBVIOUS
<1>1. revoked \subseteq revoked' /\ dropped \subseteq dropped'
  <2>1. ASSUME NEW k \in delivered, AddToBlacklist(k)
        PROVE  revoked \subseteq revoked' /\ dropped \subseteq dropped'
    BY <2>1, Blacklisted DEF Shape, StoreOK
  <2> QED BY <2>1, StepOfPairs
<1>2. CASE UNCHANGED vars
  BY <1>2 DEF vars, Spent, ExchangedIsRevoked
<1>3. CASE Tick
  BY <1>3 DEF Tick, tokenVars, history, Spent, ExchangedIsRevoked
<1>4. ASSUME NEW r \in Requests, Arrive(r) \/ Step(r) \/ Drop(r) PROVE Spent'
  <2>1. \A q \in Requests \ {r} : job'[q] = job[q]
    BY <1>4, StepOfOne
  <2>2. /\ job'[r].op \in Making /\ job'[r].token # NoToken =>
             job'[r].token \in revoked' \cup dropped'
        /\ ExchangedIsRevoked'
    <3>1. job \in [Requests -> Job] /\ exchanged \in SUBSET Tokens
      BY DEF Shape, StoreOK
    <3>2. ASSUME NEW u \in Users, NEW t \in Tokens, Login(r, u, t)
          PROVE  job'[r].token = NoToken /\ UNCHANGED exchanged
      BY <3>1, <3>2 DEF Login, Idle, history
    <3>3. ASSUME \E t \in Tokens : RefreshCheck(r, t) \/ Authenticate(r, t)
          PROVE  job'[r].op \notin Making /\ UNCHANGED exchanged
      BY <3>1, <3>3 DEF RefreshCheck, Authenticate, Idle, history, Making
    <3>4. ASSUME Store(r)
          PROVE  /\ UNCHANGED exchanged
                 /\ job[r].op \in Making /\ job'[r].token = job[r].token
      BY <3>1, <3>4 DEF Store, Is, Making
    <3>5. ASSUME Reply(r)
          PROVE  job'[r].op \notin Making /\ ExchangedIsRevoked'
      <4>1. job[r].op \in Making /\ job'[r].op \notin Making
        BY <3>1, <3>5 DEF Reply, Is, Finish, Idle, Making
      <4>2. exchanged' = exchanged \cup ({job[r].token} \ {NoToken})
        BY <3>5 DEF Reply
      <4> QED BY <1>1, <4>1, <4>2 DEF Spent, ExchangedIsRevoked
    <3>6. ASSUME RefreshMatch(r) \/ Serve(r) \/ LogoutClear(r) \/ Drop(r)
          PROVE  job'[r].op \notin Making /\ UNCHANGED exchanged
      <4>1. CASE RefreshMatch(r)
        BY <3>1, <4>1, InHand DEF RefreshMatch, Finish, Idle, Job, history, Making
      <4>2. CASE Serve(r) \/ LogoutClear(r) \/ Drop(r)
        BY <3>1, <4>2 DEF Serve, LogoutClear, Drop, Finish, Idle, history, Making
      <4> QED BY <3>6, <4>1, <4>2
    <3>7. ASSUME NEW t \in Tokens, RefreshRevoke(r, t)
          PROVE  job'[r].token \in revoked' \cup dropped' /\ UNCHANGED exchanged
      <4>1. /\ job[r].op = "refreshRevoke" /\ AddToBlacklist(job[r].token)
            /\ job'[r].token = job[r].token /\ UNCHANGED exchanged
        BY <3>1, <3>7 DEF RefreshRevoke, Is
      <4>2. job[r].token \in Tokens
        BY <4>1, InHand
      <4> QED BY <4>1, <4>2, Blacklisted DEF Shape
    <3>8. ASSUME NEW t \in Tokens \cup {NoToken}, LogoutRevoke(r, t)
          PROVE  job'[r].op \notin Making /\ UNCHANGED exchanged
      BY <3>1, <3>8 DEF LogoutRevoke, Making
    <3>9. UNCHANGED exchanged => ExchangedIsRevoked'
      BY <1>1 DEF Spent, ExchangedIsRevoked
    <3>10. CASE Arrive(r)
      BY <3>2, <3>3, <3>9, <3>10 DEF Arrive
    <3>11. CASE Step(r)
      BY <1>1, <3>4, <3>5, <3>6, <3>7, <3>8, <3>9, <3>11 DEF Step, Spent
    <3>12. CASE Drop(r)
      BY <3>6, <3>9, <3>12
    <3> QED BY <1>4, <3>10, <3>11, <3>12
  <2> QED BY <1>1, <2>1, <2>2 DEF Spent
<1> QED BY <1>2, <1>3, <1>4 DEF Next

\* For any number of users, requests and pairs: a pair that was exchanged for
\* a new one has been revoked, unless Redis was away when it was to be.
THEOREM ExchangedRevoked == Spec => []ExchangedIsRevoked
<1>1. Init => Spent
  BY DEF Init, Spent, ExchangedIsRevoked, Idle, Making
<1>2. Spent => ExchangedIsRevoked
  BY DEF Spent
<1> QED BY <1>1, <1>2, SpentNext, ShapeInvariant, PTL DEF Spec

-----------------------------------------------------------------------------
\* A step of a request that revokes and stores nothing, and that does not
\* abandon a revoked pair unnoticed, keeps StoredIsLive.
LEMMA LiveQuiet ==
    ASSUME Shape, StoredIsLive, NEW r \in Requests,
           \A q \in Requests \ {r} : job'[q] = job[q],
           UNCHANGED <<hashed, revoked, foreign>>, broken \subseteq broken',
           \/ job[r].op \notin {"store", "logoutClear"}
           \/ job[r].token = NoToken
           \/ job[r].token \in broken'
           \/ job'[r].op \in {"store", "logoutClear"}
              /\ job'[r].user = job[r].user /\ job'[r].token = job[r].token
    PROVE  StoredIsLive'
<1> SUFFICES ASSUME NEW u \in Users, hashed[u] \in revoked \ (broken' \cup foreign)
             PROVE  \E q \in Requests : /\ job'[q].op \in {"store", "logoutClear"}
                                       /\ job'[q].user = u
                                       /\ job'[q].token = hashed[u]
  BY DEF StoredIsLive
<1>1. hashed[u] \in revoked \ (broken \cup foreign) /\ hashed[u] # NoToken
  BY SessionAssumption DEF Shape, StoreOK
<1>2. PICK q \in Requests : /\ job[q].op \in {"store", "logoutClear"}
                            /\ job[q].user = u /\ job[q].token = hashed[u]
  BY <1>1 DEF StoredIsLive
<1>3. CASE q = r
  BY <1>1, <1>2, <1>3
<1>4. CASE q # r
  BY <1>2, <1>4
<1> QED BY <1>3, <1>4

\* A step that overwrites a user's token with one nobody has, or with none.
LEMMA LiveWrite ==
    ASSUME Shape, Covered, StoredIsLive, NEW r \in Requests, NEW u \in Users,
           NEW h \in (Tokens \ delivered) \cup {NoToken},
           \A q \in Requests \ {r} : job'[q] = job[q],
           hashed' = [hashed EXCEPT ![u] = h], job[r].user = u,
           UNCHANGED <<revoked, broken, foreign>>
    PROVE  StoredIsLive'
<1> SUFFICES ASSUME NEW v \in Users, hashed'[v] \in revoked \ (broken \cup foreign)
             PROVE  \E q \in Requests : /\ job'[q].op \in {"store", "logoutClear"}
                                       /\ job'[q].user = v
                                       /\ job'[q].token = hashed'[v]
  BY DEF StoredIsLive
<1>1. h \notin revoked
  BY SessionAssumption DEF Covered, Shape, StoreOK
<1>2. v # u /\ hashed'[v] = hashed[v]
  BY <1>1 DEF Shape, StoreOK
<1>3. PICK q \in Requests : /\ job[q].op \in {"store", "logoutClear"}
                            /\ job[q].user = v /\ job[q].token = hashed[v]
  BY <1>2 DEF StoredIsLive
<1>4. q # r
  BY <1>2, <1>3
<1> QED BY <1>2, <1>3, <1>4

\* A step that revokes a pair and is about to replace what its user stores, or
\* that revokes the pair of another user.
LEMMA LiveRevoke ==
    ASSUME Shape, StoredIsLive, NEW r \in Requests, NEW k \in Tokens,
           \A q \in Requests \ {r} : job'[q] = job[q],
           revoked' \subseteq revoked \cup {k}, UNCHANGED <<hashed, broken>>,
           foreign \subseteq foreign', pair[k].sub = job[r].user \/ k \in foreign',
           job[r].op \notin {"store", "logoutClear"},
           job'[r].op \in {"store", "logoutClear"},
           job'[r].user = job[r].user, job'[r].token = k
    PROVE  StoredIsLive'
<1> SUFFICES ASSUME NEW u \in Users, hashed[u] \in revoked' \ (broken \cup foreign')
             PROVE  \E q \in Requests : /\ job'[q].op \in {"store", "logoutClear"}
                                       /\ job'[q].user = u
                                       /\ job'[q].token = hashed[u]
  BY DEF StoredIsLive
<1>1. CASE hashed[u] = k
  <2>1. pair[k].sub = u
    BY <1>1, SessionAssumption DEF Shape, StoreOK
  <2> QED BY <1>1, <2>1
<1>2. CASE hashed[u] # k
  <2>1. PICK q \in Requests : /\ job[q].op \in {"store", "logoutClear"}
                              /\ job[q].user = u /\ job[q].token = hashed[u]
    BY <1>2 DEF StoredIsLive
  <2>2. q # r
    BY <2>1
  <2> QED BY <2>1, <2>2
<1> QED BY <1>1, <1>2

\* Every step keeps StoredIsLive.
LEMMA LiveNext == Shape /\ Covered /\ StoredIsLive /\ [Next]_vars => StoredIsLive'
<1> SUFFICES ASSUME Shape, Covered, StoredIsLive, [Next]_vars PROVE StoredIsLive'
  OBVIOUS
<1>1. CASE UNCHANGED vars
  BY <1>1 DEF vars, StoredIsLive
<1>2. CASE Tick
  BY <1>2 DEF Tick, tokenVars, history, StoredIsLive
<1>3. ASSUME NEW r \in Requests, Arrive(r) \/ Step(r) \/ Drop(r) PROVE StoredIsLive'
  <2>1. job \in [Requests -> Job] /\ \A q \in Requests \ {r} : job'[q] = job[q]
    BY <1>3, StepOfOne DEF Shape
  <2>2. CASE Arrive(r)
    <3>1. /\ job[r].op = "idle" /\ UNCHANGED <<hashed, revoked, broken, foreign>>
      BY <2>2 DEF Arrive, Login, RefreshCheck, Authenticate, Is, tokenVars, history
    <3> QED BY <2>1, <3>1, LiveQuiet
  <2>3. CASE RefreshMatch(r) \/ Serve(r) \/ Reply(r)
    <3>1. /\ job[r].op \in {"refresh", "authenticated", "reply"}
          /\ UNCHANGED <<hashed, revoked, broken, foreign>>
      BY <2>3 DEF RefreshMatch, Serve, Reply, Is, tokenVars, history
    <3> QED BY <2>1, <3>1, LiveQuiet
  <2>4. CASE Store(r)
    <3>1. /\ job[r].op \in Making /\ job[r].op # "idle"
          /\ hashed' = [hashed EXCEPT ![job[r].user] = job[r].issued]
          /\ UNCHANGED <<revoked, broken, foreign>>
      BY <2>4 DEF Store, Is, Making
    <3>2. job[r].user \in Users /\ job[r].issued \in Tokens \ delivered
      BY <3>1, InHand
    <3> QED BY <2>1, <3>1, <3>2, LiveWrite
  <2>5. CASE LogoutClear(r)
    <3>1. /\ job[r].op = "logoutClear"
          /\ hashed' = [hashed EXCEPT ![job[r].user] = NoToken]
          /\ UNCHANGED <<revoked, broken, foreign>>
      BY <2>5 DEF LogoutClear, Is
    <3>2. job[r].user \in Users
      BY <3>1, InHand
    <3> QED BY <2>1, <3>1, <3>2, LiveWrite
  <2>6. ASSUME NEW t \in Tokens, RefreshRevoke(r, t) PROVE StoredIsLive'
    <3>1. /\ job[r].op = "refreshRevoke" /\ AddToBlacklist(job[r].token)
          /\ UNCHANGED <<hashed, broken, foreign>>
          /\ job'[r].op = "store" /\ job'[r].user = job[r].user
          /\ job'[r].token = job[r].token
      BY <2>1, <2>6 DEF RefreshRevoke, Is
    <3>2. job[r].token \in Tokens /\ pair[job[r].token].sub = job[r].user
      BY <3>1, InHand
    <3>3. revoked' \subseteq revoked \cup {job[r].token}
      BY <3>1, <3>2, Blacklisted DEF Shape
    <3> QED BY <2>1, <3>1, <3>2, <3>3, LiveRevoke
  <2>7. ASSUME NEW t \in Tokens \cup {NoToken}, LogoutRevoke(r, t) PROVE StoredIsLive'
    <3>1. /\ job[r].op = "authenticated" /\ UNCHANGED <<hashed, broken>>
          /\ job'[r].op = "logoutClear" /\ job'[r].user = job[r].user
          /\ job'[r].token = t
      BY <2>1, <2>7 DEF LogoutRevoke, Is
    <3>2. CASE t = NoToken
      <4>1. UNCHANGED <<revoked, foreign>>
        BY <2>7, <3>2 DEF LogoutRevoke
      <4> QED BY <2>1, <3>1, <4>1, LiveQuiet
    <3>3. CASE t # NoToken
      <4>1. /\ t \in Tokens /\ AddToBlacklist(t) /\ foreign \subseteq foreign'
            /\ pair[t].sub = job[r].user \/ t \in foreign'
        BY <2>7, <3>3 DEF LogoutRevoke
      <4>2. revoked' \subseteq revoked \cup {t}
        BY <4>1, Blacklisted DEF Shape
      <4> QED BY <2>1, <3>1, <4>1, <4>2, LiveRevoke
    <3> QED BY <3>2, <3>3
  <2>8. CASE Drop(r)
    <3>1. /\ UNCHANGED <<hashed, revoked, foreign>> /\ broken \subseteq broken'
          /\ \/ job[r].op \notin {"store", "logoutClear"}
             \/ job[r].token = NoToken
             \/ job[r].token \in broken'
      BY <2>8 DEF Drop, tokenVars
    <3> QED BY <2>1, <3>1, LiveQuiet
  <2> QED BY <1>3, <2>2, <2>3, <2>4, <2>5, <2>6, <2>7, <2>8 DEF Step
<1> QED BY <1>1, <1>2, <1>3 DEF Next

\* For any number of users, requests and pairs: the token stored for a user is
\* a revoked one only while the request that revoked it has yet to replace it,
\* if that request broke off, or if the logout of another user named it.
THEOREM StoredLive == Spec => []StoredIsLive
<1>1. Init => StoredIsLive
  BY DEF Init, StoredIsLive
<1> QED BY <1>1, LiveNext, ShapeInvariant, CoveredInvariant, PTL DEF Spec

-----------------------------------------------------------------------------
\* Whose one-time password a request works with.
ResetFits(r) ==
    LET j == reset[r]
    IN  j.op # "idle" => j.user \in Users /\ j.otp \in Otps /\ otpUser[j.otp] = j.user

\* What is stored for u is the last one made for u, and no reset has deleted it.
KeyFits(u) ==
    LET o == otpKey[u].otp
    IN  o # NoOtp => /\ o \in Otps \ spent
                     /\ otpUser[o] = u
                     /\ latest[u] = o

\* The stores of this module, and what is mailed or spent was made for somebody.
OtpsOK ==
    /\ otpKey \in [Users -> OtpKey]
    /\ reset \in [Resets -> ResetJob]
    /\ otpUser \in [Otps -> Users \cup {NoUser}]
    /\ latest \in [Users -> Otps \cup {NoOtp}]
    /\ mailed \in SUBSET Otps /\ spent \in SUBSET Otps
    /\ \A o \in mailed \cup spent : otpUser[o] \in Users

\* The inductive invariant behind the one-time passwords.
ResetShape ==
    /\ OtpsOK
    /\ \A r \in Resets : ResetFits(r)
    /\ \A u \in Users : KeyFits(u)

-----------------------------------------------------------------------------
\* A step of this module's requests ends sessions or leaves them alone.
LEMMA SessionsBeside ==
    ASSUME ResetShape, NEW r \in Resets, ResetStep(r)
    PROVE  /\ UNCHANGED <<now, pair, delivered, blacklist, job, history>>
           /\ \/ UNCHANGED hashed
              \/ \E u \in Users : hashed' = [hashed EXCEPT ![u] = NoToken]
<1>1. CASE ResetWrite(r)
  <2>1. reset[r].user \in Users
    BY <1>1 DEF ResetWrite, ResetShape, ResetFits
  <2> QED BY <1>1, <2>1 DEF ResetWrite
<1>2. CASE ~ ResetWrite(r)
  BY <1>2 DEF ResetStep, ForgotSet, ForgotMail, ResetCheck, ResetDel, ResetDrop, vars, history
<1> QED BY <1>1, <1>2

\* No request, no key and no one-time password.
LEMMA ResetShapeInit == ResetInit => ResetShape
<1> SUFFICES ASSUME ResetInit PROVE ResetShape
  OBVIOUS
<1>1. OtpsOK
  BY DEF ResetInit, OtpsOK, OtpKey, NoKey, ResetJob, ResetOps, IdleReset
<1>2. \A r \in Resets : ResetFits(r)
  BY DEF ResetInit, ResetFits, IdleReset
<1>3. \A u \in Users : KeyFits(u)
  BY DEF ResetInit, KeyFits, NoKey
<1> QED BY <1>1, <1>2, <1>3 DEF ResetShape

\* A one-time password's user, once it has one, stays the same.
UsersKept == \A o \in Otps : otpUser[o] \in Users => otpUser'[o] = otpUser[o]

\* A step of r that leaves r in shape leaves every request in shape.
LEMMA ResetParts ==
    ASSUME ResetShape, NEW r \in Resets, NEW j \in ResetJob, OtpsOK',
           reset' = [reset EXCEPT ![r] = j], UsersKept,
           j.op # "idle" => j.user \in Users /\ j.otp \in Otps /\ otpUser'[j.otp] = j.user,
           \A u \in Users : KeyFits(u)'
    PROVE  ResetShape'
<1>1. reset'[r] = j /\ \A q \in Resets \ {r} : reset'[q] = reset[q]
  BY DEF ResetShape, OtpsOK
<1>2. ResetFits(r)'
  BY <1>1 DEF ResetFits
<1>3. ASSUME NEW q \in Resets \ {r} PROVE ResetFits(q)'
  <2>1. ResetFits(q)
    BY DEF ResetShape
  <2> QED BY <1>1, <2>1 DEF ResetFits, UsersKept
<1> QED BY <1>2, <1>3 DEF ResetShape

\* Being done with a request is in shape.
LEMMA IdleResetJob == IdleReset \in ResetJob /\ IdleReset.op = "idle"
BY DEF IdleReset, ResetJob, ResetOps

\* Where the keys and whom they are for stay as they are.
LEMMA KeysKept ==
    ASSUME ResetShape, UNCHANGED <<otpKey, otpUser, latest, spent>>
    PROVE  UsersKept /\ \A u \in Users : KeyFits(u)'
<1>1. \A u \in Users : KeyFits(u)
  BY DEF ResetShape
<1> QED BY <1>1 DEF UsersKept, KeyFits

\* A new one-time password replaces the one stored, or is mailed without.
LEMMA ForgotSetShape ==
    ASSUME ResetShape, Shape, NEW r \in Resets, NEW u \in Users, NEW o \in Otps,
           ForgotSet(r, u, o)
    PROVE  ResetShape'
<1> DEFINE j == [op |-> "mail", user |-> u, otp |-> o]
           key == [otp |-> o, expires |-> now + OtpLife]
<1>1. /\ otpUser[o] = NoUser /\ otpUser' = [otpUser EXCEPT ![o] = u]
      /\ \/ otpKey' = [otpKey EXCEPT ![u] = key] /\ latest' = [latest EXCEPT ![u] = o]
         \/ UNCHANGED <<otpKey, latest>>
      /\ reset' = [reset EXCEPT ![r] = j]
      /\ UNCHANGED <<mailed, spent>>
  BY DEF ForgotSet
<1>2. j \in ResetJob /\ j.user = u /\ j.otp = o
  BY DEF ResetJob, ResetOps
<1>3. key \in OtpKey /\ key.otp = o
  <2>1. now \in Nat
    BY SessionAssumption DEF Shape, StoreOK
  <2> QED BY <2>1, ResetAssumption DEF OtpKey
<1> HIDE DEF j, key
<1>4. OtpsOK
  BY DEF ResetShape
<1>5. UsersKept /\ otpUser'[o] = u /\ o \notin mailed \cup spent /\ o # NoOtp
  BY <1>1, <1>4, SessionAssumption, ResetAssumption DEF UsersKept, OtpsOK
<1>6. OtpsOK'
  BY <1>1, <1>2, <1>3, <1>4, <1>5 DEF OtpsOK, UsersKept
<1>7. ASSUME NEW v \in Users PROVE KeyFits(v)'
  <2>1. KeyFits(v)
    BY DEF ResetShape
  <2>2. CASE otpKey'[v] = otpKey[v] /\ latest'[v] = latest[v]
    BY <1>1, <1>5, <2>1, <2>2 DEF KeyFits, UsersKept
  <2>3. CASE v = u /\ otpKey'[v] = key /\ latest'[v] = o
    BY <1>1, <1>3, <1>5, <2>3 DEF KeyFits
  <2> QED BY <1>1, <1>4, <2>2, <2>3 DEF OtpsOK
<1> QED BY <1>1, <1>2, <1>5, <1>6, <1>7, ResetParts

\* The steps that make and delete no one-time password.
LEMMA QuietResetShape ==
    ASSUME ResetShape, NEW r \in Resets,
           \/ ForgotMail(r) \/ ResetWrite(r) \/ ResetDrop(r)
           \/ \E o \in Otps : ResetCheck(r, o)
    PROVE  ResetShape'
<1>1. OtpsOK /\ ResetFits(r) /\ reset[r] \in ResetJob
  BY DEF ResetShape, OtpsOK
<1>2. UNCHANGED <<otpKey, otpUser, latest, spent>>
  BY DEF ForgotMail, ResetWrite, ResetDrop, ResetCheck
<1>3. mailed' \in SUBSET Otps /\ \A o \in mailed' : otpUser[o] \in Users
  BY <1>1 DEF ForgotMail, ResetWrite, ResetDrop, ResetCheck, ResetFits, OtpsOK
<1>4. \E j \in ResetJob :
        /\ reset' = [reset EXCEPT ![r] = j]
        /\ j.op # "idle" => j.user \in Users /\ j.otp \in Otps /\ otpUser[j.otp] = j.user
  <2>1. CASE ForgotMail(r) \/ ResetDrop(r)
    BY <2>1, IdleResetJob DEF ForgotMail, ResetDrop
  <2>2. CASE ResetWrite(r)
    <3> DEFINE j == [reset[r] EXCEPT !.op = "resetDel"]
    <3>1. j \in ResetJob /\ j.user = reset[r].user /\ j.otp = reset[r].otp
      BY <1>1 DEF ResetJob, ResetOps
    <3>2. reset' = [reset EXCEPT ![r] = j] /\ reset[r].op # "idle"
      BY <2>2 DEF ResetWrite
    <3> HIDE DEF j
    <3> QED BY <1>1, <3>1, <3>2 DEF ResetFits
  <2>3. ASSUME NEW o \in Otps, ResetCheck(r, o)
        PROVE  \E j \in ResetJob :
                 /\ reset' = [reset EXCEPT ![r] = j]
                 /\ j.op # "idle" => /\ j.user \in Users /\ j.otp \in Otps
                                     /\ otpUser[j.otp] = j.user
    <3> DEFINE j == [op |-> "reset", user |-> otpUser[o], otp |-> o]
    <3>1. otpUser[o] \in Users
      BY <1>1, <2>3 DEF ResetCheck, OtpsOK
    <3>2. j \in ResetJob /\ j.user = otpUser[o] /\ j.otp = o
      BY <3>1 DEF ResetJob, ResetOps
    <3>3. reset' = [reset EXCEPT ![r] = j]
      BY <2>3 DEF ResetCheck
    <3> HIDE DEF j
    <3> QED BY <3>1, <3>2, <3>3
  <2> QED BY <2>1, <2>2, <2>3
<1>5. PICK j \in ResetJob :
        /\ reset' = [reset EXCEPT ![r] = j]
        /\ j.op # "idle" => j.user \in Users /\ j.otp \in Otps /\ otpUser[j.otp] = j.user
  BY <1>4
<1>6. OtpsOK'
  BY <1>1, <1>2, <1>3, <1>5 DEF OtpsOK
<1> QED BY <1>2, <1>5, <1>6, KeysKept, ResetParts

\* The key is deleted, whatever it holds by now: no other key holds the
\* one-time password that is spent here, for it was made for this user.
LEMMA ResetDelShape ==
    ASSUME ResetShape, NEW r \in Resets, ResetDel(r)
    PROVE  ResetShape'
<1>1. OtpsOK /\ ResetFits(r) /\ reset[r].op # "idle"
  BY DEF ResetShape, ResetDel
<1>2. PICK u \in Users, o \in Otps :
        u = reset[r].user /\ o = reset[r].otp /\ otpUser[o] = u
  BY <1>1 DEF ResetFits
<1>3. /\ reset' = [reset EXCEPT ![r] = IdleReset]
      /\ UNCHANGED <<mailed, otpUser, latest>>
  BY DEF ResetDel
<1>4. CASE UNCHANGED <<otpKey, spent>>
  <2>1. OtpsOK'
    BY <1>1, <1>3, <1>4, IdleResetJob DEF OtpsOK
  <2> QED BY <1>3, <1>4, <2>1, IdleResetJob, KeysKept, ResetParts
<1>5. CASE otpKey' = [otpKey EXCEPT ![u] = NoKey] /\ spent' = spent \cup {o}
  <2>1. NoKey \in OtpKey /\ NoKey.otp = NoOtp
    BY DEF NoKey, OtpKey
  <2>2. OtpsOK'
    BY <1>1, <1>2, <1>3, <1>5, <2>1, IdleResetJob DEF OtpsOK
  <2>3. ASSUME NEW v \in Users PROVE KeyFits(v)'
    <3>1. KeyFits(v)
      BY DEF ResetShape
    <3>2. CASE v = u
      BY <1>1, <1>5, <2>1, <3>2 DEF KeyFits, OtpsOK
    <3>3. CASE v # u
      BY <1>1, <1>2, <1>3, <1>5, <3>1, <3>3 DEF KeyFits, OtpsOK
    <3> QED BY <3>2, <3>3
  <2> QED BY <1>3, <2>2, <2>3, IdleResetJob, ResetParts DEF UsersKept
<1> QED BY <1>2, <1>4, <1>5 DEF ResetDel

\* ResetShape is inductive.
LEMMA ResetShapeNext == Shape /\ ResetShape /\ [ResetNext]_allVars => ResetShape'
<1> SUFFICES ASSUME Shape, ResetShape, [ResetNext]_allVars PROVE ResetShape'
  OBVIOUS
<1>1. ASSUME UNCHANGED otpVars PROVE ResetShape'
  BY <1>1 DEF otpVars, ResetShape, OtpsOK, ResetFits, KeyFits
<1>2. ASSUME NEW r \in Resets, ResetStep(r) PROVE ResetShape'
  BY <1>2, ForgotSetShape, QuietResetShape, ResetDelShape DEF ResetStep
<1> QED BY <1>1, <1>2 DEF ResetNext, allVars

\* A write of no token into a user document is a state Sessions may be in.
LEMMA ShapeBeside ==
    ASSUME Shape, UNCHANGED <<now, pair, delivered, blacklist, job, history>>,
           \/ UNCHANGED hashed
           \/ \E u \in Users : hashed' = [hashed EXCEPT ![u] = NoToken]
    PROVE  Shape'
<1>1. /\ hashed' \in [Users -> Tokens \cup {NoToken}]
      /\ \A u \in Users : hashed'[u] # NoToken => hashed'[u] = hashed[u]
  BY DEF Shape, StoreOK
<1>2. StoreOK'
  BY <1>1 DEF Shape, StoreOK, history
<1> QED BY <1>2 DEF Shape

\* Every step of the composition is one of Sessions, or leaves all but the stored
\* tokens alone.
LEMMA BesideNext ==
    ASSUME ResetShape, [ResetNext]_allVars
    PROVE  \/ [Next]_vars
           \/ /\ UNCHANGED <<now, pair, delivered, blacklist, job, history>>
              /\ \E u \in Users : hashed' = [hashed EXCEPT ![u] = NoToken]
<1>1. ASSUME NEW r \in Resets, ResetStep(r), UNCHANGED hashed
      PROVE  UNCHANGED vars
  BY <1>1, SessionsBeside DEF vars, history
<1> QED BY <1>1, SessionsBeside DEF ResetNext, allVars

\* Sessions and one-time passwords are in shape, whatever requests of both kinds do.
LEMMA ResetInvariant == ResetSpec => [](Shape /\ ResetShape)
<1>1. ResetInit => Shape /\ ResetShape
  BY InitShape, ResetShapeInit DEF ResetInit
<1>2. Shape /\ ResetShape /\ [ResetNext]_allVars => (Shape /\ ResetShape)'
  BY ShapeNext, ResetShapeNext, BesideNext, ShapeBeside
<1> QED BY <1>1, <1>2, PTL DEF ResetSpec

\* The stores and the requests keep their types, for any number of users, sessions,
\* resets and one-time passwords.
THEOREM ResetTypeCorrect == ResetSpec => []ResetTypeOK
<1>1. Shape /\ ResetShape => ResetTypeOK
  BY DEF Shape, StoreOK, TypeOK, ResetShape, OtpsOK, ResetTypeOK
<1> QED BY <1>1, ResetInvariant, PTL

\* A reset begins only with the one-time password stored last for its user, and
\* never with one a reset has deleted, in whatever order requests and mails come.
THEOREM SpentRefused == ResetSpec => SpentIsRefused
<1>1. ASSUME ResetShape, [ResetNext]_allVars, NEW r \in Resets,
             reset[r].op = "idle", reset'[r].op = "reset"
      PROVE  reset'[r].otp \notin spent /\ reset'[r].otp = latest[reset'[r].user]
  <2>1. OtpsOK
    BY <1>1 DEF ResetShape
  <2>2. PICK q \in Resets : ResetStep(q)
    BY <1>1 DEF ResetNext, allVars, otpVars
  <2>3. PICK j : reset' = [reset EXCEPT ![q] = j]
    BY <2>2 DEF ResetStep, ForgotSet, ForgotMail, ResetCheck, ResetWrite, ResetDel, ResetDrop
  <2>4. q = r
    BY <1>1, <2>1, <2>3 DEF OtpsOK
  <2>5. ASSUME NEW o \in Otps, ResetCheck(r, o)
        PROVE  reset'[r].otp \notin spent /\ reset'[r].otp = latest[reset'[r].user]
    <3>1. PICK u \in Users : u = otpUser[o]
      BY <2>1, <2>5 DEF ResetCheck, OtpsOK
    <3>2. reset'[r].otp = o /\ reset'[r].user = u
      BY <2>1, <2>5, <3>1 DEF ResetCheck, OtpsOK
    <3>3. otpKey[u].otp = o /\ o # NoOtp
      BY <2>5, <3>1, ResetAssumption DEF ResetCheck, StoredOtp
    <3>4. KeyFits(u)
      BY <1>1 DEF ResetShape
    <3> QED BY <3>2, <3>3, <3>4 DEF KeyFits
  <2>6. \E o \in Otps : ResetCheck(r, o)
    <3>1. ResetStep(r) /\ reset \in [Resets -> ResetJob]
      BY <2>1, <2>2, <2>4 DEF OtpsOK
    <3>2. ASSUME NEW u \in Users, NEW o \in Otps, ForgotSet(r, u, o) PROVE FALSE
      BY <1>1, <3>1, <3>2 DEF ForgotSet
    <3>3. ASSUME ForgotMail(r) \/ ResetWrite(r) \/ ResetDel(r) \/ ResetDrop(r) PROVE FALSE
      BY <1>1, <3>3 DEF ForgotMail, ResetWrite, ResetDel, ResetDrop
    <3> QED BY <3>1, <3>2, <3>3 DEF ResetStep
  <2> QED BY <2>5, <2>6
<1>2. Shape /\ ResetShape /\ [ResetNext]_allVars =>
        [\A r \in Resets :
           reset[r].op = "idle" /\ reset'[r].op = "reset" =>
              /\ reset'[r].otp \notin spent
              /\ reset'[r].otp = latest[reset'[r].user]]_allVars
  BY <1>1
<1> QED BY <1>2, ResetInvariant, PTL DEF ResetSpec, SpentIsRefused

-----------------------------------------------------------------------------
\* What was shown of Sessions by induction is so after a reset, too: it only takes
\* stored tokens away.
LEMMA KeptBeside ==
    ASSUME Shape, Covered, Spent, StoredIsLive,
           UNCHANGED <<now, pair, delivered, blacklist, job, history>>,
           NEW u \in Users, hashed' = [hashed EXCEPT ![u] = NoToken]
    PROVE  Covered' /\ Spent' /\ StoredIsLive'
<1>1. Covered' /\ Spent'
  BY DEF Covered, Spent, ExchangedIsRevoked, history
<1>2. StoredIsLive'
  <2>1. NoToken \notin revoked
    BY SessionAssumption DEF Shape, StoreOK
  <2>2. \A v \in Users : hashed'[v] # NoToken => hashed'[v] = hashed[v]
    BY DEF Shape, StoreOK
  <2> QED BY <2>1, <2>2 DEF StoredIsLive, history
<1> QED BY <1>1, <1>2

\* Beside any number of resets, sessions keep what they have without them: no
\* revoked pair is let through by a check that Redis answers, an exchanged pair is
\* revoked, and no user's own requests leave that user with a stored token that is
\* refused.
THEOREM SessionsKept ==
    ResetSpec => RevokedIsRefused /\ []ExchangedIsRevoked /\ []StoredIsLive
<1> DEFINE Kept == Covered /\ Spent /\ StoredIsLive
<1>1. ResetInit => Kept
  BY DEF ResetInit, Init, Covered, Spent, ExchangedIsRevoked, StoredIsLive, Idle, Making
<1>2. Shape /\ ResetShape /\ Kept /\ [ResetNext]_allVars => Kept'
  BY BesideNext, KeptBeside, CoveredNext, SpentNext, LiveNext
<1>3. Shape /\ ResetShape /\ Kept /\ [ResetNext]_allVars =>
        [\A r \in Requests :
           /\ job[r].op = "idle"
           /\ job'[r].op \in {"refresh", "authenticated"}
           /\ job'[r].redis
           => job'[r].token \notin revoked]_vars
  BY BesideNext, RefusedNext DEF Refused
<1>4. Kept => ExchangedIsRevoked /\ StoredIsLive
  BY DEF Spent
<1> HIDE DEF Kept
<1> QED BY <1>1, <1>2, <1>3, <1>4, ResetInvariant, PTL DEF ResetSpec, RevokedIsRefused
=============================================================================
