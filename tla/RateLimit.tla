------------------------------ MODULE RateLimit ------------------------------
(***************************************************************************)
(* RateLimitMiddleware over RedisService.incrementWithExpiry, for the      *)
(* requests of one address: the counter ratelimit:<ip> is shared by all    *)
(* routes, and INCR and EXPIRE are two commands with an await between      *)
(* them.  The daily count of submissions in TaskService uses the same two  *)
(* commands.                                                               *)
(***************************************************************************)
EXTENDS Integers

CONSTANTS
    Callers,        \* requests of the address that may be in flight
    AuthMax,        \* the limit of a path with /auth in it, and of any other
    OtherMax,
    Window,         \* TTL of the counter, in ticks
    CountCap        \* bound: counts beyond it are not told apart

ASSUME RateAssumption ==
    /\ AuthMax \in Nat \ {0}
    /\ OtherMax \in Nat \ {0}
    /\ Window \in Nat \ {0}
    /\ CountCap \in Nat
    /\ CountCap > AuthMax
    /\ CountCap > OtherMax

VARIABLES
    count,          \* value of the counter; 0: not there
    timer,          \* ticks it has left; 0: no TTL
    online,         \* callers whose instance is connected to Redis
    call,           \* what each caller is doing
    passed,         \* history: passed[m]: calls of routes with limit m let
                    \*   through by this counter
    severed         \* history: the call that began this counter broke off
                    \*   before EXPIRE

rateVars == <<count, timer, online, call, passed, severed>>

RouteMax == {AuthMax, OtherMax}

NoCall == [at |-> "none", max |-> 0]

RateInit ==
    /\ count = 0
    /\ timer = 0
    /\ online = Callers
    /\ call = [c \in Callers |-> NoCall]
    /\ passed = [m \in RouteMax |-> 0]
    /\ severed = FALSE

-----------------------------------------------------------------------------
Counting(c) == call[c].at = "incr"
Expiring(c) == call[c].at = "expire"

Incremented == IF count = CountCap THEN CountCap ELSE count + 1

\* The middleware's decision, on the number the counter answered.
Verdict(c, answer) ==
    LET m == call[c].max
    IN  passed' = IF answer > m THEN passed ELSE [passed EXCEPT ![m] = @ + 1]

\* A request reaches the middleware.
RateArrive(c) ==
    /\ call[c] = NoCall
    /\ \E m \in RouteMax : call' = [call EXCEPT ![c] = [at |-> "incr", max |-> m]]
    /\ UNCHANGED <<count, timer, online, passed, severed>>

\* ensureReady says no: incrementWithExpiry answers null, and null passes.
RateUncounted(c) ==
    /\ Counting(c)
    /\ c \notin online
    /\ call' = [call EXCEPT ![c] = NoCall]
    /\ UNCHANGED <<count, timer, online, passed, severed>>

\* Mutants of RateCount: the number before INCR is compared; EXPIRE
\* follows every INCR.
RateCountBefore(c) ==
    /\ Counting(c) /\ c \in online
    /\ count' = Incremented
    /\ IF count = 0 THEN call' = [call EXCEPT ![c].at = "expire"] /\ UNCHANGED passed
                    ELSE call' = [call EXCEPT ![c] = NoCall] /\ Verdict(c, count)
    /\ UNCHANGED <<timer, online, severed>>
RateCountSliding(c) ==
    /\ Counting(c) /\ c \in online
    /\ count' = Incremented
    /\ call' = [call EXCEPT ![c].at = "expire"]
    /\ UNCHANGED <<timer, online, passed, severed>>

\* INCR.  Whoever gets 1 goes on to EXPIRE.
RateCount(c) ==
    /\ Counting(c)
    /\ c \in online
    /\ count' = Incremented
    /\ IF count' = 1
         THEN call' = [call EXCEPT ![c].at = "expire"] /\ UNCHANGED passed
         ELSE call' = [call EXCEPT ![c] = NoCall] /\ Verdict(c, count')
    /\ UNCHANGED <<timer, online, severed>>

\* EXPIRE, which does nothing to a key that is not there.
RateExpire(c) ==
    /\ Expiring(c)
    /\ timer' = IF count > 0 THEN Window ELSE timer
    /\ call' = [call EXCEPT ![c] = NoCall]
    /\ Verdict(c, 1)
    /\ UNCHANGED <<count, online, severed>>

\* The command in flight fails, or the instance dies: Redis may have carried
\* it out or not.
RateBreak(c) ==
    /\ call' = [call EXCEPT ![c] = NoCall]
    /\ \/ /\ Counting(c)
          /\ UNCHANGED <<count, timer, severed>>
       \/ /\ Counting(c)
          /\ c \in online
          /\ count' = Incremented
          /\ severed' = (severed \/ count = 0)
          /\ UNCHANGED timer
       \/ /\ Expiring(c)
          /\ severed' = TRUE
          /\ UNCHANGED <<count, timer>>
       \/ /\ Expiring(c)
          /\ timer' = Window
          /\ UNCHANGED <<count, severed>>
    /\ UNCHANGED <<online, passed>>

\* The connection is lost for good (retryStrategy answers null), or the
\* instance is started again.
RateConnection(c) ==
    /\ call[c] = NoCall
    /\ online' = IF c \in online THEN online \ {c} ELSE online \cup {c}
    /\ UNCHANGED <<count, timer, call, passed, severed>>

\* Time passes; the counter expires.
RateTick ==
    /\ timer > 0
    /\ timer' = timer - 1
    /\ IF timer = 1
         THEN /\ count' = 0
              /\ passed' = [m \in RouteMax |-> 0]
         ELSE UNCHANGED <<count, passed>>
    /\ UNCHANGED <<online, call, severed>>

RateStep(c) == RateUncounted(c) \/ RateCount(c) \/ RateExpire(c) \/ RateBreak(c)

RateNext ==
    \/ \E c \in Callers : RateArrive(c) \/ RateStep(c) \/ RateConnection(c)
    \/ RateTick

RateSpec == RateInit /\ [][RateNext]_rateVars

\* A command is answered or fails, and time passes.
RateFairness ==
    /\ WF_rateVars(RateTick)
    /\ \A c \in Callers : WF_rateVars(RateStep(c))
-----------------------------------------------------------------------------
\* Type invariant: the counter, its TTL and the calls.
RateTypeOK ==
    /\ count \in 0 .. CountCap
    /\ timer \in 0 .. Window
    /\ online \in SUBSET Callers
    /\ call \in [Callers -> [at : {"incr", "expire"}, max : RouteMax] \cup {NoCall}]
    /\ passed \in [RouteMax -> 0 .. CountCap]
    /\ severed \in BOOLEAN

\* However the requests of an address overlap, one counter lets at most the
\* limit of each kind of route through, the ones that spend the limit on the
\* other kind included.
LimitHolds == \A m \in RouteMax : passed[m] <= m

\* Where no call breaks off between its two commands, every counter is gone in
\* the end, however many requests keep arriving.
CounterExpires == count > 0 ~> count = 0 \/ severed

\* What the README promises, "Redis atomic increment with expiry": with no
\* call in flight, a counter has a TTL.  A call that broke off between INCR
\* and EXPIRE leaves one that only grows.
AtomicWithExpiry ==
    (\A c \in Callers : call[c] = NoCall) => (count > 0 => timer > 0)
=============================================================================
