--------------------------- MODULE PlatformProofs ---------------------------
(***************************************************************************)
(* What MCPlatform checks of each of its components on a small instance,   *)
(* for every value of the constants.  Each component has a section: its    *)
(* inductive invariant in named parts, a lemma that its steps keep it, and *)
(* the theorems that follow.                                               *)
(***************************************************************************)
EXTENDS MCPlatform, FiniteSetTheorems, TLAPS

-----------------------------------------------------------------------------
(* The daily profit.  A claim in flight keeps its key to itself, and a key *)
(* and the time since the last paid claim add up to a day at least.        *)

DailyLocal ==
    \A r \in Requests :
        /\ ~ Is(r, "idle") => job[r].user \in Users
        /\ job[r].paid => Is(r, "undo")
        /\ Holding(r) => key[job[r].user] > 0

OneHolder ==
    \A r, s \in Requests :
        Holding(r) /\ Holding(s) /\ job[r].user = job[s].user => r = s

AgeAndKey == \A u \in Users : age[u] + key[u] >= Day \/ u \in doubted

\* What the holder of a key may rely on: until it has paid, that a day has
\* passed since the last claim that did; after that, that the key is its own.
HolderAge ==
    \A r \in Requests :
        LET u == job[r].user
        IN  /\ Holding(r) /\ ~ job[r].paid => age[u] = Day \/ u \in doubted
            /\ job[r].paid => age[u] = Day - key[u]

DailyInv == TypeOK /\ DailyLocal /\ OneHolder /\ AgeAndKey /\ HolderAge /\ KeyHasCause

\* The initial state.
LEMMA DailyInit == Init => DailyInv
<1> SUFFICES ASSUME Init PROVE DailyInv
  OBVIOUS
<1> USE ProfitAssumption DEF Init
<1>1. TypeOK
  BY DEF TypeOK, Job, Idle, Ops
<1>2. DailyLocal /\ OneHolder /\ HolderAge
  BY DEF DailyLocal, OneHolder, HolderAge, Is, Holding, Idle
<1>3. AgeAndKey /\ KeyHasCause
  BY DEF AgeAndKey, KeyHasCause
<1> QED BY <1>1, <1>2, <1>3 DEF DailyInv

\* The steps of a claim keep the types.
LEMMA ClaimTypes ==
    ASSUME TypeOK, DailyLocal, NEW r \in Requests, Claim(r)
    PROVE  TypeOK'
<1> USE ProfitAssumption DEF TypeOK, DailyLocal
<1>1. job[r] \in Job /\ Idle \in Job
  BY DEF Job, Idle, Ops
<1>2. ASSUME NEW op \in Ops
      PROVE  [job EXCEPT ![r].op = op] \in [Requests -> Job]
  BY <1>1, <1>2 DEF Job
<1>3. CASE ClaimLock(r)
  <2>1. job' \in [Requests -> Job]
    BY <1>1, <1>2, <1>3 DEF ClaimLock, Goto, Finish, Ops
  <2>2. key' \in [Users -> 0 .. Day]
    BY <1>3 DEF ClaimLock, Is
  <2> QED BY <1>3, <2>1, <2>2 DEF ClaimLock
<1>4. CASE ClaimBegin(r)
  BY <1>1, <1>2, <1>4 DEF ClaimBegin, Goto, Ops
<1>5. CASE ClaimPay(r)
  <2>1. age' \in [Users -> 0 .. Day]
    BY <1>5 DEF ClaimPay, Is
  <2>2. job' = [job EXCEPT ![r] = Idle] \/ job' = [[job EXCEPT ![r].op = "undo"] EXCEPT ![r].paid = TRUE]
    BY <1>5 DEF ClaimPay, Finish
  <2>3. job' \in [Requests -> Job]
    BY <1>1, <1>2, <2>2 DEF Job, Ops
  <2> QED BY <1>5, <2>1, <2>3 DEF ClaimPay
<1>6. CASE ClaimAbort(r)
  BY <1>1, <1>2, <1>6 DEF ClaimAbort, Goto, Ops
<1>7. CASE ClaimUndo(r)
  BY <1>1, <1>7 DEF ClaimUndo, Finish, LeftBehind, Is
<1>8. CASE ClaimThrow(r)
  BY <1>1, <1>8 DEF ClaimThrow, Finish, LeftBehind
<1> QED BY <1>3, <1>4, <1>5, <1>6, <1>7, <1>8 DEF Claim

\* The steps of a claim keep the rest of the invariant.
LEMMA ClaimStep ==
    ASSUME DailyInv, NEW r \in Requests, Claim(r)
    PROVE  DailyInv'
<1> USE ProfitAssumption DEF DailyInv
<1>1. TypeOK'
  BY ClaimTypes
<1>2. job[r] \in Job /\ job \in [Requests -> Job] /\ key \in [Users -> 0 .. Day]
      /\ age \in [Users -> 0 .. Day] /\ isReady \in [Instances -> BOOLEAN]
  BY DEF TypeOK
<1> DEFINE u == job[r].user
<1>3. CASE ClaimLock(r) /\ key' = key
  <2>1. job' = [job EXCEPT ![r] = Idle]
    BY <1>2, <1>3 DEF ClaimLock, Finish, Goto, Is, DailyLocal
  <2> QED
    BY <1>1, <1>2, <1>3, <2>1 DEF ClaimLock, DailyLocal, OneHolder, AgeAndKey, HolderAge, KeyHasCause, Is, Holding, Idle
<1>4. CASE ClaimLock(r) /\ key' # key
  <2>1. u \in Users /\ key[u] = 0
    BY <1>4 DEF ClaimLock, Is, DailyLocal
  <2>2. key' = [key EXCEPT ![u] = Day] /\ job' = [job EXCEPT ![r].op = "locked"]
    BY <1>4 DEF ClaimLock, Goto
  <2>3. DailyLocal'
    BY <1>2, <1>4, <2>1, <2>2 DEF ClaimLock, DailyLocal, Is, Holding
  <2>4. OneHolder'
    BY <1>2, <1>4, <2>1, <2>2 DEF ClaimLock, OneHolder, DailyLocal, Is, Holding
  <2>5. AgeAndKey'
    BY <1>2, <1>4, <2>1, <2>2 DEF ClaimLock, AgeAndKey
  <2>6. HolderAge'
    BY <1>2, <1>4, <2>1, <2>2 DEF ClaimLock, HolderAge, AgeAndKey, DailyLocal, Is, Holding
  <2>7. KeyHasCause'
    BY <1>2, <1>4, <2>1, <2>2 DEF ClaimLock, KeyHasCause, DailyLocal, Is, Holding
  <2> QED BY <1>1, <2>3, <2>4, <2>5, <2>6, <2>7
<1>5. CASE ClaimBegin(r) \/ ClaimAbort(r)
  <2>1. \E op \in {"txn", "undo"} : job' = [job EXCEPT ![r].op = op]
    BY <1>5 DEF ClaimBegin, ClaimAbort, Goto
  <2>2. Holding(r) /\ key' = key /\ age' = age /\ doubted' = doubted /\ blocked' = blocked
    BY <1>5 DEF ClaimBegin, ClaimAbort, Is, Holding
  <2>3. DailyLocal' /\ OneHolder'
    BY <1>2, <1>5, <2>1, <2>2 DEF ClaimBegin, ClaimAbort, DailyLocal, OneHolder, Is, Holding
  <2>4. AgeAndKey' /\ HolderAge' /\ KeyHasCause'
    BY <1>2, <2>1, <2>2 DEF AgeAndKey, HolderAge, KeyHasCause, Holding
  <2> QED BY <1>1, <2>3, <2>4
<1>6. CASE ClaimPay(r)
  <2>1. u \in Users /\ key[u] > 0 /\ Holding(r) /\ ~ job[r].paid
    BY <1>6 DEF ClaimPay, Is, DailyLocal, Holding
  <2>2. /\ age' = [age EXCEPT ![u] = Day - key[u]]
        /\ doubted' = doubted \ {u}
        /\ key' = key /\ blocked' = blocked
        /\ \E j \in {Idle, [op |-> "undo", user |-> u, paid |-> TRUE]} : job' = [job EXCEPT ![r] = j]
    BY <1>2, <1>6 DEF ClaimPay, Finish, Job
  <2>3. DailyLocal'
    BY <1>2, <2>1, <2>2 DEF DailyLocal, Is, Holding, Idle
  <2>4. OneHolder'
    BY <1>2, <2>1, <2>2 DEF OneHolder, Is, Holding, Idle
  <2>5. AgeAndKey'
    BY <1>2, <2>1, <2>2 DEF AgeAndKey
  <2>6. HolderAge'
    BY <1>2, <2>1, <2>2 DEF HolderAge, OneHolder, DailyLocal, Is, Holding, Idle
  <2>7. KeyHasCause'
    BY <1>2, <2>1, <2>2 DEF KeyHasCause, Is, Holding, Idle
  <2> QED BY <1>1, <2>3, <2>4, <2>5, <2>6, <2>7
<1>7. CASE ClaimUndo(r)
  <2>1. u \in Users /\ key[u] > 0 /\ Holding(r)
    BY <1>7 DEF ClaimUndo, Is, DailyLocal, Holding
  <2>2. job' = [job EXCEPT ![r] = Idle] /\ age' = age
    BY <1>7 DEF ClaimUndo, Finish
  <2>3. \/ /\ key' = [key EXCEPT ![u] = 0] /\ blocked' = blocked
           /\ doubted' = IF job[r].paid THEN doubted \cup {u} ELSE doubted
        \/ /\ key' = key /\ doubted' = doubted
           /\ blocked' = blocked \cup {v \in Users : u = v /\ ~ job[r].paid}
    BY <1>7, <2>1 DEF ClaimUndo, LeftBehind
  <2>4. DailyLocal' /\ OneHolder'
    BY <1>2, <2>1, <2>2, <2>3 DEF DailyLocal, OneHolder, Is, Holding, Idle
  <2>5. AgeAndKey'
    BY <1>2, <2>1, <2>2, <2>3 DEF AgeAndKey, HolderAge
  <2>6. HolderAge'
    BY <1>2, <2>1, <2>2, <2>3 DEF HolderAge, OneHolder, DailyLocal, Is, Holding, Idle
  <2>7. KeyHasCause'
    BY <1>2, <2>1, <2>2, <2>3 DEF KeyHasCause, HolderAge, OneHolder, Is, Holding, Idle
  <2> QED BY <1>1, <2>4, <2>5, <2>6, <2>7
<1>8. CASE ClaimThrow(r)
  <2>1. /\ u \in Users /\ job' = [job EXCEPT ![r] = Idle]
        /\ age' = age /\ key' = key /\ doubted' = doubted
        /\ blocked' = blocked \cup {v \in Users : Holding(r) /\ u = v /\ ~ job[r].paid}
    BY <1>8 DEF ClaimThrow, Finish, LeftBehind, Is, DailyLocal
  <2>2. DailyLocal' /\ OneHolder' /\ AgeAndKey' /\ HolderAge'
    BY <1>2, <2>1 DEF DailyLocal, OneHolder, AgeAndKey, HolderAge, Is, Holding, Idle
  <2>3. KeyHasCause'
    BY <1>2, <2>1 DEF KeyHasCause, HolderAge, Holding, Idle
  <2> QED BY <1>1, <2>2, <2>3
<1> QED BY <1>3, <1>4, <1>5, <1>6, <1>7, <1>8 DEF Claim

\* A request that comes or goes, and what happens to an instance, keep it.
LEMMA OtherDailyStep ==
    ASSUME DailyInv,
           \/ \E u \in Users : Complete(u)
           \/ \E r \in Requests, u \in Users : ClaimGate(r, u)
           \/ \E i \in Instances : LoseRedis(i) \/ Restart(i)
    PROVE  DailyInv'
<1> USE ProfitAssumption DEF DailyInv, TypeOK
<1>1. ASSUME NEW u \in Users, Complete(u)
      PROVE  DailyInv'
  BY <1>1 DEF Complete, DailyLocal, OneHolder, AgeAndKey, HolderAge, KeyHasCause, Is, Holding
<1>2. ASSUME NEW r \in Requests, NEW u \in Users, ClaimGate(r, u)
      PROVE  DailyInv'
  <2>1. job' = [job EXCEPT ![r] = [op |-> "lock", user |-> u, paid |-> FALSE]]
    BY <1>2 DEF ClaimGate
  <2>2. TypeOK'
    BY <1>2, <2>1 DEF ClaimGate, Job, Ops
  <2>3. ~ Holding(r)
    BY <1>2 DEF ClaimGate, Is, Holding
  <2>4. DailyLocal' /\ OneHolder'
    BY <1>2, <2>1, <2>3 DEF ClaimGate, DailyLocal, OneHolder, Is, Holding
  <2>5. AgeAndKey' /\ HolderAge' /\ KeyHasCause'
    BY <1>2, <2>1, <2>3 DEF ClaimGate, AgeAndKey, HolderAge, KeyHasCause, Holding
  <2> QED BY <2>2, <2>4, <2>5
<1>3. ASSUME NEW i \in Instances, LoseRedis(i)
      PROVE  DailyInv'
  BY <1>3 DEF LoseRedis, DailyLocal, OneHolder, AgeAndKey, HolderAge, KeyHasCause, Is, Holding
<1>4. ASSUME NEW i \in Instances, Restart(i)
      PROVE  DailyInv'
  <2> DEFINE R == {r \in Requests : InstanceOf[r] = i}
  <2>1. /\ job' = [r \in Requests |-> IF r \in R THEN Idle ELSE job[r]]
        /\ key' = key /\ age' = age /\ doubted' = doubted
        /\ blocked' = blocked \cup LeftBehind(R)
    BY <1>4 DEF Restart
  <2>2. TypeOK'
    BY <1>4, <2>1 DEF Restart, LeftBehind, Job, Idle, Ops
  <2>3. DailyLocal' /\ OneHolder' /\ AgeAndKey' /\ HolderAge'
    BY <2>1 DEF DailyLocal, OneHolder, AgeAndKey, HolderAge, Is, Holding, Idle
  <2>4. ASSUME NEW u \in Users, key'[u] > 0
        PROVE  \/ \E r \in Requests : Holding(r)' /\ job'[r].user = u
               \/ age'[u] = Day - key'[u]
               \/ u \in blocked'
    <3>1. CASE \E r \in R : Holding(r) /\ job[r].user = u
      BY <2>1, <3>1 DEF HolderAge, LeftBehind
    <3>2. CASE \E r \in Requests \ R : Holding(r) /\ job[r].user = u
      BY <2>1, <3>2 DEF Holding
    <3> QED BY <2>1, <2>4, <3>1, <3>2 DEF KeyHasCause
  <2>5. KeyHasCause'
    BY <2>4 DEF KeyHasCause
  <2> QED BY <2>2, <2>3, <2>5
<1> QED BY <1>1, <1>2, <1>3, <1>4

\* So does time: the sum of a key and the time since the last paid claim stays
\* what it is, and no key of a claim in flight expires.
LEMMA TickStep ==
    ASSUME DailyInv, Tick
    PROVE  DailyInv'
<1> USE ProfitAssumption DEF DailyInv
<1>1. /\ key' = [u \in Users |-> IF key[u] = 0 THEN 0 ELSE key[u] - 1]
      /\ age' = [u \in Users |-> IF age[u] = Day THEN Day ELSE age[u] + 1]
      /\ job' = job /\ doubted' = doubted
      /\ blocked' = {u \in blocked : key[u] > 1}
      /\ \A r \in Requests : Holding(r) => key[job[r].user] # 1
  BY DEF Tick
<1>2. /\ key \in [Users -> 0 .. Day] /\ age \in [Users -> 0 .. Day]
      /\ hour \in 0 .. Day - 1 /\ blocked \in SUBSET Users /\ Day \in Nat \ {0}
  BY DEF TypeOK
<1>3. TypeOK'
  <2>1. hour' \in 0 .. Day - 1
    BY <1>2 DEF Tick
  <2>2. key' \in [Users -> 0 .. Day] /\ age' \in [Users -> 0 .. Day] /\ blocked' \in SUBSET Users
    BY <1>1, <1>2
  <2>3. completed' \in SUBSET Users
    BY DEF Tick, TypeOK
  <2> QED BY <2>1, <2>2, <2>3 DEF Tick, TypeOK
<1>4. DailyLocal'
  BY <1>1, <1>2 DEF DailyLocal, Is, Holding
<1>5. OneHolder'
  BY <1>1 DEF OneHolder, Holding
<1>6. AgeAndKey'
  BY <1>1, <1>2 DEF AgeAndKey
<1>7. HolderAge'
  <2>1. ASSUME NEW r \in Requests, job[r].paid
        PROVE  /\ job[r].user \in Users /\ key[job[r].user] > 0
               /\ age[job[r].user] = Day - key[job[r].user]
    BY <2>1 DEF DailyLocal, HolderAge, Is, Holding
  <2>2. ASSUME NEW r \in Requests, job[r].paid
        PROVE  age'[job[r].user] = Day - key'[job[r].user]
    BY <1>1, <1>2, <2>1, <2>2
  <2>3. ASSUME NEW r \in Requests, Holding(r), ~ job[r].paid
        PROVE  age'[job[r].user] = Day \/ job[r].user \in doubted
    BY <1>1, <1>2, <2>3 DEF DailyLocal, HolderAge, Is, Holding
  <2> QED BY <1>1, <2>2, <2>3 DEF HolderAge, Holding
<1>8. KeyHasCause'
  BY <1>1, <1>2 DEF KeyHasCause, Holding
<1> QED BY <1>3, <1>4, <1>5, <1>6, <1>7, <1>8

\* Every step of the daily profit keeps its invariant.
LEMMA DailyStep == DailyInv /\ [Next]_vars => DailyInv'
<1> SUFFICES ASSUME DailyInv, [Next]_vars PROVE DailyInv'
  OBVIOUS
<1>1. CASE UNCHANGED vars
  BY <1>1 DEF vars, DailyInv, TypeOK, DailyLocal, OneHolder, AgeAndKey, HolderAge, KeyHasCause, Is, Holding
<1>2. CASE Next
  BY <1>2, ClaimStep, OtherDailyStep, TickStep DEF Next
<1> QED BY <1>1, <1>2

\* The parts of the invariant hold for every number of users, requests and
\* instances and every length of the day.
THEOREM DailyInvariant == Spec => []DailyInv
<1> QED BY DailyInit, DailyStep, PTL DEF Spec

\* Crashes, outages and lost replies included, a claim that may pay is in
\* flight only a day after the last one that was paid, or after a key that was
\* freed although its claim was paid.
THEOREM DailyOnce == Spec => []OneProfitADay
<1>1. DailyInv => OneProfitADay
  BY DEF DailyInv, OneProfitADay, DailyLocal, HolderAge, Is, Holding
<1> QED BY <1>1, DailyInvariant, PTL

\* And nobody is locked out without a cause.
THEOREM DailyKeys == Spec => []KeyHasCause
<1>1. DailyInv => KeyHasCause
  BY DEF DailyInv
<1> QED BY <1>1, DailyInvariant, PTL

-----------------------------------------------------------------------------
(* The rate limit.  Only the caller who was answered 1 can set the timer,  *)
(* so it is alone while it is at it.                                       *)

\* 1 if the caller who began the counter is still to pass, on a route with
\* limit m.
ToPass(m) == IF \E c \in Callers : Expiring(c) /\ call[c].max = m THEN 1 ELSE 0

OneExpiring ==
    /\ \A c \in Callers : Expiring(c) => count > 0 /\ timer = 0
    /\ \A c, d \in Callers : Expiring(c) /\ Expiring(d) => c = d
    /\ count = 0 => timer = 0

PassedIsCounted ==
    \A m \in RouteMax : passed[m] + ToPass(m) <= count /\ passed[m] + ToPass(m) <= m

\* A counter without a TTL is one whose first caller is about to set it, or
\* broke off before it did.
CounterHasTimer ==
    count > 0 => timer > 0 \/ severed \/ \E c \in Callers : Expiring(c)

RateInv == RateTypeOK /\ OneExpiring /\ PassedIsCounted /\ CounterHasTimer

\* The initial state.
LEMMA RateStart == RateInit => RateInv
<1> SUFFICES ASSUME RateInit PROVE RateInv
  OBVIOUS
<1> USE RateAssumption DEF RateInit
<1>1. call \in [Callers -> [at : {"incr", "expire"}, max : RouteMax] \cup {NoCall}]
  OBVIOUS
<1>2. passed \in [RouteMax -> 0 .. CountCap]
  OBVIOUS
<1>3. RateTypeOK
  <2>1. count \in 0 .. CountCap /\ timer \in 0 .. Window /\ online \in SUBSET Callers
    OBVIOUS
  <2>2. severed \in BOOLEAN
    OBVIOUS
  <2> QED BY <1>1, <1>2, <2>1, <2>2 DEF RateTypeOK
<1>4. \A c \in Callers : ~ Expiring(c)
  BY DEF Expiring, NoCall
<1>5. OneExpiring /\ CounterHasTimer
  BY <1>4 DEF OneExpiring, CounterHasTimer
<1>6. PassedIsCounted
  BY <1>4 DEF PassedIsCounted, ToPass, RouteMax
<1> QED BY <1>3, <1>5, <1>6 DEF RateInv

\* A verdict lets one call more through, or none.
LEMMA VerdictCounts ==
    ASSUME RateInv, NEW c \in Callers, call[c].max \in RouteMax,
           NEW answer \in Nat, Verdict(c, answer)
    PROVE  /\ passed' \in [RouteMax -> Nat]
           /\ \A m \in RouteMax :
                 passed'[m] = IF m = call[c].max /\ answer <= m THEN passed[m] + 1 ELSE passed[m]
<1> QED BY RateAssumption DEF RateInv, RateTypeOK, Verdict, RouteMax

\* INCR, answered or not, and EXPIRE.
LEMMA CountStep ==
    ASSUME RateInv, NEW c \in Callers, RateCount(c)
    PROVE  RateInv'
<1> USE RateAssumption DEF RateInv
<1> DEFINE M == call[c].max
<1>1. /\ count \in 0 .. CountCap /\ timer \in 0 .. Window
      /\ call \in [Callers -> [at : {"incr", "expire"}, max : RouteMax] \cup {NoCall}]
      /\ passed \in [RouteMax -> 0 .. CountCap]
      /\ severed \in BOOLEAN /\ online \in SUBSET Callers
      /\ RouteMax \subseteq 1 .. CountCap - 1
  BY DEF RateTypeOK, RouteMax
<1>2. call[c] \in [at : {"incr", "expire"}, max : RouteMax] /\ call[c].at = "incr" /\ M \in RouteMax
  BY <1>1 DEF RateCount, Counting, NoCall
<1>3. count' = Incremented /\ timer' = timer /\ online' = online /\ severed' = severed /\ count' \in 1 .. CountCap
  BY <1>1 DEF RateCount, Incremented
<1>4. CASE count' = 1
  <2>1. count = 0 /\ timer = 0 /\ \A d \in Callers : ~ Expiring(d)
    BY <1>1, <1>3, <1>4 DEF Incremented, OneExpiring
  <2>2. call' = [call EXCEPT ![c] = [at |-> "expire", max |-> M]] /\ passed' = passed
    BY <1>1, <1>2, <1>4 DEF RateCount
  <2>3. RateTypeOK'
    BY <1>1, <1>2, <1>3, <2>2 DEF RateTypeOK
  <2>4. \A d \in Callers : Expiring(d)' <=> d = c
    BY <1>1, <2>1, <2>2 DEF Expiring
  <2>5. OneExpiring' /\ CounterHasTimer'
    BY <1>3, <1>4, <2>1, <2>4 DEF OneExpiring, CounterHasTimer
  <2>6. \A m \in RouteMax : passed[m] = 0
    BY <1>1, <2>1 DEF PassedIsCounted, ToPass
  <2>7. PassedIsCounted'
    BY <1>1, <1>4, <2>2, <2>6 DEF PassedIsCounted, ToPass
  <2> QED BY <2>3, <2>5, <2>7
<1>5. CASE count' # 1
  <2>1. count > 0 /\ count' >= count /\ (count < CountCap => count' = count + 1) /\ (count = CountCap => count' = CountCap)
    BY <1>1, <1>3, <1>5 DEF Incremented
  <2>2. call' = [call EXCEPT ![c] = NoCall] /\ Verdict(c, count')
    BY <1>5 DEF RateCount
  <2>3. \A d \in Callers : Expiring(d)' <=> Expiring(d)
    BY <1>1, <1>2, <2>2 DEF Expiring, NoCall
  <2>4. OneExpiring' /\ CounterHasTimer'
    BY <1>1, <1>3, <2>1, <2>3 DEF OneExpiring, CounterHasTimer
  <2>5. \A d \in Callers : Expiring(d) => call'[d] = call[d]
    BY <1>1, <1>2, <2>2 DEF Expiring
  <2>6. \A m \in RouteMax : ToPass(m)' = ToPass(m) /\ ToPass(m) \in {0, 1}
    BY <2>3, <2>5 DEF ToPass
  <2>7. /\ passed' \in [RouteMax -> Nat]
        /\ \A m \in RouteMax :
              passed'[m] = IF m = M /\ count' <= m THEN passed[m] + 1 ELSE passed[m]
    BY <1>2, <1>3, <2>2, VerdictCounts
  <2>8. PassedIsCounted'
    BY <1>1, <1>3, <2>1, <2>6, <2>7 DEF PassedIsCounted
  <2>9. passed' \in [RouteMax -> 0 .. CountCap]
    BY <1>1, <2>6, <2>7, <2>8 DEF PassedIsCounted
  <2>10. RateTypeOK'
    BY <1>1, <1>3, <2>2, <2>9 DEF RateTypeOK
  <2> QED BY <2>4, <2>8, <2>10
<1> QED BY <1>4, <1>5

\* EXPIRE gives the counter of a request its timer.
LEMMA ExpireStep ==
    ASSUME RateInv, NEW c \in Callers, RateExpire(c)
    PROVE  RateInv'
<1> USE RateAssumption DEF RateInv
<1> DEFINE M == call[c].max
<1>1. /\ count \in 0 .. CountCap /\ timer \in 0 .. Window
      /\ call \in [Callers -> [at : {"incr", "expire"}, max : RouteMax] \cup {NoCall}]
      /\ passed \in [RouteMax -> 0 .. CountCap]
      /\ severed \in BOOLEAN /\ online \in SUBSET Callers
      /\ RouteMax \subseteq 1 .. CountCap - 1
  BY DEF RateTypeOK, RouteMax
<1>2. Expiring(c) /\ M \in RouteMax /\ count > 0
  BY <1>1 DEF RateExpire, Expiring, NoCall, OneExpiring
<1>3. /\ timer' = Window /\ call' = [call EXCEPT ![c] = NoCall]
      /\ count' = count /\ online' = online /\ severed' = severed /\ Verdict(c, 1)
  BY <1>2 DEF RateExpire
<1>4. \A d \in Callers : ~ Expiring(d)'
  BY <1>1, <1>2, <1>3 DEF OneExpiring, Expiring, NoCall
<1>5. OneExpiring' /\ CounterHasTimer'
  BY <1>2, <1>3, <1>4 DEF OneExpiring, CounterHasTimer
<1>6. /\ passed' \in [RouteMax -> Nat]
      /\ \A m \in RouteMax : passed'[m] = IF m = M THEN passed[m] + 1 ELSE passed[m]
  BY <1>1, <1>2, <1>3, VerdictCounts
<1>7. ToPass(M) = 1 /\ \A m \in RouteMax : ToPass(m)' = 0 /\ ToPass(m) \in {0, 1}
  BY <1>2, <1>4 DEF ToPass
<1>8. PassedIsCounted'
  BY <1>1, <1>2, <1>3, <1>6, <1>7 DEF PassedIsCounted
<1>9. passed' \in [RouteMax -> 0 .. CountCap]
  BY <1>1, <1>6, <1>7, <1>8 DEF PassedIsCounted
<1>10. RateTypeOK'
  BY <1>1, <1>3, <1>9 DEF RateTypeOK
<1> QED BY <1>5, <1>8, <1>10

\* A call that breaks off, before or after Redis did what it asked for.
LEMMA BreakStep ==
    ASSUME RateInv, NEW c \in Callers, RateBreak(c)
    PROVE  RateInv'
<1> USE RateAssumption DEF RateInv
<1>1. /\ count \in 0 .. CountCap /\ timer \in 0 .. Window
      /\ call \in [Callers -> [at : {"incr", "expire"}, max : RouteMax] \cup {NoCall}]
      /\ passed \in [RouteMax -> 0 .. CountCap]
      /\ severed \in BOOLEAN /\ online \in SUBSET Callers
  BY DEF RateTypeOK
<1>2. /\ call' = [call EXCEPT ![c] = NoCall] /\ online' = online /\ passed' = passed
      /\ count' \in {count, Incremented} /\ timer' \in {timer, Window} /\ severed' \in BOOLEAN
      /\ severed => severed'
  BY <1>1 DEF RateBreak
<1>3. RateTypeOK'
  BY <1>1, <1>2 DEF RateTypeOK, Incremented
<1>4. \A d \in Callers : Expiring(d)' <=> Expiring(d) /\ d # c
  BY <1>1, <1>2 DEF Expiring, NoCall
<1>5. OneExpiring' /\ CounterHasTimer'
  <2>1. CASE Counting(c) /\ count' = count /\ timer' = timer /\ severed' = severed
    BY <1>1, <1>4, <2>1 DEF OneExpiring, CounterHasTimer, Counting, Expiring
  <2>2. CASE Counting(c) /\ count' = Incremented /\ timer' = timer /\ severed' = (severed \/ count = 0)
    <3>0. count = 0 => severed'
      BY <2>2
    <3>1. count' > 0 /\ ~ Expiring(c)
      BY <1>1, <2>2 DEF Counting, Expiring, Incremented
    <3>2. \A d \in Callers : Expiring(d)' <=> Expiring(d)
      BY <1>4, <3>1
    <3>3. OneExpiring'
      BY <2>2, <3>1, <3>2 DEF OneExpiring
    <3>4. CounterHasTimer'
      BY <1>1, <1>2, <2>2, <3>0, <3>2 DEF CounterHasTimer
    <3> QED BY <3>3, <3>4
  <2>3. CASE Expiring(c) /\ severed' = TRUE /\ count' = count /\ timer' = timer
    BY <1>1, <1>4, <2>3 DEF OneExpiring, CounterHasTimer
  <2>4. CASE Expiring(c) /\ timer' = Window /\ count' = count /\ severed' = severed
    BY <1>1, <1>4, <2>4 DEF OneExpiring, CounterHasTimer
  <2> QED BY <2>1, <2>2, <2>3, <2>4 DEF RateBreak
<1>6. \A m \in RouteMax : ToPass(m)' <= ToPass(m) /\ ToPass(m) \in {0, 1} /\ ToPass(m)' \in {0, 1}
  BY <1>1, <1>2, <1>4 DEF ToPass
<1>7. count' >= count /\ count' \in Nat /\ RouteMax \subseteq Nat
  BY <1>1, <1>2 DEF Incremented, RouteMax
<1>8. PassedIsCounted'
  BY <1>1, <1>2, <1>6, <1>7 DEF PassedIsCounted
<1> QED BY <1>3, <1>5, <1>8

\* The steps that leave the counter alone, and time, which ends it.
LEMMA OtherRateStep ==
    ASSUME RateInv,
           \/ \E c \in Callers : RateArrive(c) \/ RateUncounted(c) \/ RateConnection(c)
           \/ RateTick
    PROVE  RateInv'
<1> USE RateAssumption DEF RateInv
<1>1. /\ count \in 0 .. CountCap /\ timer \in 0 .. Window
      /\ call \in [Callers -> [at : {"incr", "expire"}, max : RouteMax] \cup {NoCall}]
      /\ passed \in [RouteMax -> 0 .. CountCap]
      /\ severed \in BOOLEAN /\ online \in SUBSET Callers
      /\ RouteMax \subseteq Nat \ {0}
  BY DEF RateTypeOK, RouteMax
<1>2. ASSUME NEW c \in Callers, RateArrive(c) \/ RateUncounted(c) \/ RateConnection(c)
      PROVE  RateInv'
  <2>1. /\ count' = count /\ timer' = timer /\ passed' = passed /\ severed' = severed
        /\ online' \in SUBSET Callers
    BY <1>1, <1>2 DEF RateArrive, RateUncounted, RateConnection
  <2>2. call' \in [Callers -> [at : {"incr", "expire"}, max : RouteMax] \cup {NoCall}]
    BY <1>1, <1>2 DEF RateArrive, RateUncounted, RateConnection
  <2>3. \A d \in Callers : (Expiring(d)' <=> Expiring(d)) /\ (Expiring(d) => call'[d] = call[d])
    BY <1>1, <1>2 DEF RateArrive, RateUncounted, RateConnection, Expiring, Counting, NoCall
  <2>4. RateTypeOK'
    BY <1>1, <2>1, <2>2 DEF RateTypeOK
  <2>5. OneExpiring' /\ CounterHasTimer'
    BY <2>1, <2>3 DEF OneExpiring, CounterHasTimer
  <2>6. \A m \in RouteMax : ToPass(m)' = ToPass(m)
    BY <2>3 DEF ToPass
  <2>7. PassedIsCounted'
    BY <2>1, <2>6 DEF PassedIsCounted
  <2> QED BY <2>4, <2>5, <2>7
<1>3. CASE RateTick
  <2>1. timer > 0 /\ timer' = timer - 1 /\ call' = call /\ online' = online /\ severed' = severed
    BY <1>3 DEF RateTick
  <2>2. count > 0 /\ \A d \in Callers : ~ Expiring(d) /\ ~ Expiring(d)'
    BY <1>1, <2>1 DEF OneExpiring, Expiring
  <2>3. \A m \in RouteMax : ToPass(m) = 0 /\ ToPass(m)' = 0
    BY <2>2 DEF ToPass
  <2>4. CASE timer = 1
    <3>1. count' = 0 /\ passed' = [m \in RouteMax |-> 0]
      BY <1>3, <2>4 DEF RateTick
    <3>2. RateTypeOK'
      BY <1>1, <2>1, <3>1 DEF RateTypeOK
    <3>3. OneExpiring' /\ CounterHasTimer'
      BY <1>1, <2>1, <2>2, <2>4, <3>1 DEF OneExpiring, CounterHasTimer
    <3>4. PassedIsCounted'
      BY <1>1, <2>3, <3>1 DEF PassedIsCounted
    <3> QED BY <3>2, <3>3, <3>4
  <2>5. CASE timer # 1
    <3>1. count' = count /\ passed' = passed
      BY <1>3, <2>5 DEF RateTick
    <3>2. RateTypeOK'
      BY <1>1, <2>1, <3>1 DEF RateTypeOK
    <3>3. OneExpiring' /\ CounterHasTimer'
      BY <1>1, <2>1, <2>2, <2>5, <3>1 DEF OneExpiring, CounterHasTimer
    <3>4. PassedIsCounted'
      BY <2>3, <3>1 DEF PassedIsCounted
    <3> QED BY <3>2, <3>3, <3>4
  <2> QED BY <2>4, <2>5
<1> QED BY <1>2, <1>3

\* Every step of the rate limit keeps its invariant.
LEMMA RateInvStep == RateInv /\ [RateNext]_rateVars => RateInv'
<1> SUFFICES ASSUME RateInv, [RateNext]_rateVars PROVE RateInv'
  OBVIOUS
<1>1. CASE UNCHANGED rateVars
  BY <1>1 DEF rateVars, RateInv, RateTypeOK, OneExpiring, PassedIsCounted, ToPass, CounterHasTimer, Expiring
<1>2. CASE RateNext
  BY <1>2, CountStep, ExpireStep, BreakStep, OtherRateStep DEF RateNext, RateStep
<1> QED BY <1>1, <1>2

\* The inductive invariant of the rate limit, for any number of requests and
\* any limits.
THEOREM RateInvariant == RateSpec => []RateInv
<1> QED BY RateStart, RateInvStep, PTL DEF RateSpec

\* However many requests of an address overlap, break off or lose their
\* connection, one counter lets no more than each limit through.
THEOREM RateLimitHolds == RateSpec => []LimitHolds
<1>1. RateInv => LimitHolds
  <2> SUFFICES ASSUME RateInv, NEW m \in RouteMax PROVE passed[m] <= m
    BY DEF LimitHolds
  <2>1. passed[m] \in Nat /\ m \in Nat /\ ToPass(m) \in {0, 1} /\ passed[m] + ToPass(m) <= m
    BY RateAssumption DEF RateInv, RateTypeOK, PassedIsCounted, ToPass, RouteMax
  <2> QED BY <2>1
<1> QED BY <1>1, RateInvariant, PTL

\* What AtomicWithExpiry would take to hold: with no call in flight, a counter
\* has a TTL unless the call that began one broke off between the two commands.
THEOREM RateTimer ==
    RateSpec => []((\A c \in Callers : call[c] = NoCall) => (count > 0 => timer > 0 \/ severed))
<1>1. RateInv => ((\A c \in Callers : call[c] = NoCall) => (count > 0 => timer > 0 \/ severed))
  BY DEF RateInv, CounterHasTimer, Expiring, NoCall
<1> QED BY <1>1, RateInvariant, PTL

-----------------------------------------------------------------------------
(* The caches.                                                             *)

\* A request that no write has overtaken holds what MongoDB holds.
HeldIsStored ==
    \A q \in Readers :
        /\ visit[q].at # "none" => visit[q].key \in CacheKeys
        /\ visit[q].at \in {"fill", "tell"} /\ q \notin overtaken =>
              visit[q].version = version[visit[q].key]

CacheInv == CacheTypeOK /\ HeldIsStored /\ StaleHasCause

\* The initial state.
LEMMA CacheStart == CacheInit => CacheInv
<1> SUFFICES ASSUME CacheInit PROVE CacheInv
  OBVIOUS
<1> USE CachesAssumption DEF CacheInit
<1>1. CacheTypeOK
  BY DEF CacheTypeOK, NoEntry, NoVisit
<1>2. HeldIsStored /\ StaleHasCause
  BY DEF HeldIsStored, StaleHasCause, Stale, Cached, NoEntry, NoVisit
<1> QED BY <1>1, <1>2 DEF CacheInv

\* A write makes new versions of the keys K, and overtakes whoever holds an
\* older one.
LEMMA WriteKeepsHeld ==
    ASSUME CacheInv, NEW K \in SUBSET CacheKeys, Write(K)
    PROVE  /\ version' \in [CacheKeys -> 0 .. MaxVersion]
           /\ overtaken' \in SUBSET Readers
           /\ overtaken \subseteq overtaken'
           /\ \A k \in CacheKeys \ K : version'[k] = version[k]
           /\ \A q \in Readers :
                 visit[q].at \in {"fill", "tell"} /\ q \notin overtaken' =>
                    visit[q].version = version'[visit[q].key]
<1> USE CachesAssumption DEF CacheInv, CacheTypeOK
<1>1. version' = [k \in CacheKeys |-> IF k \in K THEN version[k] + 1 ELSE version[k]]
      /\ overtaken' = overtaken \cup Holders(K) /\ \A k \in K : version[k] < MaxVersion
  BY DEF Write
<1>2. \A q \in Readers :
         visit[q].at \in {"fill", "tell"} /\ q \notin overtaken' =>
            visit[q].version = version'[visit[q].key]
  BY <1>1 DEF Holders, HeldIsStored
<1>3. version' \in [CacheKeys -> 0 .. MaxVersion]
  BY <1>1
<1> QED BY <1>1, <1>2, <1>3 DEF Holders

\* GET, the read from MongoDB, and a write into the cache.
LEMMA ReadThroughStep ==
    ASSUME CacheInv, NEW q \in Readers,
           (\E k \in CacheKeys : LookUp(q, k)) \/ CacheStep(q)
    PROVE  CacheInv'
<1> USE CachesAssumption DEF CacheInv
<1>1. /\ version \in [CacheKeys -> 0 .. MaxVersion]
      /\ entry \in [CacheKeys -> [version : 0 .. MaxVersion, left : 0 .. CacheTTL]]
      /\ visit \in [Readers -> [at : {"none", "load", "fill", "tell"},
                                key : CacheKeys \cup {NoEntryKey},
                                version : 0 .. MaxVersion]]
      /\ overtaken \in SUBSET Readers /\ excused \in SUBSET CacheKeys
  BY DEF CacheTypeOK
<1>2. ASSUME NEW k \in CacheKeys, LookUp(q, k)
      PROVE  CacheInv'
  <2>1. visit' = [visit EXCEPT ![q] = [at |-> "load", key |-> k, version |-> 0]]
    BY <1>2 DEF LookUp, Go
  <2>2. CacheTypeOK'
    BY <1>1, <1>2, <2>1 DEF LookUp, CacheTypeOK
  <2>3. HeldIsStored'
    BY <1>1, <1>2, <2>1 DEF LookUp, HeldIsStored
  <2>4. StaleHasCause'
    BY <1>1, <1>2, <2>1 DEF LookUp, StaleHasCause, Stale, Cached, At, NoVisit
  <2> QED BY <2>2, <2>3, <2>4
<1>3. CASE Load(q)
  <2>1. visit[q].key \in CacheKeys
    BY <1>3 DEF Load, At, HeldIsStored
  <2>2. visit' = [visit EXCEPT ![q] = [at |-> "fill", key |-> visit[q].key,
                                       version |-> version[visit[q].key]]]
    BY <1>3 DEF Load, Go
  <2>3. CacheTypeOK'
    BY <1>1, <1>3, <2>1, <2>2 DEF Load, CacheTypeOK
  <2>4. HeldIsStored'
    BY <1>1, <1>3, <2>1, <2>2 DEF Load, HeldIsStored
  <2>5. StaleHasCause'
    BY <1>1, <1>3, <2>2 DEF Load, StaleHasCause, Stale, Cached, At
  <2> QED BY <2>3, <2>4, <2>5
<1>4. CASE Put(q)
  <2> DEFINE k == visit[q].key
  <2>1. k \in CacheKeys /\ visit[q].at \in {"fill", "tell"}
    BY <1>4 DEF Put, HeldIsStored
  <2>2. /\ entry' = [entry EXCEPT ![k] = [version |-> visit[q].version, left |-> CacheTTL]]
        /\ excused' = IF q \in overtaken THEN excused \cup {k} ELSE excused \ {k}
        /\ visit' = [visit EXCEPT ![q] = NoVisit] /\ overtaken' = overtaken \ {q}
        /\ version' = version
    BY <1>4 DEF Put, EndVisit
  <2>3. CacheTypeOK'
    BY <1>1, <2>1, <2>2 DEF CacheTypeOK, NoVisit
  <2>4. HeldIsStored'
    BY <1>1, <2>2 DEF HeldIsStored, NoVisit
  <2>5. ASSUME NEW j \in CacheKeys, Stale(j)'
        PROVE  j \in excused' \/ \E p \in Readers : At(p, "tell")' /\ visit'[p].key = j
    <3>1. CASE j = k
      BY <1>1, <2>1, <2>2, <2>5, <3>1 DEF HeldIsStored, Stale
    <3>2. CASE j # k
      <4>1. Stale(j)
        BY <1>1, <2>2, <2>5, <3>2 DEF Stale, Cached
      <4> QED BY <1>1, <2>2, <3>2, <4>1 DEF StaleHasCause, At
    <3> QED BY <3>1, <3>2
  <2> QED BY <2>3, <2>4, <2>5 DEF StaleHasCause
<1>5. CASE DropVisit(q)
  <2>1. /\ visit[q].at \in {"load", "fill", "tell"} => visit[q].key \in CacheKeys
        /\ visit' = [visit EXCEPT ![q] = NoVisit] /\ overtaken' = overtaken \ {q}
        /\ excused' = IF At(q, "tell") THEN excused \cup {visit[q].key} ELSE excused
        /\ entry' = entry /\ version' = version
    BY <1>5 DEF DropVisit, EndVisit, HeldIsStored
  <2>2. CacheTypeOK'
    BY <1>1, <2>1 DEF CacheTypeOK, NoVisit, At
  <2>3. HeldIsStored'
    BY <1>1, <2>1 DEF HeldIsStored, NoVisit
  <2>4. StaleHasCause'
    BY <1>1, <2>1 DEF StaleHasCause, Stale, Cached, At
  <2> QED BY <2>2, <2>3, <2>4
<1> QED BY <1>2, <1>3, <1>4, <1>5 DEF CacheStep

\* Writes, with the cache told or not, and time.
LEMMA CacheWriteStep ==
    ASSUME CacheInv,
           \/ \E q \in Readers, k \in CacheKeys : UpdateProfile(q, k)
           \/ \E K \in SUBSET CacheKeys : Outdate(K)
           \/ CacheTick
    PROVE  CacheInv'
<1> USE CachesAssumption DEF CacheInv
<1>1. /\ version \in [CacheKeys -> 0 .. MaxVersion]
      /\ entry \in [CacheKeys -> [version : 0 .. MaxVersion, left : 0 .. CacheTTL]]
      /\ visit \in [Readers -> [at : {"none", "load", "fill", "tell"},
                                key : CacheKeys \cup {NoEntryKey},
                                version : 0 .. MaxVersion]]
      /\ overtaken \in SUBSET Readers /\ excused \in SUBSET CacheKeys
  BY DEF CacheTypeOK
<1>2. ASSUME NEW q \in Readers, NEW k \in CacheKeys, UpdateProfile(q, k)
      PROVE  CacheInv'
  <2>1. visit' = [visit EXCEPT ![q] = [at |-> "tell", key |-> k, version |-> version'[k]]]
        /\ entry' = entry /\ excused' = excused /\ visit[q] = NoVisit
    BY <1>2 DEF UpdateProfile, Go
  <2>2. /\ version' \in [CacheKeys -> 0 .. MaxVersion]
        /\ overtaken' \in SUBSET Readers
        /\ \A j \in CacheKeys \ {k} : version'[j] = version[j]
        /\ \A p \in Readers :
              visit[p].at \in {"fill", "tell"} /\ p \notin overtaken' =>
                 visit[p].version = version'[visit[p].key]
    BY <1>2, WriteKeepsHeld DEF UpdateProfile
  <2>3. CacheTypeOK'
    BY <1>1, <2>1, <2>2 DEF CacheTypeOK
  <2>4. HeldIsStored'
    BY <1>1, <2>1, <2>2 DEF HeldIsStored
  <2>5. StaleHasCause'
    BY <1>1, <2>1, <2>2 DEF StaleHasCause, Stale, Cached, At, NoVisit
  <2> QED BY <2>3, <2>4, <2>5
<1>3. ASSUME NEW K \in SUBSET CacheKeys, Outdate(K)
      PROVE  CacheInv'
  <2>1. visit' = visit /\ entry' = entry /\ excused' = excused \cup K
    BY <1>3 DEF Outdate
  <2>2. /\ version' \in [CacheKeys -> 0 .. MaxVersion]
        /\ overtaken' \in SUBSET Readers
        /\ \A j \in CacheKeys \ K : version'[j] = version[j]
        /\ \A p \in Readers :
              visit[p].at \in {"fill", "tell"} /\ p \notin overtaken' =>
                 visit[p].version = version'[visit[p].key]
    BY <1>3, WriteKeepsHeld DEF Outdate
  <2>3. CacheTypeOK'
    BY <1>1, <2>1, <2>2 DEF CacheTypeOK
  <2>4. HeldIsStored'
    BY <2>1, <2>2 DEF HeldIsStored
  <2>5. StaleHasCause'
    BY <1>1, <2>1, <2>2 DEF StaleHasCause, Stale, Cached, At
  <2> QED BY <2>3, <2>4, <2>5
<1>4. CASE CacheTick
  <2>1. /\ entry' = [k \in CacheKeys |->
                       IF entry[k].left > 1 THEN [entry[k] EXCEPT !.left = @ - 1] ELSE NoEntry]
        /\ version' = version /\ visit' = visit /\ overtaken' = overtaken /\ excused' = excused
    BY <1>4 DEF CacheTick
  <2>2. entry' \in [CacheKeys -> [version : 0 .. MaxVersion, left : 0 .. CacheTTL]]
    BY <1>1, <2>1 DEF NoEntry
  <2>3. CacheTypeOK'
    BY <1>1, <2>1, <2>2 DEF CacheTypeOK
  <2>4. HeldIsStored'
    BY <2>1 DEF HeldIsStored
  <2>5. \A k \in CacheKeys : Stale(k)' => Stale(k)
    BY <1>1, <2>1 DEF Stale, Cached, NoEntry
  <2>6. StaleHasCause'
    BY <2>1, <2>5 DEF StaleHasCause, At
  <2> QED BY <2>3, <2>4, <2>6
<1> QED BY <1>2, <1>3, <1>4

\* Every step of the caches keeps their invariant.
LEMMA CacheInvStep == CacheInv /\ [CacheNext]_cacheVars => CacheInv'
<1> SUFFICES ASSUME CacheInv, [CacheNext]_cacheVars PROVE CacheInv'
  OBVIOUS
<1>1. CASE UNCHANGED cacheVars
  BY <1>1 DEF cacheVars, CacheInv, CacheTypeOK, HeldIsStored, StaleHasCause, Stale, Cached, At
<1>2. CASE CacheNext
  <2>1. CASE \E q \in Readers, k \in Profiles : UpdateProfile(q, k)
    BY <2>1, CacheWriteStep DEF CacheKeys
  <2>2. CASE \E q \in Readers, k \in CacheKeys : LookUp(q, k)
    BY <2>2, ReadThroughStep
  <2>3. CASE \E q \in Readers : CacheStep(q)
    BY <2>3, ReadThroughStep
  <2>4. CASE \E K \in SUBSET CacheKeys : Outdate(K)
    BY <2>4, CacheWriteStep
  <2>5. CASE CacheTick
    BY <2>5, CacheWriteStep
  <2> QED BY <1>2, <2>1, <2>2, <2>3, <2>4, <2>5
        DEF CacheNext, GetProfile, ListTasks, OutdateProfile, OutdateLists, CacheKeys
<1> QED BY <1>1, <1>2

\* The inductive invariant of the caches, for any number of entries and
\* readers.
THEOREM CacheInvariant == CacheSpec => []CacheInv
<1> QED BY CacheStart, CacheInvStep, PTL DEF CacheSpec

\* For every number of requests, profiles and lists, a cached value that is out
\* of date has one of the three causes the invariant names.
THEOREM CacheStaleness == CacheSpec => []StaleHasCause
<1>1. CacheInv => StaleHasCause
  BY DEF CacheInv
<1> QED BY <1>1, CacheInvariant, PTL

-----------------------------------------------------------------------------
(* The files.  A key is used for one document only: the metadata of an     *)
(* upload, or the proof of a submission.                                   *)

KeysApart ==
    /\ object \cup metadata \subseteq used
    /\ \A s \in Submissions : proof[s].file \in (used \cup {NoFile}) \ metadata

\* What a request has in hand is its own: an upload not yet in the metadata or
\* no longer, or the object of a proof that no document names yet.
ErrandKeys ==
    \A w \in Uploaders :
        LET k == errand[w].key
        IN  /\ errand[w].at = "none" => errand[w] = NoErrand
            /\ errand[w].at \in {"create", "delete"} =>
                  k \in FileKeys /\ \A s \in Submissions : proof[s].file # k
            /\ errand[w].at = "store" =>
                  errand[w].of \in Submissions /\ (k # NoFile => k # errand[w].existing.file)
            /\ errand[w].at \in {"create", "store"} => k \in object \cup {NoFile}
            /\ k \in (used \cup {NoFile}) \ metadata
            /\ k # NoFile => \A v \in Uploaders : errand[v].key = k => v = w

FilesInv == FilesTypeOK /\ KeysApart /\ ErrandKeys /\ NamedIsThere /\ OrphanHasCause

\* The type of what a request is doing.
Errand == [at : {"none", "create", "delete", "store"}, key : FileKeys \cup {NoFile},
           of : Submissions \cup {NoFile}, existing : Submission]

\* What FilesTypeOK says of each variable, and of the values at rest.
LEMMA ErrandTypes ==
    ASSUME FilesTypeOK
    PROVE  /\ object \in SUBSET FileKeys /\ metadata \in SUBSET FileKeys
           /\ proof \in [Submissions -> Submission] /\ enabled \in BOOLEAN
           /\ errand \in [Uploaders -> Errand] /\ used \in SUBSET FileKeys
           /\ torn \in SUBSET (FileKeys \cup {NoFile})
           /\ replaced \in SUBSET (FileKeys \cup {NoFile})
           /\ NoErrand \in Errand /\ NoSubmission \in Submission
           /\ NoErrand.at = "none" /\ NoErrand.key = NoFile
           /\ NoSubmission.file = NoFile
           /\ NoFile \notin FileKeys
<1> QED BY FilesAssumption DEF FilesTypeOK, Errand, Submission, NoErrand, NoSubmission

\* NamedIsThere, key by key.
LEMMA NamedPointwise ==
    /\ NamedIsThere <=> /\ metadata \subseteq object
                        /\ \A s \in Submissions : proof[s].file \in object \cup {NoFile}
    /\ \A k : k \in Proofs <=> k # NoFile /\ \E s \in Submissions : proof[s].file = k
<1> QED BY DEF NamedIsThere, Proofs

\* The initial state.
LEMMA FilesStart == FileInit => FilesInv
<1> SUFFICES ASSUME FileInit PROVE FilesInv
  OBVIOUS
<1> USE FilesAssumption DEF FileInit
<1>1. NoErrand \in Errand /\ NoSubmission \in Submission
  BY DEF NoErrand, NoSubmission, Submission, Errand
<1>2. FilesTypeOK
  BY <1>1 DEF FilesTypeOK, Errand
<1>3. Proofs = {}
  BY DEF Proofs, NoSubmission
<1>4. KeysApart /\ ErrandKeys
  BY DEF KeysApart, ErrandKeys, NoErrand, NoSubmission
<1>5. NamedIsThere /\ OrphanHasCause
  BY <1>3 DEF NamedIsThere, OrphanHasCause
<1> QED BY <1>2, <1>4, <1>5 DEF FilesInv

\* A new object, for an upload or for a proof.
LEMMA PutStep ==
    ASSUME FilesInv, NEW w \in Uploaders, NEW k \in FileKeys,
           errand[w] = NoErrand,
           \/ Upload(w, k)
           \/ \E s \in Submissions : SubmitProof(w, s, k)
    PROVE  FilesInv'
<1> USE FilesAssumption DEF FilesInv
<1> USE ErrandTypes
<1>1. PICK e \in Errand :
         /\ errand' = [errand EXCEPT ![w] = e]
         /\ e.key = k /\ e.at \in {"create", "store"}
         /\ e.at = "store" => e.of \in Submissions /\ \E s \in Submissions : e.existing = proof[s]
  <2>1. CASE Upload(w, k)
    <3>1. errand' = [errand EXCEPT ![w] = [at |-> "create", key |-> k, of |-> NoFile,
                                           existing |-> NoSubmission]]
      BY <2>1 DEF Upload, PutObject, Send
    <3>2. [at |-> "create", key |-> k, of |-> NoFile, existing |-> NoSubmission] \in Errand
      BY DEF Errand
    <3> QED BY <3>1, <3>2
  <2>2. CASE \E s \in Submissions : SubmitProof(w, s, k)
    <3>1. PICK s \in Submissions :
             errand' = [errand EXCEPT ![w] = [at |-> "store", key |-> k, of |-> s,
                                              existing |-> proof[s]]]
      BY <2>2 DEF SubmitProof, PutObject, Send
    <3>2. [at |-> "store", key |-> k, of |-> s, existing |-> proof[s]] \in Errand
      BY DEF Errand
    <3> QED BY <3>1, <3>2
  <2> QED BY <2>1, <2>2
<1>2. /\ k \notin used /\ used' = used \cup {k} /\ object' = object \cup {k}
      /\ metadata' = metadata /\ proof' = proof /\ enabled' = enabled
      /\ torn' = torn /\ replaced' = replaced
  BY DEF Upload, SubmitProof, PutObject
<1>3. FilesTypeOK'
  BY <1>1, <1>2 DEF FilesTypeOK, Errand
<1>4. KeysApart'
  BY <1>2 DEF KeysApart
<1>5. ErrandKeys'
  <2>1. \A v \in Uploaders : v # w => errand'[v] = errand[v]
    BY <1>1
  <2>2. errand'[w] = e
    BY <1>1
  <2>3. k \notin metadata /\ \A s \in Submissions : proof[s].file # k
    BY <1>2 DEF KeysApart
  <2>4. \A v \in Uploaders : errand[v].key # k
    BY <1>2 DEF ErrandKeys
  <2> QED BY <1>1, <1>2, <2>1, <2>2, <2>3, <2>4 DEF ErrandKeys
<1>6. NamedIsThere'
  BY <1>2 DEF NamedIsThere, Proofs
<1>7. OrphanHasCause'
  <2>1. Handled(k)'
    BY <1>1 DEF Handled
  <2>2. \A j \in FileKeys : Handled(j) => Handled(j)'
    BY <1>1 DEF Handled
  <2> QED BY <1>2, <2>1, <2>2 DEF OrphanHasCause, Proofs
<1> QED BY <1>3, <1>4, <1>5, <1>6, <1>7

\* A text in place of an object, and the first half of a deletion.
LEMMA TextStep ==
    ASSUME FilesInv, NEW w \in Uploaders, NEW s \in Submissions, SubmitProof(w, s, NoFile)
    PROVE  FilesInv'
<1> USE FilesAssumption, ErrandTypes DEF FilesInv
<1> DEFINE e == [at |-> "store", key |-> NoFile, of |-> s, existing |-> proof[s]]
<1>1. /\ errand[w] = NoErrand /\ errand' = [errand EXCEPT ![w] = e]
      /\ object' = object /\ used' = used /\ metadata' = metadata /\ proof' = proof
      /\ enabled' = enabled /\ torn' = torn /\ replaced' = replaced
  BY DEF SubmitProof, Send
<1>2. e \in Errand
  BY DEF Errand
<1>3. FilesTypeOK'
  BY <1>1, <1>2 DEF FilesTypeOK, Errand
<1>4. KeysApart' /\ NamedIsThere'
  BY <1>1 DEF KeysApart, NamedIsThere, Proofs
<1>5. ErrandKeys'
  BY <1>1 DEF ErrandKeys
<1>6. \A k \in FileKeys : Handled(k) => Handled(k)'
  BY <1>1 DEF Handled
<1>7. OrphanHasCause'
  BY <1>1, <1>6 DEF OrphanHasCause, Proofs
<1> QED BY <1>3, <1>4, <1>5, <1>7

\* A deletion removes the document before the object.
LEMMA RemoveStep ==
    ASSUME FilesInv, NEW w \in Uploaders, NEW k \in FileKeys, RemoveFile(w, k)
    PROVE  FilesInv'
<1> USE FilesAssumption, ErrandTypes DEF FilesInv
<1> DEFINE e == [at |-> "delete", key |-> k, of |-> NoFile, existing |-> NoSubmission]
<1>1. /\ errand[w] = NoErrand /\ errand' = [errand EXCEPT ![w] = e]
      /\ k \in metadata /\ metadata' = metadata \ {k}
      /\ object' = object /\ used' = used /\ proof' = proof
      /\ enabled' = enabled /\ torn' = torn /\ replaced' = replaced
  BY DEF RemoveFile, Send
<1>2. e \in Errand
  BY DEF Errand
<1>3. FilesTypeOK'
  BY <1>1, <1>2 DEF FilesTypeOK, Errand
<1>4. KeysApart'
  BY <1>1 DEF KeysApart
<1>5. NamedIsThere'
  BY <1>1 DEF NamedIsThere, Proofs
<1>6. ErrandKeys'
  <2>1. k \in used /\ \A s \in Submissions : proof[s].file # k
    BY <1>1 DEF KeysApart
  <2>2. \A v \in Uploaders : errand[v].key # k
    BY <1>1 DEF ErrandKeys
  <2>3. errand'[w] = e /\ \A v \in Uploaders : v # w => errand'[v] = errand[v]
    BY <1>1
  <2> QED BY <1>1, <2>1, <2>2, <2>3 DEF ErrandKeys
<1>7. Handled(k)' /\ \A j \in FileKeys : Handled(j) => Handled(j)'
  BY <1>1 DEF Handled
<1>8. OrphanHasCause'
  BY <1>1, <1>7 DEF OrphanHasCause, Proofs
<1> QED BY <1>3, <1>4, <1>5, <1>6, <1>8

\* A request that is over has no key any more; the others keep theirs.
LEMMA DoneKeys ==
    ASSUME FilesInv, NEW w \in Uploaders, Done(w)
    PROVE  /\ errand' \in [Uploaders -> Errand]
           /\ errand'[w] = NoErrand
           /\ \A v \in Uploaders \ {w} :
                 /\ errand'[v] = errand[v]
                 /\ errand[v].key = errand[w].key => errand[v].key = NoFile
           /\ \A k \in FileKeys : Handled(k) => Handled(k)' \/ k = errand[w].key
<1> USE FilesAssumption, ErrandTypes DEF FilesInv
<1>1. errand' = [errand EXCEPT ![w] = NoErrand]
  BY DEF Done
<1> QED BY <1>1 DEF ErrandKeys, Handled

\* It broke off, or was refused: its object stays where it is.
LEMMA TornStep ==
    ASSUME FilesInv, NEW w \in Uploaders, Done(w),
           torn' = torn \cup {errand[w].key},
           UNCHANGED <<object, metadata, proof, enabled, used, replaced>>
    PROVE  FilesInv'
<1> USE FilesAssumption, ErrandTypes, DoneKeys DEF FilesInv
<1>1. errand[w].key \in FileKeys \cup {NoFile}
  BY DEF Errand
<1>2. FilesTypeOK'
  BY <1>1 DEF FilesTypeOK, Errand
<1>3. KeysApart' /\ NamedIsThere'
  BY DEF KeysApart, NamedIsThere, Proofs
<1>4. ErrandKeys'
  BY DEF ErrandKeys
<1>5. OrphanHasCause'
  BY DEF OrphanHasCause, Proofs
<1> QED BY <1>2, <1>3, <1>4, <1>5

\* The metadata of an upload is stored.
LEMMA CreateStep ==
    ASSUME FilesInv, NEW w \in Uploaders, Done(w), Doing(w, "create"),
           metadata' = metadata \cup {errand[w].key},
           UNCHANGED <<object, proof, enabled, used, torn, replaced>>
    PROVE  FilesInv'
<1> USE FilesAssumption, ErrandTypes, DoneKeys DEF FilesInv
<1> DEFINE k == errand[w].key
<1>1. k \in FileKeys /\ k \in used /\ k \in object /\ \A s \in Submissions : proof[s].file # k
  BY DEF Doing, ErrandKeys
<1>2. FilesTypeOK'
  BY <1>1 DEF FilesTypeOK, Errand
<1>3. KeysApart'
  BY <1>1 DEF KeysApart
<1>4. NamedIsThere'
  BY <1>1 DEF NamedIsThere, Proofs
<1>5. ErrandKeys'
  <2>1. \A v \in Uploaders \ {w} : errand[v].key # k
    BY <1>1
  <2>2. \A v \in Uploaders \ {w} : errand[v].key \in (used \cup {NoFile}) \ metadata'
    BY <2>1 DEF ErrandKeys
  <2>3. errand'[w].key \in (used \cup {NoFile}) \ metadata'
    BY <1>1
  <2> QED BY <2>2, <2>3 DEF ErrandKeys
<1>6. OrphanHasCause'
  BY DEF OrphanHasCause, Proofs
<1> QED BY <1>2, <1>3, <1>4, <1>5, <1>6

\* The object of a deleted document goes.
LEMMA DeleteStep ==
    ASSUME FilesInv, NEW w \in Uploaders, Done(w), Doing(w, "delete"),
           object' = object \ {errand[w].key},
           UNCHANGED <<metadata, proof, enabled, used, torn, replaced>>
    PROVE  FilesInv'
<1> USE FilesAssumption, ErrandTypes, DoneKeys DEF FilesInv
<1> DEFINE k == errand[w].key
<1>1. k \in FileKeys /\ k \notin metadata /\ \A s \in Submissions : proof[s].file # k
  BY DEF Doing, ErrandKeys
<1>2. FilesTypeOK'
  BY DEF FilesTypeOK, Errand
<1>3. KeysApart'
  BY DEF KeysApart
<1>4. NamedIsThere'
  BY <1>1 DEF NamedIsThere, Proofs
<1>5. ErrandKeys'
  <2>1. \A v \in Uploaders \ {w} : errand[v].key # k
    BY <1>1
  <2> QED BY <2>1 DEF ErrandKeys
<1>6. OrphanHasCause'
  BY DEF OrphanHasCause, Proofs
<1> QED BY <1>2, <1>3, <1>4, <1>5, <1>6

\* A proof is stored, in a new document or over the one found before.
LEMMA StoreStep ==
    ASSUME FilesInv, NEW w \in Uploaders, Done(w), Doing(w, "store"), NameProof(w),
           UNCHANGED <<object, metadata, enabled, used, torn>>
    PROVE  FilesInv'
<1> USE FilesAssumption, ErrandTypes, DoneKeys DEF FilesInv
<1> DEFINE k == errand[w].key
           s == errand[w].of
           file == IF k = errand[w].existing.file THEN proof[s].file ELSE k
<1>1. /\ s \in Submissions /\ k \in object \cup {NoFile} /\ k \in (used \cup {NoFile}) \ metadata
      /\ k # NoFile => k # errand[w].existing.file
  BY DEF Doing, ErrandKeys
<1>2. PICK again \in BOOLEAN :
        proof' = [proof EXCEPT ![s] = [status |-> "pending", file |-> file, again |-> again]]
  BY DEF NameProof
<1>3. replaced' = replaced \cup ({proof[s].file} \ {file})
  BY DEF NameProof
<1>4. proof[s].file \in FileKeys \cup {NoFile} /\ file \in FileKeys \cup {NoFile}
      /\ (k # NoFile => file = k) /\ file \in {k, proof[s].file}
  BY <1>1 DEF Submission, Errand
<1>5. proof'[s].file = file /\ \A t \in Submissions \ {s} : proof'[t] = proof[t]
  BY <1>1, <1>2
<1>6. FilesTypeOK'
  <2>1. proof' \in [Submissions -> Submission]
    BY <1>1, <1>2, <1>4 DEF Submission
  <2> QED BY <1>3, <1>4, <2>1 DEF FilesTypeOK, Errand
<1>7. KeysApart'
  BY <1>1, <1>4, <1>5 DEF KeysApart
<1>8. NamedIsThere'
  BY <1>1, <1>4, <1>5, NamedPointwise DEF NamedIsThere, Proofs
<1>9. ErrandKeys'
  <2>1. \A v \in Uploaders \ {w} : k # NoFile => errand[v].key # k
    OBVIOUS
  <2>2. ASSUME NEW v \in Uploaders \ {w}, errand[v].at \in {"create", "delete"}, NEW t \in Submissions
        PROVE  errand[v].key \in FileKeys /\ proof'[t].file # errand[v].key
    <3>1. errand[v].key \in FileKeys /\ proof[t].file # errand[v].key /\ proof[s].file # errand[v].key
      BY <1>1, <2>2 DEF ErrandKeys
    <3> QED BY <1>4, <1>5, <2>1, <3>1
  <2> QED BY <2>2 DEF ErrandKeys
<1>10. OrphanHasCause'
  <2> SUFFICES ASSUME NEW j \in object, j \notin metadata, j \notin Proofs'
               PROVE  Handled(j)' \/ j \in torn \cup replaced'
    BY DEF OrphanHasCause
  <2>1. j \in FileKeys /\ \A t \in Submissions : proof'[t].file # j
    BY DEF Proofs
  <2>2. j # file /\ (k # NoFile => j # k)
    BY <1>1, <1>4, <1>5, <2>1
  <2>3. CASE j \in Proofs
    <3>1. PICK t \in Submissions : proof[t].file = j
      BY <2>3 DEF Proofs
    <3>2. t = s
      BY <1>5, <2>1, <3>1
    <3> QED BY <1>3, <2>2, <3>1, <3>2
  <2>4. CASE j \notin Proofs
    BY <1>3, <2>1, <2>2, <2>4 DEF OrphanHasCause
  <2> QED BY <2>3, <2>4
<1> QED BY <1>6, <1>7, <1>8, <1>9, <1>10

\* Reviews and deployments do not touch a key.
LEMMA ReviewStep ==
    ASSUME FilesInv, Redeploy \/ \E s \in Submissions : Review(s)
    PROVE  FilesInv'
<1> USE FilesAssumption, ErrandTypes DEF FilesInv
<1>1. CASE Redeploy
  BY <1>1 DEF Redeploy, FilesTypeOK, Errand, KeysApart, ErrandKeys, NamedIsThere, OrphanHasCause, Proofs, Handled
<1>2. ASSUME NEW s \in Submissions, Review(s)
      PROVE  FilesInv'
  <2>1. PICK v \in {"approved", "rejected"} : proof' = [proof EXCEPT ![s].status = v]
    BY <1>2 DEF Review
  <2>2. UNCHANGED <<object, metadata, enabled, errand, used, torn, replaced>>
    BY <1>2 DEF Review
  <2>3. proof' \in [Submissions -> Submission] /\ \A t \in Submissions : proof'[t].file = proof[t].file
    BY <2>1 DEF Submission
  <2>4. FilesTypeOK'
    BY <2>2, <2>3 DEF FilesTypeOK, Errand
  <2>5. KeysApart' /\ ErrandKeys'
    BY <2>2, <2>3 DEF KeysApart, ErrandKeys
  <2>6. Proofs' = Proofs
    BY <2>3 DEF Proofs
  <2>7. NamedIsThere' /\ OrphanHasCause'
    BY <2>2, <2>6 DEF NamedIsThere, OrphanHasCause, Handled
  <2> QED BY <2>4, <2>5, <2>7
<1> QED BY <1>1, <1>2

\* Every step of the uploads keeps their invariant.
LEMMA FilesInvStep == FilesInv /\ [FilesNext]_fileVars => FilesInv'
<1> SUFFICES ASSUME FilesInv, [FilesNext]_fileVars PROVE FilesInv'
  OBVIOUS
<1>1. CASE UNCHANGED fileVars
  BY <1>1 DEF fileVars, FilesInv, FilesTypeOK, KeysApart, ErrandKeys, NamedIsThere, OrphanHasCause, Proofs, Handled
<1>2. ASSUME NEW w \in Uploaders, NEW k \in FileKeys, Upload(w, k) \/ RemoveFile(w, k)
      PROVE  FilesInv'
  BY <1>2, PutStep, RemoveStep DEF Upload
<1>3. ASSUME NEW w \in Uploaders, NEW s \in Submissions, NEW k \in FileKeys \cup {NoFile}, SubmitProof(w, s, k)
      PROVE  FilesInv'
  <2>1. CASE k = NoFile
    BY <1>3, <2>1, TextStep
  <2>2. CASE k \in FileKeys
    BY <1>3, <2>2, PutStep DEF SubmitProof
  <2> QED BY <2>1, <2>2
<1>4. ASSUME NEW w \in Uploaders, FileStep(w)
      PROVE  FilesInv'
  <2>1. CASE UploadCreate(w)
    BY <2>1, CreateStep DEF UploadCreate
  <2>2. CASE RemoveObject(w)
    BY <2>2, DeleteStep DEF RemoveObject
  <2>3. CASE StoreProof(w)
    BY <2>3, TornStep, StoreStep DEF StoreProof
  <2>4. CASE FileBreak(w)
    BY <2>4, TornStep, CreateStep, DeleteStep, StoreStep DEF FileBreak
  <2> QED BY <1>4, <2>1, <2>2, <2>3, <2>4 DEF FileStep
<1>5. CASE Redeploy \/ \E s \in Submissions : Review(s)
  BY <1>5, ReviewStep
<1>6. CASE FilesNext
  BY <1>2, <1>3, <1>4, <1>5, <1>6 DEF FilesNext
<1> QED BY <1>1, <1>6

\* The inductive invariant of the uploads, for any number of requests and
\* objects.
THEOREM FilesInvariant == FilesSpec => []FilesInv
<1> QED BY FilesStart, FilesInvStep, PTL DEF FilesSpec

\* However many uploads, deletions and submissions overlap or break off, a
\* document names an object that is there.
THEOREM FilesNamed == FilesSpec => []NamedIsThere
<1>1. FilesInv => NamedIsThere
  BY DEF FilesInv
<1> QED BY <1>1, FilesInvariant, PTL

\* And an object that no document names is in hand, torn or replaced.
THEOREM FilesOrphans == FilesSpec => []OrphanHasCause
<1>1. FilesInv => OrphanHasCause
  BY DEF FilesInv
<1> QED BY <1>1, FilesInvariant, PTL

-----------------------------------------------------------------------------
(* The settings. *)

SettingsInv ==
    /\ SettingsTypeOK
    /\ \A d \in Clerks : Writing(d, "save") => settings # <<>>
    /\ LatestInForce

\* What Merge answers: a document, if it is given one and fields of a body.
LEMMA MergeType ==
    ASSUME NEW a \in Document, NEW b, DOMAIN b \subseteq Fields, \A f \in DOMAIN b : b[f] \in Values
    PROVE  /\ Merge(a, b) \in Document
           /\ \A f \in Fields : Merge(a, b)[f] = IF f \in DOMAIN b THEN b[f] ELSE a[f]
<1> QED BY DEF Merge, Document

\* A body names some of the fields.
LEMMA BodyType ==
    ASSUME NEW b \in Bodies \cup {<<>>}
    PROVE  DOMAIN b \subseteq Fields /\ \A f \in DOMAIN b : b[f] \in Values
<1>1. CASE b = <<>>
  BY <1>1
<1>2. CASE b \in Bodies
  <2>1. PICK F \in SUBSET Fields : b \in [F -> Values]
    BY <1>2 DEF Bodies
  <2> QED BY <2>1
<1> QED BY <1>1, <1>2

\* The initial state.
LEMMA SettingsStart == SettingsInit => SettingsInv
<1> SUFFICES ASSUME SettingsInit PROVE SettingsInv
  OBVIOUS
<1> USE SettingsAssumption DEF SettingsInit
<1>1. SettingsTypeOK
  <2>1. SchemaDefaults \in Document
    BY DEF Document
  <2>2. settings \in Seq(Document)
    <3>1. CASE settings = <<>>
      BY <3>1
    <3>2. CASE settings = <<SchemaDefaults>>
      BY <2>1, <3>2
    <3> QED BY <3>1, <3>2
  <2>3. desk \in [Clerks -> [at : {"none", "create", "save"}, copy : Document, body : Bodies \cup {<<>>}]]
    BY <2>1 DEF NoDesk
  <2> QED BY <2>1, <2>2, <2>3 DEF SettingsTypeOK
<1>2. \A d \in Clerks : ~ Writing(d, "save")
  BY DEF Writing, NoDesk
<1>3. LatestInForce
  BY DEF LatestInForce, InForce
<1> QED BY <1>1, <1>2, <1>3 DEF SettingsInv

\* A step of one request keeps the invariant of the settings.
LEMMA SettingsStep ==
    ASSUME SettingsInv, NEW d \in Clerks,
           \/ \E defaults \in {SchemaDefaults, ConfigDefaults} : FindNone(d, defaults)
           \/ UpdateFind(d) \/ Create(d) \/ UpdateSave(d) \/ DropDesk(d)
    PROVE  SettingsInv'
<1> USE SettingsAssumption DEF SettingsInv
<1> DEFINE Desk == [at : {"none", "create", "save"}, copy : Document, body : Bodies \cup {<<>>}]
<1>1. /\ settings \in Seq(Document) /\ desk \in [Clerks -> Desk]
      /\ latest \in Document /\ lost \in SUBSET Fields
      /\ SchemaDefaults \in Document /\ ConfigDefaults \in Document
      /\ NoDesk \in Desk
  BY DEF SettingsTypeOK, NoDesk, Document
<1>2. settings # <<>> => InForce \in Document /\ Len(settings) \in Nat \ {0}
  BY <1>1 DEF InForce
<1>3. ASSUME NEW defaults \in {SchemaDefaults, ConfigDefaults}, FindNone(d, defaults)
      PROVE  SettingsInv'
  <2>1. [at |-> "create", copy |-> defaults, body |-> <<>>] \in Desk
    BY <1>1
  <2>2. SettingsTypeOK'
    BY <1>1, <1>3, <2>1 DEF FindNone, SettingsTypeOK
  <2> QED BY <1>1, <1>3, <2>2 DEF FindNone, Writing, LatestInForce, InForce
<1>4. CASE UpdateFind(d)
  <2>1. PICK b \in Bodies :
          desk' = [desk EXCEPT ![d] =
              IF settings = <<>>
                THEN [at |-> "create", copy |-> SchemaDefaults, body |-> b]
                ELSE [at |-> "save", copy |-> InForce, body |-> b]]
    BY <1>4 DEF UpdateFind
  <2>2. desk' \in [Clerks -> Desk]
    BY <1>1, <1>2, <2>1
  <2>3. SettingsTypeOK'
    BY <1>1, <1>4, <2>2 DEF UpdateFind, SettingsTypeOK
  <2>4. \A e \in Clerks : Writing(e, "save")' => settings' # <<>>
    BY <1>1, <1>4, <2>1 DEF UpdateFind, Writing
  <2> QED BY <1>4, <2>3, <2>4 DEF UpdateFind, LatestInForce, InForce
<1>5. CASE Create(d)
  <2> DEFINE b == desk[d].body
             doc == Merge(desk[d].copy, b)
  <2>1. DOMAIN b \subseteq Fields /\ \A f \in DOMAIN b : b[f] \in Values
    BY <1>1, BodyType
  <2>2. doc \in Document /\ Merge(latest, b) \in Document
        /\ \A f \in Fields \ DOMAIN b : Merge(latest, b)[f] = latest[f]
    BY <1>1, <2>1, MergeType
  <2>3. /\ settings' = Append(settings, doc) /\ desk' = [desk EXCEPT ![d] = NoDesk]
        /\ settings = <<>> => latest' = doc /\ lost' = lost
        /\ settings # <<>> => latest' = Merge(latest, b) /\ lost' = lost \cup DOMAIN b
    BY <1>5 DEF Create
  <2>4. /\ settings' \in Seq(Document) /\ settings' # <<>>
        /\ settings = <<>> => InForce' = doc
        /\ settings # <<>> => InForce' = InForce
    BY <1>1, <2>2, <2>3 DEF InForce
  <2>5. SettingsTypeOK'
    BY <1>1, <2>1, <2>2, <2>3, <2>4 DEF SettingsTypeOK
  <2>6. LatestInForce'
    BY <2>2, <2>3, <2>4 DEF LatestInForce
  <2> QED BY <2>4, <2>5, <2>6
<1>6. CASE UpdateSave(d)
  <2> DEFINE b == desk[d].body
             sent == {f \in DOMAIN b : b[f] # desk[d].copy[f]}
             part == [f \in sent |-> b[f]]
  <2>1. DOMAIN b \subseteq Fields /\ \A f \in DOMAIN b : b[f] \in Values
    BY <1>1, BodyType
  <2>2. settings # <<>> /\ InForce \in Document
    BY <1>2, <1>6 DEF UpdateSave
  <2>3. /\ settings' = [settings EXCEPT ![1] = Merge(InForce, part)]
        /\ latest' = Merge(latest, b) /\ desk' = [desk EXCEPT ![d] = NoDesk]
        /\ lost' = (lost \ DOMAIN b) \cup {f \in DOMAIN b \ sent : InForce[f] # b[f]}
    BY <1>1, <1>6, <2>2 DEF UpdateSave, InForce
  <2>4. /\ Merge(InForce, part) \in Document
        /\ \A f \in Fields : Merge(InForce, part)[f] = IF f \in sent THEN b[f] ELSE InForce[f]
    BY <2>1, <2>2, MergeType
  <2>5. /\ Merge(latest, b) \in Document
        /\ \A f \in Fields : Merge(latest, b)[f] = IF f \in DOMAIN b THEN b[f] ELSE latest[f]
    BY <1>1, <2>1, MergeType
  <2>6. settings' \in Seq(Document) /\ settings' # <<>> /\ InForce' = Merge(InForce, part)
    BY <1>1, <1>2, <2>2, <2>3, <2>4 DEF InForce
  <2>7. SettingsTypeOK'
    BY <1>1, <2>1, <2>3, <2>5, <2>6 DEF SettingsTypeOK
  <2>8. LatestInForce'
    BY <2>1, <2>2, <2>3, <2>4, <2>5, <2>6 DEF LatestInForce
  <2> QED BY <2>6, <2>7, <2>8
<1>7. CASE DropDesk(d)
  <2>1. SettingsTypeOK'
    BY <1>1, <1>7 DEF DropDesk, SettingsTypeOK
  <2> QED BY <1>1, <1>7, <2>1 DEF DropDesk, Writing, NoDesk, LatestInForce, InForce
<1> QED BY <1>3, <1>4, <1>5, <1>6, <1>7

\* Every step of the settings keeps their invariant.
LEMMA SettingsInvStep == SettingsInv /\ [SettingsNext]_settingVars => SettingsInv'
<1> SUFFICES ASSUME SettingsInv, [SettingsNext]_settingVars PROVE SettingsInv'
  OBVIOUS
<1>1. CASE UNCHANGED settingVars
  BY <1>1 DEF settingVars, SettingsInv, SettingsTypeOK, LatestInForce, InForce, Writing
<1>2. CASE SettingsNext
  BY <1>2, SettingsStep
  DEF SettingsNext, AdminGetSettings, WalletGetSettings, ReferralGetSettings
<1> QED BY <1>1, <1>2

\* The inductive invariant of the settings, for any number of requests and
\* fields.
THEOREM SettingsInvariant == SettingsSpec => []SettingsInv
<1> QED BY SettingsStart, SettingsInvStep, PTL DEF SettingsSpec

\* For any number of requests and fields, whatever creations and updates
\* overlap, a field in force is what an update gave it last, with the two
\* exceptions the invariant names.
THEOREM SettingsInForce == SettingsSpec => []LatestInForce
<1>1. SettingsInv => LatestInForce
  BY DEF SettingsInv
<1> QED BY <1>1, SettingsInvariant, PTL

-----------------------------------------------------------------------------
(* The listings.  What was shown lies before the page the client asks for, *)
(* as long as no document can move down; what stayed and was not shown     *)
(* lies behind it, as long as none can move up.                            *)

ShownBehind ==
    "ahead" \notin moved =>
        \A d \in Documents :
            /\ shown[d] <= 1
            /\ ~ walk.over /\ shown[d] > 0 => Place(d) <= Skip
            /\ ~ walk.over /\ d \in walk.items => shown[d] = 0 /\ Place(d) <= PageEnd

\* A document that stayed is in a page the client has, or will be: the total,
\* once it is read, asks for as many pages.
Awaited(d) ==
    shown[d] = 0 =>
        /\ walk.items = NoItems =>
               /\ Place(d) > Skip
               /\ walk.total # Unread => Place(d) <= walk.total
        /\ walk.items # NoItems /\ d \notin walk.items =>
               /\ Place(d) > PageEnd
               /\ walk.total # Unread => walk.total > PageEnd

StayedShown ==
    moved \cap {"out", "between"} = {} =>
        \A d \in stayed : IF walk.over THEN shown[d] > 0 ELSE Awaited(d)

ListingInv == ListingTypeOK /\ ShownBehind /\ StayedShown

\* A division by the limit, rounded up, asks for no page less than needed.
LEMMA QuotientBound ==
    ASSUME NEW a \in Nat, NEW b \in Nat \ {0}
    PROVE  a \div b \in Int /\ a < b * (a \div b) + b
  BY SMT

LEMMA ProductGrows ==
    ASSUME NEW p \in Int, NEW q \in Int, q <= p, NEW limit \in Nat
    PROVE  limit * q <= limit * p
  BY SMT

\* The pages up to the last one cover the total.
LEMMA LastPage ==
    ASSUME NEW total \in Nat, NEW page \in Nat \ {0}, NEW limit \in Nat \ {0},
           ~ page < TotalPages(total, limit)
    PROVE  total <= Skipped(page, limit) + limit
<1> DEFINE pages == (total + limit - 1) \div limit
<1>1. pages \in Int /\ total + limit - 1 < limit * pages + limit
  BY QuotientBound
<1>2. pages <= page
  BY <1>1 DEF TotalPages
<1>3. limit * pages <= limit * page
  BY <1>1, <1>2, ProductGrows
<1>4. Skipped(page, limit) + limit = limit * page
  BY DEF Skipped
<1> HIDE DEF pages
<1>5. limit * pages \in Int /\ limit * page \in Int
  BY <1>1
<1> QED BY <1>1, <1>3, <1>4, <1>5

\* The next page begins where this one ends.
LEMMA NextPage ==
    ASSUME NEW page \in Nat \ {0}, NEW limit \in Nat
    PROVE  Skipped(page + 1, limit) = Skipped(page, limit) + limit
<1>1. (page + 1 - 1) * limit = (page - 1) * limit + limit
  OBVIOUS
<1> QED BY <1>1 DEF Skipped

\* The page and the limit a walk works with.
LEMMA WalkNumbers ==
    ASSUME ListingTypeOK
    PROVE  /\ PageOf(walk.page) = walk.page
           /\ walk.page \in Nat \ {0}
           /\ LimitOf(walk.limit) \in Nat \ {0}
           /\ Skip \in Nat
           /\ PageEnd \in Nat
           /\ Skip <= PageEnd
<1>1. walk.page \in Nat \ {0} /\ walk.limit \in Nat \ {0}
  BY ListingAssumption DEF ListingTypeOK, Walk
<1>2. PageOf(walk.page) = walk.page
  BY <1>1 DEF PageOf
<1>3. LimitOf(walk.limit) \in Nat \ {0}
  BY <1>1, ListingAssumption DEF LimitOf
<1>4. \A m \in Nat, l \in Nat : m * l \in Nat
  BY SMT
<1>5. Skip \in Nat
  BY <1>1, <1>2, <1>3, <1>4 DEF Skip, Skipped
<1> QED BY <1>1, <1>2, <1>3, <1>5 DEF PageEnd

\* What is listed is finite, and so is what comes before a document.
LEMMA ListedFinite ==
    ASSUME ListingTypeOK
    PROVE  IsFiniteSet(listed) /\ Cardinality(listed) \in Nat
<1>1. IsFiniteSet(Documents)
  BY FS_Interval, ListingAssumption DEF Documents
<1>2. IsFiniteSet(listed)
  BY <1>1, FS_Subset DEF ListingTypeOK
<1> QED BY <1>2, FS_CardinalityType

\* The documents listed before d.
Before(d) == {e \in listed : Ahead(e, d)}

LEMMA PlaceNumber ==
    ASSUME ListingTypeOK, NEW d \in Documents
    PROVE  /\ IsFiniteSet(Before(d))
           /\ Place(d) = Cardinality(Before(d)) + 1
           /\ Place(d) \in Nat /\ Place(d) > 0
           /\ d \in listed => Place(d) <= Cardinality(listed)
<1>1. d \notin Before(d)
  BY ListingAssumption DEF Before, Ahead, Documents
<1>2. Before(d) \in SUBSET listed /\ Before(d) \in SUBSET (listed \ {d})
  BY <1>1 DEF Before
<1>3. IsFiniteSet(Before(d)) /\ Cardinality(Before(d)) \in Nat
  BY <1>2, ListedFinite, FS_Subset, FS_CardinalityType
<1>4. Place(d) = Cardinality(Before(d)) + 1
  BY DEF Place, Before
<1>5. ASSUME d \in listed PROVE Place(d) <= Cardinality(listed)
  <2>1. /\ IsFiniteSet(listed \ {d})
        /\ Cardinality(listed \ {d}) = Cardinality(listed) - 1
    BY <1>5, ListedFinite, FS_RemoveElement
  <2>2. Cardinality(Before(d)) <= Cardinality(listed \ {d})
    BY <1>2, <2>1, FS_Subset
  <2> QED BY <1>3, <1>4, <2>1, <2>2, ListedFinite
<1> QED BY <1>3, <1>4, <1>5

\* The initial state.
LEMMA ListingStart == ListingInit => ListingInv
<1> SUFFICES ASSUME ListingInit PROVE ListingInv
  OBVIOUS
<1> USE ListingAssumption DEF ListingInit
<1>1. ListingTypeOK
  <2>1. walk \in Walk
    <3>1. /\ 1 \in Nat \ {0} /\ Unread \in Nat \cup {Unread} /\ FALSE \in BOOLEAN
          /\ NoItems \in {NoItems} \cup SUBSET Documents
      OBVIOUS
    <3> QED BY <3>1, Zenon DEF Walk
  <2> QED BY <2>1 DEF ListingTypeOK
<1>2. ShownBehind
  BY DEF ShownBehind, Documents, NoItems, Unread
<1>3. Skip = 0
  <2>1. PageOf(walk.page) = 1
    BY DEF PageOf
  <2>2. LimitOf(walk.limit) \in Nat
    BY <1>1, WalkNumbers
  <2> QED BY <2>1, <2>2 DEF Skip, Skipped
<1>4. ASSUME NEW d \in stayed PROVE Awaited(d)
  <2>1. Place(d) \in Nat /\ Place(d) > 0
    BY <1>1, <1>4, PlaceNumber DEF ListingTypeOK
  <2> QED BY <1>3, <2>1 DEF Awaited
<1>5. StayedShown
  BY <1>4 DEF StayedShown
<1> QED BY <1>1, <1>2, <1>5 DEF ListingInv

\* Every step keeps the types.
LEMMA ListingTypes == ListingTypeOK /\ ListingNext => ListingTypeOK'
<1> SUFFICES ASSUME ListingTypeOK, ListingNext PROVE ListingTypeOK'
  OBVIOUS
<1> USE ListingAssumption DEF ListingTypeOK
<1>1. CASE ReadItems
  <2>1. Items \in SUBSET Documents
    BY DEF Items
  <2> QED BY <1>1, <2>1 DEF ReadItems, Walk
<1>2. CASE ReadTotal
  BY <1>2, ListedFinite DEF ReadTotal, Walk
<1>3. CASE Answer
  <2>1. walk \in Walk /\ walk.page + 1 \in Nat \ {0}
    BY DEF Walk
  <2>2. walk' \in Walk
    <3>1. ASSUME NEW p \in Nat \ {0}
          PROVE  [walk EXCEPT !.page = p, !.items = NoItems, !.total = Unread] \in Walk
      BY <2>1, Zenon DEF Walk
    <3>2. [walk EXCEPT !.over = TRUE] \in Walk
      BY <2>1 DEF Walk
    <3> QED BY <1>3, <2>1, <3>1, <3>2 DEF Answer
  <2>3. shown' \in [Documents -> Nat]
    BY <1>3 DEF Answer
  <2> QED BY <1>3, <2>2, <2>3 DEF Answer
<1>4. CASE ComeIn
  BY <1>4 DEF ComeIn, Disturbs
<1>5. CASE DropOut
  BY <1>5 DEF DropOut
<1> QED BY <1>1, <1>2, <1>3, <1>4, <1>5 DEF ListingNext

\* A document that comes in moves up none, and moves down those it is ahead of.
LEMMA PlacesAfterComeIn ==
    ASSUME ListingTypeOK, ListingTypeOK', NEW n \in Documents,
           listed' = listed \cup {n}, walk' = walk, NEW d \in Documents
    PROVE  /\ Place(d)' \in Int /\ Place(d)' >= Place(d)
           /\ ~ Ahead(n, d) => Place(d)' = Place(d)
<1>1. Before(d) \subseteq Before(d)'
  BY DEF Before, Ahead
<1>2. ~ Ahead(n, d) => Before(d)' = Before(d)
  BY DEF Before, Ahead
<1>3. IsFiniteSet(Before(d)')
  <2>1. Before(d)' \in SUBSET Documents
    BY DEF Before, ListingTypeOK
  <2>2. IsFiniteSet(Documents)
    BY FS_Interval, ListingAssumption DEF Documents
  <2> QED BY <2>1, <2>2, FS_Subset
<1>4. Cardinality(Before(d)) <= Cardinality(Before(d)') /\ Cardinality(Before(d)') \in Nat
  BY <1>1, <1>3, FS_Subset, FS_CardinalityType
<1>5. Cardinality(Before(d)) \in Nat
  BY PlaceNumber, FS_CardinalityType
<1>6. Place(d)' = Cardinality(Before(d)') + 1
  BY DEF Place, Before
<1> QED BY <1>2, <1>4, <1>5, <1>6, PlaceNumber

\* One that leaves moves none down.
LEMMA PlacesAfterDropOut ==
    ASSUME ListingTypeOK, DropOut, NEW d \in Documents
    PROVE  Place(d)' \in Int /\ Place(d)' <= Place(d)
<1>1. Before(d)' \in SUBSET Before(d)
  BY DEF DropOut, Before, Ahead
<1>2. IsFiniteSet(Before(d)') /\ Cardinality(Before(d)') <= Cardinality(Before(d))
  BY <1>1, PlaceNumber, FS_Subset
<1>3. Cardinality(Before(d)) \in Nat /\ Cardinality(Before(d)') \in Nat
  BY <1>2, PlaceNumber, FS_CardinalityType
<1>4. Place(d)' = Cardinality(Before(d)') + 1
  BY DEF Place, Before
<1> QED BY <1>2, <1>3, <1>4, PlaceNumber

\* The other steps move nothing.
LEMMA PlacesStay ==
    ASSUME ListingTypeOK, ReadItems \/ ReadTotal \/ Answer, NEW d
    PROVE  Place(d)' = Place(d)
<1>1. listed' = listed /\ walk'.ascending = walk.ascending
  BY DEF ReadItems, ReadTotal, Answer, ListingTypeOK, Walk
<1> QED BY <1>1 DEF Place, Ahead

\* What an answer does to the walk.
LEMMA AnswerWalk ==
    ASSUME ListingTypeOK, Answer
    PROVE  /\ \/ walk'.over /\ walk.total <= PageEnd
              \/ /\ ~ walk'.over
                 /\ walk'.items = NoItems /\ walk'.total = Unread
                 /\ Skip' = PageEnd
           /\ walk'.ascending = walk.ascending
           /\ \A d \in Documents :
                  shown'[d] = IF d \in walk.items THEN shown[d] + 1 ELSE shown[d]
<1> USE DEF ListingTypeOK
<1>1. walk'.ascending = walk.ascending
  BY DEF Answer, Walk
<1>2. \A d \in Documents :
          shown'[d] = IF d \in walk.items THEN shown[d] + 1 ELSE shown[d]
  BY DEF Answer, Documents
<1>3. CASE walk.page < TotalPages(walk.total, LimitOf(walk.limit))
  <2>1. /\ walk' = [walk EXCEPT !.page = @ + 1, !.items = NoItems, !.total = Unread]
        /\ ~ walk.over
    BY <1>3 DEF Answer
  <2>2. /\ walk'.page = walk.page + 1 /\ walk'.limit = walk.limit
        /\ walk'.items = NoItems /\ walk'.total = Unread /\ ~ walk'.over
    BY <2>1 DEF Walk
  <2>3. PageOf(walk'.page) = walk.page + 1
    BY <2>2, WalkNumbers DEF PageOf
  <2>4. Skip' = Skipped(walk.page + 1, LimitOf(walk.limit))
    BY <2>2, <2>3 DEF Skip, PageOf, LimitOf, Skipped
  <2>5. Skip' = PageEnd
    BY <2>4, NextPage, WalkNumbers DEF Skip, PageEnd
  <2> QED BY <1>1, <1>2, <2>2, <2>5
<1>4. CASE ~ walk.page < TotalPages(walk.total, LimitOf(walk.limit))
  <2>1. walk' = [walk EXCEPT !.over = TRUE] /\ walk.total # Unread
    BY <1>4 DEF Answer
  <2>2. walk'.over
    BY <2>1 DEF Walk
  <2>3. walk.total \in Nat
    BY <2>1 DEF Walk
  <2>4. walk.total <= PageEnd
    BY <1>4, <2>3, LastPage, WalkNumbers DEF PageEnd, Skip
  <2> QED BY <1>1, <1>2, <2>2, <2>4
<1> QED BY <1>3, <1>4

\* Reading leaves the walk where it is.
LEMMA ReadWalk ==
    ASSUME ListingTypeOK, ReadItems \/ ReadTotal \/ ComeIn \/ DropOut
    PROVE  /\ Skip' = Skip /\ PageEnd' = PageEnd
           /\ walk'.over = walk.over /\ walk'.ascending = walk.ascending
           /\ shown' = shown
<1>1. walk'.page = walk.page /\ walk'.limit = walk.limit
  BY DEF ListingTypeOK, Walk, ReadItems, ReadTotal, ComeIn, DropOut
<1>2. /\ walk'.over = walk.over /\ walk'.ascending = walk.ascending
      /\ shown' = shown
  BY DEF ListingTypeOK, Walk, ReadItems, ReadTotal, ComeIn, DropOut
<1> QED BY <1>1, <1>2 DEF Skip, PageEnd, Skipped, PageOf, LimitOf

\* What was shown stays before the page.
LEMMA ShownStep ==
    /\ ListingTypeOK /\ ShownBehind
    /\ ListingNext /\ ListingTypeOK'
    => ShownBehind'
<1> SUFFICES ASSUME ListingTypeOK, ShownBehind, ListingNext, ListingTypeOK',
                    "ahead" \notin moved', NEW d \in Documents
             PROVE  /\ shown'[d] <= 1
                    /\ ~ walk'.over /\ shown'[d] > 0 => Place(d)' <= Skip'
                    /\ ~ walk'.over /\ d \in walk'.items =>
                           shown'[d] = 0 /\ Place(d)' <= PageEnd'
  BY DEF ShownBehind, Documents
<1>1. d \in 1 .. LastDocument /\ d # Unread /\ d \notin NoItems
  BY ListingAssumption DEF Documents, Unread, NoItems
<1>2. shown[d] \in Nat
  BY <1>1 DEF ListingTypeOK
<1>3. Place(d) \in Nat
  BY PlaceNumber, ListedFinite
<1>5. moved \subseteq moved'
  BY DEF ListingNext, ReadItems, ReadTotal, Answer, ComeIn, DropOut
<1>6. /\ shown[d] <= 1
      /\ ~ walk.over /\ shown[d] > 0 => Place(d) <= Skip
      /\ ~ walk.over /\ d \in walk.items => shown[d] = 0 /\ Place(d) <= PageEnd
  BY <1>5 DEF ShownBehind
<1>7. Skip \in Nat /\ PageEnd \in Nat /\ Skip <= PageEnd
  BY WalkNumbers
<1>8. CASE ReadItems
  <2>1. walk'.items = Items /\ listed' = listed
    BY <1>8 DEF ReadItems, ListingTypeOK, Walk
  <2>2. Place(d)' = Place(d)
    BY <1>8, PlacesStay
  <2>3. d \in Items => Skip < Place(d) /\ Place(d) <= PageEnd /\ d \in listed
    BY DEF Items
  <2>4. Skip' = Skip /\ PageEnd' = PageEnd /\ walk'.over = walk.over /\ shown' = shown
    BY <1>8, ReadWalk
  <2> QED BY <1>2, <1>3, <1>6, <1>7, <2>1, <2>2, <2>3, <2>4
<1>9. CASE ReadTotal
  <2>1. walk'.items = walk.items /\ listed' = listed
    BY <1>9 DEF ReadTotal, ListingTypeOK, Walk
  <2>2. Place(d)' = Place(d)
    BY <1>9, PlacesStay
  <2>3. Skip' = Skip /\ PageEnd' = PageEnd /\ walk'.over = walk.over /\ shown' = shown
    BY <1>9, ReadWalk
  <2> QED BY <1>6, <2>1, <2>2, <2>3
<1>10. CASE Answer
  <2>1. listed' = listed /\ ~ walk.over
    BY <1>10 DEF Answer
  <2>2. Place(d)' = Place(d)
    BY <1>10, PlacesStay
  <2>3. /\ walk'.over \/ (walk'.items = NoItems /\ Skip' = PageEnd)
        /\ shown'[d] = IF d \in walk.items THEN shown[d] + 1 ELSE shown[d]
    BY <1>10, AnswerWalk
  <2> QED BY <1>1, <1>2, <1>3, <1>6, <1>7, <2>1, <2>2, <2>3
<1>11. CASE ComeIn
  <2>1. PICK n \in Documents : /\ listed' = listed \cup {n} /\ walk' = walk
                               /\ moved' = moved \cup Disturbs(n)
    BY <1>11 DEF ComeIn
  <2>2. Ahead(n, d) => shown[d] = 0 /\ d \notin walk.items
    BY <1>2, <2>1 DEF Disturbs
  <2>3. ~ Ahead(n, d) => Place(d)' = Place(d)
    BY <2>1, PlacesAfterComeIn
  <2>4. Skip' = Skip /\ PageEnd' = PageEnd /\ shown' = shown
    BY <1>11, ReadWalk
  <2> QED BY <1>6, <2>1, <2>2, <2>3, <2>4
<1>12. CASE DropOut
  <2>1. walk' = walk /\ listed' \subseteq listed
    BY <1>12 DEF DropOut
  <2>2. Place(d)' \in Int /\ Place(d)' <= Place(d)
    BY <1>12, PlacesAfterDropOut
  <2>3. Skip' = Skip /\ PageEnd' = PageEnd /\ shown' = shown
    BY <1>12, ReadWalk
  <2> QED BY <1>3, <1>6, <1>7, <2>1, <2>2, <2>3
<1> QED BY <1>8, <1>9, <1>10, <1>11, <1>12 DEF ListingNext

\* What stayed and was not shown is still ahead.
LEMMA StayedStep ==
    /\ ListingTypeOK /\ StayedShown
    /\ ListingNext /\ ListingTypeOK'
    => StayedShown'
<1> SUFFICES ASSUME ListingTypeOK, StayedShown, ListingNext, ListingTypeOK',
                    "out" \notin moved', "between" \notin moved',
                    NEW d \in stayed'
             PROVE  IF walk'.over THEN shown'[d] > 0 ELSE Awaited(d)'
  BY DEF StayedShown
<1>1. ~ DropOut /\ stayed' = stayed
  BY DEF ListingNext, ReadItems, ReadTotal, Answer, ComeIn, DropOut
<1>2. d \in listed /\ d \in Documents /\ d \in stayed
  BY <1>1 DEF ListingTypeOK
<1>3. shown[d] \in Nat
  BY <1>2 DEF ListingTypeOK
<1>5. moved \subseteq moved'
  BY DEF ListingNext, ReadItems, ReadTotal, Answer, ComeIn, DropOut
<1>6. IF walk.over THEN shown[d] > 0 ELSE Awaited(d)
  BY <1>2, <1>5 DEF StayedShown
<1>7. Skip \in Nat /\ PageEnd \in Nat /\ Skip <= PageEnd
  BY WalkNumbers
<1>8. Place(d) \in Nat /\ Place(d) <= Cardinality(listed) /\ Cardinality(listed) \in Nat
  BY <1>2, PlaceNumber, ListedFinite
<1>9. walk.total # Unread => walk.total \in Nat
  BY DEF ListingTypeOK, Walk
<1>10. CASE ReadItems
  <2>1. /\ walk'.items = Items /\ walk'.total = walk.total
        /\ walk.items = NoItems /\ ~ walk.over
    BY <1>10 DEF ReadItems, ListingTypeOK, Walk
  <2>2. Items # NoItems
    BY ListingAssumption DEF Items, NoItems, Unread, ListingTypeOK, Documents
  <2>3. Place(d)' = Place(d)
    BY <1>10, PlacesStay
  <2>4. Skip' = Skip /\ PageEnd' = PageEnd /\ walk'.over = walk.over /\ shown' = shown
    BY <1>10, ReadWalk
  <2>5. d \notin Items => Place(d) <= Skip \/ Place(d) > PageEnd
    BY <1>2, <1>7, <1>8 DEF Items
  <2> QED BY <1>3, <1>6, <1>7, <1>8, <1>9, <2>1, <2>2, <2>3, <2>4, <2>5 DEF Awaited
<1>11. CASE ReadTotal
  <2>1. /\ walk'.items = walk.items /\ walk'.total = Cardinality(listed) /\ ~ walk.over
        /\ walk.total = Unread
    BY <1>11 DEF ReadTotal, ListingTypeOK, Walk
  <2>2. Place(d)' = Place(d)
    BY <1>11, PlacesStay
  <2>3. Skip' = Skip /\ PageEnd' = PageEnd /\ walk'.over = walk.over /\ shown' = shown
    BY <1>11, ReadWalk
  <2> QED BY <1>6, <1>7, <1>8, <2>1, <2>2, <2>3 DEF Awaited
<1>12. CASE Answer
  <2>1. ~ walk.over /\ walk.items # NoItems /\ walk.total # Unread
    BY <1>12 DEF Answer
  <2>2. Place(d)' = Place(d)
    BY <1>12, PlacesStay
  <2>3. /\ \/ walk'.over /\ walk.total <= PageEnd
           \/ /\ ~ walk'.over
              /\ walk'.items = NoItems /\ walk'.total = Unread
              /\ Skip' = PageEnd
        /\ shown'[d] = IF d \in walk.items THEN shown[d] + 1 ELSE shown[d]
    BY <1>2, <1>12, AnswerWalk
  <2> QED BY <1>3, <1>6, <1>7, <1>8, <1>9, <2>1, <2>2, <2>3 DEF Awaited
<1>13. CASE ComeIn
  <2>1. PICK n \in Documents : /\ listed' = listed \cup {n} /\ walk' = walk
                               /\ moved' = moved \cup Disturbs(n)
    BY <1>13 DEF ComeIn
  <2>2. /\ Place(d)' \in Int /\ Place(d)' >= Place(d)
        /\ ~ Ahead(n, d) => Place(d)' = Place(d)
    BY <1>2, <2>1, PlacesAfterComeIn
  <2>3. Skip' = Skip /\ PageEnd' = PageEnd /\ shown' = shown
    BY <1>13, ReadWalk
  <2>4. walk.items = NoItems /\ walk.total # Unread /\ shown[d] = 0 => ~ Ahead(n, d)
    BY <1>2, <2>1 DEF Disturbs
  <2> QED BY <1>3, <1>6, <1>7, <1>8, <1>9, <2>1, <2>2, <2>3, <2>4 DEF Awaited
<1> QED BY <1>1, <1>10, <1>11, <1>12, <1>13 DEF ListingNext

\* The listing's invariant is kept by its steps, and by those of the others.
LEMMA ListingInvStep == ListingInv /\ [ListingNext]_listingVars => ListingInv'
<1> SUFFICES ASSUME ListingInv, [ListingNext]_listingVars PROVE ListingInv'
  OBVIOUS
<1>1. CASE ListingNext
  BY <1>1, ListingTypes, ShownStep, StayedStep DEF ListingInv
<1>2. CASE UNCHANGED listingVars
  BY <1>2 DEF listingVars, ListingInv, ListingTypeOK, ShownBehind,
              StayedShown, Awaited, Place, Ahead, Skip, PageEnd
<1> QED BY <1>1, <1>2

\* The inductive invariant, for any number of documents and any limits.
THEOREM ListingInvariant == ListingSpec => []ListingInv
<1> QED BY ListingStart, ListingInvStep, PTL DEF ListingSpec

\* A walk through the pages of any size misses no document that stayed, and
\* shows none twice, but for those moved by others that left or came in ahead of
\* them, new or old.
THEOREM WalkComplete == ListingSpec => []WalkIsComplete
<1>1. ListingInv => WalkIsComplete
  <2> SUFFICES ASSUME ListingInv PROVE WalkIsComplete
    OBVIOUS
  <2>1. NothingMissed
    BY DEF ListingInv, StayedShown, NothingMissed
  <2>2. ShownOnce
    BY DEF ListingInv, ShownBehind, ShownOnce
  <2> QED BY <2>1, <2>2 DEF WalkIsComplete
<1> QED BY <1>1, ListingInvariant, PTL

-----------------------------------------------------------------------------
(* The accounts. *)

AccountsInv == AccountsTypeOK /\ AdminsFromFounder

\* The initial state.
LEMMA AccountsStart == AccountsInit => AccountsInv
<1> SUFFICES ASSUME AccountsInit PROVE AccountsInv
  OBVIOUS
<1> USE AccountsAssumption DEF AccountsInit
<1>1. AccountsTypeOK
  BY DEF AccountsTypeOK, NewAccount, NoAccount, Roles
<1>2. AdminsFromFounder
  BY DEF AdminsFromFounder, Admins, NewAccount, NoAccount
<1> QED BY <1>1, <1>2 DEF AccountsInv

\* Every step of the accounts keeps their invariant.
LEMMA AccountsStep == AccountsInv /\ [AccountsNext]_accountVars => AccountsInv'
<1> SUFFICES ASSUME AccountsInv, [AccountsNext]_accountVars PROVE AccountsInv'
  OBVIOUS
<1> USE AccountsAssumption DEF AccountsInv
<1> DEFINE Account == [role : Roles, isActive : BOOLEAN, isBanned : BOOLEAN] \cup {NoAccount}
<1>1. /\ account \in [People -> Account]
      /\ signedIn \in SUBSET People
      /\ entering \in [Doors -> People \cup {Nobody}]
      /\ madeBy \in [People -> People]
  BY DEF AccountsTypeOK
<1>2. \A role \in Roles : NewAccount(role) \in Account /\ NewAccount(role).role = role
  BY DEF NewAccount
<1>3. \A p \in People : account[p].role = "admin" => Exists(p)
  BY DEF Exists, NoAccount
<1>4. ASSUME account' = account, madeBy' = madeBy,
             signedIn' \in SUBSET People, entering' \in [Doors -> People \cup {Nobody}]
      PROVE  AccountsInv'
  BY <1>1, <1>4 DEF AccountsTypeOK, AdminsFromFounder, Admins
<1>5. CASE UNCHANGED accountVars
  BY <1>1, <1>4, <1>5 DEF accountVars
<1>6. ASSUME NEW w \in Doors, NEW p \in People, Login(w, p) \/ Refresh(w, p)
      PROVE  AccountsInv'
  BY <1>1, <1>4, <1>6 DEF Login, Refresh, Enter
<1>7. ASSUME NEW w \in Doors, SignIn(w) \/ GiveUp(w)
      PROVE  AccountsInv'
  BY <1>1, <1>4, <1>7 DEF SignIn, GiveUp, Leave
<1>8. ASSUME NEW p \in People, SignOut(p)
      PROVE  AccountsInv'
  BY <1>1, <1>4, <1>8 DEF SignOut
<1>9. ASSUME NEW w \in Doors, NEW p \in People, Register(w, p)
      PROVE  AccountsInv'
  <2>1. /\ account' = [account EXCEPT ![p] = NewAccount("user")] /\ ~ Exists(p)
        /\ madeBy' = madeBy /\ signedIn' = signedIn
        /\ entering' = [entering EXCEPT ![w] = p]
    BY <1>9 DEF Register, Enter
  <2>2. "user" \in Roles
    BY DEF Roles
  <2>3. AccountsTypeOK'
    BY <1>1, <1>2, <2>1, <2>2 DEF AccountsTypeOK
  <2>4. AdminsFromFounder'
    <3>1. Admins' = Admins
      BY <1>1, <1>2, <1>3, <2>1, <2>2 DEF Admins
    <3> QED BY <2>1, <3>1 DEF AdminsFromFounder
  <2> QED BY <2>3, <2>4
<1>10. ASSUME NEW p \in People, NEW q \in People, ProvisionUser(p, q)
       PROVE  AccountsInv'
  <2>1. PICK r \in Roles : account' = [account EXCEPT ![q] = NewAccount(r)]
    BY <1>10 DEF ProvisionUser
  <2>2. /\ account[p].role = "admin" /\ ~ Exists(q) /\ p # q
        /\ madeBy' = [madeBy EXCEPT ![q] = p] /\ signedIn' = signedIn /\ entering' = entering
    BY <1>10 DEF ProvisionUser, AdminRoute
  <2>3. AccountsTypeOK'
    BY <1>1, <1>2, <2>1, <2>2 DEF AccountsTypeOK
  <2>4. AdminsFromFounder'
    <3>1. /\ p \in Admins /\ q \notin Admins /\ Founder \in Admins
          /\ madeBy'[q] = p /\ \A x \in Admins : madeBy'[x] = madeBy[x]
      BY <1>1, <1>3, <2>2 DEF Admins, AdminsFromFounder
    <3>2. Admins' = Admins \/ Admins' = Admins \cup {q}
      <4>1. account'[q].role = r /\ \A x \in People \ {q} : account'[x] = account[x]
        BY <1>1, <1>2, <2>1
      <4>2. r = "admin" => Admins' = Admins \cup {q}
        BY <4>1 DEF Admins
      <4>3. r # "admin" => Admins' = Admins
        BY <3>1, <4>1 DEF Admins
      <4> QED BY <4>2, <4>3
    <3>3. ASSUME NEW S \in SUBSET Admins', Founder \in S,
                 \A x \in Admins' : madeBy'[x] \in S => x \in S
          PROVE  S = Admins'
      <4>1. \A x \in Admins : madeBy[x] \in S \ {q} => x \in S \ {q}
        BY <3>1, <3>2, <3>3
      <4>2. S \ {q} \in SUBSET Admins /\ Founder \in S \ {q}
        BY <3>1, <3>2, <3>3
      <4>3. S \ {q} = Admins
        BY <4>1, <4>2 DEF AdminsFromFounder
      <4> QED BY <3>1, <3>2, <3>3, <4>3
    <3> QED BY <3>1, <3>2, <3>3 DEF AdminsFromFounder
  <2> QED BY <2>3, <2>4
<1>11. ASSUME NEW p \in People, NEW q \in People, UpdateUserStatus(p, q)
       PROVE  AccountsInv'
  <2>1. PICK status \in {"active", "inactive", "banned"} :
           account' = [account EXCEPT ![q].isBanned = (status = "banned"),
                                      ![q].isActive = (status = "active")]
    BY <1>11 DEF UpdateUserStatus
  <2>2. account[q] \in [role : Roles, isActive : BOOLEAN, isBanned : BOOLEAN]
    BY <1>1, <1>11 DEF UpdateUserStatus, Exists
  <2>3. PICK active, banned \in BOOLEAN :
           account' = [account EXCEPT ![q].isBanned = banned, ![q].isActive = active]
    BY <2>1
  <2> DEFINE set == [account EXCEPT ![q].isBanned = banned]
  <2>4. set \in [People -> Account] /\ set[q].role = account[q].role
         /\ set[q] \in [role : Roles, isActive : BOOLEAN, isBanned : BOOLEAN]
         /\ \A x \in People \ {q} : set[x] = account[x]
    BY <1>1, <2>2
  <2>5. account' = [set EXCEPT ![q].isActive = active]
    BY <2>3
  <2> HIDE DEF set
  <2>6. account' \in [People -> Account] /\ account'[q].role = account[q].role
         /\ \A x \in People \ {q} : account'[x] = account[x]
    BY <2>4, <2>5
  <2>7. madeBy' = madeBy /\ signedIn' = signedIn /\ entering' = entering
    BY <1>11 DEF UpdateUserStatus
  <2>8. AccountsTypeOK'
    BY <1>1, <2>6, <2>7 DEF AccountsTypeOK
  <2>9. AdminsFromFounder'
    <3>1. Admins' = Admins
      BY <2>6 DEF Admins
    <3> QED BY <2>7, <3>1 DEF AdminsFromFounder
  <2> QED BY <2>8, <2>9
<1> QED BY <1>5, <1>6, <1>7, <1>8, <1>9, <1>10, <1>11 DEF AccountsNext

\* The inductive invariant of the accounts, for any number of people and doors.
THEOREM AccountsInvariant == AccountsSpec => []AccountsInv
<1> QED BY AccountsStart, AccountsStep, PTL DEF AccountsSpec

\* From every administrator a chain of administrators, each made by the next,
\* leads to the founder, however many people there are and however they register
\* and sign in.
THEOREM AdminChain == AccountsSpec => []AdminsFromFounder
<1>1. AccountsInv => AdminsFromFounder
  BY DEF AccountsInv
<1> QED BY <1>1, AccountsInvariant, PTL

\* A barred account without a token, and with no sign-in under way, stays
\* without one until it is let in again.
THEOREM BarredOut == AccountsSpec => BarredStaysOut
<1> DEFINE Out(p) ==
      Exists(p) /\ Barred(p) /\ p \notin signedIn /\ ~ Entering(p)
        => \/ p \notin signedIn' /\ ~ Entering(p)'
           \/ ~ Barred(p)'
<1>1. ASSUME AccountsInv, [AccountsNext]_accountVars, NEW p \in People
      PROVE  Out(p)
  <2> SUFFICES ASSUME Exists(p), Barred(p), p \notin signedIn, ~ Entering(p), AccountsNext
               PROVE  p \notin signedIn' /\ ~ Entering(p)'
    BY <1>1 DEF accountVars, Entering
  <2>1. entering \in [Doors -> People \cup {Nobody}] /\ p # Nobody /\ \A w \in Doors : entering[w] # p
    BY <1>1, AccountsAssumption DEF AccountsInv, AccountsTypeOK, Entering
  <2>2. ASSUME NEW w \in Doors, NEW q \in People, Register(w, q) \/ Login(w, q) \/ Refresh(w, q)
        PROVE  p \notin signedIn' /\ ~ Entering(p)'
    <3>1. p # q /\ signedIn' = signedIn /\ entering' = [entering EXCEPT ![w] = q]
      BY <2>2 DEF Register, Login, Refresh, Enter
    <3> QED BY <2>1, <3>1 DEF Entering
  <2>3. ASSUME NEW w \in Doors, SignIn(w) \/ GiveUp(w)
        PROVE  p \notin signedIn' /\ ~ Entering(p)'
    BY <2>1, <2>3 DEF SignIn, GiveUp, Leave, Entering
  <2>4. ASSUME NEW q \in People, SignOut(q)
        PROVE  p \notin signedIn' /\ ~ Entering(p)'
    BY <2>4 DEF SignOut, Entering
  <2>5. ASSUME NEW q \in People, NEW s \in People, ProvisionUser(q, s) \/ UpdateUserStatus(q, s)
        PROVE  p \notin signedIn' /\ ~ Entering(p)'
    BY <2>5 DEF ProvisionUser, UpdateUserStatus, Entering
  <2> QED BY <2>2, <2>3, <2>4, <2>5 DEF AccountsNext
<1>2. AccountsInv /\ [AccountsNext]_accountVars => [\A p \in People : Out(p)]_accountVars
  BY <1>1
<1> QED BY <1>2, AccountsInvariant, PTL DEF AccountsSpec, BarredStaysOut

-----------------------------------------------------------------------------
(* MCPlatform: the component in focus moves and the others rest, so each   *)
(* keeps its invariant.                                                    *)

PlatformInv ==
    /\ DailyInv
    /\ RateInv
    /\ CacheInv
    /\ FilesInv
    /\ SettingsInv
    /\ ListingInv
    /\ AccountsInv

\* A step of the platform is a step or a stutter of every component.
LEMMA FocusStep ==
    [MCNext]_MCVars =>
        /\ [Next]_vars
        /\ [RateNext]_rateVars
        /\ [CacheNext]_cacheVars
        /\ [FilesNext]_fileVars
        /\ [SettingsNext]_settingVars
        /\ [ListingNext]_listingVars
        /\ [AccountsNext]_accountVars
  BY DEF MCNext, MCVars, DailyFocus, RateFocus, CachesFocus, FilesFocus, SettingsFocus,
         ListingFocus, AccountsFocus

\* The components together keep the invariants they keep alone.
THEOREM PlatformInvariant == MCSpec => []PlatformInv
<1>1. MCInit => PlatformInv
  BY DailyInit, RateStart, CacheStart, FilesStart, SettingsStart, ListingStart, AccountsStart
     DEF MCInit, PlatformInv
<1>2. PlatformInv /\ [MCNext]_MCVars => PlatformInv'
  BY FocusStep, DailyStep, RateInvStep, CacheInvStep, FilesInvStep, SettingsInvStep,
     ListingInvStep, AccountsStep
     DEF PlatformInv
<1> QED BY <1>1, <1>2, PTL DEF MCSpec

\* The types of all components hold, for every value of their constants.
THEOREM PlatformTypes == MCSpec => []PlatformTypeOK
<1>1. PlatformInv => PlatformTypeOK
  BY DEF PlatformInv, DailyInv, RateInv, CacheInv, FilesInv, SettingsInv, ListingInv,
         AccountsInv, PlatformTypeOK
<1> QED BY <1>1, PlatformInvariant, PTL
=============================================================================
