---------------------------- MODULE DailyProfit ----------------------------
(***************************************************************************)
(* WalletService.claimProfit over days: the key profit_claimed:<id> that   *)
(* locks a user's claims lives for a day from the claim, while the gate    *)
(* before it asks for the tasks of a calendar day.  Claims break off,      *)
(* instances restart, and an instance that loses its connection to Redis   *)
(* never opens it again (retryStrategy answers null).                      *)
(*                                                                         *)
(* The payment itself, a transaction over the balance, is Wallet's.        *)
(***************************************************************************)
EXTENDS Integers

CONSTANTS
    Users, NoUser,
    Requests,
    Instances,
    InstanceOf,     \* InstanceOf[r]: the instance that serves r
    Day             \* ticks from midnight to midnight, and the TTL of the key

ASSUME ProfitAssumption ==
    /\ NoUser \notin Users
    /\ InstanceOf \in [Requests -> Instances]
    /\ Day \in Nat \ {0}

VARIABLES
    hour,           \* ticks since midnight UTC
    completed,      \* users who have completed all active tasks today
    key,            \* key[u]: ticks profit_claimed:<u> has left; 0: not there
    isReady,        \* RedisService.isReady of each instance
    job,            \* what each request is doing
    age,            \* history: ticks since the last claim of u that was paid
                    \*   took the key, up to Day
    blocked,        \* history: users whose key outlived a claim that paid nothing
    doubted         \* history: users whose key was freed after they were paid

vars == <<hour, completed, key, isReady, job, age, blocked, doubted>>

Ops == {"idle", "lock", "locked", "txn", "undo"}

Job == [op : Ops, user : Users \cup {NoUser}, paid : BOOLEAN]

Idle == [op |-> "idle", user |-> NoUser, paid |-> FALSE]

Init ==
    /\ hour = 0
    /\ completed = {}
    /\ key = [u \in Users |-> 0]
    /\ isReady = [i \in Instances |-> TRUE]
    /\ job = [r \in Requests |-> Idle]
    /\ age = [u \in Users |-> Day]
    /\ blocked = {}
    /\ doubted = {}

-----------------------------------------------------------------------------
Is(r, op) == job[r].op = op
Goto(r, op) == job' = [job EXCEPT ![r].op = op]
Finish(r) == job' = [job EXCEPT ![r] = Idle]

\* r has taken the key of its user and not done with it.
Holding(r) == job[r].op \in {"locked", "txn", "undo"}

\* Users whose key stays behind, with nothing paid for it, when the requests R
\* end here.
LeftBehind(R) == {u \in Users : \E r \in R : Holding(r) /\ job[r].user = u /\ ~ job[r].paid}

\* The user has all of today's tasks approved.
Complete(u) ==
    /\ completed' = completed \cup {u}
    /\ UNCHANGED <<hour, key, isReady, job, age, blocked, doubted>>

\* claimProfit: hasCompletedAllActiveTasksToday lets the user through.
ClaimGate(r, u) ==
    /\ Is(r, "idle")
    /\ u \in completed
    /\ job' = [job EXCEPT ![r] = [op |-> "lock", user |-> u, paid |-> FALSE]]
    /\ UNCHANGED <<hour, completed, key, isReady, age, blocked, doubted>>

\* Mutants of ClaimLock: the TTL of another key; SET without NX; SET before the
\* look, so that a claim that is refused has renewed the key.
ClaimLockLonger(r) ==
    /\ Is(r, "lock")
    /\ key[job[r].user] = 0
    /\ key' = [key EXCEPT ![job[r].user] = 2 * Day]
    /\ Goto(r, "locked")
    /\ UNCHANGED <<hour, completed, isReady, age, blocked, doubted>>
ClaimLockNoNX(r) ==
    /\ Is(r, "lock")
    /\ key' = [key EXCEPT ![job[r].user] = Day]
    /\ Goto(r, "locked")
    /\ UNCHANGED <<hour, completed, isReady, age, blocked, doubted>>
ClaimLockRenews(r) ==
    /\ Is(r, "lock")
    /\ key' = [key EXCEPT ![job[r].user] = Day]
    /\ IF key[job[r].user] = 0 THEN Goto(r, "locked") ELSE Finish(r)
    /\ UNCHANGED <<hour, completed, isReady, age, blocked, doubted>>

\* setIfNotExists; 'Daily profit already claimed' when it answers false, which
\* it also does while Redis is away.
ClaimLock(r) ==
    LET u == job[r].user
    IN  /\ Is(r, "lock")
        /\ IF isReady[InstanceOf[r]] /\ key[u] = 0
             THEN key' = [key EXCEPT ![u] = Day] /\ Goto(r, "locked")
             ELSE UNCHANGED key /\ Finish(r)
        /\ UNCHANGED <<hour, completed, isReady, age, blocked, doubted>>

\* getSettings and startSession have answered.
ClaimBegin(r) ==
    /\ Is(r, "locked")
    /\ Goto(r, "txn")
    /\ UNCHANGED <<hour, completed, key, isReady, age, blocked, doubted>>

\* The transaction commits, and its reply arrives or is lost: then
\* withTransaction throws.
ClaimPay(r) ==
    LET u == job[r].user
    IN  /\ Is(r, "txn")
        /\ age' = [age EXCEPT ![u] = Day - key[u]]
        /\ doubted' = doubted \ {u}
        /\ \/ Finish(r)
           \/ job' = [job EXCEPT ![r].op = "undo", ![r].paid = TRUE]
        /\ UNCHANGED <<hour, completed, key, isReady, blocked>>

\* The transaction fails.
ClaimAbort(r) ==
    /\ Is(r, "txn")
    /\ Goto(r, "undo")
    /\ UNCHANGED <<hour, completed, key, isReady, age, blocked, doubted>>

\* Mutant of ClaimUndo: nothing is caught.
ClaimUndoNothing(r) ==
    /\ Is(r, "undo")
    /\ Finish(r)
    /\ UNCHANGED <<hour, completed, key, isReady, age, blocked, doubted>>

\* catch: del, which does nothing while Redis is away.
ClaimUndo(r) ==
    LET u == job[r].user
    IN  /\ Is(r, "undo")
        /\ IF isReady[InstanceOf[r]]
             THEN /\ key' = [key EXCEPT ![u] = 0]
                  /\ doubted' = IF job[r].paid THEN doubted \cup {u} ELSE doubted
                  /\ UNCHANGED blocked
             ELSE /\ blocked' = blocked \cup LeftBehind({r})
                  /\ UNCHANGED <<key, doubted>>
        /\ Finish(r)
        /\ UNCHANGED <<hour, completed, isReady, age>>

\* An await outside the try throws: the gate's answer is dropped, the settings
\* or the session fail after the key was taken, or del itself fails.
ClaimThrow(r) ==
    /\ job[r].op \in {"lock", "locked", "undo"}
    /\ blocked' = blocked \cup LeftBehind({r})
    /\ Finish(r)
    /\ UNCHANGED <<hour, completed, key, isReady, age, doubted>>

-----------------------------------------------------------------------------
\* 'error', 'end' or 'close' of the connection; no event sets isReady again,
\* because no reconnection is tried.
LoseRedis(i) ==
    /\ isReady[i]
    /\ isReady' = [isReady EXCEPT ![i] = FALSE]
    /\ UNCHANGED <<hour, completed, key, job, age, blocked, doubted>>

\* The instance dies with its requests, and starts again.
Restart(i) ==
    LET R == {r \in Requests : InstanceOf[r] = i}
    IN  /\ isReady' = [isReady EXCEPT ![i] = TRUE]
        /\ blocked' = blocked \cup LeftBehind(R)
        /\ job' = [r \in Requests |-> IF r \in R THEN Idle ELSE job[r]]
        /\ UNCHANGED <<hour, completed, key, age, doubted>>

\* Time passes; a key expires, but never under a claim in flight: MongoDB's
\* driver gives up a transaction after two minutes.  At midnight the tasks
\* begin anew.
Tick ==
    /\ \A r \in Requests : Holding(r) => key[job[r].user] # 1
    /\ hour' = (hour + 1) % Day
    /\ completed' = IF hour' = 0 THEN {} ELSE completed
    /\ key' = [u \in Users |-> IF key[u] = 0 THEN 0 ELSE key[u] - 1]
    /\ age' = [u \in Users |-> IF age[u] = Day THEN Day ELSE age[u] + 1]
    /\ blocked' = {u \in blocked : key[u] > 1}
    /\ UNCHANGED <<isReady, job, doubted>>

Claim(r) ==
    \/ ClaimLock(r) \/ ClaimBegin(r) \/ ClaimPay(r) \/ ClaimAbort(r)
    \/ ClaimUndo(r) \/ ClaimThrow(r)

Next ==
    \/ \E u \in Users : Complete(u)
    \/ \E r \in Requests, u \in Users : ClaimGate(r, u)
    \/ \E r \in Requests : Claim(r)
    \/ \E i \in Instances : LoseRedis(i) \/ Restart(i)
    \/ Tick

Spec == Init /\ [][Next]_vars

\* Time passes, and every await of a claim is answered or throws.
FairSpec ==
    Spec /\ WF_vars(Tick) /\ \A r \in Requests : WF_vars(Claim(r))
-----------------------------------------------------------------------------
\* Type invariant: the key, the instances and the requests' local state.
TypeOK ==
    /\ hour \in 0 .. Day - 1
    /\ completed \in SUBSET Users
    /\ key \in [Users -> 0 .. Day]
    /\ isReady \in [Instances -> BOOLEAN]
    /\ job \in [Requests -> Job]
    /\ age \in [Users -> 0 .. Day]
    /\ blocked \in SUBSET Users
    /\ doubted \in SUBSET Users

\* A claim that may pay is in flight only when a day has passed since the last
\* claim that paid took the key, whatever crashes and outages there were in
\* between; unless that one was paid by a transaction whose reply was lost, and
\* freed the key afterwards.
OneProfitADay ==
    \A r \in Requests :
        job[r].op \in {"locked", "txn"} =>
            age[job[r].user] = Day \/ job[r].user \in doubted

\* A user is kept from claiming only by a claim in flight, by a profit paid for
\* the very key that is there, or by a claim that broke off after it took the
\* key and could not free it.
KeyHasCause ==
    \A u \in Users :
        key[u] > 0 =>
            \/ \E r \in Requests : Holding(r) /\ job[r].user = u
            \/ age[u] = Day - key[u]
            \/ u \in blocked

\* Whatever became of the claim that took it, and however often the user tries
\* again meanwhile, a key is gone in the end.
KeyIsReleased == \A u \in Users : key[u] > 0 ~> key[u] = 0
=============================================================================
