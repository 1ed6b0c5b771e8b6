------------------------------- MODULE Wallet -------------------------------
(***************************************************************************)
(* WalletService (claim profit, withdraw, approve and reject a withdrawal) *)
(* and UserService.creditUser: everything that moves the approved balance. *)
(*                                                                         *)
(* A handler is cut where it awaits something another request can see or   *)
(* change.  The body of session.withTransaction is two steps: the reads,   *)
(* at the transaction's snapshot, and all its writes with the commit,      *)
(* which become visible together.  creditUser uses no session: its find,   *)
(* its save and its ledger row are three steps.                            *)
(***************************************************************************)
EXTENDS UserDocument, FiniteSets, Functions

CONSTANTS
    Withdrawals,            \* ids of withdrawal documents
    NoWithdrawal,
    WithdrawAmounts,        \* amounts users ask for
    CreditAmounts,          \* amounts admins credit: nothing checks their sign
    MinWithdrawalAmount,    \* settings.minWithdrawalAmount
    RateNum, RateDen,       \* settings.dailyProfitRate, as a fraction
    Opening,                \* what every user was credited before Init
    MaxOps                  \* bound: operations begun per user

ASSUME WalletAssumption ==
    /\ IsFiniteSet(Withdrawals)
    /\ NoWithdrawal \notin Withdrawals
    /\ WithdrawAmounts \subseteq Nat \ {0}
    /\ CreditAmounts \subseteq Int
    /\ MinWithdrawalAmount \in Int
    /\ RateNum \in Int
    /\ RateDen \in Nat \ {0}
    /\ Opening \in Nat
    /\ MaxOps \in Nat

VARIABLES
    withdrawal,     \* the `withdrawals` collection
    ledger,         \* per user, the `walletTransactions` rows of the approved
                    \*   balance: their net amount and the latest row
    claimKey,       \* users whose profit_claimed:<id> key is in Redis
    job,            \* job[r]: what request r is doing
    held,           \* history: cents debited from u and not refunded
    unlogged,       \* history: cents credited to u by admins with no row (yet)
    refunded,       \* history: withdrawals whose refund was committed
    docked,         \* history: users a credit or a profit below zero was given
    ops             \* bound: operations begun for u

history == <<held, unlogged, refunded, docked>>

vars == <<account, copy, clobbered, withdrawal, ledger, claimKey, job,
          held, unlogged, refunded, docked, ops>>

Row == [type : {"profit_claim", "withdrawal_debit", "withdrawal_refund", "admin_credit"},
        amount : Int, balanceBefore : Int, balanceAfter : Int]

Ledger == [net : Int, last : Row]

Withdrawal == [status : {"none", "pending", "approved", "rejected"},
               user : Users \cup {NoUser}, amount : Nat]

NoDocument == [status |-> "none", user |-> NoUser, amount |-> 0]

Ops == {"idle", "claim", "claimTxn", "claimUndo", "withdrawTxn", "rejectTxn",
        "credit", "creditLog"}

Job == [op : Ops, user : Users \cup {NoUser},
        wid : Withdrawals \cup {NoWithdrawal}, amount : Int]

Idle == [op |-> "idle", user |-> NoUser, wid |-> NoWithdrawal, amount |-> 0]

Init ==
    /\ account = [u \in Users |->
                    [pending |-> 0, approved |-> Opening, totalEarned |-> Opening]]
    /\ copy = [r \in Requests |-> NoCopy]
    /\ clobbered = {}
    /\ withdrawal = [w \in Withdrawals |-> NoDocument]
    /\ ledger = [u \in Users |->
                    [net |-> Opening,
                     last |-> [type |-> "admin_credit", amount |-> Opening,
                               balanceBefore |-> 0, balanceAfter |-> Opening]]]
    /\ claimKey = {}
    /\ job = [r \in Requests |-> Idle]
    /\ held = [u \in Users |-> 0]
    /\ unlogged = [u \in Users |-> 0]
    /\ refunded = {}
    /\ docked = {}
    /\ ops = [u \in Users |-> 0]

-----------------------------------------------------------------------------
\* Number((approved * dailyProfitRate).toFixed(2)), in cents: rounded to the
\* nearest, halves away from zero.
Rounded(n) == (2 * n + RateDen) \div (2 * RateDen)

ProfitOf(approved) ==
    LET n == approved * RateNum
    IN  IF n >= 0 THEN Rounded(n) ELSE 0 - Rounded(0 - n)

\* The document in memory after `balance.approved += n`, and after also
\* `balance.totalEarned += n`; mutant of the latter: the total is forgotten.
Moved(r, n) == [copy[r].doc EXCEPT !.approved = @ + n]
EarnedUncounted(r, n) == Moved(r, n)
Earned(r, n) == [Moved(r, n) EXCEPT !.totalEarned = @ + n]

\* walletTransactionModel.create: the row quotes the document in memory.
Log(u, type, amount, before, after) ==
    ledger' = [ledger EXCEPT ![u] =
                 [net |-> IF type = "withdrawal_debit" THEN @.net - amount
                                                       ELSE @.net + amount,
                  last |-> [type |-> type, amount |-> amount,
                            balanceBefore |-> before, balanceAfter |-> after]]]

\* Bookkeeping: u is given n, which may be less than nothing.
Given(u, n) == docked' = IF n < 0 THEN docked \cup {u} ELSE docked

Is(r, op) == job[r].op = op
Goto(r, op) == job' = [job EXCEPT ![r].op = op] /\ UNCHANGED ops
Finish(r) == job' = [job EXCEPT ![r] = Idle] /\ UNCHANGED ops
Begin(r, op, u, w, a) ==
    /\ Is(r, "idle")
    /\ ops[u] < MaxOps
    /\ ops' = [ops EXCEPT ![u] = @ + 1]
    /\ job' = [job EXCEPT ![r] = [op |-> op, user |-> u, wid |-> w, amount |-> a]]

-----------------------------------------------------------------------------
\* Mutant of ClaimStart: SET without NX.
ClaimStartNoLock(r, u) ==
    /\ claimKey' = claimKey \cup {u}
    /\ Begin(r, "claim", u, NoWithdrawal, 0)
    /\ UNCHANGED <<docVars, withdrawal, ledger, history>>

\* claimProfit up to the lock: SET profit_claimed:<id> ... EX 86400 NX.  The
\* caller has completed the day's tasks; a second claim is refused here.
ClaimStart(r, u) ==
    /\ u \notin claimKey
    /\ claimKey' = claimKey \cup {u}
    /\ Begin(r, "claim", u, NoWithdrawal, 0)
    /\ UNCHANGED <<docVars, withdrawal, ledger, history>>

\* getSettings and startSession have answered; the transaction reads the user.
ClaimFind(r) ==
    /\ Is(r, "claim")
    /\ Find(r, job[r].user)
    /\ Goto(r, "claimTxn")
    /\ UNCHANGED <<withdrawal, ledger, claimKey, history>>

\* The writes of the claim's transaction, committed.
ClaimApply(r) ==
    LET before == copy[r].doc.approved
        amount == ProfitOf(before)
    IN  /\ Is(r, "claimTxn")
        /\ Commit(r, Earned(r, amount))
        /\ Log(job[r].user, "profit_claim", amount, before, before + amount)
        /\ Given(job[r].user, amount)
        /\ UNCHANGED <<withdrawal, claimKey, held, unlogged, refunded>>

ClaimCommit(r) == ClaimApply(r) /\ Finish(r)

\* The commit took effect and its reply was lost: the driver's retries run
\* out and withTransaction throws, so the handler's catch block runs.
ClaimReplyLost(r) == ClaimApply(r) /\ Goto(r, "claimUndo")

\* Write conflict: withTransaction runs the callback again, from its reads.
ClaimRetry(r) ==
    /\ Is(r, "claimTxn")
    /\ copy[r].stale # {}
    /\ Find(r, job[r].user)
    /\ UNCHANGED <<withdrawal, ledger, claimKey, job, history, ops>>

\* Mutant of ClaimAbort: the ledger row was created without { session }.
ClaimAbortRowStays(r) ==
    LET before == copy[r].doc.approved
        amount == ProfitOf(before)
    IN  /\ Is(r, "claimTxn")
        /\ Release(r)
        /\ Log(job[r].user, "profit_claim", amount, before, before + amount)
        /\ Goto(r, "claimUndo")
        /\ UNCHANGED <<withdrawal, claimKey, history>>

\* The transaction aborts with an error that is not retried.
ClaimAbort(r) ==
    /\ Is(r, "claimTxn")
    /\ Release(r)
    /\ Goto(r, "claimUndo")
    /\ UNCHANGED <<withdrawal, ledger, claimKey, history>>

\* catch: redisService.del(key), which does nothing while Redis is away.
ClaimUndo(r) ==
    /\ Is(r, "claimUndo")
    /\ claimKey' \in {claimKey \ {job[r].user}, claimKey}
    /\ Finish(r)
    /\ UNCHANGED <<docVars, withdrawal, ledger, history>>

Claiming(r) == job[r].op \in {"claim", "claimTxn", "claimUndo"}

\* The key's TTL of a day runs out.  A claim in flight is never that old:
\* the driver gives a transaction up after two minutes.
ClaimKeyExpires(u) ==
    /\ u \in claimKey
    /\ \A r \in Requests : job[r].user = u => ~ Claiming(r)
    /\ claimKey' = claimKey \ {u}
    /\ UNCHANGED <<docVars, withdrawal, ledger, job, history, ops>>

-----------------------------------------------------------------------------
\* requestWithdrawal: the minimum is checked against the settings, and the
\* transaction reads the user and refuses more than the approved balance.
WithdrawFind(r, u, a) ==
    /\ a >= MinWithdrawalAmount
    /\ a <= account[u].approved
    /\ Find(r, u)
    /\ Begin(r, "withdrawTxn", u, NoWithdrawal, a)
    /\ UNCHANGED <<withdrawal, ledger, claimKey, history>>

\* Debit, withdrawal document and ledger row, committed together.
WithdrawCommit(r, w) ==
    LET u == job[r].user
        a == job[r].amount
        before == copy[r].doc.approved
    IN  /\ Is(r, "withdrawTxn")
        /\ withdrawal[w].status = "none"
        /\ Commit(r, Moved(r, 0 - a))
        /\ withdrawal' = [withdrawal EXCEPT ![w] =
                            [status |-> "pending", user |-> u, amount |-> a]]
        /\ Log(u, "withdrawal_debit", a, before, before - a)
        /\ held' = [held EXCEPT ![u] = @ + a]
        /\ Finish(r)
        /\ UNCHANGED <<claimKey, unlogged, refunded, docked>>

\* Mutant of WithdrawRetry: the balance was checked before the transaction.
WithdrawRetryUnchecked(r) ==
    /\ Is(r, "withdrawTxn")
    /\ copy[r].stale # {}
    /\ Find(r, job[r].user)
    /\ UNCHANGED <<job, ops>>
    /\ UNCHANGED <<withdrawal, ledger, claimKey, history>>

\* Write conflict: the callback runs again and checks the balance again.
WithdrawRetry(r) ==
    /\ Is(r, "withdrawTxn")
    /\ copy[r].stale # {}
    /\ \/ /\ job[r].amount <= account[job[r].user].approved
          /\ Find(r, job[r].user)
          /\ UNCHANGED <<job, ops>>
       \/ /\ job[r].amount > account[job[r].user].approved
          /\ Release(r)
          /\ Finish(r)
    /\ UNCHANGED <<withdrawal, ledger, claimKey, history>>

-----------------------------------------------------------------------------
\* approveWithdrawal: one findByIdAndUpdate, on any withdrawal that exists.
ApproveWithdrawal(w) ==
    /\ withdrawal[w].status # "none"
    /\ withdrawal' = [withdrawal EXCEPT ![w].status = "approved"]
    /\ UNCHANGED <<docVars, ledger, claimKey, job, history, ops>>

\* rejectWithdrawal: the transaction reads the withdrawal, which must be
\* pending, and its owner.
RejectFind(r, w) ==
    /\ withdrawal[w].status = "pending"
    /\ Find(r, withdrawal[w].user)
    /\ Begin(r, "rejectTxn", withdrawal[w].user, w, withdrawal[w].amount)
    /\ UNCHANGED <<withdrawal, ledger, claimKey, history>>

\* Refund, new status and ledger row, committed together.
RejectApply(r, status) ==
    LET u == job[r].user
        w == job[r].wid
        a == job[r].amount
        before == copy[r].doc.approved
    IN  /\ Is(r, "rejectTxn")
        /\ Commit(r, Moved(r, a))
        /\ withdrawal' = [withdrawal EXCEPT ![w].status = status]
        /\ Log(u, "withdrawal_refund", a, before, before + a)
        /\ held' = [held EXCEPT ![u] = @ - a]
        /\ refunded' = refunded \cup {w}
        /\ Finish(r)
        /\ UNCHANGED <<claimKey, unlogged, docked>>

\* Mutants of RejectCommit: the status read before the transaction; a status
\* that is not in the schema's enum; withdrawal.save() forgotten.
RejectCommitUnchecked(r) == RejectApply(r, "rejected")
RejectCommitMisspelt(r) ==
    Is(r, "rejectTxn") /\ withdrawal[job[r].wid].status = "pending"
      /\ RejectApply(r, "refunded")
RejectCommitUnsaved(r) ==
    Is(r, "rejectTxn") /\ withdrawal[job[r].wid].status = "pending"
      /\ RejectApply(r, "pending")

\* The withdrawal was pending in the snapshot and no write ever makes it
\* pending again, so the commit conflicts on it exactly when it is not
\* pending any more.
RejectCommit(r) ==
    /\ Is(r, "rejectTxn")
    /\ withdrawal[job[r].wid].status = "pending"
    /\ RejectApply(r, "rejected")

\* Write conflict on either document: both are read again.
RejectRetry(r) ==
    LET w == job[r].wid
    IN  /\ Is(r, "rejectTxn")
        /\ copy[r].stale # {} \/ withdrawal[w].status # "pending"
        /\ \/ /\ withdrawal[w].status = "pending"
              /\ Find(r, job[r].user)
              /\ UNCHANGED <<job, ops>>
           \/ /\ withdrawal[w].status # "pending"
              /\ Release(r)
              /\ Finish(r)
        /\ UNCHANGED <<withdrawal, ledger, claimKey, history>>

-----------------------------------------------------------------------------
\* creditUser: find, save and log, with no session.
CreditFind(r, u, a) ==
    /\ Find(r, u)
    /\ Begin(r, "credit", u, NoWithdrawal, a)
    /\ UNCHANGED <<withdrawal, ledger, claimKey, history>>

CreditSave(r) ==
    /\ Is(r, "credit")
    /\ Save(r, Earned(r, job[r].amount))
    /\ Goto(r, "creditLog")
    /\ unlogged' = [unlogged EXCEPT ![job[r].user] = @ + job[r].amount]
    /\ Given(job[r].user, job[r].amount)
    /\ UNCHANGED <<withdrawal, ledger, claimKey, held, refunded>>

CreditLog(r) ==
    LET after == copy[r].doc.approved
    IN  /\ Is(r, "creditLog")
        /\ Log(job[r].user, "admin_credit", job[r].amount, after - job[r].amount, after)
        /\ unlogged' = [unlogged EXCEPT ![job[r].user] = @ - job[r].amount]
        /\ Release(r)
        /\ Finish(r)
        /\ UNCHANGED <<withdrawal, claimKey, held, refunded, docked>>

-----------------------------------------------------------------------------
\* The request dies where it stands: its instance crashes, or an await that
\* no catch covers throws.  An open transaction aborts; everything stored stays.
Drop(r) ==
    /\ ~ Is(r, "idle")
    /\ Release(r)
    /\ Finish(r)
    /\ UNCHANGED <<withdrawal, ledger, claimKey, history>>

Step(r) ==
    \/ ClaimFind(r) \/ ClaimCommit(r) \/ ClaimReplyLost(r)
    \/ ClaimRetry(r) \/ ClaimAbort(r) \/ ClaimUndo(r)
    \/ \E w \in Withdrawals : WithdrawCommit(r, w)
    \/ WithdrawRetry(r)
    \/ RejectCommit(r) \/ RejectRetry(r)
    \/ CreditSave(r) \/ CreditLog(r)

Arrive(r) ==
    \/ \E u \in Users : ClaimStart(r, u)
    \/ \E u \in Users, a \in WithdrawAmounts : WithdrawFind(r, u, a)
    \/ \E w \in Withdrawals : RejectFind(r, w)
    \/ \E u \in Users, a \in CreditAmounts : CreditFind(r, u, a)

Next ==
    \/ \E r \in Requests : Arrive(r) \/ Step(r) \/ Drop(r)
    \/ \E w \in Withdrawals : ApproveWithdrawal(w)
    \/ \E u \in Users : ClaimKeyExpires(u)

Spec == Init /\ [][Next]_vars
-----------------------------------------------------------------------------
\* Type invariant: what the collections and the requests' local state hold.
TypeOK ==
    /\ DocTypeOK
    /\ withdrawal \in [Withdrawals -> Withdrawal]
    /\ ledger \in [Users -> Ledger]
    /\ claimKey \in SUBSET Users
    /\ job \in [Requests -> Job]
    /\ held \in [Users -> Int]
    /\ unlogged \in [Users -> Int]
    /\ refunded \in SUBSET Withdrawals
    /\ docked \in SUBSET Users
    /\ ops \in [Users -> 0 .. MaxOps]

\* A withdrawal never takes a balance below zero, whatever was credited and
\* claimed before: requestWithdrawal's check of the balance and its debit are
\* one transaction, and a second withdrawal that read the same balance
\* conflicts with the first.  And without a credit or a profit below zero
\* nothing else does: not even a credit saved from a stale copy.
NoOverdraft ==
    [][\A u \in Users :
         held'[u] > held[u] \/ u \notin docked' => account'[u].approved >= 0]_vars

\* Every cent ever earned is in the approved balance or held, for every user
\* whose document no creditUser overwrote from a stale copy.
EarnedOrHeld ==
    \A u \in Users \ clobbered :
        account[u].totalEarned = account[u].approved + held[u]

\* What is held of a user's earnings is the amounts of the withdrawals stored
\* for that user and not refunded.
Holds(u, w) ==
    withdrawal[w].status # "none" /\ withdrawal[w].user = u /\ w \notin refunded

HeldByWithdrawals ==
    \A u \in Users :
        held[u] = SumFunctionOnSet([w \in Withdrawals |->
                    IF Holds(u, w) THEN withdrawal[w].amount ELSE 0], Withdrawals)

\* No cent is lost or made up: the four transactions of the wallet never lose
\* each other's updates nor apply one twice, none debits without storing its
\* withdrawal, and none refunds one that holds nothing any more, or refunds it
\* to anybody else.
Conservation == EarnedOrHeld /\ HeldByWithdrawals

\* The rows of the ledger add up to the approved balance, but for the credits
\* whose row is still to be written or was never written because creditUser
\* died between its two writes; again where no creditUser overwrote anything.
LedgerReconciles ==
    \A u \in Users \ clobbered : account[u].approved = ledger[u].net + unlogged[u]

\* The profit_claimed key is a lock: a claim in flight holds the key of its
\* user, and no two claims of a user are in flight together.
ClaimExclusive ==
    \A r \in Requests : Claiming(r) =>
        /\ job[r].user \in claimKey
        /\ \A q \in Requests \ {r} : Claiming(q) => job[q].user # job[r].user

\* A ledger row written in a transaction quotes the balance as it was just
\* before and just after that very change.  (creditUser's row is written
\* later than the change; a profit of 0 changes nothing.)
LedgerHonest ==
    [][\A u \in Users :
         LET row == ledger'[u].last
         IN  /\ ledger'[u] # ledger[u]
             /\ row.type # "admin_credit"
             /\ row.amount # 0
             => /\ row.balanceBefore = account[u].approved
                /\ row.balanceAfter = account'[u].approved]_vars

\* An approved withdrawal stays approved, and is not refunded any more: an
\* approval that lands while rejectWithdrawal is between its read and its
\* commit makes that transaction conflict and give up.
ApprovedIsFinal ==
    [][\A w \in Withdrawals :
         withdrawal[w].status = "approved" =>
            /\ withdrawal'[w].status = "approved"
            /\ w \in refunded' => w \in refunded]_vars

\* The wallet as Settlement sees it.
DealOf(w) ==
    [state |-> IF withdrawal[w].status = "none" THEN "open"
               ELSE IF w \in refunded THEN "returned" ELSE "taken",
     user |-> withdrawal[w].user,
     amount |-> withdrawal[w].amount]

Promise == INSTANCE Settlement WITH
    balance <- [u \in Users |-> account[u].approved],
    deal <- [w \in Withdrawals |-> DealOf(w)],
    overwritten <- clobbered

\* The wallet implements Settlement: whatever reads, retries, aborts and lost
\* replies there are in between, each operation has its whole effect in one
\* step, on the balance as it is, or none; and only creditUser, saving a stale
\* copy, does what Settlement calls Overwrite.
SettlesAtOnce == Promise!Spec

Writers == INSTANCE Earnings WITH
    Bonuses <- {}, ProfitOn <- [b \in Int |-> ProfitOf(b)]

\* The wallet implements Earnings: it writes an approved balance in no way but
\* those, profits, debits and refunds in transactions and credits in plain
\* saves, debits what the balance it has read covers, and refunds no more than
\* is held.
KeepsEarnings == Writers!Spec

\* Stated by the code, and not so (see README, findings).
\* 'Insufficient approved balance': what a user's withdrawals hold never
\* exceeds what the user has earned.
NeverOverdrawn == \A u \in Users : held[u] <= account[u].totalEarned

\* 'Withdrawal rejected and refunded': a refunded withdrawal is a rejected one.
RefundedIsRejected == \A w \in refunded : withdrawal[w].status = "rejected"
=============================================================================
