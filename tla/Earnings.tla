------------------------------ MODULE Earnings ------------------------------
(***************************************************************************)
(* One balance and everybody who writes it: the transactions of the        *)
(* wallet, creditUser, approveSubmission and handleSignupReferral, any     *)
(* number of them at once, on one `users` collection.  Each is seen here   *)
(* as what it does to the document it has read.  Wallet, TaskReview and    *)
(* Referral have its guards and everything else it does, and each of them  *)
(* implements this module; here their saves and commits meet.              *)
(***************************************************************************)
EXTENDS UserDocument

CONSTANTS
    Opening,            \* what every user was credited before Init
    CreditAmounts,      \* amounts admins credit, below zero too
    WithdrawAmounts,    \* amounts users ask for
    Bonuses,            \* rewards of tasks, bonuses for referrals
    ProfitOn            \* ProfitOn[b]: the profit on an approved balance of b

VARIABLES
    held,               \* cents debited from u by withdrawals and not refunded
    docked              \* history: users given less than nothing

books == <<account, copy, clobbered, held, docked>>

Init ==
    /\ account = [u \in Users |->
                    [pending |-> 0, approved |-> Opening, totalEarned |-> Opening]]
    /\ copy = [r \in Requests |-> NoCopy]
    /\ clobbered = {}
    /\ held = [u \in Users |-> 0]
    /\ docked = {}

\* A document in memory with these amounts added to its pending and its approved
\* balance and to its total.
Plus(doc, p, a, t) ==
    [pending |-> doc.pending + p, approved |-> doc.approved + a,
     totalEarned |-> doc.totalEarned + t]

Given(r, n) == docked' = IF n < 0 THEN docked \cup {copy[r].user} ELSE docked

-----------------------------------------------------------------------------
\* A service reads the user, in a transaction or not, or lets the document go.
Load(r) == (\E u \in Users : Find(r, u)) /\ UNCHANGED <<held, docked>>
Forget(r) == Release(r) /\ UNCHANGED <<held, docked>>

\* claimProfit, in its transaction: a profit on the balance that was read.
Profit(r) ==
    LET n == ProfitOn[copy[r].doc.approved]
    IN  Commit(r, Plus(copy[r].doc, 0, n, n)) /\ Given(r, n) /\ UNCHANGED held

\* creditUser: a plain save.
Credit(r, a) ==
    Save(r, Plus(copy[r].doc, 0, a, a)) /\ Given(r, a) /\ UNCHANGED held

\* approveSubmission, handleSignupReferral: a plain save too, maybe not the
\* first one of that document.
Earn(r, a) ==
    Save(r, Plus(copy[r].doc, a, 0, a)) /\ Given(r, a) /\ UNCHANGED held

\* requestWithdrawal, in its transaction: no more than the balance that was read.
Withdraw(r, a) ==
    /\ a <= copy[r].doc.approved
    /\ Commit(r, Plus(copy[r].doc, 0, 0 - a, 0))
    /\ held' = [held EXCEPT ![copy[r].user] = @ + a]
    /\ UNCHANGED docked

\* rejectWithdrawal, in its transaction: no more than withdrawals hold.
Refund(r, a) ==
    /\ a <= held[copy[r].user]
    /\ Commit(r, Plus(copy[r].doc, 0, a, 0))
    /\ held' = [held EXCEPT ![copy[r].user] = @ - a]
    /\ UNCHANGED docked

Write(r) ==
    /\ copy[r].user \in Users
    /\ \/ Profit(r)
       \/ \E a \in CreditAmounts : Credit(r, a)
       \/ \E a \in Bonuses : Earn(r, a)
       \/ \E a \in WithdrawAmounts : Withdraw(r, a) \/ Refund(r, a)

Next == \E r \in Requests : Load(r) \/ Forget(r) \/ Write(r)

Spec == Init /\ [][Next]_books
-----------------------------------------------------------------------------
\* What the amounts are: whole cents, and nobody withdraws less than nothing.
\* The rest the services do not check.
AmountsOK ==
    /\ Opening \in Nat /\ WithdrawAmounts \subseteq Nat
    /\ CreditAmounts \subseteq Int /\ Bonuses \subseteq Int
    /\ ProfitOn \in [Int -> Int]

\* Everything earned is pending, approved or held by a withdrawal, whoever else
\* was at work on the document, for every user whose document no plain save
\* overwrote from a stale copy.
EarningsAddUp ==
    \A u \in Users \ clobbered :
        account[u].totalEarned = account[u].pending + account[u].approved + held[u]

\* No more is refunded than was held, and no part of the balance of anybody who
\* was never given less than nothing goes below zero: not even a save from a
\* stale copy gets there, since nobody reads less.
NothingNegative ==
    \A u \in Users :
        /\ held[u] >= 0
        /\ u \notin docked =>
             /\ account[u].pending >= 0 /\ account[u].approved >= 0
             /\ account[u].totalEarned >= 0

\* Whoever writes beside it, a withdrawal leaves no balance below zero, not
\* even of a user who was given less than nothing before.
DebitsCovered ==
    [][\A u \in Users : held'[u] > held[u] => account'[u].approved >= 0]_books
=============================================================================
