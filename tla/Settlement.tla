----------------------------- MODULE Settlement -----------------------------
(***************************************************************************)
(* What the wallet promises: every operation is one decision on the        *)
(* balance as it is.  A withdrawal takes its amount from a balance that    *)
(* has it, once, and gives it back at most once, to its owner, in full; a  *)
(* profit is reckoned on the balance it is added to; a credit adds just    *)
(* its amount.  The one departure has a name: Overwrite, which marks the   *)
(* user whose balance another copy has replaced.                           *)
(***************************************************************************)
EXTENDS Integers

CONSTANTS
    Users, NoUser,
    Withdrawals,
    WithdrawAmounts,
    CreditAmounts,
    Opening,
    ProfitOf(_)     \* the profit on a balance

VARIABLES
    balance,        \* balance[u]
    deal,           \* each withdrawal: open, taken or returned, whose, how much
    overwritten     \* users whose balance is not what their operations make it

settled == <<balance, deal, overwritten>>

NoDeal == [state |-> "open", user |-> NoUser, amount |-> 0]

Init ==
    /\ balance = [u \in Users |-> Opening]
    /\ deal = [w \in Withdrawals |-> NoDeal]
    /\ overwritten = {}

Add(u, n) == balance' = [balance EXCEPT ![u] = @ + n]

Profit(u) == Add(u, ProfitOf(balance[u])) /\ UNCHANGED <<deal, overwritten>>

Credit(u, a) == Add(u, a) /\ UNCHANGED <<deal, overwritten>>

Take(u, w, a) ==
    /\ deal[w] = NoDeal
    /\ a <= balance[u]
    /\ Add(u, 0 - a)
    /\ deal' = [deal EXCEPT ![w] = [state |-> "taken", user |-> u, amount |-> a]]
    /\ UNCHANGED overwritten

Return(w) ==
    /\ deal[w].state = "taken"
    /\ Add(deal[w].user, deal[w].amount)
    /\ deal' = [deal EXCEPT ![w].state = "returned"]
    /\ UNCHANGED overwritten

Overwrite(u) ==
    /\ overwritten' = overwritten \cup {u}
    /\ balance' = [balance EXCEPT ![u] = balance'[u]]
    /\ UNCHANGED deal

Next ==
    \/ \E u \in Users : Profit(u) \/ Overwrite(u)
    \/ \E u \in Users, a \in CreditAmounts : Credit(u, a)
    \/ \E u \in Users, w \in Withdrawals, a \in WithdrawAmounts : Take(u, w, a)
    \/ \E w \in Withdrawals : Return(w)

Spec == Init /\ [][Next]_settled
=============================================================================
