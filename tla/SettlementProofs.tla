-------------------------- MODULE SettlementProofs --------------------------
(***************************************************************************)
(* That the wallet implements Settlement, for every number of users,       *)
(* requests and withdrawals, every rate and all amounts: the initial state *)
(* is one of Settlement's, and each step of the wallet is, seen through    *)
(* the refinement mapping Promise, a step of Settlement or none.           *)
(*                                                                         *)
(* It rests on the invariants of WalletProofs (Shape, Fresh, Solvent) and  *)
(* on one more, Lent: what a withdrawal document says of itself, and what  *)
(* a transaction in flight has read of it.                                 *)
(*                                                                         *)
(* Then that what is held is the sum of the withdrawals that hold it, and  *)
(* with that, that the wallet implements Earnings as well.                 *)
(***************************************************************************)
EXTENDS WalletProofs

\* A withdrawal not yet stored says nothing; one that is refunded is no longer
\* pending; and a request's amount is the one asked for, or the document's.
Lent ==
    /\ \A w \in Withdrawals :
         /\ withdrawal[w].status = "none" =>
              withdrawal[w].user = NoUser /\ withdrawal[w].amount = 0
         /\ w \in refunded => withdrawal[w].status \notin {"none", "pending"}
    /\ \A r \in Requests :
         /\ job[r].op = "withdrawTxn" => job[r].amount \in WithdrawAmounts
         /\ job[r].op = "credit" => job[r].amount \in CreditAmounts
         /\ job[r].op = "rejectTxn" =>
              /\ withdrawal[job[r].wid].status # "none"
              /\ job[r].user = withdrawal[job[r].wid].user
              /\ job[r].amount = withdrawal[job[r].wid].amount

\* What Lent says of the documents, and of one request.
Papers ==
    \A w \in Withdrawals :
        /\ withdrawal[w].status = "none" =>
             withdrawal[w].user = NoUser /\ withdrawal[w].amount = 0
        /\ w \in refunded => withdrawal[w].status \notin {"none", "pending"}

Knows(r) ==
    /\ job[r].op = "withdrawTxn" => job[r].amount \in WithdrawAmounts
    /\ job[r].op = "credit" => job[r].amount \in CreditAmounts
    /\ job[r].op = "rejectTxn" =>
         /\ withdrawal[job[r].wid].status # "none"
         /\ job[r].user = withdrawal[job[r].wid].user
         /\ job[r].amount = withdrawal[job[r].wid].amount

\* Together they are Lent.
LEMMA LentParts == Lent <=> Papers /\ \A r \in Requests : Knows(r)
BY DEF Lent, Papers, Knows

\* A stored withdrawal stays stored, and keeps its owner and its amount.
DocumentsKept ==
    \A w \in Withdrawals : withdrawal[w].status # "none" =>
        /\ withdrawal'[w].status # "none"
        /\ withdrawal'[w].user = withdrawal[w].user
        /\ withdrawal'[w].amount = withdrawal[w].amount

\* So what the other requests have read of it stays true.
LEMMA OthersKnow ==
    ASSUME Shape, Lent, NEW r \in Requests, DocumentsKept,
           \A q \in Requests \ {r} : job'[q] = job[q]
    PROVE  \A q \in Requests \ {r} : Knows(q)'
<1> TAKE q \in Requests \ {r}
<1>1. Knows(q) /\ (job[q].op = "rejectTxn" => job[q].wid \in Withdrawals)
  BY LentParts DEF Shape
<1> QED BY <1>1 DEF Knows, DocumentsKept

\* A step that leaves the withdrawals alone, and a request in an operation that
\* has read none of them, keeps Lent.
LEMMA LentQuiet ==
    ASSUME Shape, Lent, NEW r \in Requests, UNCHANGED <<withdrawal, refunded>>,
           \A q \in Requests \ {r} : job'[q] = job[q], Knows(r)'
    PROVE  Lent'
<1>1. DocumentsKept
  BY DEF DocumentsKept
<1>2. \A q \in Requests : Knows(q)'
  BY <1>1, OthersKnow
<1> QED BY <1>2 DEF Lent, Knows

\* Nothing is stored and nobody is at work at first.
LEMMA LentInit == Init => Lent
BY DEF Init, Lent, NoDocument, Idle

\* Requests that begin know what they were asked, or have read it.
LEMMA LentArrive ==
    ASSUME Shape, Lent, NEW r \in Requests, Arrive(r)
    PROVE  Lent'
<1>1. UNCHANGED <<withdrawal, refunded>>
  BY DEF Arrive, ClaimStart, WithdrawFind, RejectFind, CreditFind, history
<1>2. job \in [Requests -> Job]
  BY DEF Shape, TypeOK
<1>3. (\A q \in Requests \ {r} : job'[q] = job[q]) /\ Knows(r)'
  <2>1. ASSUME NEW u \in Users, ClaimStart(r, u)
        PROVE  (\A q \in Requests \ {r} : job'[q] = job[q]) /\ Knows(r)'
    BY <1>2, <2>1 DEF ClaimStart, Begin, Knows
  <2>2. ASSUME NEW u \in Users, NEW a \in WithdrawAmounts, WithdrawFind(r, u, a)
        PROVE  (\A q \in Requests \ {r} : job'[q] = job[q]) /\ Knows(r)'
    BY <1>2, <2>2 DEF WithdrawFind, Begin, Knows
  <2>3. ASSUME NEW w \in Withdrawals, RejectFind(r, w)
        PROVE  (\A q \in Requests \ {r} : job'[q] = job[q]) /\ Knows(r)'
    BY <1>1, <1>2, <2>3 DEF RejectFind, Begin, Knows
  <2>4. ASSUME NEW u \in Users, NEW a \in CreditAmounts, CreditFind(r, u, a)
        PROVE  (\A q \in Requests \ {r} : job'[q] = job[q]) /\ Knows(r)'
    BY <1>2, <2>4 DEF CreditFind, Begin, Knows
  <2> QED BY <2>1, <2>2, <2>3, <2>4 DEF Arrive
<1> QED BY <1>1, <1>3, LentQuiet

\* The withdrawal is stored with its transaction.
LEMMA LentWithdraw ==
    ASSUME Shape, Lent, NEW r \in Requests, NEW w \in Withdrawals, WithdrawCommit(r, w)
    PROVE  Lent'
<1>1. /\ withdrawal[w].status = "none" /\ Finish(r) /\ UNCHANGED refunded
      /\ withdrawal' = [withdrawal EXCEPT ![w] =
            [status |-> "pending", user |-> job[r].user, amount |-> job[r].amount]]
  BY DEF WithdrawCommit
<1>2. /\ withdrawal'[w].status = "pending"
      /\ \A v \in Withdrawals \ {w} : withdrawal'[v] = withdrawal[v]
  BY <1>1 DEF Shape, TypeOK
<1>3. DocumentsKept
  BY <1>1, <1>2 DEF DocumentsKept
<1>4. /\ job'[r].op = "idle"
      /\ \A q \in Requests \ {r} : job'[q] = job[q]
  BY <1>1, JobMoves
<1>5. \A q \in Requests : Knows(q)'
  BY <1>3, <1>4, OthersKnow DEF Knows
<1>6. Papers'
  BY <1>1, <1>2, LentParts DEF Papers
<1> QED BY <1>5, <1>6 DEF Lent, Papers, Knows

\* The refund and the new status are stored together.
LEMMA LentReject ==
    ASSUME Shape, Lent, NEW r \in Requests, RejectCommit(r)
    PROVE  Lent'
<1> DEFINE w == job[r].wid
<1>1. w \in Withdrawals /\ withdrawal[w] \in Withdrawal
  BY DEF RejectCommit, Is, Shape, TypeOK
<1>2. /\ withdrawal[w].status = "pending" /\ Finish(r)
      /\ refunded' = refunded \cup {w}
      /\ withdrawal' = [withdrawal EXCEPT ![w].status = "rejected"]
  BY DEF RejectCommit, RejectApply
<1> HIDE DEF w
<1>3. /\ withdrawal'[w].status = "rejected"
      /\ withdrawal'[w].user = withdrawal[w].user
      /\ withdrawal'[w].amount = withdrawal[w].amount
      /\ \A v \in Withdrawals \ {w} : withdrawal'[v] = withdrawal[v]
  BY <1>1, <1>2 DEF Shape, TypeOK, Withdrawal
<1>4. DocumentsKept
  BY <1>3 DEF DocumentsKept
<1>5. /\ job'[r].op = "idle"
      /\ \A q \in Requests \ {r} : job'[q] = job[q]
  BY <1>2, JobMoves
<1>6. \A q \in Requests : Knows(q)'
  BY <1>4, <1>5, OthersKnow DEF Knows
<1>7. Papers'
  BY <1>2, <1>3, LentParts DEF Papers
<1> QED BY <1>6, <1>7 DEF Lent, Papers, Knows

\* An administrator's approval changes the status, and no more.
LEMMA LentApprove ==
    ASSUME Shape, Lent, NEW w \in Withdrawals, ApproveWithdrawal(w)
    PROVE  Lent'
<1>1. withdrawal[w] \in Withdrawal
  BY DEF Shape, TypeOK
<1>2. /\ withdrawal'[w].status = "approved"
      /\ withdrawal'[w].user = withdrawal[w].user
      /\ withdrawal'[w].amount = withdrawal[w].amount
      /\ \A v \in Withdrawals \ {w} : withdrawal'[v] = withdrawal[v]
  BY <1>1 DEF ApproveWithdrawal, Shape, TypeOK, Withdrawal
<1>3. UNCHANGED <<job, refunded>>
  BY DEF ApproveWithdrawal, history
<1>4. Papers'
  BY <1>2, <1>3, LentParts DEF Papers
<1>5. \A q \in Requests : Knows(q)'
  <2> TAKE q \in Requests
  <2>1. Knows(q) /\ (job[q].op = "rejectTxn" => job[q].wid \in Withdrawals)
    BY LentParts DEF Shape
  <2>2. withdrawal[w].status # "none"
    BY DEF ApproveWithdrawal
  <2> QED BY <1>2, <1>3, <2>1, <2>2 DEF Knows
<1> QED BY <1>4, <1>5 DEF Lent, Papers, Knows

\* With Shape, Lent is inductive.
LEMMA LentStep == Shape /\ Lent /\ [Next]_vars => Lent'
<1> SUFFICES ASSUME Shape, Lent, [Next]_vars PROVE Lent'
  OBVIOUS
<1>1. ASSUME NEW r \in Requests, UNCHANGED <<withdrawal, refunded>>,
             \/ Finish(r) \/ UNCHANGED job
             \/ Goto(r, "claimTxn") \/ Goto(r, "claimUndo") \/ Goto(r, "creditLog")
      PROVE  Lent'
  <2>1. {"claimTxn", "claimUndo", "creditLog"} \subseteq Ops
    BY DEF Ops
  <2>2. CASE UNCHANGED job
    BY <1>1, <2>2 DEF Lent
  <2>3. CASE ~ UNCHANGED job
    <3>1. /\ job'[r].op \in {"idle", "claimTxn", "claimUndo", "creditLog"}
          /\ \A q \in Requests \ {r} : job'[q] = job[q]
      BY <1>1, <2>1, <2>3, JobMoves
    <3> QED BY <1>1, <3>1, LentQuiet DEF Knows
  <2> QED BY <2>2, <2>3
<1>2. ASSUME NEW r \in Requests, Step(r)
      PROVE  Lent'
  <2>1. CASE \E w \in Withdrawals : WithdrawCommit(r, w)
    BY <2>1, LentWithdraw
  <2>2. CASE RejectCommit(r)
    BY <2>2, LentReject
  <2>3. CASE \/ ClaimFind(r) \/ ClaimCommit(r) \/ ClaimReplyLost(r)
             \/ ClaimRetry(r) \/ ClaimAbort(r) \/ ClaimUndo(r)
             \/ WithdrawRetry(r) \/ RejectRetry(r) \/ CreditSave(r) \/ CreditLog(r)
    BY <1>1, <2>3 DEF ClaimFind, ClaimCommit, ClaimReplyLost, ClaimApply, ClaimRetry,
                      ClaimAbort, ClaimUndo, WithdrawRetry, RejectRetry, CreditSave,
                      CreditLog, history
  <2> QED BY <1>2, <2>1, <2>2, <2>3 DEF Step
<1>3. ASSUME NEW r \in Requests, Drop(r) PROVE Lent'
  BY <1>1, <1>3 DEF Drop, history
<1>4. CASE (\E u \in Users : ClaimKeyExpires(u)) \/ UNCHANGED vars
  <2>1. UNCHANGED <<withdrawal, refunded, job>>
    BY <1>4 DEF ClaimKeyExpires, vars, history
  <2> QED BY <2>1 DEF Lent
<1> QED BY <1>2, <1>3, <1>4, LentArrive, LentApprove DEF Next

\* What a withdrawal document says of itself, and what requests have read of
\* it, in every reachable state.
THEOREM LentInvariant == Spec => []Lent
BY LentInit, LentStep, ShapeInvariant, PTL DEF Spec

-----------------------------------------------------------------------------
\* The wallet as Settlement sees it, and what a step does to it.
Balance == [u \in Users |-> account[u].approved]

Deals == [w \in Withdrawals |-> DealOf(w)]

\* Such a step is one of Settlement's, or none.
Settles == [Promise!Next]_(Promise!settled)

\* A step that touches neither the balances nor the withdrawals is no step of
\* Settlement.
LEMMA NoStep ==
    ASSUME UNCHANGED <<withdrawal, refunded, clobbered>>,
           \A u \in Users : account'[u].approved = account[u].approved
    PROVE  Settles
<1>1. Balance' = Balance
  BY DEF Balance
<1>2. Deals' = Deals
  BY DEF Deals, DealOf
<1> QED BY <1>1, <1>2 DEF Settles, Promise!settled, Balance, Deals

\* An amount added to one user's balance is Settlement's Add.
LEMMA Adds ==
    ASSUME NEW u \in Users, NEW n \in Int,
           account'[u].approved = account[u].approved + n,
           \A v \in Users \ {u} : account'[v] = account[v]
    PROVE  Promise!Add(u, n)
BY DEF Promise!Add

\* The deals of withdrawals that nobody touches stay.
LEMMA SameDeals ==
    ASSUME UNCHANGED <<withdrawal, refunded>>
    PROVE  UNCHANGED Deals
BY DEF Deals, DealOf

\* A profit is reckoned on the balance it is added to, or is nothing.
LEMMA ClaimSettles ==
    ASSUME Shape, Fresh, NEW r \in Requests, ClaimApply(r)
    PROVE  Settles
<1>0. /\ job[r].op \in Holding /\ job[r].user \in Users
      /\ ProfitOf(copy[r].doc.approved) \in Int
  BY InHand, ProfitType DEF ClaimApply, Is, Holding
<1>1. PICK u \in Users, n \in Int :
        u = job[r].user /\ n = ProfitOf(copy[r].doc.approved)
  BY <1>0
<1>2. Commit(r, Earned(r, n)) /\ UNCHANGED <<withdrawal, refunded>>
  BY <1>1 DEF ClaimApply
<1>3. Applied(u, r, n, n) /\ clobbered' = clobbered
  BY <1>0, <1>1, <1>2, CommitIsExact, ExactEarned
<1>4. n # 0 => n = ProfitOf(account[u].approved)
  BY <1>1, <1>3 DEF Applied
<1>5. CASE n = 0
  <2>1. account[u].approved \in Int
    BY DEF Shape, TypeOK, DocTypeOK, WalletBalance
  <2>2. \A v \in Users : account'[v].approved = account[v].approved
    BY <1>3, <1>5, <2>1 DEF Applied
  <2> QED BY <1>2, <1>3, <2>2, NoStep
<1>6. CASE n # 0
  <2>1. Promise!Add(u, n)
    BY <1>1, <1>3, Adds DEF Applied
  <2>2. Balance[u] = account[u].approved
    BY <1>1 DEF Balance
  <2>3. UNCHANGED Deals
    BY <1>2, SameDeals
  <2>4. Promise!Profit(u)
    BY <1>3, <1>4, <1>6, <2>1, <2>2, <2>3 DEF Promise!Profit, Promise!Add, Balance, Deals
  <2> QED BY <1>1, <2>4 DEF Settles, Promise!Next
<1> QED BY <1>5, <1>6

\* A withdrawal takes what the balance has, and records it, in one step.
LEMMA WithdrawSettles ==
    ASSUME Shape, Fresh, Solvent, Lent, NEW r \in Requests, NEW w \in Withdrawals,
           WithdrawCommit(r, w)
    PROVE  Settles
<1>0. /\ job[r].op \in Holding /\ job[r].user \in Users
      /\ job[r].amount \in WithdrawAmounts
      /\ job[r].amount <= copy[r].doc.approved
  BY InHand DEF WithdrawCommit, Is, Holding, Lent, Solvent
<1>1. PICK u \in Users, a \in WithdrawAmounts :
        u = job[r].user /\ a = job[r].amount /\ a <= copy[r].doc.approved
  BY <1>0
<1>2. a \in Nat \ {0} /\ 0 - a \in Int /\ 0 - a # 0
  BY WalletAssumption
<1>3. /\ Commit(r, Moved(r, 0 - a)) /\ UNCHANGED refunded
      /\ withdrawal[w].status = "none"
      /\ withdrawal' = [withdrawal EXCEPT ![w] =
            [status |-> "pending", user |-> u, amount |-> a]]
  BY <1>1 DEF WithdrawCommit
<1>4. Applied(u, r, 0 - a, 0) /\ clobbered' = clobbered
  BY <1>0, <1>1, <1>2, <1>3, CommitIsExact, ExactMoved
<1>5. Promise!Add(u, 0 - a) /\ a <= Balance[u]
  <2>1. copy[r].doc.approved = account[u].approved /\ Balance[u] = account[u].approved
    BY <1>1, <1>2, <1>4 DEF Applied, Balance
  <2> QED BY <1>1, <1>2, <1>4, <2>1, Adds DEF Applied
<1>6. DealOf(w) = Promise!NoDeal
  BY <1>3 DEF Lent, DealOf, Promise!NoDeal
<1>7. Deals' = [Deals EXCEPT ![w] = [state |-> "taken", user |-> u, amount |-> a]]
  <2>1. w \notin refunded
    BY <1>3 DEF Lent
  <2>2. /\ withdrawal'[w] = [status |-> "pending", user |-> u, amount |-> a]
        /\ \A v \in Withdrawals \ {w} : withdrawal'[v] = withdrawal[v]
    BY <1>3 DEF Shape, TypeOK
  <2>3. DealOf(w)' = [state |-> "taken", user |-> u, amount |-> a]
    BY <1>3, <2>1, <2>2 DEF DealOf
  <2>4. \A v \in Withdrawals \ {w} : DealOf(v)' = DealOf(v)
    BY <1>3, <2>2 DEF DealOf
  <2> QED BY <2>3, <2>4 DEF Deals
<1>8. Promise!Take(u, w, a)
  BY <1>4, <1>5, <1>6, <1>7 DEF Promise!Take, Balance, Deals
<1> QED BY <1>1, <1>2, <1>8 DEF Settles, Promise!Next

\* A rejection returns the whole amount to its owner, in one step, and not twice.
LEMMA RejectSettles ==
    ASSUME Shape, Fresh, Lent, NEW r \in Requests, RejectCommit(r)
    PROVE  Settles
<1>0. /\ job[r].op \in Holding /\ job[r].user \in Users /\ job[r].amount \in Int
      /\ job[r].wid \in Withdrawals
      /\ job[r].user = withdrawal[job[r].wid].user
      /\ job[r].amount = withdrawal[job[r].wid].amount
  BY InHand DEF RejectCommit, Is, Holding, Shape, Lent
<1>1. PICK w \in Withdrawals, u \in Users, a \in Int :
        w = job[r].wid /\ u = job[r].user /\ a = job[r].amount
  BY <1>0
<1>2. /\ withdrawal[w].user = u /\ withdrawal[w].amount = a
      /\ withdrawal[w] \in Withdrawal
  BY <1>0, <1>1 DEF Shape, TypeOK
<1>3. /\ Commit(r, Moved(r, a)) /\ withdrawal[w].status = "pending"
      /\ refunded' = refunded \cup {w}
      /\ withdrawal' = [withdrawal EXCEPT ![w].status = "rejected"]
  BY <1>1 DEF RejectCommit, RejectApply
<1>4. Applied(u, r, a, 0) /\ clobbered' = clobbered
  BY <1>0, <1>1, <1>3, CommitIsExact, ExactMoved
<1>5. /\ withdrawal'[w].status = "rejected"
      /\ withdrawal'[w].user = u /\ withdrawal'[w].amount = a
      /\ \A v \in Withdrawals \ {w} : withdrawal'[v] = withdrawal[v]
  BY <1>2, <1>3 DEF Shape, TypeOK, Withdrawal
<1>6. /\ DealOf(w).user = u /\ DealOf(w).amount = a
      /\ DealOf(w) = [state |-> "taken", user |-> u, amount |-> a]
  BY <1>2, <1>3 DEF DealOf, Lent
<1>7. DealOf(w)' = [state |-> "returned", user |-> u, amount |-> a]
  BY <1>2, <1>3, <1>5 DEF DealOf
<1>8. \A v \in Withdrawals \ {w} : DealOf(v)' = DealOf(v)
  BY <1>3, <1>5 DEF DealOf
<1>9. Deals' = [Deals EXCEPT ![w].state = "returned"]
  <2>1. Deals[w] = [state |-> "taken", user |-> u, amount |-> a]
    BY <1>2, <1>6 DEF Deals
  <2>2. [Deals[w] EXCEPT !.state = "returned"] =
          [state |-> "returned", user |-> u, amount |-> a]
    BY <2>1
  <2>3. Deals' = [Deals EXCEPT ![w] = [state |-> "returned", user |-> u, amount |-> a]]
    BY <1>2, <1>7, <1>8 DEF Deals
  <2> QED BY <2>2, <2>3
<1>10. /\ Deals[w].state = "taken" /\ Deals[w].user = u /\ Deals[w].amount = a
  BY <1>2, <1>6 DEF Deals
<1>11. Promise!Add(u, a)
  BY <1>2, <1>4, Adds DEF Applied
<1>12. Promise!Return(w)
  BY <1>4, <1>9, <1>10, <1>11 DEF Promise!Return, Promise!Add, Balance, Deals
<1> QED BY <1>2, <1>12 DEF Settles, Promise!Next

\* A credit adds just its amount, or overwrites and says so.
LEMMA CreditSettles ==
    ASSUME Shape, Fresh, Lent, NEW r \in Requests, CreditSave(r)
    PROVE  Settles
<1>0. /\ job[r].op \in Holding /\ job[r].user \in Users
      /\ copy[r].user = job[r].user /\ job[r].amount \in CreditAmounts
  BY InHand DEF CreditSave, Is, Holding, Lent
<1>1. PICK u \in Users, a \in CreditAmounts :
        u = job[r].user /\ copy[r].user = u /\ a = job[r].amount
  BY <1>0
<1>2. Save(r, Earned(r, a)) /\ UNCHANGED <<withdrawal, refunded>>
  BY <1>1 DEF CreditSave
<1>3. account' = [account EXCEPT ![copy[r].user] = Stored(r, Earned(r, a))]
  BY <1>2 DEF Save
<1>4. UNCHANGED Deals
  BY <1>2, SameDeals
<1>5. CASE copy[r].stale \cap ModifiedPaths(r, Earned(r, a)) = {}
  <2>0. a \in Int
    BY WalletAssumption
  <2>1. Applied(u, r, a, a) /\ clobbered' = clobbered
    BY <1>0, <1>1, <1>2, <1>3, <1>5, <2>0, ExactEarned DEF Save
  <2>2. Promise!Add(u, a)
    BY <2>0, <2>1, Adds DEF Applied
  <2>3. Promise!Credit(u, a)
    BY <1>4, <2>1, <2>2 DEF Promise!Credit, Deals
  <2> QED BY <1>1, <2>3 DEF Settles, Promise!Next
<1>6. CASE copy[r].stale \cap ModifiedPaths(r, Earned(r, a)) # {}
  <2>1. clobbered' = clobbered \cup {u}
    BY <1>1, <1>2, <1>6 DEF Save
  <2>2. \A v \in Users \ {u} : account'[v] = account[v]
    BY <1>1, <1>3 DEF Shape, TypeOK, DocTypeOK
  <2>3. Balance' = [Balance EXCEPT ![u] = Balance'[u]]
    BY <2>2 DEF Balance
  <2>4. Promise!Overwrite(u)
    BY <1>4, <2>1, <2>3 DEF Promise!Overwrite, Deals, Balance
  <2> QED BY <1>1, <2>4 DEF Settles, Promise!Next
<1> QED BY <1>5, <1>6

\* An approval of a withdrawal is not a step of Settlement.
LEMMA ApproveSettles ==
    ASSUME Shape, NEW w \in Withdrawals, ApproveWithdrawal(w)
    PROVE  Settles
<1>1. /\ withdrawal[w].status # "none" /\ UNCHANGED <<docVars, refunded>>
      /\ withdrawal[w] \in Withdrawal
      /\ withdrawal' = [withdrawal EXCEPT ![w].status = "approved"]
  BY DEF ApproveWithdrawal, history, Shape, TypeOK
<1>2. /\ withdrawal'[w].status = "approved"
      /\ withdrawal'[w].user = withdrawal[w].user
      /\ withdrawal'[w].amount = withdrawal[w].amount
      /\ \A v \in Withdrawals \ {w} : withdrawal'[v] = withdrawal[v]
  BY <1>1 DEF Shape, TypeOK, Withdrawal
<1>3. \A v \in Withdrawals : DealOf(v)' = DealOf(v)
  BY <1>1, <1>2 DEF DealOf
<1>4. Balance' = Balance /\ Deals' = Deals /\ clobbered' = clobbered
  BY <1>1, <1>3 DEF Balance, Deals, docVars
<1> QED BY <1>4 DEF Settles, Promise!settled, Balance, Deals

\* Every step of the wallet is a step of Settlement, or none.
LEMMA NextSettles ==
    Shape /\ Fresh /\ Solvent /\ Lent /\ [Next]_vars => Settles
<1> SUFFICES ASSUME Shape, Fresh, Solvent, Lent, [Next]_vars PROVE Settles
  OBVIOUS
<1>1. ASSUME UNCHANGED <<withdrawal, refunded, account, clobbered>>
      PROVE  Settles
  BY <1>1, NoStep
<1>2. ASSUME NEW r \in Requests, Arrive(r) \/ Drop(r)
      PROVE  Settles
  BY <1>1, <1>2 DEF Arrive, ClaimStart, WithdrawFind, RejectFind, CreditFind, Drop,
                    Find, Release, docVars, history
<1>3. ASSUME NEW r \in Requests, Step(r)
      PROVE  Settles
  <2>1. CASE ClaimCommit(r) \/ ClaimReplyLost(r)
    BY <2>1, ClaimSettles DEF ClaimCommit, ClaimReplyLost
  <2>2. CASE \/ ClaimFind(r) \/ ClaimRetry(r) \/ ClaimAbort(r) \/ ClaimUndo(r)
             \/ WithdrawRetry(r) \/ RejectRetry(r) \/ CreditLog(r)
    BY <1>1, <2>2 DEF ClaimFind, ClaimRetry, ClaimAbort, ClaimUndo, WithdrawRetry,
                      RejectRetry, CreditLog, Find, Release, docVars, history
  <2> QED BY <1>3, <2>1, <2>2, WithdrawSettles, RejectSettles, CreditSettles DEF Step
<1>4. CASE (\E u \in Users : ClaimKeyExpires(u)) \/ UNCHANGED vars
  BY <1>1, <1>4 DEF ClaimKeyExpires, vars, docVars, history
<1> QED BY <1>2, <1>3, <1>4, ApproveSettles DEF Next

\* The wallet starts where Settlement does.
LEMMA StartSettled == Init => Promise!Init
<1> SUFFICES ASSUME Init PROVE Promise!Init
  OBVIOUS
<1>1. Balance = [u \in Users |-> Opening]
  BY DEF Init, Balance
<1>2. Deals = [w \in Withdrawals |-> Promise!NoDeal]
  BY DEF Init, NoDocument, Deals, DealOf, Promise!NoDeal
<1> QED BY <1>1, <1>2 DEF Init, Promise!Init, Balance, Deals

\* The wallet implements Settlement: whatever reads, retries, aborts and lost
\* replies there are in between, each operation has its whole effect in one
\* step, on the balance as it is, or none; and only creditUser, saving a stale
\* copy, does what Settlement calls Overwrite.
THEOREM WalletSettles == Spec => SettlesAtOnce
<1>1. Shape /\ Fresh /\ Solvent /\ Lent /\ [Next]_vars
        => [Promise!Next]_(Promise!settled)
  BY NextSettles DEF Settles
<1>2. Spec => []Solvent
  BY SolventInit, SolventStep, ShapeInvariant, PTL DEF Spec
<1> QED BY <1>1, <1>2, StartSettled, ShapeInvariant, CopiesFresh, LentInvariant, PTL
        DEF Spec, SettlesAtOnce, Promise!Spec

-----------------------------------------------------------------------------
\* What each withdrawal holds of u's earnings.
Loan(u) == [w \in Withdrawals |-> IF Holds(u, w) THEN withdrawal[w].amount ELSE 0]

\* Amounts, all of them.
LEMMA LoanType ==
    ASSUME Shape, NEW u \in Users, NEW w \in Withdrawals
    PROVE  Loan(u)[w] \in Nat /\ Loan(u)[w] \in Int
BY DEF Shape, TypeOK, Withdrawal, Loan

\* A step in which w comes to hold n more of u's earnings, or less, and the other
\* withdrawals hold what they held, keeps the sum what is held.
LEMMA LoanMoves ==
    ASSUME Shape, Shape', HeldByWithdrawals,
           NEW u \in Users, NEW w \in Withdrawals, NEW n \in Int,
           held' = [held EXCEPT ![u] = @ + n],
           \A v \in Withdrawals \ {w} :
               withdrawal'[v] = withdrawal[v] /\ (v \in refunded' <=> v \in refunded),
           Loan(u)'[w] = Loan(u)[w] + n,
           \A x \in Users \ {u} : Loan(x)'[w] = Loan(x)[w]
    PROVE  HeldByWithdrawals'
<1> SUFFICES ASSUME NEW x \in Users
             PROVE  held'[x] = SumFunctionOnSet(Loan(x)', Withdrawals)
  BY DEF HeldByWithdrawals, Loan
<1>1. held[x] = SumFunctionOnSet(Loan(x), Withdrawals) /\ held[x] \in Int
  BY DEF HeldByWithdrawals, Loan, Shape, TypeOK
<1>2. held'[x] = held[x] + (IF x = u THEN n ELSE 0)
  BY <1>1 DEF Shape, TypeOK
<1>3. \A v \in Withdrawals : Loan(x)[v] \in Int /\ Loan(x)'[v] \in Int
  <2>1. \A v \in Withdrawals : Loan(x)[v] \in Int
    BY LoanType
  <2>2. withdrawal' \in [Withdrawals -> Withdrawal]
    BY DEF Shape, TypeOK
  <2>3. \A v \in Withdrawals : Loan(x)'[v] \in Int
    BY <2>2 DEF Withdrawal, Loan
  <2> QED BY <2>1, <2>3
<1>4. \A v \in Withdrawals \ {w} : Loan(x)[v] = Loan(x)'[v]
  BY DEF Loan, Holds
<1>5. Loan(x)'[w] - Loan(x)[w] = IF x = u THEN n ELSE 0
  BY <1>3
<1>6. PICK f, g : f = Loan(x) /\ g = Loan(x)'
  OBVIOUS
<1>7. SumFunctionOnSet(g, Withdrawals) = SumFunctionOnSet(f, Withdrawals) + (g[w] - f[w])
  BY <1>3, <1>4, <1>6, SumPoint, WalletAssumption
<1> QED BY <1>1, <1>2, <1>5, <1>6, <1>7

\* Nothing is stored and nothing held at first; what a debit holds is its
\* document's amount, and a refund returns that.
LEMMA HeldStep == Shape /\ Shape' /\ Lent /\ HeldByWithdrawals /\ [Next]_vars
                    => HeldByWithdrawals'
<1> SUFFICES ASSUME Shape, Shape', Lent, HeldByWithdrawals, [Next]_vars
             PROVE  HeldByWithdrawals'
  OBVIOUS
<1>1. ASSUME UNCHANGED <<withdrawal, refunded, held>>
      PROVE  HeldByWithdrawals'
  BY <1>1 DEF HeldByWithdrawals, Holds
<1>2. ASSUME NEW r \in Requests, NEW w \in Withdrawals, WithdrawCommit(r, w)
      PROVE  HeldByWithdrawals'
  <2>1. PICK u \in Users, a \in Int : u = job[r].user /\ a = job[r].amount
    BY <1>2, InHand DEF WithdrawCommit, Is, Holding
  <2>2. /\ held' = [held EXCEPT ![u] = @ + a] /\ UNCHANGED refunded
        /\ withdrawal[w].status = "none"
        /\ withdrawal' = [withdrawal EXCEPT ![w] =
              [status |-> "pending", user |-> u, amount |-> a]]
    BY <1>2, <2>1 DEF WithdrawCommit
  <2>3. /\ withdrawal'[w] = [status |-> "pending", user |-> u, amount |-> a]
        /\ \A v \in Withdrawals \ {w} : withdrawal'[v] = withdrawal[v]
    BY <2>2 DEF Shape, TypeOK
  <2>4. w \notin refunded
    BY <2>2 DEF Lent
  <2>5. \A x \in Users : Loan(x)[w] = 0 /\ Loan(x)'[w] = IF x = u THEN a ELSE 0
    BY <2>2, <2>3, <2>4 DEF Loan, Holds
  <2>6. Loan(u)'[w] = Loan(u)[w] + a /\ \A x \in Users \ {u} : Loan(x)'[w] = Loan(x)[w]
    BY <2>5
  <2> QED BY <2>2, <2>3, <2>6, LoanMoves
<1>3. ASSUME NEW r \in Requests, RejectCommit(r)
      PROVE  HeldByWithdrawals'
  <2>0. job[r].wid \in Withdrawals
    BY <1>3 DEF RejectCommit, Is, Shape
  <2>1. PICK w \in Withdrawals, u \in Users, a \in Int :
          w = job[r].wid /\ u = job[r].user /\ a = job[r].amount
    BY <1>3, <2>0, InHand DEF RejectCommit, Is, Holding
  <2>2. /\ held' = [held EXCEPT ![u] = @ - a] /\ refunded' = refunded \cup {w}
        /\ withdrawal[w].status = "pending"
        /\ withdrawal' = [withdrawal EXCEPT ![w].status = "rejected"]
    BY <1>3, <2>1 DEF RejectCommit, RejectApply
  <2>3. \A v \in Withdrawals \ {w} : withdrawal'[v] = withdrawal[v]
    BY <2>2 DEF Shape, TypeOK
  <2>4. w \notin refunded /\ withdrawal[w].user = u /\ withdrawal[w].amount = a
    BY <1>3, <2>1, <2>2 DEF Lent, RejectCommit, Is
  <2>5. \A x \in Users : Loan(x)'[w] = 0 /\ Loan(x)[w] = IF x = u THEN a ELSE 0
    BY <2>2, <2>4 DEF Loan, Holds
  <2>6. PICK n \in Int : n = 0 - a
    OBVIOUS
  <2>7. held' = [held EXCEPT ![u] = @ + n]
    <3>1. held[u] \in Int
      BY DEF Shape, TypeOK
    <3>2. held[u] - a = held[u] + n
      BY <2>6, <3>1
    <3> QED BY <2>2, <3>2
  <2>8. Loan(u)'[w] = Loan(u)[w] + n
        /\ \A x \in Users \ {u} : Loan(x)'[w] = Loan(x)[w]
    BY <2>5, <2>6
  <2>9. \A v \in Withdrawals \ {w} : v \in refunded' <=> v \in refunded
    BY <2>2
  <2> QED BY <2>3, <2>7, <2>8, <2>9, LoanMoves
<1>4. ASSUME NEW w \in Withdrawals, ApproveWithdrawal(w)
      PROVE  HeldByWithdrawals'
  <2>1. /\ withdrawal[w].status # "none" /\ UNCHANGED <<refunded, held>>
        /\ withdrawal[w] \in Withdrawal
        /\ withdrawal' = [withdrawal EXCEPT ![w].status = "approved"]
    BY <1>4 DEF ApproveWithdrawal, history, Shape, TypeOK
  <2>2. /\ withdrawal'[w].status = "approved"
        /\ withdrawal'[w].user = withdrawal[w].user
        /\ withdrawal'[w].amount = withdrawal[w].amount
        /\ \A v \in Withdrawals \ {w} : withdrawal'[v] = withdrawal[v]
    BY <2>1 DEF Shape, TypeOK, Withdrawal
  <2>3. \A x \in Users : Loan(x)' = Loan(x)
    <3> TAKE x \in Users
    <3>1. \A v \in Withdrawals :
            /\ Holds(x, v)' <=> Holds(x, v)
            /\ withdrawal'[v].amount = withdrawal[v].amount
      BY <2>1, <2>2 DEF Holds
    <3> QED BY <3>1 DEF Loan
  <2> QED BY <2>1, <2>3 DEF HeldByWithdrawals, Loan
<1>5. ASSUME NEW r \in Requests, Arrive(r) \/ Drop(r)
      PROVE  HeldByWithdrawals'
  BY <1>1, <1>5 DEF Arrive, ClaimStart, WithdrawFind, RejectFind, CreditFind, Drop, history
<1>6. ASSUME NEW r \in Requests, Step(r)
      PROVE  HeldByWithdrawals'
  <2>1. CASE \/ ClaimFind(r) \/ ClaimCommit(r) \/ ClaimReplyLost(r)
             \/ ClaimRetry(r) \/ ClaimAbort(r) \/ ClaimUndo(r)
             \/ WithdrawRetry(r) \/ RejectRetry(r) \/ CreditSave(r) \/ CreditLog(r)
    BY <1>1, <2>1 DEF ClaimFind, ClaimCommit, ClaimReplyLost, ClaimApply, ClaimRetry,
                      ClaimAbort, ClaimUndo, WithdrawRetry, RejectRetry, CreditSave,
                      CreditLog, history
  <2> QED BY <1>2, <1>3, <1>6, <2>1 DEF Step
<1>7. CASE (\E u \in Users : ClaimKeyExpires(u)) \/ UNCHANGED vars
  BY <1>1, <1>7 DEF ClaimKeyExpires, vars, history
<1> QED BY <1>4, <1>5, <1>6, <1>7 DEF Next

\* For any number of users, requests and withdrawals: what is held of a user's
\* earnings is the amounts of the user's withdrawals that are stored and not
\* refunded.
THEOREM HeldIsWithdrawn == Spec => []HeldByWithdrawals
<1>1. Init => HeldByWithdrawals
  <2> SUFFICES ASSUME Init, NEW u \in Users
               PROVE  held[u] = SumFunctionOnSet(Loan(u), Withdrawals)
    BY DEF HeldByWithdrawals, Loan
  <2>1. \A w \in Withdrawals : Loan(u)[w] = 0
    BY DEF Init, Loan, Holds, NoDocument
  <2>2. SumFunctionOnSet(Loan(u), Withdrawals) = 0
    BY <2>1, SumZero, WalletAssumption
  <2> QED BY <2>2 DEF Init
<1> QED BY <1>1, HeldStep, ShapeInvariant, LentInvariant, PTL DEF Spec

\* What a user has earned is the approved balance plus the amounts of the
\* stored withdrawals that were not refunded, as long as no creditUser has
\* overwritten somebody's update of the document.
THEOREM Conserves == Spec => []Conservation
<1>1. Balanced /\ HeldByWithdrawals => Conservation
  BY DEF Balanced, Conservation
<1> QED BY <1>1, BalancedInvariant, HeldIsWithdrawn, PTL

-----------------------------------------------------------------------------
\* The wallet as Earnings sees it: a step of one of its writers, or none.
KeepsBooks == [Writers!Next]_(Writers!books)

\* Both modules build their steps of the same four.
LEMMA SameSteps ==
    ASSUME NEW r
    PROVE  /\ \A u : Writers!Find(r, u) <=> Find(r, u)
           /\ Writers!Release(r) <=> Release(r)
           /\ \A mem : Writers!Save(r, mem) <=> Save(r, mem)
           /\ \A mem : Writers!Commit(r, mem) <=> Commit(r, mem)
<1>1. \A mem : /\ Writers!ModifiedPaths(r, mem) = ModifiedPaths(r, mem)
               /\ Writers!Stored(r, mem) = Stored(r, mem)
  BY DEF Writers!ModifiedPaths, ModifiedPaths, Writers!Stored, Stored
<1>2. Writers!NoCopy = NoCopy
  BY DEF Writers!NoCopy, NoCopy, Writers!ZeroBalance, ZeroBalance
<1>3. \A mem, own : Writers!CopiesAfter(r, mem, own) = CopiesAfter(r, mem, own)
  BY <1>1 DEF Writers!CopiesAfter, CopiesAfter
<1>4. \A mem : Writers!Commit(r, mem) <=> Commit(r, mem)
  BY <1>1, <1>2, <1>3 DEF Writers!Commit, Commit
<1>5. \A mem : Writers!Save(r, mem) <=> Save(r, mem)
  <2> TAKE mem
  <2>1. PICK paths, s : /\ paths = ModifiedPaths(r, mem) /\ s = Stored(r, mem)
                        /\ paths = Writers!ModifiedPaths(r, mem)
                        /\ s = Writers!Stored(r, mem)
    BY <1>1
  <2>2. PICK own : own = [copy[r] EXCEPT !.doc = mem, !.stale = @ \ paths]
    OBVIOUS
  <2>3. PICK after : /\ after = CopiesAfter(r, mem, own)
                     /\ after = Writers!CopiesAfter(r, mem, own)
    BY <1>3
  <2>4. Save(r, mem) <=>
          /\ account' = [account EXCEPT ![copy[r].user] = s]
          /\ copy' = after
          /\ clobbered' = IF copy[r].stale \cap paths = {}
                            THEN clobbered ELSE clobbered \cup {copy[r].user}
    BY <2>1, <2>2, <2>3, Zenon DEF Save
  <2>5. Writers!Save(r, mem) <=>
          /\ account' = [account EXCEPT ![copy[r].user] = s]
          /\ copy' = after
          /\ clobbered' = IF copy[r].stale \cap paths = {}
                            THEN clobbered ELSE clobbered \cup {copy[r].user}
    BY <2>1, <2>2, <2>3, Zenon DEF Writers!Save
  <2> QED BY <2>4, <2>5
<1> QED BY <1>2, <1>4, <1>5 DEF Writers!Find, Find, Writers!Release, Release

\* The documents the wallet writes are the ones it read, with amounts added.
LEMMA WritesPlus ==
    ASSUME NEW r, copy[r].doc \in WalletBalance, NEW n \in Int
    PROVE  /\ Earned(r, n) = Writers!Plus(copy[r].doc, 0, n, n)
           /\ Moved(r, n) = Writers!Plus(copy[r].doc, 0, n, 0)
<1> DEFINE doc == copy[r].doc
<1>1. doc = [pending |-> doc.pending, approved |-> doc.approved,
             totalEarned |-> doc.totalEarned]
      /\ doc.pending \in Int /\ doc.totalEarned \in Int
  BY DEF WalletBalance
<1>2. Moved(r, n) = [pending |-> doc.pending, approved |-> doc.approved + n,
                     totalEarned |-> doc.totalEarned]
  BY <1>1 DEF Moved
<1>3. Earned(r, n) = [pending |-> doc.pending, approved |-> doc.approved + n,
                      totalEarned |-> doc.totalEarned + n]
  BY <1>2 DEF Earned
<1> HIDE DEF doc
<1>4. doc.pending + 0 = doc.pending /\ doc.totalEarned + 0 = doc.totalEarned
  BY <1>1
<1>5. /\ Writers!Plus(doc, 0, n, n) =
           [pending |-> doc.pending, approved |-> doc.approved + n,
            totalEarned |-> doc.totalEarned + n]
      /\ Writers!Plus(doc, 0, n, 0) =
           [pending |-> doc.pending, approved |-> doc.approved + n,
            totalEarned |-> doc.totalEarned]
  BY <1>4 DEF Writers!Plus
<1> QED BY <1>2, <1>3, <1>5 DEF doc

\* Stored withdrawals are of amounts users ask for.
Asked ==
    \A w \in Withdrawals :
        withdrawal[w].status # "none" => withdrawal[w].amount \in WithdrawAmounts

\* A withdrawal is stored with what its request asked for, and keeps it.
LEMMA AskedStep == Shape /\ Lent /\ Asked /\ [Next]_vars => Asked'
<1> SUFFICES ASSUME Shape, Lent, Asked, [Next]_vars PROVE Asked'
  OBVIOUS
<1>1. ASSUME UNCHANGED withdrawal PROVE Asked'
  BY <1>1 DEF Asked
<1>2. ASSUME NEW w \in Withdrawals,
             \A v \in Withdrawals \ {w} : withdrawal'[v] = withdrawal[v],
             withdrawal'[w].amount \in WithdrawAmounts
      PROVE  Asked'
  BY <1>2 DEF Asked
<1>3. ASSUME NEW r \in Requests, NEW w \in Withdrawals, WithdrawCommit(r, w)
      PROVE  Asked'
  <2>1. job[r].amount \in WithdrawAmounts
    BY <1>3 DEF WithdrawCommit, Is, Lent
  <2>2. /\ \A v \in Withdrawals \ {w} : withdrawal'[v] = withdrawal[v]
        /\ withdrawal'[w].amount = job[r].amount
    BY <1>3 DEF WithdrawCommit, Shape, TypeOK
  <2> QED BY <1>2, <2>1, <2>2
<1>4. ASSUME NEW w \in Withdrawals, NEW s,
             withdrawal[w].status # "none",
             withdrawal' = [withdrawal EXCEPT ![w].status = s]
      PROVE  Asked'
  <2>1. withdrawal[w].amount \in WithdrawAmounts /\ withdrawal[w] \in Withdrawal
    BY <1>4 DEF Asked, Shape, TypeOK
  <2>2. /\ \A v \in Withdrawals \ {w} : withdrawal'[v] = withdrawal[v]
        /\ withdrawal'[w].amount = withdrawal[w].amount
    BY <1>4, <2>1 DEF Shape, TypeOK, Withdrawal
  <2> QED BY <1>2, <2>1, <2>2
<1>5. ASSUME NEW r \in Requests, Step(r)
      PROVE  Asked'
  <2>1. CASE RejectCommit(r)
    <3>1. job[r].wid \in Withdrawals
      BY <2>1 DEF RejectCommit, Is, Shape
    <3> QED BY <1>4, <2>1, <3>1 DEF RejectCommit, RejectApply
  <2>2. CASE \/ ClaimFind(r) \/ ClaimCommit(r) \/ ClaimReplyLost(r)
             \/ ClaimRetry(r) \/ ClaimAbort(r) \/ ClaimUndo(r)
             \/ WithdrawRetry(r) \/ RejectRetry(r) \/ CreditSave(r) \/ CreditLog(r)
    BY <1>1, <2>2 DEF ClaimFind, ClaimCommit, ClaimReplyLost, ClaimApply, ClaimRetry,
                      ClaimAbort, ClaimUndo, WithdrawRetry, RejectRetry, CreditSave,
                      CreditLog, history
  <2> QED BY <1>3, <1>5, <2>1, <2>2 DEF Step
<1>6. ASSUME NEW r \in Requests, Arrive(r) \/ Drop(r)
      PROVE  Asked'
  BY <1>1, <1>6 DEF Arrive, ClaimStart, WithdrawFind, RejectFind, CreditFind, Drop
<1>7. CASE \E w \in Withdrawals : ApproveWithdrawal(w)
  BY <1>4, <1>7 DEF ApproveWithdrawal
<1>8. CASE (\E u \in Users : ClaimKeyExpires(u)) \/ UNCHANGED vars
  BY <1>1, <1>8 DEF ClaimKeyExpires, vars
<1> QED BY <1>5, <1>6, <1>7, <1>8 DEF Next

\* At first none is stored.
LEMMA AskedInvariant == Spec => []Asked
<1>1. Init => Asked
  BY DEF Init, Asked, NoDocument
<1> QED BY <1>1, AskedStep, ShapeInvariant, LentInvariant, PTL DEF Spec

\* A request that reads a user, or lets the document go, is a writer at work;
\* one that leaves the books alone is none.
LEMMA ReadsBooks ==
    ASSUME NEW r \in Requests, UNCHANGED <<held, docked>>,
           (\E u \in Users : Find(r, u)) \/ Release(r) \/ UNCHANGED docVars
    PROVE  KeepsBooks
<1>1. ASSUME NEW u \in Users, Find(r, u) PROVE KeepsBooks
  BY <1>1, SameSteps DEF Writers!Load, Writers!Next, KeepsBooks
<1>2. CASE Release(r)
  BY <1>2, SameSteps DEF Writers!Forget, Writers!Next, KeepsBooks
<1>3. CASE UNCHANGED docVars
  BY <1>3 DEF docVars, Writers!books, KeepsBooks
<1> QED BY <1>1, <1>2, <1>3

\* The history both modules keep of what users are given is the same.
LEMMA SameGiven ==
    ASSUME NEW r, NEW n, copy[r].user = job[r].user
    PROVE  Writers!Given(r, n) <=> Given(job[r].user, n)
BY DEF Writers!Given, Given

\* A claim is Earnings' Profit.
LEMMA ClaimBooks ==
    ASSUME Shape, NEW r \in Requests, ClaimApply(r)
    PROVE  KeepsBooks
<1>1. /\ job[r].op \in Holding /\ copy[r].user \in Users
      /\ copy[r].user = job[r].user
      /\ copy[r].doc \in WalletBalance /\ copy[r].doc.approved \in Int
  BY InHand DEF ClaimApply, Is, Holding
<1>2. PICK b \in Int, n \in Int : b = copy[r].doc.approved /\ n = ProfitOf(b)
  BY <1>1, ProfitType
<1>3. Commit(r, Earned(r, n)) /\ Given(job[r].user, n) /\ UNCHANGED held
  BY <1>2 DEF ClaimApply
<1>4. Writers!Commit(r, Writers!Plus(copy[r].doc, 0, n, n))
  BY <1>1, <1>2, <1>3, WritesPlus, SameSteps
<1>5. [x \in Int |-> ProfitOf(x)][copy[r].doc.approved] = n
  BY <1>2
<1>6. Writers!Given(r, n)
  BY <1>1, <1>3, SameGiven
<1>7. Writers!Profit(r)
  BY <1>3, <1>4, <1>5, <1>6 DEF Writers!Profit
<1> QED BY <1>1, <1>7 DEF Writers!Write, Writers!Next, KeepsBooks

\* A withdrawal is its Withdraw: it was checked against the balance that was read.
LEMMA WithdrawBooks ==
    ASSUME Shape, Solvent, Lent, NEW r \in Requests, NEW w \in Withdrawals,
           WithdrawCommit(r, w)
    PROVE  KeepsBooks
<1>1. /\ job[r].op = "withdrawTxn" /\ job[r].op \in Holding
      /\ copy[r].user \in Users /\ copy[r].user = job[r].user
      /\ copy[r].doc \in WalletBalance
      /\ job[r].amount <= copy[r].doc.approved /\ job[r].amount \in WithdrawAmounts
  BY InHand DEF WithdrawCommit, Is, Holding, Solvent, Lent
<1>2. PICK a \in WithdrawAmounts, n \in Int : a = job[r].amount /\ n = 0 - a
  <2>1. \A a \in WithdrawAmounts : 0 - a \in Int
    BY WalletAssumption
  <2> QED BY <1>1, <2>1
<1>3. /\ Commit(r, Moved(r, n))
      /\ held' = [held EXCEPT ![copy[r].user] = @ + a]
      /\ UNCHANGED docked
  BY <1>1, <1>2 DEF WithdrawCommit
<1>4. Writers!Commit(r, Writers!Plus(copy[r].doc, 0, n, 0))
  BY <1>1, <1>3, WritesPlus, SameSteps
<1>5. Writers!Withdraw(r, a)
  BY <1>1, <1>2, <1>3, <1>4 DEF Writers!Withdraw
<1> QED BY <1>1, <1>2, <1>5 DEF Writers!Write, Writers!Next, KeepsBooks

\* What a withdrawal holds of a user's earnings is no more than all of them do.
LEMMA LoanWithin ==
    ASSUME Shape, HeldByWithdrawals, NEW u \in Users, NEW w \in Withdrawals, Holds(u, w)
    PROVE  withdrawal[w].amount <= held[u]
<1>1. PICK f : f = Loan(u)
  OBVIOUS
<1>2. held[u] = SumFunctionOnSet(f, Withdrawals)
  BY <1>1 DEF HeldByWithdrawals, Loan
<1>3. \A v \in Withdrawals : f[v] \in Nat /\ f[v] \in Int
  BY <1>1, LoanType
<1>4. SumFunctionOnSet(f, Withdrawals)
        = f[w] + SumFunctionOnSet(f, Withdrawals \ {w})
  BY <1>3, SumRemove, WalletAssumption
<1>5. SumFunctionOnSet(f, Withdrawals \ {w}) \in Nat
  <2>1. IsFiniteSet(Withdrawals \ {w})
    BY FS_Subset, WalletAssumption
  <2> QED BY <1>3, <2>1, SumType
<1>6. f[w] = withdrawal[w].amount
  BY <1>1 DEF Loan
<1> QED BY <1>2, <1>3, <1>4, <1>5, <1>6

\* A rejection is its Refund: what the withdrawal holds, and no more.
LEMMA RejectBooks ==
    ASSUME Shape, Lent, Asked, HeldByWithdrawals, NEW r \in Requests, RejectCommit(r)
    PROVE  KeepsBooks
<1>1. /\ job[r].op = "rejectTxn" /\ job[r].op \in Holding /\ job[r].wid \in Withdrawals
      /\ copy[r].user \in Users /\ copy[r].user = job[r].user
      /\ copy[r].doc \in WalletBalance
      /\ job[r].user = withdrawal[job[r].wid].user
      /\ job[r].amount = withdrawal[job[r].wid].amount
      /\ withdrawal[job[r].wid].status = "pending"
  BY InHand DEF RejectCommit, Is, Holding, Shape, Lent
<1>2. job[r].amount \in WithdrawAmounts /\ job[r].amount \in Int
  <2>1. job[r].amount \in WithdrawAmounts
    BY <1>1 DEF Asked
  <2>2. \A a \in WithdrawAmounts : a \in Int
    BY WalletAssumption
  <2> QED BY <2>1, <2>2
<1>3. Holds(copy[r].user, job[r].wid)
  BY <1>1 DEF Holds, Lent
<1>4. job[r].amount <= held[copy[r].user]
  BY <1>1, <1>3, LoanWithin
<1>5. PICK a \in WithdrawAmounts : a = job[r].amount /\ a \in Int
  BY <1>2
<1>6. /\ Commit(r, Moved(r, a))
      /\ held' = [held EXCEPT ![copy[r].user] = @ - a]
      /\ UNCHANGED docked
  BY <1>1, <1>5 DEF RejectCommit, RejectApply
<1>7. Writers!Commit(r, Writers!Plus(copy[r].doc, 0, a, 0))
  BY <1>1, <1>5, <1>6, WritesPlus, SameSteps
<1>8. Writers!Refund(r, a)
  BY <1>4, <1>5, <1>6, <1>7 DEF Writers!Refund
<1> QED BY <1>1, <1>8 DEF Writers!Write, Writers!Next, KeepsBooks

\* An admin's credit is its Credit.
LEMMA CreditBooks ==
    ASSUME Shape, Lent, NEW r \in Requests, CreditSave(r)
    PROVE  KeepsBooks
<1>1. /\ job[r].op = "credit" /\ job[r].op \in Holding
      /\ copy[r].user \in Users /\ copy[r].user = job[r].user
      /\ copy[r].doc \in WalletBalance
      /\ job[r].amount \in CreditAmounts
  BY InHand DEF CreditSave, Is, Holding, Lent
<1>2. PICK a \in CreditAmounts : a = job[r].amount /\ a \in Int
  <2>1. \A a \in CreditAmounts : a \in Int
    BY WalletAssumption
  <2> QED BY <1>1, <2>1
<1>3. Save(r, Earned(r, a)) /\ Given(job[r].user, a) /\ UNCHANGED held
  BY <1>2 DEF CreditSave
<1>4. Writers!Save(r, Writers!Plus(copy[r].doc, 0, a, a))
  BY <1>1, <1>2, <1>3, WritesPlus, SameSteps
<1>5. Writers!Given(r, a)
  BY <1>1, <1>3, SameGiven
<1>6. Writers!Credit(r, a)
  BY <1>3, <1>4, <1>5 DEF Writers!Credit
<1> QED BY <1>1, <1>6 DEF Writers!Write, Writers!Next, KeepsBooks

\* Every step of the wallet is a step of one of the writers, or none.
LEMMA NextKeepsBooks ==
    Shape /\ Solvent /\ Lent /\ Asked /\ HeldByWithdrawals /\ [Next]_vars => KeepsBooks
<1> SUFFICES ASSUME Shape, Solvent, Lent, Asked, HeldByWithdrawals, [Next]_vars
             PROVE  KeepsBooks
  OBVIOUS
<1>1. ASSUME UNCHANGED <<docVars, held, docked>> PROVE KeepsBooks
  BY <1>1 DEF docVars, Writers!books, KeepsBooks
<1>2. ASSUME NEW r \in Requests, Arrive(r)
      PROVE  KeepsBooks
  <2>1. /\ UNCHANGED <<held, docked>>
        /\ (\E u \in Users : Find(r, u)) \/ UNCHANGED docVars
    <3>1. \A w \in Withdrawals : RejectFind(r, w) => withdrawal[w].user \in Users
      BY DEF RejectFind, Shape
    <3> QED BY <1>2, <3>1
            DEF Arrive, ClaimStart, WithdrawFind, RejectFind, CreditFind, history
  <2> QED BY <2>1, ReadsBooks
<1>3. ASSUME NEW r \in Requests, Drop(r)
      PROVE  KeepsBooks
  BY <1>3, ReadsBooks DEF Drop, history
<1>4. ASSUME NEW r \in Requests, Step(r)
      PROVE  KeepsBooks
  <2>1. CASE ClaimCommit(r) \/ ClaimReplyLost(r)
    BY <2>1, ClaimBooks DEF ClaimCommit, ClaimReplyLost
  <2>2. CASE \/ ClaimFind(r) \/ ClaimRetry(r) \/ ClaimAbort(r) \/ ClaimUndo(r)
             \/ WithdrawRetry(r) \/ RejectRetry(r) \/ CreditLog(r)
    <3>1. job[r].op # "idle" => job[r].user \in Users
      BY DEF Shape
    <3>2. /\ UNCHANGED <<held, docked>>
          /\ Find(r, job[r].user) \/ Release(r) \/ UNCHANGED docVars
          /\ job[r].op # "idle"
      BY <2>2 DEF ClaimFind, ClaimRetry, ClaimAbort, ClaimUndo, WithdrawRetry,
                  RejectRetry, CreditLog, history, Is
    <3> QED BY <3>1, <3>2, ReadsBooks
  <2> QED BY <1>4, <2>1, <2>2, WithdrawBooks, RejectBooks, CreditBooks DEF Step
<1>5. CASE \/ \E u \in Users : ClaimKeyExpires(u)
           \/ \E w \in Withdrawals : ApproveWithdrawal(w)
           \/ UNCHANGED vars
  BY <1>1, <1>5 DEF ClaimKeyExpires, ApproveWithdrawal, vars, docVars, history
<1> QED BY <1>2, <1>3, <1>4, <1>5 DEF Next

\* The wallet implements Earnings: it writes an approved balance in no way but
\* those, profits, debits and refunds in transactions and credits in plain
\* saves, debits what the balance it has read covers, and refunds no more than
\* is held.
THEOREM WalletKeepsEarnings == Spec => KeepsEarnings
<1>1. Init => Writers!Init
  BY DEF Init, NoCopy, ZeroBalance, Writers!Init, Writers!NoCopy, Writers!ZeroBalance
<1>2. Spec => []Solvent
  BY SolventInit, SolventStep, ShapeInvariant, PTL DEF Spec
<1>3. Shape /\ Solvent /\ Lent /\ Asked /\ HeldByWithdrawals /\ [Next]_vars
        => [Writers!Next]_(Writers!books)
  BY NextKeepsBooks DEF KeepsBooks
<1> QED BY <1>1, <1>2, <1>3, ShapeInvariant, LentInvariant, AskedInvariant,
           HeldIsWithdrawn, PTL DEF Spec, KeepsEarnings, Writers!Spec
=============================================================================
