---------------------------- MODULE WalletProofs ----------------------------
(***************************************************************************)
(* What MCWallet checks on a few users and requests, for every number of   *)
(* them.  The argument has three layers, each resting on the one before:   *)
(*                                                                         *)
(*   Shape    the types, and that a request in the middle of an operation  *)
(*            holds a copy of the document of the user it works for;       *)
(*   Fresh    a path of a copy that is not stale equals what is stored, so *)
(*            a save that is not refused applies its delta exactly once;   *)
(*   Balanced, Solvent, Honest    what the wallet promises of one account: *)
(*            an exact save keeps all three.                               *)
(***************************************************************************)
EXTENDS Wallet, UserDocumentProofs, TLAPS

Holding == {"claimTxn", "withdrawTxn", "rejectTxn", "credit", "creditLog"}

\* The operations that move an amount which is not below zero.
Asking == {"withdrawTxn", "rejectTxn"}

Shape ==
    /\ TypeOK
    /\ \A r \in Requests :
         /\ job[r].op # "idle" => job[r].user \in Users
         /\ job[r].op \in Holding => copy[r].user = job[r].user
         /\ job[r].op = "rejectTxn" => job[r].wid \in Withdrawals
         /\ job[r].op \in Asking => job[r].amount \in Nat
    /\ \A w \in Withdrawals :
         withdrawal[w].status # "none" => withdrawal[w].user \in Users

-----------------------------------------------------------------------------
\* Arithmetic of the profit: whole cents, whatever the signs of the balance and
\* of the rate.
LEMMA ProfitType == \A a \in Int : ProfitOf(a) \in Int
<1> TAKE a \in Int
<1>1. \A n \in Int : Rounded(n) \in Int
  <2> TAKE n \in Int
  <2>1. 2 * n + RateDen \in Int /\ 2 * RateDen \in Nat \ {0}
    BY WalletAssumption
  <2>2. \A x \in Int, y \in Nat \ {0} : x \div y \in Int
    OBVIOUS
  <2> QED BY <2>1, <2>2 DEF Rounded
<1>2. a * RateNum \in Int
  BY WalletAssumption
<1> DEFINE n == a * RateNum
<1>3. n \in Int /\ 0 - n \in Int
  BY <1>2
<1>4. ProfitOf(a) = IF n >= 0 THEN Rounded(n) ELSE 0 - Rounded(0 - n)
  BY DEF ProfitOf
<1> HIDE DEF n
<1> QED BY <1>1, <1>3, <1>4

-----------------------------------------------------------------------------
\* What an operation has in hand: its user, and the two documents it may save.
LEMMA InHand ==
    ASSUME Shape, NEW r \in Requests, job[r].op \in Holding
    PROVE  /\ job[r] \in Job /\ job[r].user \in Users /\ job[r].amount \in Int
           /\ copy[r] \in Copies /\ copy[r].user = job[r].user
           /\ copy[r].doc \in WalletBalance /\ copy[r].doc.approved \in Int
           /\ \A n \in Int : /\ Moved(r, n) \in WalletBalance
                             /\ Earned(r, n) \in WalletBalance
                             /\ Moved(r, n).approved = copy[r].doc.approved + n
                             /\ Earned(r, n).approved = copy[r].doc.approved + n
<1>1. /\ job[r] \in Job /\ copy[r] \in Copies
      /\ job[r].user \in Users /\ copy[r].user = job[r].user
  BY DEF Shape, TypeOK, DocTypeOK, Holding
<1>2. copy[r].doc \in WalletBalance /\ job[r].amount \in Int
  BY <1>1 DEF Copies, Job
<1>3. ASSUME NEW n \in Int
      PROVE  /\ Moved(r, n) \in WalletBalance
             /\ Earned(r, n) \in WalletBalance
             /\ Moved(r, n).approved = copy[r].doc.approved + n
             /\ Earned(r, n).approved = copy[r].doc.approved + n
  <2>1. copy[r].doc.approved + n \in Int /\ copy[r].doc.totalEarned + n \in Int
    BY <1>2 DEF WalletBalance
  <2>2. Moved(r, n) = [pending |-> copy[r].doc.pending,
                       approved |-> copy[r].doc.approved + n,
                       totalEarned |-> copy[r].doc.totalEarned]
    BY <1>2 DEF Moved, WalletBalance
  <2>3. Earned(r, n) = [pending |-> copy[r].doc.pending,
                        approved |-> copy[r].doc.approved + n,
                        totalEarned |-> copy[r].doc.totalEarned + n]
    BY <1>2, <2>2 DEF Earned, WalletBalance
  <2> QED BY <1>2, <2>1, <2>2, <2>3 DEF WalletBalance
<1> QED BY <1>1, <1>2, <1>3 DEF WalletBalance

\* A new ledger row keeps the ledger's type.
LEMMA LogType ==
    ASSUME TypeOK, NEW u \in Users,
           NEW type \in {"profit_claim", "withdrawal_debit",
                         "withdrawal_refund", "admin_credit"},
           NEW amount \in Int, NEW before \in Int, NEW after \in Int,
           Log(u, type, amount, before, after)
    PROVE  ledger' \in [Users -> Ledger]
<1>1. ledger[u] \in Ledger
  BY DEF TypeOK
<1>2. [type |-> type, amount |-> amount,
       balanceBefore |-> before, balanceAfter |-> after] \in Row
  BY DEF Row
<1>3. /\ ledger[u].net - amount \in Int
      /\ ledger[u].net + amount \in Int
  BY <1>1 DEF Ledger
<1> QED BY <1>2, <1>3 DEF Log, Ledger, TypeOK

\* What a user is given leaves the set of the docked users one of users.
LEMMA GivenType ==
    ASSUME TypeOK, NEW u \in Users, NEW n \in Int, Given(u, n)
    PROVE  docked' \in SUBSET Users
BY DEF Given, TypeOK

-----------------------------------------------------------------------------
\* Everything but the user documents, the copies and the jobs.
StoreOK ==
    /\ withdrawal \in [Withdrawals -> Withdrawal]
    /\ ledger \in [Users -> Ledger]
    /\ claimKey \in SUBSET Users
    /\ held \in [Users -> Int]
    /\ unlogged \in [Users -> Int]
    /\ refunded \in SUBSET Withdrawals
    /\ docked \in SUBSET Users
    /\ ops \in [Users -> 0 .. MaxOps]
    /\ \A w \in Withdrawals :
         withdrawal[w].status # "none" => withdrawal[w].user \in Users

\* A step of one request that leaves that request in shape keeps Shape.
LEMMA ShapeParts ==
    ASSUME Shape, NEW r \in Requests, NEW j \in Job,
           DocTypeOK', StoreOK', job' = [job EXCEPT ![r] = j],
           j.op # "idle" => j.user \in Users,
           j.op \in Holding => copy'[r].user = j.user,
           j.op = "rejectTxn" => j.wid \in Withdrawals,
           j.op \in Asking => j.amount \in Nat,
           \A q \in Requests \ {r} : copy'[q].user = copy[q].user
    PROVE  Shape'
<1>1. job \in [Requests -> Job]
  BY DEF Shape, TypeOK
<1>2. job' \in [Requests -> Job] /\ job'[r] = j
      /\ \A q \in Requests \ {r} : job'[q] = job[q]
  BY <1>1
<1>3. TypeOK'
  BY <1>2 DEF TypeOK, StoreOK
<1>4. ASSUME NEW q \in Requests
      PROVE  /\ job'[q].op # "idle" => job'[q].user \in Users
             /\ job'[q].op \in Holding => copy'[q].user = job'[q].user
             /\ job'[q].op = "rejectTxn" => job'[q].wid \in Withdrawals
             /\ job'[q].op \in Asking => job'[q].amount \in Nat
  <2>1. CASE q = r
    BY <1>2, <2>1
  <2>2. CASE q # r
    BY <1>2, <2>2 DEF Shape
  <2> QED BY <2>1, <2>2
<1> QED BY <1>3, <1>4 DEF Shape, StoreOK

\* The stored collections are part of Shape.
LEMMA StoreFromShape == Shape => StoreOK
BY DEF Shape, TypeOK, StoreOK

\* A request that has nothing to do holds nothing.
LEMMA IdleType == /\ Idle \in Job /\ Idle.op = "idle"
                  /\ "idle" \notin Holding /\ "idle" \notin Asking
BY DEF Idle, Job, Ops, Holding, Asking

\* The forms a step of a request takes.
LEMMA ShapeFinish ==
    ASSUME Shape, NEW r \in Requests, DocTypeOK', StoreOK', Finish(r),
           \A q \in Requests \ {r} : copy'[q].user = copy[q].user
    PROVE  Shape'
<1>1. job' = [job EXCEPT ![r] = Idle]
  BY DEF Finish
<1> QED BY <1>1, IdleType, ShapeParts

\* An operation moves on to its next await.
LEMMA ShapeGoto ==
    ASSUME Shape, NEW r \in Requests, DocTypeOK', StoreOK',
           NEW op \in Ops \ ({"idle"} \cup Asking), Goto(r, op), job[r].op # "idle",
           op \in Holding => copy'[r].user = job[r].user,
           \A q \in Requests \ {r} : copy'[q].user = copy[q].user
    PROVE  Shape'
<1> DEFINE j == [job[r] EXCEPT !.op = op]
<1>1. job[r] \in Job /\ job[r].user \in Users
  BY DEF Shape, TypeOK
<1>2. j \in Job /\ j.op = op /\ j.user = job[r].user
  BY <1>1 DEF Job
<1>3. job' = [job EXCEPT ![r] = j]
  BY DEF Goto
<1>4. j.op # "rejectTxn"
  BY <1>2 DEF Asking
<1> HIDE DEF j
<1> QED BY <1>1, <1>2, <1>3, <1>4, ShapeParts

\* A request arrives.
LEMMA ShapeBegin ==
    ASSUME Shape, NEW r \in Requests, DocTypeOK', NEW u \in Users,
           NEW op \in Ops, NEW w \in Withdrawals \cup {NoWithdrawal}, NEW a \in Int,
           Begin(r, op, u, w, a), UNCHANGED <<withdrawal, ledger, history>>,
           claimKey' \in SUBSET Users,
           op \in Holding => copy'[r].user = u,
           op = "rejectTxn" => w \in Withdrawals,
           op \in Asking => a \in Nat,
           \A q \in Requests \ {r} : copy'[q].user = copy[q].user
    PROVE  Shape'
<1> DEFINE j == [op |-> op, user |-> u, wid |-> w, amount |-> a]
<1>1. j \in Job /\ j.op = op /\ j.user = u /\ j.wid = w /\ j.amount = a
  BY DEF Job
<1>2. job' = [job EXCEPT ![r] = j]
  BY DEF Begin
<1>3. ops' \in [Users -> 0 .. MaxOps]
  BY WalletAssumption DEF Begin, Shape, TypeOK
<1>4. StoreOK'
  BY <1>3, StoreFromShape DEF StoreOK, history
<1> HIDE DEF j
<1> QED BY <1>1, <1>2, <1>4, ShapeParts

\* The two steps all three transactions share: the reads, and the give-up.
LEMMA StoreUnchanged ==
    ASSUME Shape, UNCHANGED <<withdrawal, ledger, history, ops>>,
           claimKey' \in SUBSET Users
    PROVE  StoreOK'
BY StoreFromShape DEF StoreOK, history

\* A transaction starts over from its reads.
LEMMA ShapeFindAgain ==
    ASSUME Shape, NEW r \in Requests, job[r].op \in Holding, Find(r, job[r].user),
           UNCHANGED <<withdrawal, ledger, claimKey, history, job, ops>>
    PROVE  Shape'
<1>1. job[r] \in Job /\ job[r].user \in Users
  BY InHand
<1>2. /\ DocTypeOK' /\ copy'[r].user = job[r].user
      /\ \A q \in Requests \ {r} : copy'[q] = copy[q]
  BY <1>1, FindType DEF Shape, TypeOK
<1>3. StoreOK'
  BY StoreUnchanged DEF Shape, TypeOK
<1> DEFINE j == job[r]
<1>4. j \in Job /\ j.user \in Users /\ copy'[r].user = j.user
      /\ (j.op = "rejectTxn" => j.wid \in Withdrawals)
      /\ (j.op \in Asking => j.amount \in Nat)
  BY <1>1, <1>2 DEF Shape
<1>5. job' = [job EXCEPT ![r] = j]
  BY DEF Shape, TypeOK
<1>6. DocTypeOK' /\ \A q \in Requests \ {r} : copy'[q].user = copy[q].user
  BY <1>2
<1> HIDE DEF j
<1> QED BY <1>3, <1>4, <1>5, <1>6, ShapeParts

\* An operation ends with nothing written.
LEMMA ShapeGiveUp ==
    ASSUME Shape, NEW r \in Requests, Release(r), Finish(r),
           UNCHANGED <<withdrawal, ledger, claimKey, history>>
    PROVE  Shape'
<1>1. DocTypeOK' /\ \A q \in Requests \ {r} : copy'[q] = copy[q]
  BY ReleaseType DEF Shape, TypeOK
<1>2. StoreOK'
  BY StoreUnchanged DEF Shape, TypeOK, Finish
<1> QED BY <1>1, <1>2, ShapeFinish

\* The first step of every operation keeps Shape.
LEMMA ShapeArrive ==
    ASSUME Shape, NEW r \in Requests, Arrive(r)
    PROVE  Shape'
<1> USE DEF Holding, Asking, Ops
<1>1. ASSUME NEW u \in Users, ClaimStart(r, u)
      PROVE  Shape'
  <2>1. DocTypeOK' /\ copy' = copy /\ claimKey' \in SUBSET Users
    BY <1>1 DEF ClaimStart, docVars, Shape, TypeOK, DocTypeOK
  <2>2. /\ Begin(r, "claim", u, NoWithdrawal, 0)
        /\ UNCHANGED <<withdrawal, ledger, history>>
    BY <1>1 DEF ClaimStart
  <2> QED BY <2>1, <2>2, ShapeBegin
<1>2. ASSUME NEW u \in Users, NEW op \in {"withdrawTxn", "credit"}, NEW a \in Int,
             op = "withdrawTxn" => a \in Nat,
             Find(r, u), Begin(r, op, u, NoWithdrawal, a),
             UNCHANGED <<withdrawal, ledger, claimKey, history>>
      PROVE  Shape'
  <2>1. /\ DocTypeOK' /\ copy'[r].user = u
        /\ \A q \in Requests \ {r} : copy'[q] = copy[q]
    BY <1>2, FindType DEF Shape, TypeOK
  <2>2. claimKey' \in SUBSET Users
    BY <1>2 DEF Shape, TypeOK
  <2> QED BY <1>2, <2>1, <2>2, ShapeBegin
<1>3. ASSUME NEW u \in Users, NEW a \in WithdrawAmounts, WithdrawFind(r, u, a)
      PROVE  Shape'
  BY <1>2, <1>3, WalletAssumption DEF WithdrawFind
<1>4. ASSUME NEW u \in Users, NEW a \in CreditAmounts, CreditFind(r, u, a)
      PROVE  Shape'
  BY <1>2, <1>4, WalletAssumption DEF CreditFind
<1>5. ASSUME NEW w \in Withdrawals, RejectFind(r, w)
      PROVE  Shape'
  <2>1. withdrawal[w].user \in Users /\ withdrawal[w].amount \in Nat
    BY <1>5 DEF RejectFind, Shape, TypeOK, Withdrawal
  <2>2. /\ Find(r, withdrawal[w].user)
        /\ Begin(r, "rejectTxn", withdrawal[w].user, w, withdrawal[w].amount)
        /\ UNCHANGED <<withdrawal, ledger, claimKey, history>>
    BY <1>5 DEF RejectFind
  <2>3. /\ DocTypeOK' /\ copy'[r].user = withdrawal[w].user
        /\ \A q \in Requests \ {r} : copy'[q] = copy[q]
    BY <2>1, <2>2, FindType DEF Shape, TypeOK
  <2>4. claimKey' \in SUBSET Users
    BY <2>2 DEF Shape, TypeOK
  <2> QED BY <2>1, <2>2, <2>3, <2>4, ShapeBegin
<1> QED BY <1>1, <1>3, <1>4, <1>5 DEF Arrive

\* claimProfit keeps Shape.
LEMMA ShapeClaim ==
    ASSUME Shape, NEW r \in Requests,
           \/ ClaimFind(r) \/ ClaimCommit(r) \/ ClaimReplyLost(r)
           \/ ClaimRetry(r) \/ ClaimAbort(r) \/ ClaimUndo(r)
    PROVE  Shape'
<1> USE DEF Holding, Asking, Ops
<1>1. CASE ClaimFind(r)
  <2>1. job[r].user \in Users /\ job[r].op # "idle"
    BY <1>1 DEF ClaimFind, Is, Shape
  <2>2. /\ DocTypeOK' /\ copy'[r].user = job[r].user
        /\ \A q \in Requests \ {r} : copy'[q] = copy[q]
    BY <1>1, <2>1, FindType DEF ClaimFind, Shape, TypeOK
  <2>3. StoreOK' /\ Goto(r, "claimTxn")
    BY <1>1, StoreUnchanged DEF ClaimFind, Goto, Shape, TypeOK
  <2> QED BY <2>1, <2>2, <2>3, ShapeGoto
<1>2. ASSUME ClaimApply(r), UNCHANGED ops
      PROVE  /\ DocTypeOK' /\ StoreOK'
             /\ \A q \in Requests \ {r} : copy'[q].user = copy[q].user
             /\ job[r].op # "idle"
  <2> DEFINE before == copy[r].doc.approved
             amount == ProfitOf(before)
  <2>1. /\ job[r].op \in Holding
        /\ Commit(r, Earned(r, amount))
        /\ Log(job[r].user, "profit_claim", amount, before, before + amount)
        /\ Given(job[r].user, amount)
        /\ UNCHANGED <<withdrawal, claimKey, held, unlogged, refunded>>
    BY <1>2 DEF ClaimApply, Is
  <2>2. /\ job[r].user \in Users /\ copy[r].user \in Users
        /\ before \in Int /\ amount \in Int /\ before + amount \in Int
        /\ Earned(r, amount) \in WalletBalance
    BY <2>1, InHand, ProfitType
  <2> HIDE DEF before, amount
  <2>3. /\ DocTypeOK'
        /\ \A q \in Requests \ {r} : copy'[q].user = copy[q].user
    BY <2>1, <2>2, CommitType DEF Shape, TypeOK
  <2>4. ledger' \in [Users -> Ledger]
    BY <2>1, <2>2, LogType DEF Shape
  <2>5. docked' \in SUBSET Users
    BY <2>1, <2>2, GivenType DEF Shape
  <2>6. StoreOK'
    BY <1>2, <2>1, <2>4, <2>5, StoreFromShape DEF StoreOK
  <2> QED BY <2>1, <2>3, <2>6
<1>3. CASE ClaimCommit(r)
  BY <1>2, <1>3, ShapeFinish DEF ClaimCommit, Finish
<1>4. CASE ClaimReplyLost(r)
  BY <1>2, <1>4, ShapeGoto DEF ClaimReplyLost, Goto
<1>5. CASE ClaimRetry(r)
  BY <1>5, ShapeFindAgain DEF ClaimRetry, Is
<1>6. CASE ClaimAbort(r)
  <2>1. DocTypeOK' /\ \A q \in Requests \ {r} : copy'[q] = copy[q]
    BY <1>6, ReleaseType DEF ClaimAbort, Shape, TypeOK
  <2>2. StoreOK'
    BY <1>6, StoreUnchanged DEF ClaimAbort, Goto, Shape, TypeOK
  <2> QED BY <1>6, <2>1, <2>2, ShapeGoto DEF ClaimAbort, Is
<1>7. CASE ClaimUndo(r)
  <2>1. DocTypeOK' /\ copy' = copy
    BY <1>7 DEF ClaimUndo, docVars, Shape, TypeOK, DocTypeOK
  <2>2. StoreOK'
    BY <1>7, StoreUnchanged DEF ClaimUndo, Finish, Shape, TypeOK
  <2> QED BY <1>7, <2>1, <2>2, ShapeFinish DEF ClaimUndo
<1> QED BY <1>1, <1>3, <1>4, <1>5, <1>6, <1>7

\* requestWithdrawal keeps Shape.
LEMMA ShapeWithdraw ==
    ASSUME Shape, NEW r \in Requests,
           (\E w \in Withdrawals : WithdrawCommit(r, w)) \/ WithdrawRetry(r)
    PROVE  Shape'
<1> USE DEF Holding
<1>1. ASSUME NEW w \in Withdrawals, WithdrawCommit(r, w)
      PROVE  Shape'
  <2> DEFINE before == copy[r].doc.approved
             a == job[r].amount
  <2>1. /\ job[r].op \in Holding
        /\ Commit(r, Moved(r, 0 - a))
        /\ withdrawal' = [withdrawal EXCEPT ![w] =
              [status |-> "pending", user |-> job[r].user, amount |-> a]]
        /\ Log(job[r].user, "withdrawal_debit", a, before, before - a)
        /\ held' = [held EXCEPT ![job[r].user] = @ + a]
        /\ Finish(r)
        /\ UNCHANGED <<claimKey, unlogged, refunded, docked>>
        /\ job[r].op \in Asking
    BY <1>1 DEF WithdrawCommit, Is, Asking
  <2>2. /\ job[r].user \in Users /\ copy[r].user \in Users
        /\ before \in Int /\ a \in Nat /\ before - a \in Int
        /\ Moved(r, 0 - a) \in WalletBalance
    BY <2>1, InHand DEF Shape
  <2> HIDE DEF before, a
  <2>3. /\ DocTypeOK'
        /\ \A q \in Requests \ {r} : copy'[q].user = copy[q].user
    BY <2>1, <2>2, CommitType DEF Shape, TypeOK
  <2>4. ledger' \in [Users -> Ledger]
    BY <2>1, <2>2, LogType DEF Shape
  <2>5. /\ withdrawal' \in [Withdrawals -> Withdrawal]
        /\ \A v \in Withdrawals :
             withdrawal'[v].status # "none" => withdrawal'[v].user \in Users
    BY <2>1, <2>2 DEF Shape, TypeOK, Withdrawal
  <2>6. held' \in [Users -> Int]
    BY <2>1, <2>2 DEF Shape, TypeOK
  <2>7. StoreOK'
    BY <2>1, <2>4, <2>5, <2>6, StoreFromShape DEF StoreOK, Finish
  <2> QED BY <2>1, <2>3, <2>7, ShapeFinish
<1>2. CASE WithdrawRetry(r)
  BY <1>2, ShapeFindAgain, ShapeGiveUp DEF WithdrawRetry, Is
<1> QED BY <1>1, <1>2

\* rejectWithdrawal keeps Shape.
LEMMA ShapeReject ==
    ASSUME Shape, NEW r \in Requests, RejectCommit(r) \/ RejectRetry(r)
    PROVE  Shape'
<1> USE DEF Holding
<1>1. CASE RejectCommit(r)
  <2> DEFINE before == copy[r].doc.approved
             a == job[r].amount
             w == job[r].wid
  <2>1. /\ job[r].op = "rejectTxn"
        /\ Commit(r, Moved(r, a))
        /\ withdrawal' = [withdrawal EXCEPT ![w].status = "rejected"]
        /\ Log(job[r].user, "withdrawal_refund", a, before, before + a)
        /\ held' = [held EXCEPT ![job[r].user] = @ - a]
        /\ refunded' = refunded \cup {w}
        /\ Finish(r)
        /\ UNCHANGED <<claimKey, unlogged, docked>>
        /\ withdrawal[w].status = "pending"
    BY <1>1 DEF RejectCommit, RejectApply, Is
  <2>2. /\ job[r].user \in Users /\ copy[r].user \in Users
        /\ before \in Int /\ a \in Int /\ before + a \in Int
        /\ Moved(r, a) \in WalletBalance
    BY <2>1, InHand
  <2>3. w \in Withdrawals
    BY <2>1 DEF Shape
  <2> HIDE DEF before, a, w
  <2>4. /\ DocTypeOK'
        /\ \A q \in Requests \ {r} : copy'[q].user = copy[q].user
    BY <2>1, <2>2, CommitType DEF Shape, TypeOK
  <2>5. ledger' \in [Users -> Ledger]
    BY <2>1, <2>2, LogType DEF Shape
  <2>6. /\ withdrawal' \in [Withdrawals -> Withdrawal]
        /\ \A v \in Withdrawals :
             withdrawal'[v].status # "none" => withdrawal'[v].user \in Users
    BY <2>1, <2>3 DEF Shape, TypeOK, Withdrawal
  <2>7. held' \in [Users -> Int]
    BY <2>1, <2>2 DEF Shape, TypeOK
  <2>8. StoreOK'
    BY <2>1, <2>3, <2>5, <2>6, <2>7, StoreFromShape DEF StoreOK, Finish
  <2> QED BY <2>1, <2>4, <2>8, ShapeFinish
<1>2. CASE RejectRetry(r)
  BY <1>2, ShapeFindAgain, ShapeGiveUp DEF RejectRetry, Is
<1> QED BY <1>1, <1>2

\* creditUser keeps Shape.
LEMMA ShapeCredit ==
    ASSUME Shape, NEW r \in Requests, CreditSave(r) \/ CreditLog(r)
    PROVE  Shape'
<1> USE DEF Holding, Asking, Ops
<1>1. CASE CreditSave(r)
  <2> DEFINE a == job[r].amount
  <2>1. /\ job[r].op \in Holding
        /\ Save(r, Earned(r, a))
        /\ Goto(r, "creditLog")
        /\ unlogged' = [unlogged EXCEPT ![job[r].user] = @ + a]
        /\ Given(job[r].user, a)
        /\ UNCHANGED <<withdrawal, ledger, claimKey, held, refunded>>
    BY <1>1 DEF CreditSave, Is
  <2>2. /\ job[r].user \in Users /\ copy[r].user = job[r].user /\ a \in Int
        /\ Earned(r, a) \in WalletBalance
    BY <2>1, InHand
  <2> HIDE DEF a
  <2>3. /\ DocTypeOK' /\ copy'[r].user = copy[r].user
        /\ \A q \in Requests \ {r} : copy'[q].user = copy[q].user
    BY <2>1, <2>2, SaveType DEF Shape, TypeOK
  <2>4. unlogged' \in [Users -> Int]
    BY <2>1, <2>2 DEF Shape, TypeOK
  <2>5. docked' \in SUBSET Users
    BY <2>1, <2>2, GivenType DEF Shape
  <2>6. StoreOK'
    BY <2>1, <2>4, <2>5, StoreFromShape DEF StoreOK, Goto
  <2> QED BY <2>1, <2>2, <2>3, <2>6, ShapeGoto
<1>2. CASE CreditLog(r)
  <2> DEFINE after == copy[r].doc.approved
             a == job[r].amount
  <2>1. /\ job[r].op \in Holding
        /\ Log(job[r].user, "admin_credit", a, after - a, after)
        /\ unlogged' = [unlogged EXCEPT ![job[r].user] = @ - a]
        /\ Release(r)
        /\ Finish(r)
        /\ UNCHANGED <<withdrawal, claimKey, held, refunded, docked>>
    BY <1>2 DEF CreditLog, Is
  <2>2. job[r].user \in Users /\ after \in Int /\ a \in Int /\ after - a \in Int
    BY <2>1, InHand
  <2> HIDE DEF a, after
  <2>3. DocTypeOK' /\ \A q \in Requests \ {r} : copy'[q] = copy[q]
    BY <2>1, ReleaseType DEF Shape, TypeOK
  <2>4. ledger' \in [Users -> Ledger]
    BY <2>1, <2>2, LogType DEF Shape
  <2>5. unlogged' \in [Users -> Int]
    BY <2>1, <2>2 DEF Shape, TypeOK
  <2>6. StoreOK'
    BY <2>1, <2>4, <2>5, StoreFromShape DEF StoreOK, Finish
  <2> QED BY <2>1, <2>3, <2>6, ShapeFinish
<1> QED BY <1>1, <1>2

\* The steps of no request: an approval, a key that expires.
LEMMA ShapeOther ==
    ASSUME Shape,
           \/ \E w \in Withdrawals : ApproveWithdrawal(w)
           \/ \E u \in Users : ClaimKeyExpires(u)
           \/ UNCHANGED vars
    PROVE  Shape'
<1>1. ASSUME NEW w \in Withdrawals, ApproveWithdrawal(w)
      PROVE  Shape'
  <2>1. /\ withdrawal' = [withdrawal EXCEPT ![w].status = "approved"]
        /\ UNCHANGED <<account, copy, clobbered, ledger, claimKey, job,
                       held, unlogged, refunded, docked, ops>>
        /\ withdrawal[w].status # "none"
    BY <1>1 DEF ApproveWithdrawal, docVars, history
  <2>2. /\ withdrawal' \in [Withdrawals -> Withdrawal]
        /\ \A v \in Withdrawals :
             withdrawal'[v].status # "none" => withdrawal'[v].user \in Users
    BY <2>1 DEF Shape, TypeOK, Withdrawal
  <2> QED BY <2>1, <2>2 DEF Shape, TypeOK, DocTypeOK
<1>2. ASSUME NEW u \in Users, ClaimKeyExpires(u)
      PROVE  Shape'
  BY <1>2 DEF ClaimKeyExpires, docVars, history, Shape, TypeOK, DocTypeOK
<1>3. CASE UNCHANGED vars
  BY <1>3 DEF vars, Shape, TypeOK, DocTypeOK
<1> QED BY <1>1, <1>2, <1>3

\* Shape is inductive.
LEMMA ShapeStep == Shape /\ [Next]_vars => Shape'
<1> SUFFICES ASSUME Shape, [Next]_vars PROVE Shape'
  OBVIOUS
<1>1. ASSUME NEW r \in Requests, Arrive(r) PROVE Shape'
  BY <1>1, ShapeArrive
<1>2. ASSUME NEW r \in Requests, Step(r) PROVE Shape'
  BY <1>2, ShapeClaim, ShapeWithdraw, ShapeReject, ShapeCredit DEF Step
<1>3. ASSUME NEW r \in Requests, Drop(r) PROVE Shape'
  BY <1>3, ShapeGiveUp DEF Drop
<1> QED BY <1>1, <1>2, <1>3, ShapeOther DEF Next

\* Shape holds at first.
LEMMA ShapeInit == Init => Shape
<1> SUFFICES ASSUME Init PROVE Shape
  OBVIOUS
<1>1. DocTypeOK
  BY WalletAssumption, NoCopyType DEF Init, DocTypeOK, WalletBalance
<1>2. ledger \in [Users -> Ledger]
  BY WalletAssumption DEF Init, Ledger, Row
<1>3. withdrawal \in [Withdrawals -> Withdrawal] /\ job \in [Requests -> Job]
  BY IdleType DEF Init, Withdrawal, NoDocument
<1>4. TypeOK
  BY <1>1, <1>2, <1>3, WalletAssumption DEF Init, TypeOK
<1> QED BY <1>4, IdleType DEF Init, Shape, NoDocument

\* The types hold in every reachable state, whatever the number of users,
\* requests and withdrawals, and every request in the middle of an operation
\* holds the document of the user it works for.
THEOREM ShapeInvariant == Spec => []Shape
BY ShapeInit, ShapeStep, PTL DEF Spec

\* TypeOK, the type invariant of the wallet, holds in every reachable state.
THEOREM TypeCorrect == Spec => []TypeOK
<1>1. Shape => TypeOK
  BY DEF Shape
<1> QED BY <1>1, ShapeInvariant, PTL

-----------------------------------------------------------------------------
\* A step that takes no key, frees none, and has nobody begin a claim cannot
\* disturb ClaimExclusive.
LEMMA ExclusiveKept ==
    ASSUME ClaimExclusive, claimKey' = claimKey,
           \A r \in Requests : Claiming(r)' => Claiming(r) /\ job'[r].user = job[r].user
    PROVE  ClaimExclusive'
BY DEF ClaimExclusive

\* One request moves on; it was claiming before if it is claiming after.
LEMMA ExclusiveMoved ==
    ASSUME Shape, ClaimExclusive, claimKey' = claimKey, NEW r \in Requests,
           \/ Finish(r)
           \/ Claiming(r) /\ \E op \in Ops : Goto(r, op)
           \/ Goto(r, "creditLog")
           \/ job' = job
           \/ \E u \in Users, op \in {"withdrawTxn", "rejectTxn", "credit"},
                 w \in Withdrawals \cup {NoWithdrawal}, a \in Int : Begin(r, op, u, w, a)
    PROVE  ClaimExclusive'
<1>1. job \in [Requests -> Job]
  BY DEF Shape, TypeOK
<1>2. ASSUME NEW q \in Requests, Claiming(q)'
      PROVE  Claiming(q) /\ job'[q].user = job[q].user
  <2>1. CASE q # r
    BY <1>1, <1>2, <2>1 DEF Claiming, Finish, Goto, Begin
  <2>2. CASE q = r
    <3>1. CASE Finish(r)
      BY <1>1, <1>2, <2>2, <3>1 DEF Claiming, Finish, Idle
    <3>2. CASE Claiming(r) /\ \E op \in Ops : Goto(r, op)
      BY <1>1, <1>2, <2>2, <3>2 DEF Claiming, Goto, Job
    <3>3. CASE Goto(r, "creditLog")
      BY <1>1, <1>2, <2>2, <3>3 DEF Claiming, Goto, Job
    <3>4. CASE job' = job
      BY <1>2, <2>2, <3>4 DEF Claiming
    <3>5. CASE \E u \in Users, op \in {"withdrawTxn", "rejectTxn", "credit"},
                 w \in Withdrawals \cup {NoWithdrawal}, a \in Int : Begin(r, op, u, w, a)
      BY <1>1, <1>2, <2>2, <3>5 DEF Claiming, Begin
    <3> QED BY <3>1, <3>2, <3>3, <3>4, <3>5
  <2> QED BY <2>1, <2>2
<1> QED BY <1>2, ExclusiveKept

\* With the types, ClaimExclusive is inductive.
LEMMA ExclusiveStep == Shape /\ ClaimExclusive /\ [Next]_vars => ClaimExclusive'
<1> SUFFICES ASSUME Shape, ClaimExclusive, [Next]_vars PROVE ClaimExclusive'
  OBVIOUS
<1>0. job \in [Requests -> Job] /\ claimKey \in SUBSET Users
  BY DEF Shape, TypeOK
<1>1. ASSUME NEW r \in Requests, NEW u \in Users, ClaimStart(r, u)
      PROVE  ClaimExclusive'
  <2>1. /\ claimKey' = claimKey \cup {u} /\ u \notin claimKey
        /\ job' = [job EXCEPT ![r] = [op |-> "claim", user |-> u,
                                      wid |-> NoWithdrawal, amount |-> 0]]
    BY <1>1 DEF ClaimStart, Begin
  <2>2. job'[r].user = u /\ \A q \in Requests \ {r} : job'[q] = job[q]
    BY <1>0, <2>1
  <2>3. ASSUME NEW q \in Requests \ {r}, Claiming(q)'
        PROVE  job'[q].user \in claimKey /\ job'[q].user # u
    BY <2>1, <2>2, <2>3 DEF ClaimExclusive, Claiming
  <2>4. ASSUME NEW q \in Requests \ {r}, NEW p \in Requests \ {r, q},
               Claiming(q)', Claiming(p)'
        PROVE  job'[q].user # job'[p].user
    BY <2>2, <2>4 DEF ClaimExclusive, Claiming
  <2> QED BY <2>1, <2>2, <2>3, <2>4 DEF ClaimExclusive
<1>2. ASSUME NEW r \in Requests, ClaimUndo(r)
      PROVE  ClaimExclusive'
  <2>1. /\ claimKey' = claimKey \ {job[r].user} \/ claimKey' = claimKey
        /\ job' = [job EXCEPT ![r] = Idle]
        /\ Claiming(r)
    BY <1>2 DEF ClaimUndo, Finish, Is, Claiming
  <2>2. job'[r] = Idle /\ \A q \in Requests \ {r} : job'[q] = job[q]
    BY <1>0, <2>1
  <2>3. ~ Claiming(r)'
    BY <2>2 DEF Claiming, Idle
  <2>4. ASSUME NEW q \in Requests, Claiming(q)'
        PROVE  job'[q].user \in claimKey'
    BY <2>1, <2>2, <2>3, <2>4 DEF ClaimExclusive, Claiming
  <2> QED BY <2>2, <2>3, <2>4 DEF ClaimExclusive, Claiming
<1>3. ASSUME NEW u \in Users, ClaimKeyExpires(u)
      PROVE  ClaimExclusive'
  BY <1>3 DEF ClaimKeyExpires, ClaimExclusive, Claiming
<1>4. ASSUME NEW r \in Requests, Arrive(r)
      PROVE  ClaimExclusive'
  <2>1. ASSUME NEW u \in Users, NEW a \in WithdrawAmounts, WithdrawFind(r, u, a)
        PROVE  ClaimExclusive'
    BY <2>1, ExclusiveMoved, WalletAssumption DEF WithdrawFind
  <2>2. ASSUME NEW u \in Users, NEW a \in CreditAmounts, CreditFind(r, u, a)
        PROVE  ClaimExclusive'
    BY <2>2, ExclusiveMoved, WalletAssumption DEF CreditFind
  <2>3. ASSUME NEW w \in Withdrawals, RejectFind(r, w)
        PROVE  ClaimExclusive'
    <3>1. withdrawal[w].user \in Users /\ withdrawal[w].amount \in Nat
      BY <2>3 DEF RejectFind, Shape, TypeOK, Withdrawal
    <3> QED BY <2>3, <3>1, ExclusiveMoved DEF RejectFind
  <2> QED BY <1>1, <1>4, <2>1, <2>2, <2>3 DEF Arrive
<1>5. ASSUME NEW r \in Requests, Step(r)
      PROVE  ClaimExclusive'
  <2> USE DEF Ops
  <2>1. CASE ClaimFind(r)
    BY <2>1, ExclusiveMoved DEF ClaimFind, Is, Claiming
  <2>2. CASE ClaimCommit(r)
    BY <2>2, ExclusiveMoved DEF ClaimCommit, ClaimApply
  <2>3. CASE ClaimReplyLost(r)
    BY <2>3, ExclusiveMoved DEF ClaimReplyLost, ClaimApply, Is, Claiming
  <2>4. CASE ClaimRetry(r)
    BY <2>4, ExclusiveMoved DEF ClaimRetry
  <2>5. CASE ClaimAbort(r)
    BY <2>5, ExclusiveMoved DEF ClaimAbort, Is, Claiming
  <2>6. CASE \E w \in Withdrawals : WithdrawCommit(r, w)
    BY <2>6, ExclusiveMoved DEF WithdrawCommit
  <2>7. CASE WithdrawRetry(r)
    BY <2>7, ExclusiveMoved DEF WithdrawRetry
  <2>8. CASE RejectCommit(r)
    BY <2>8, ExclusiveMoved DEF RejectCommit, RejectApply
  <2>9. CASE RejectRetry(r)
    BY <2>9, ExclusiveMoved DEF RejectRetry
  <2>10. CASE CreditSave(r)
    BY <2>10, ExclusiveMoved DEF CreditSave
  <2>11. CASE CreditLog(r)
    BY <2>11, ExclusiveMoved DEF CreditLog
  <2> QED BY <1>2, <1>5, <2>1, <2>2, <2>3, <2>4, <2>5, <2>6, <2>7, <2>8, <2>9,
             <2>10, <2>11 DEF Step
<1>6. ASSUME NEW r \in Requests, Drop(r)
      PROVE  ClaimExclusive'
  BY <1>6, ExclusiveMoved DEF Drop
<1>7. ASSUME NEW w \in Withdrawals, ApproveWithdrawal(w)
      PROVE  ClaimExclusive'
  BY <1>7, ExclusiveKept DEF ApproveWithdrawal, Claiming
<1>8. CASE UNCHANGED vars
  BY <1>8, ExclusiveKept DEF vars, Claiming
<1> QED BY <1>3, <1>4, <1>5, <1>6, <1>7, <1>8 DEF Next

\* The profit_claimed key is a lock for any number of users and requests.
THEOREM ClaimsExclude == Spec => []ClaimExclusive
<1>1. Init => ClaimExclusive
  BY DEF Init, Idle, ClaimExclusive, Claiming
<1> QED BY <1>1, ExclusiveStep, ShapeInvariant, PTL DEF Spec

-----------------------------------------------------------------------------
\* All that ever happens to the documents is one of the four steps.
LEMMA NextIsDocStep ==
    ASSUME Shape, [Next]_vars
    PROVE  UNCHANGED docVars \/ \E r \in Requests : DocStep(r)
<1> USE DEF Holding
<1>1. ASSUME NEW r \in Requests, Arrive(r)
      PROVE  UNCHANGED docVars \/ DocStep(r)
  <2>1. ASSUME NEW w \in Withdrawals, RejectFind(r, w) PROVE DocStep(r)
    BY <2>1 DEF RejectFind, Shape, DocStep
  <2> QED BY <1>1, <2>1 DEF Arrive, ClaimStart, WithdrawFind, CreditFind, DocStep
<1>2. ASSUME NEW r \in Requests, job[r].op \in Holding, NEW n \in Int,
             \/ Commit(r, Moved(r, n)) \/ Commit(r, Earned(r, n))
             \/ Save(r, Earned(r, n))
      PROVE  DocStep(r)
  BY <1>2, InHand DEF DocStep
<1>3. ASSUME NEW r \in Requests, Step(r)
      PROVE  UNCHANGED docVars \/ DocStep(r)
  <2>1. CASE ClaimApply(r)
    <3>1. job[r].op \in Holding /\ ProfitOf(copy[r].doc.approved) \in Int
      BY <2>1, InHand, ProfitType DEF ClaimApply, Is
    <3> QED BY <1>2, <2>1, <3>1 DEF ClaimApply
  <2>2. CASE \E w \in Withdrawals : WithdrawCommit(r, w)
    <3>1. job[r].op \in Holding /\ 0 - job[r].amount \in Int
      BY <2>2, InHand DEF WithdrawCommit, Is
    <3> QED BY <1>2, <2>2, <3>1 DEF WithdrawCommit
  <2>3. CASE RejectCommit(r)
    <3>1. job[r].op \in Holding /\ job[r].amount \in Int
      BY <2>3, InHand DEF RejectCommit, Is
    <3> QED BY <1>2, <2>3, <3>1 DEF RejectCommit, RejectApply
  <2>4. CASE CreditSave(r)
    <3>1. job[r].op \in Holding /\ job[r].amount \in Int
      BY <2>4, InHand DEF CreditSave, Is
    <3> QED BY <1>2, <2>4, <3>1 DEF CreditSave
  <2>5. ASSUME job[r].op # "idle" PROVE job[r].user \in Users
    BY <2>5 DEF Shape
  <2>6. CASE ClaimFind(r) \/ ClaimRetry(r) \/ WithdrawRetry(r) \/ RejectRetry(r)
    BY <2>5, <2>6 DEF ClaimFind, ClaimRetry, WithdrawRetry, RejectRetry, Is, DocStep
  <2>7. CASE ClaimAbort(r) \/ ClaimUndo(r) \/ CreditLog(r)
    BY <2>7 DEF ClaimAbort, ClaimUndo, CreditLog, DocStep
  <2> QED BY <1>3, <2>1, <2>2, <2>3, <2>4, <2>6, <2>7
          DEF Step, ClaimCommit, ClaimReplyLost
<1>4. ASSUME NEW r \in Requests, Drop(r) PROVE DocStep(r)
  BY <1>4 DEF Drop, DocStep
<1> QED BY <1>1, <1>3, <1>4
        DEF Next, ApproveWithdrawal, ClaimKeyExpires, vars, docVars

\* With Shape, Fresh is inductive.
LEMMA FreshStep == Shape /\ Fresh /\ [Next]_vars => Fresh'
<1> SUFFICES ASSUME Shape, Fresh, [Next]_vars PROVE Fresh'
  OBVIOUS
<1>1. DocTypeOK
  BY DEF Shape, TypeOK
<1>2. CASE UNCHANGED docVars
  BY <1>2 DEF docVars, Fresh
<1>3. CASE \E r \in Requests : DocStep(r)
  BY <1>1, <1>3, FreshDocStep
<1> QED BY <1>2, <1>3, NextIsDocStep

\* Nobody holds a copy at first.
LEMMA FreshInit == Init => Fresh
BY NoUserAssumption DEF Init, Fresh, NoCopy

\* A copy is behind the stored document only in the paths it knows to be
\* stale: what the storage engine's conflict check relies on.
THEOREM CopiesFresh == Spec => []Fresh
BY FreshInit, FreshStep, ShapeInvariant, PTL DEF Spec

-----------------------------------------------------------------------------
\* A save nobody is in the way of applies its delta to what is stored, and
\* the balance it changes is the one the handler read.
Applied(u, r, dApproved, dTotal) ==
    /\ account' \in [Users -> WalletBalance]
    /\ account'[u].approved = account[u].approved + dApproved
    /\ account'[u].totalEarned = account[u].totalEarned + dTotal
    /\ \A v \in Users \ {u} : account'[v] = account[v]
    /\ dApproved # 0 => copy[r].doc.approved = account[u].approved

\* A save of `balance.approved += n; balance.totalEarned += n` is exact.
LEMMA ExactEarned ==
    ASSUME Shape, Fresh, NEW r \in Requests, job[r].op \in Holding, NEW n \in Int,
           copy[r].stale \cap ModifiedPaths(r, Earned(r, n)) = {},
           account' = [account EXCEPT ![copy[r].user] = Stored(r, Earned(r, n))]
    PROVE  Applied(job[r].user, r, n, n)
<1> DEFINE u == job[r].user
           mem == Earned(r, n)
<1>1. /\ u \in Users /\ copy[r].user = u
      /\ copy[r].doc \in WalletBalance /\ mem \in WalletBalance
  BY InHand
<1>2. /\ mem.approved = copy[r].doc.approved + n
      /\ mem.totalEarned = copy[r].doc.totalEarned + n
  <2>1. Moved(r, n) = [pending |-> copy[r].doc.pending,
                       approved |-> copy[r].doc.approved + n,
                       totalEarned |-> copy[r].doc.totalEarned]
    BY <1>1 DEF Moved, WalletBalance
  <2> QED BY <1>1, <2>1 DEF Earned, WalletBalance
<1>3. DocTypeOK /\ account[u] \in WalletBalance
  BY <1>1 DEF Shape, TypeOK, DocTypeOK
<1>4. Stored(r, mem) \in WalletBalance
  BY <1>1, <1>3, StoredType
<1>5. /\ account' \in [Users -> WalletBalance] /\ account'[u] = Stored(r, mem)
      /\ \A v \in Users \ {u} : account'[v] = account[v]
  BY <1>1, <1>3, <1>4 DEF DocTypeOK
<1>6. FreshCopy(r)
  BY FreshCopies
<1> HIDE DEF u, mem
<1>7. /\ copy[r].doc.approved \in Int /\ account[u].approved \in Int
      /\ copy[r].doc.totalEarned \in Int /\ account[u].totalEarned \in Int
  BY <1>1, <1>3 DEF WalletBalance
<1>8. CASE n = 0
  <2>1. "approved" \notin ModifiedPaths(r, mem) /\ "totalEarned" \notin ModifiedPaths(r, mem)
    BY <1>2, <1>7, <1>8 DEF ModifiedPaths
  <2> QED BY <1>1, <1>2, <1>3, <1>5, <1>7, <1>8, <2>1, StoredPaths DEF Applied, u
<1>9. CASE n # 0
  <2>1. "approved" \in ModifiedPaths(r, mem) /\ "totalEarned" \in ModifiedPaths(r, mem)
    BY <1>2, <1>7, <1>9 DEF ModifiedPaths
  <2>2. /\ copy[r].doc.approved = account[u].approved
        /\ copy[r].doc.totalEarned = account[u].totalEarned
    BY <1>1, <1>6, <2>1 DEF FreshCopy, mem
  <2> QED BY <1>1, <1>2, <1>3, <1>5, <1>7, <2>1, <2>2, StoredPaths DEF Applied, u
<1> QED BY <1>8, <1>9

\* A save of `balance.approved += n` is exact.
LEMMA ExactMoved ==
    ASSUME Shape, Fresh, NEW r \in Requests, job[r].op \in Holding, NEW n \in Int,
           copy[r].stale \cap ModifiedPaths(r, Moved(r, n)) = {},
           account' = [account EXCEPT ![copy[r].user] = Stored(r, Moved(r, n))]
    PROVE  Applied(job[r].user, r, n, 0)
<1> DEFINE u == job[r].user
           mem == Moved(r, n)
<1>1. /\ u \in Users /\ copy[r].user = u
      /\ copy[r].doc \in WalletBalance /\ mem \in WalletBalance
  BY InHand
<1>2. /\ mem.approved = copy[r].doc.approved + n
      /\ mem.totalEarned = copy[r].doc.totalEarned
  BY <1>1 DEF Moved, WalletBalance
<1>3. DocTypeOK /\ account[u] \in WalletBalance
  BY <1>1 DEF Shape, TypeOK, DocTypeOK
<1>4. Stored(r, mem) \in WalletBalance
  BY <1>1, <1>3, StoredType
<1>5. /\ account' \in [Users -> WalletBalance] /\ account'[u] = Stored(r, mem)
      /\ \A v \in Users \ {u} : account'[v] = account[v]
  BY <1>1, <1>3, <1>4 DEF DocTypeOK
<1>6. FreshCopy(r)
  BY FreshCopies
<1> HIDE DEF u, mem
<1>7. /\ copy[r].doc.approved \in Int /\ account[u].approved \in Int
      /\ account[u].totalEarned \in Int
  BY <1>1, <1>3 DEF WalletBalance
<1>8. "totalEarned" \notin ModifiedPaths(r, mem)
  BY <1>2 DEF ModifiedPaths
<1>9. CASE n = 0
  <2>1. "approved" \notin ModifiedPaths(r, mem)
    BY <1>2, <1>7, <1>9 DEF ModifiedPaths
  <2> QED BY <1>1, <1>2, <1>3, <1>5, <1>7, <1>8, <1>9, <2>1, StoredPaths DEF Applied, u
<1>10. CASE n # 0
  <2>1. "approved" \in ModifiedPaths(r, mem)
    BY <1>2, <1>7, <1>10 DEF ModifiedPaths
  <2>2. copy[r].doc.approved = account[u].approved
    BY <1>1, <1>6, <2>1 DEF FreshCopy, mem
  <2> QED BY <1>1, <1>2, <1>3, <1>5, <1>7, <1>8, <2>1, <2>2, StoredPaths DEF Applied, u
<1> QED BY <1>9, <1>10

-----------------------------------------------------------------------------
\* The books of one account, and what keeps them: what an operation adds to
\* the total is what it adds to the approved balance and to what is held, and
\* what it adds to the approved balance is what it adds to the rows.
Balanced == EarnedOrHeld /\ LedgerReconciles

Entry(u, dA, dT, dH, dN, dU) ==
    /\ dT = dA + dH
    /\ dA = dN + dU
    /\ \A v \in Users \ {u} :
          /\ account'[v] = account[v] /\ held'[v] = held[v]
          /\ ledger'[v] = ledger[v] /\ unlogged'[v] = unlogged[v]
    /\ u \notin clobbered' =>
          /\ account'[u].approved = account[u].approved + dA
          /\ account'[u].totalEarned = account[u].totalEarned + dT
    /\ held'[u] = held[u] + dH
    /\ ledger'[u].net = ledger[u].net + dN
    /\ unlogged'[u] = unlogged[u] + dU
    /\ clobbered' = clobbered \/ clobbered' = clobbered \cup {u}

\* A step that books the same amount on both sides keeps the books balanced.
LEMMA BooksKept ==
    ASSUME Shape, Balanced, NEW u \in Users,
           NEW dA \in Int, NEW dT \in Int, NEW dH \in Int, NEW dN \in Int, NEW dU \in Int,
           Entry(u, dA, dT, dH, dN, dU)
    PROVE  Balanced'
<1>1. /\ account[u].approved \in Int /\ account[u].totalEarned \in Int
      /\ held[u] \in Int /\ ledger[u].net \in Int /\ unlogged[u] \in Int
  BY DEF Shape, TypeOK, DocTypeOK, WalletBalance, Ledger
<1>2. u \notin clobbered' =>
        /\ account'[u].totalEarned = account'[u].approved + held'[u]
        /\ account'[u].approved = ledger'[u].net + unlogged'[u]
  BY <1>1 DEF Entry, Balanced, EarnedOrHeld, LedgerReconciles
<1>3. \A v \in Users \ {u} : v \notin clobbered' =>
        /\ account'[v].totalEarned = account'[v].approved + held'[v]
        /\ account'[v].approved = ledger'[v].net + unlogged'[v]
  BY DEF Entry, Balanced, EarnedOrHeld, LedgerReconciles
<1> QED BY <1>2, <1>3 DEF Balanced, EarnedOrHeld, LedgerReconciles

\* A transaction that commits is not stale where it writes.
LEMMA CommitIsExact ==
    ASSUME NEW r, NEW mem, Commit(r, mem)
    PROVE  /\ copy[r].stale \cap ModifiedPaths(r, mem) = {}
           /\ account' = [account EXCEPT ![copy[r].user] = Stored(r, mem)]
           /\ clobbered' = clobbered
BY DEF Commit

\* The claim's transaction books its profit on both sides.
LEMMA BalancedClaim ==
    ASSUME Shape, Fresh, Balanced, NEW r \in Requests, ClaimApply(r)
    PROVE  Balanced'
<1> DEFINE u == job[r].user
           amount == ProfitOf(copy[r].doc.approved)
<1>1. /\ job[r].op \in Holding /\ u \in Users /\ amount \in Int
  BY InHand, ProfitType DEF ClaimApply, Is, Holding
<1>2. /\ Commit(r, Earned(r, amount))
      /\ UNCHANGED <<held, unlogged>>
      /\ ledger'[u].net = ledger[u].net + amount
      /\ \A v \in Users \ {u} : ledger'[v] = ledger[v]
  BY <1>1 DEF ClaimApply, Log, Shape, TypeOK
<1>3. Applied(u, r, amount, amount) /\ clobbered' = clobbered
  BY <1>1, <1>2, CommitIsExact, ExactEarned
<1> HIDE DEF u, amount
<1>4. held[u] \in Int /\ unlogged[u] \in Int
  BY <1>1 DEF Shape, TypeOK
<1>5. held'[u] = held[u] + 0 /\ unlogged'[u] = unlogged[u] + 0
  BY <1>2, <1>4
<1>6. Entry(u, amount, amount, 0, amount, 0)
  BY <1>1, <1>2, <1>3, <1>5 DEF Applied, Entry
<1> QED BY <1>1, <1>6, BooksKept

\* The withdrawal's transaction books its debit on both sides.
LEMMA BalancedWithdraw ==
    ASSUME Shape, Fresh, Balanced, NEW r \in Requests, NEW w \in Withdrawals,
           WithdrawCommit(r, w)
    PROVE  Balanced'
<1> DEFINE u == job[r].user
           a == job[r].amount
<1>1. /\ job[r].op \in Holding /\ u \in Users /\ a \in Int /\ 0 - a \in Int
  BY InHand DEF WithdrawCommit, Is, Holding
<1>2. held[u] \in Int /\ unlogged[u] \in Int /\ ledger[u].net \in Int
  BY <1>1 DEF Shape, TypeOK, Ledger
<1>3. /\ Commit(r, Moved(r, 0 - a))
      /\ UNCHANGED unlogged
      /\ held'[u] = held[u] + a
      /\ ledger'[u].net = ledger[u].net - a
      /\ \A v \in Users \ {u} : ledger'[v] = ledger[v] /\ held'[v] = held[v]
  BY <1>1 DEF WithdrawCommit, Log, Shape, TypeOK
<1>4. Applied(u, r, 0 - a, 0) /\ clobbered' = clobbered
  BY <1>1, <1>3, CommitIsExact, ExactMoved
<1> HIDE DEF u, a
<1>5. /\ unlogged'[u] = unlogged[u] + 0
      /\ ledger'[u].net = ledger[u].net + (0 - a)
      /\ 0 = (0 - a) + a /\ 0 - a = (0 - a) + 0
  BY <1>1, <1>2, <1>3
<1>6. Entry(u, 0 - a, 0, a, 0 - a, 0)
  BY <1>3, <1>4, <1>5 DEF Applied, Entry
<1> QED BY <1>1, <1>6, BooksKept

\* The rejection's transaction books its refund on both sides.
LEMMA BalancedReject ==
    ASSUME Shape, Fresh, Balanced, NEW r \in Requests, RejectCommit(r)
    PROVE  Balanced'
<1> DEFINE u == job[r].user
           a == job[r].amount
<1>1. /\ job[r].op \in Holding /\ u \in Users /\ a \in Int /\ 0 - a \in Int
  BY InHand DEF RejectCommit, Is, Holding
<1>2. held[u] \in Int /\ unlogged[u] \in Int /\ ledger[u].net \in Int
  BY <1>1 DEF Shape, TypeOK, Ledger
<1>3. /\ Commit(r, Moved(r, a))
      /\ UNCHANGED unlogged
      /\ held'[u] = held[u] - a
      /\ ledger'[u].net = ledger[u].net + a
      /\ \A v \in Users \ {u} : ledger'[v] = ledger[v] /\ held'[v] = held[v]
  BY <1>1 DEF RejectCommit, RejectApply, Log, Shape, TypeOK
<1>4. Applied(u, r, a, 0) /\ clobbered' = clobbered
  BY <1>1, <1>3, CommitIsExact, ExactMoved
<1> HIDE DEF u, a
<1>5. /\ unlogged'[u] = unlogged[u] + 0
      /\ held'[u] = held[u] + (0 - a)
      /\ 0 = a + (0 - a) /\ a = a + 0
  BY <1>1, <1>2, <1>3
<1>6. Entry(u, a, 0, 0 - a, a, 0)
  BY <1>3, <1>4, <1>5 DEF Applied, Entry
<1> QED BY <1>1, <1>6, BooksKept

\* A credit that overwrites nothing is booked, its row still owed.
LEMMA BalancedCreditSave ==
    ASSUME Shape, Fresh, Balanced, NEW r \in Requests, CreditSave(r)
    PROVE  Balanced'
<1> DEFINE u == job[r].user
           a == job[r].amount
<1>1. /\ job[r].op \in Holding /\ u \in Users /\ a \in Int /\ copy[r].user = u
  BY InHand DEF CreditSave, Is, Holding
<1>2. held[u] \in Int /\ unlogged[u] \in Int /\ ledger[u].net \in Int
  BY <1>1 DEF Shape, TypeOK, Ledger
<1>3. /\ Save(r, Earned(r, a))
      /\ UNCHANGED <<held, ledger>>
      /\ unlogged'[u] = unlogged[u] + a
      /\ \A v \in Users \ {u} : unlogged'[v] = unlogged[v]
  BY <1>1 DEF CreditSave, Shape, TypeOK
<1>4. /\ account' = [account EXCEPT ![copy[r].user] = Stored(r, Earned(r, a))]
      /\ clobbered' = clobbered \/ clobbered' = clobbered \cup {u}
      /\ u \notin clobbered' => copy[r].stale \cap ModifiedPaths(r, Earned(r, a)) = {}
  BY <1>1, <1>3 DEF Save
<1>5. u \notin clobbered' => Applied(u, r, a, a)
  BY <1>1, <1>4, ExactEarned
<1>6. \A v \in Users \ {u} : account'[v] = account[v]
  BY <1>1, <1>4 DEF Shape, TypeOK, DocTypeOK
<1> HIDE DEF u, a
<1>7. /\ held'[u] = held[u] + 0
      /\ ledger'[u].net = ledger[u].net + 0
      /\ a = a + 0 /\ a = 0 + a
  BY <1>1, <1>2, <1>3
<1>8. Entry(u, a, a, 0, 0, a)
  BY <1>3, <1>4, <1>5, <1>6, <1>7 DEF Applied, Entry
<1>9. u \in Users /\ a \in Int /\ 0 \in Int
  BY <1>1
<1> QED BY <1>8, <1>9, BooksKept

\* The credit's row is written, and no longer owed.
LEMMA BalancedCreditLog ==
    ASSUME Shape, Balanced, NEW r \in Requests, CreditLog(r)
    PROVE  Balanced'
<1> DEFINE u == job[r].user
           a == job[r].amount
<1>1. /\ job[r].op \in Holding /\ u \in Users /\ a \in Int /\ 0 - a \in Int
  BY InHand DEF CreditLog, Is, Holding
<1>2. /\ held[u] \in Int /\ unlogged[u] \in Int /\ ledger[u].net \in Int
      /\ account[u].approved \in Int /\ account[u].totalEarned \in Int
  BY <1>1 DEF Shape, TypeOK, DocTypeOK, WalletBalance, Ledger
<1>3. /\ UNCHANGED <<account, clobbered, held>>
      /\ ledger'[u].net = ledger[u].net + a
      /\ unlogged'[u] = unlogged[u] - a
      /\ \A v \in Users \ {u} : ledger'[v] = ledger[v] /\ unlogged'[v] = unlogged[v]
  BY <1>1 DEF CreditLog, Release, Log, Shape, TypeOK
<1> HIDE DEF u, a
<1>4. /\ held'[u] = held[u] + 0
      /\ account'[u].approved = account[u].approved + 0
      /\ account'[u].totalEarned = account[u].totalEarned + 0
      /\ unlogged'[u] = unlogged[u] + (0 - a)
      /\ 0 = 0 + 0 /\ 0 = a + (0 - a)
  BY <1>1, <1>2, <1>3
<1>5. Entry(u, 0, 0, 0, a, 0 - a)
  BY <1>3, <1>4 DEF Entry
<1> QED BY <1>1, <1>5, BooksKept

\* With Shape and Fresh, the balanced books are inductive.
LEMMA BalancedStep == Shape /\ Fresh /\ Balanced /\ [Next]_vars => Balanced'
<1> SUFFICES ASSUME Shape, Fresh, Balanced, [Next]_vars PROVE Balanced'
  OBVIOUS
<1>1. ASSUME UNCHANGED <<account, clobbered, held, ledger, unlogged>>
      PROVE  Balanced'
  BY <1>1 DEF Balanced, EarnedOrHeld, LedgerReconciles
<1>2. ASSUME NEW r \in Requests, Arrive(r) PROVE Balanced'
  BY <1>1, <1>2 DEF Arrive, ClaimStart, WithdrawFind, RejectFind, CreditFind,
                    Find, docVars, history
<1>3. ASSUME NEW r \in Requests,
             \/ ClaimFind(r) \/ ClaimRetry(r) \/ ClaimAbort(r) \/ ClaimUndo(r)
             \/ WithdrawRetry(r) \/ RejectRetry(r) \/ Drop(r)
      PROVE  Balanced'
  BY <1>1, <1>3 DEF ClaimFind, ClaimRetry, ClaimAbort, ClaimUndo, WithdrawRetry,
                    RejectRetry, Drop, Find, Release, docVars, history
<1>4. ASSUME NEW r \in Requests, Step(r) PROVE Balanced'
  BY <1>3, <1>4, BalancedClaim, BalancedWithdraw, BalancedReject,
     BalancedCreditSave, BalancedCreditLog DEF Step, ClaimCommit, ClaimReplyLost
<1>5. CASE \/ \E w \in Withdrawals : ApproveWithdrawal(w)
           \/ \E u \in Users : ClaimKeyExpires(u)
           \/ UNCHANGED vars
  BY <1>1, <1>5 DEF ApproveWithdrawal, ClaimKeyExpires, docVars, history, vars
<1> QED BY <1>2, <1>3, <1>4, <1>5 DEF Next

\* The books are balanced at first.
LEMMA BalancedInit == Init => Balanced
<1> SUFFICES ASSUME Init PROVE Balanced
  OBVIOUS
<1>1. Opening \in Nat
  BY WalletAssumption
<1> QED BY <1>1 DEF Init, Balanced, EarnedOrHeld, LedgerReconciles

\* The books are balanced in every reachable state.
LEMMA BalancedInvariant == Spec => []Balanced
BY BalancedInit, BalancedStep, ShapeInvariant, CopiesFresh, PTL DEF Spec

\* Under the same condition the rows add up to the balance, but for credits
\* whose row was not written.
THEOREM Reconciles == Spec => []LedgerReconciles
<1>1. Balanced => LedgerReconciles
  BY DEF Balanced
<1> QED BY <1>1, BalancedInvariant, PTL

-----------------------------------------------------------------------------
\* What NoOverdraft rests on: nobody who was never given less than nothing has
\* a negative balance, stored or read, and a withdrawal between its check and
\* its debit holds a copy that covers it, whoever asks.
InTheBlack == \A u \in Users \ docked : account[u].approved >= 0

Solvent ==
    /\ InTheBlack
    /\ \A r \in Requests :
         /\ copy[r].user \notin docked => copy[r].doc.approved >= 0
         /\ job[r].op = "withdrawTxn" => job[r].amount <= copy[r].doc.approved

\* How a step of UserDocument keeps what is stored and copied non-negative.
LEMMA SolventDoc ==
    ASSUME Shape, Solvent, NEW r \in Requests, docked \subseteq docked',
           \/ UNCHANGED docVars
           \/ Release(r)
           \/ \E u \in Users : Find(r, u)
           \/ \E mem \in WalletBalance :
                /\ copy[r].user \notin docked' => mem.approved >= 0
                /\ copy[r].user \in Users
                /\ Commit(r, mem) \/ Save(r, mem)
    PROVE  /\ InTheBlack'
           /\ copy'[r].user \notin docked' => copy'[r].doc.approved >= 0
           /\ \A q \in Requests \ {r} : /\ copy'[q].doc = copy[q].doc
                                        /\ copy'[q].user = copy[q].user
<1> DEFINE Kept == /\ InTheBlack'
                   /\ copy'[r].user \notin docked' => copy'[r].doc.approved >= 0
                   /\ \A q \in Requests \ {r} : /\ copy'[q].doc = copy[q].doc
                                                /\ copy'[q].user = copy[q].user
<1> SUFFICES Kept
  OBVIOUS
<1>0. DocTypeOK
  BY DEF Shape, TypeOK
<1>1. NoCopy.doc.approved = 0
  BY DEF NoCopy, ZeroBalance
<1>2. ASSUME UNCHANGED docVars PROVE Kept
  BY <1>2 DEF docVars, Solvent, InTheBlack
<1>3. ASSUME Release(r) PROVE Kept
  BY <1>0, <1>1, <1>3, ReleaseType DEF Release, Solvent, InTheBlack
<1>4. ASSUME NEW u \in Users, Find(r, u)
      PROVE  Kept
  BY <1>0, <1>4, FindType DEF Find, Solvent, InTheBlack
<1>5. ASSUME NEW mem \in WalletBalance, copy[r].user \notin docked' => mem.approved >= 0,
             copy[r].user \in Users,
             account' = [account EXCEPT ![copy[r].user] = Stored(r, mem)]
      PROVE  InTheBlack'
  <2>1. copy[r].user \notin docked' => Stored(r, mem).approved >= 0
    BY <1>0, <1>5, StoredPaths DEF Solvent, InTheBlack
  <2> QED BY <1>0, <1>5, <2>1 DEF Solvent, InTheBlack, DocTypeOK
<1>6. ASSUME NEW mem \in WalletBalance, copy[r].user \notin docked' => mem.approved >= 0,
             copy[r].user \in Users, Commit(r, mem)
      PROVE  Kept
  <2>1. InTheBlack'
    BY <1>5, <1>6 DEF Commit
  <2> QED BY <1>0, <1>1, <1>6, <2>1, CommitType
<1>7. ASSUME NEW mem \in WalletBalance, copy[r].user \notin docked' => mem.approved >= 0,
             copy[r].user \in Users, Save(r, mem)
      PROVE  Kept
  <2>1. InTheBlack'
    BY <1>5, <1>7 DEF Save
  <2> QED BY <1>0, <1>7, <2>1, SaveType
<1> HIDE DEF Kept
<1> QED BY <1>2, <1>3, <1>4, <1>6, <1>7

\* A step of request r, given what it leaves r with.
LEMMA SolventMoved ==
    ASSUME Solvent, NEW r \in Requests, docked \subseteq docked', InTheBlack',
           copy'[r].user \notin docked' => copy'[r].doc.approved >= 0,
           \A q \in Requests \ {r} : /\ copy'[q].doc = copy[q].doc
                                     /\ copy'[q].user = copy[q].user
                                     /\ job'[q] = job[q],
           job'[r].op = "withdrawTxn" => job'[r].amount <= copy'[r].doc.approved
    PROVE  Solvent'
BY DEF Solvent

\* Whoever is given n >= 0 is not docked for it.
LEMMA GivenDocks ==
    ASSUME NEW u, NEW n \in Int, Given(u, n)
    PROVE  docked \subseteq docked' /\ (u \notin docked' => n >= 0)
BY DEF Given

\* What beginning, moving on and finishing do to the requests' jobs.
LEMMA JobMoves ==
    ASSUME Shape, NEW r \in Requests
    PROVE  /\ Finish(r) => /\ job'[r].op = "idle"
                           /\ \A q \in Requests \ {r} : job'[q] = job[q]
           /\ \A op \in Ops : Goto(r, op) =>
                 /\ job'[r].op = op
                 /\ \A q \in Requests \ {r} : job'[q] = job[q]
           /\ \A op \in Ops, u \in Users, w \in Withdrawals \cup {NoWithdrawal}, a \in Int :
                Begin(r, op, u, w, a) =>
                 /\ job'[r].op = op /\ job'[r].amount = a
                 /\ \A q \in Requests \ {r} : job'[q] = job[q]
<1>1. job \in [Requests -> Job]
  BY DEF Shape, TypeOK
<1>2. Finish(r) => /\ job'[r].op = "idle"
                   /\ \A q \in Requests \ {r} : job'[q] = job[q]
  BY <1>1 DEF Finish, Idle
<1>3. ASSUME NEW op \in Ops, Goto(r, op)
      PROVE  /\ job'[r].op = op
             /\ \A q \in Requests \ {r} : job'[q] = job[q]
  BY <1>1, <1>3 DEF Goto, Job
<1>4. ASSUME NEW op \in Ops, NEW u \in Users,
             NEW w \in Withdrawals \cup {NoWithdrawal}, NEW a \in Int, Begin(r, op, u, w, a)
      PROVE  /\ job'[r].op = op /\ job'[r].amount = a
             /\ \A q \in Requests \ {r} : job'[q] = job[q]
  BY <1>1, <1>4 DEF Begin
<1> QED BY <1>2, <1>3, <1>4

\* The first step of every operation keeps Solvent.
LEMMA SolventArrive ==
    ASSUME Shape, Solvent, NEW r \in Requests, Arrive(r)
    PROVE  Solvent'
<1> USE DEF Ops
<1>0. docked' = docked
  BY DEF Arrive, ClaimStart, WithdrawFind, RejectFind, CreditFind, history
<1>1. ASSUME NEW u \in Users, ClaimStart(r, u) PROVE Solvent'
  <2>1. UNCHANGED docVars /\ Begin(r, "claim", u, NoWithdrawal, 0)
    BY <1>1 DEF ClaimStart
  <2>2. job'[r].op = "claim" /\ \A q \in Requests \ {r} : job'[q] = job[q]
    BY <2>1, JobMoves
  <2> QED BY <2>1, <2>2, <1>0, SolventDoc, SolventMoved
<1>2. ASSUME NEW u \in Users, NEW a \in WithdrawAmounts, WithdrawFind(r, u, a)
      PROVE  Solvent'
  <2>1. /\ Find(r, u) /\ a <= account[u].approved
        /\ Begin(r, "withdrawTxn", u, NoWithdrawal, a) /\ a \in Nat
    BY <1>2, WalletAssumption DEF WithdrawFind
  <2>2. copy'[r].doc = account[u]
    BY <2>1, FindType DEF Shape, TypeOK
  <2>3. job'[r].amount = a /\ \A q \in Requests \ {r} : job'[q] = job[q]
    BY <2>1, JobMoves
  <2> QED BY <2>1, <2>2, <2>3, <1>0, SolventDoc, SolventMoved
<1>3. ASSUME NEW u \in Users, NEW a \in CreditAmounts, CreditFind(r, u, a)
      PROVE  Solvent'
  <2>1. Find(r, u) /\ Begin(r, "credit", u, NoWithdrawal, a) /\ a \in Int
    BY <1>3, WalletAssumption DEF CreditFind
  <2>2. job'[r].op = "credit" /\ \A q \in Requests \ {r} : job'[q] = job[q]
    BY <2>1, JobMoves
  <2> QED BY <2>1, <2>2, <1>0, SolventDoc, SolventMoved
<1>4. ASSUME NEW w \in Withdrawals, RejectFind(r, w)
      PROVE  Solvent'
  <2>1. withdrawal[w].user \in Users /\ withdrawal[w].amount \in Nat
    BY <1>4 DEF RejectFind, Shape, TypeOK, Withdrawal
  <2>2. /\ Find(r, withdrawal[w].user)
        /\ Begin(r, "rejectTxn", withdrawal[w].user, w, withdrawal[w].amount)
    BY <1>4 DEF RejectFind
  <2>3. job'[r].op = "rejectTxn" /\ \A q \in Requests \ {r} : job'[q] = job[q]
    BY <2>1, <2>2, JobMoves
  <2> QED BY <2>1, <2>2, <2>3, <1>0, SolventDoc, SolventMoved
<1> QED BY <1>1, <1>2, <1>3, <1>4 DEF Arrive

\* With Shape, Solvent is inductive.
LEMMA SolventStep == Shape /\ Solvent /\ [Next]_vars => Solvent'
<1> SUFFICES ASSUME Shape, Solvent, [Next]_vars PROVE Solvent'
  OBVIOUS
<1> USE DEF Ops
<1>1. ASSUME NEW r \in Requests, ClaimCommit(r) \/ ClaimReplyLost(r)
      PROVE  Solvent'
  <2> DEFINE amount == ProfitOf(copy[r].doc.approved)
             mem == Earned(r, amount)
  <2>1. /\ job[r].op \in Holding
        /\ Commit(r, mem)
        /\ Given(job[r].user, amount)
        /\ Finish(r) \/ Goto(r, "claimUndo")
    BY <1>1 DEF ClaimCommit, ClaimReplyLost, ClaimApply, Is, Holding
  <2>2. /\ copy[r].doc.approved \in Int /\ amount \in Int
        /\ copy[r].user = job[r].user /\ copy[r].user \in Users
        /\ mem \in WalletBalance /\ mem.approved = copy[r].doc.approved + amount
    BY <2>1, InHand, ProfitType
  <2> HIDE DEF mem, amount
  <2>3. docked \subseteq docked' /\ (copy[r].user \notin docked' => amount >= 0)
    BY <2>1, <2>2, GivenDocks
  <2>4. copy[r].user \notin docked' => mem.approved >= 0
    BY <2>2, <2>3 DEF Solvent
  <2> QED BY <2>1, <2>2, <2>3, <2>4, SolventDoc, JobMoves, SolventMoved
<1>2. ASSUME NEW r \in Requests, NEW w \in Withdrawals, WithdrawCommit(r, w)
      PROVE  Solvent'
  <2> DEFINE a == job[r].amount
             mem == Moved(r, 0 - a)
  <2>1. job[r].op = "withdrawTxn" /\ Commit(r, mem) /\ Finish(r) /\ docked' = docked
    BY <1>2 DEF WithdrawCommit, Is
  <2>2. job[r].op \in Holding
    BY <2>1 DEF Holding
  <2>3. a \in Int /\ 0 - a \in Int /\ a <= copy[r].doc.approved
    BY <2>1, <2>2, InHand DEF Solvent
  <2>4. mem \in WalletBalance /\ mem.approved >= 0 /\ copy[r].user \in Users
    BY <2>2, <2>3, InHand
  <2> HIDE DEF mem, a
  <2> QED BY <2>1, <2>4, SolventDoc, JobMoves, SolventMoved
<1>3. ASSUME NEW r \in Requests, RejectCommit(r)
      PROVE  Solvent'
  <2> DEFINE mem == Moved(r, job[r].amount)
  <2>1. /\ job[r].op \in Holding /\ job[r].op \in Asking
        /\ Commit(r, mem) /\ Finish(r) /\ docked' = docked
    BY <1>3 DEF RejectCommit, RejectApply, Is, Holding, Asking
  <2>2. job[r].amount \in Nat
    BY <2>1 DEF Shape
  <2>3. /\ mem \in WalletBalance /\ copy[r].user \in Users
        /\ copy[r].user \notin docked' => mem.approved >= 0
    BY <2>1, <2>2, InHand DEF Solvent
  <2> HIDE DEF mem
  <2> QED BY <2>1, <2>3, SolventDoc, JobMoves, SolventMoved
<1>4. ASSUME NEW r \in Requests, CreditSave(r)
      PROVE  Solvent'
  <2> DEFINE a == job[r].amount
             mem == Earned(r, a)
  <2>1. /\ job[r].op \in Holding /\ Save(r, mem) /\ Goto(r, "creditLog")
        /\ Given(job[r].user, a)
    BY <1>4 DEF CreditSave, Is, Holding
  <2>2. /\ copy[r].doc.approved \in Int /\ a \in Int
        /\ copy[r].user = job[r].user /\ copy[r].user \in Users
        /\ mem \in WalletBalance /\ mem.approved = copy[r].doc.approved + a
    BY <2>1, InHand
  <2> HIDE DEF mem, a
  <2>3. docked \subseteq docked' /\ (copy[r].user \notin docked' => a >= 0)
    BY <2>1, <2>2, GivenDocks
  <2>4. copy[r].user \notin docked' => mem.approved >= 0
    BY <2>2, <2>3 DEF Solvent
  <2> QED BY <2>1, <2>2, <2>3, <2>4, SolventDoc, JobMoves, SolventMoved
<1>5. ASSUME NEW r \in Requests, ClaimFind(r) \/ ClaimAbort(r) \/ ClaimUndo(r)
                                   \/ CreditLog(r) \/ Drop(r)
      PROVE  Solvent'
  <2>1. /\ UNCHANGED docVars \/ Release(r) \/ Find(r, job[r].user)
        /\ Finish(r) \/ Goto(r, "claimTxn") \/ Goto(r, "claimUndo")
        /\ job[r].op # "idle" /\ docked' = docked
    BY <1>5 DEF ClaimFind, ClaimAbort, ClaimUndo, CreditLog, Drop, Is, history
  <2>2. job[r].user \in Users
    BY <2>1 DEF Shape
  <2> QED BY <2>1, <2>2, SolventDoc, JobMoves, SolventMoved
<1>6. ASSUME NEW r \in Requests, ClaimRetry(r) \/ WithdrawRetry(r) \/ RejectRetry(r)
      PROVE  Solvent'
  <2>1. job[r].user \in Users /\ docked' = docked
    BY <1>6 DEF ClaimRetry, WithdrawRetry, RejectRetry, Is, Shape, history
  <2>2. CASE Release(r) /\ Finish(r)
    BY <2>1, <2>2, SolventDoc, JobMoves, SolventMoved
  <2>3. CASE /\ Find(r, job[r].user) /\ job' = job
             /\ job[r].op = "withdrawTxn" => job[r].amount <= account[job[r].user].approved
    <3>1. copy'[r].doc = account[job[r].user]
      BY <2>1, <2>3, FindType DEF Shape, TypeOK
    <3> QED BY <2>1, <2>3, <3>1, SolventDoc, SolventMoved
  <2> QED BY <1>6, <2>2, <2>3 DEF ClaimRetry, WithdrawRetry, RejectRetry, Is
<1>7. ASSUME NEW r \in Requests, Step(r) PROVE Solvent'
  BY <1>1, <1>2, <1>3, <1>4, <1>5, <1>6, <1>7 DEF Step
<1>8. CASE \/ \E w \in Withdrawals : ApproveWithdrawal(w)
           \/ \E u \in Users : ClaimKeyExpires(u)
           \/ UNCHANGED vars
  BY <1>8 DEF ApproveWithdrawal, ClaimKeyExpires, docVars, vars, history,
              Solvent, InTheBlack
<1> QED BY <1>5, <1>7, <1>8, SolventArrive DEF Next

\* Solvent holds at first.
LEMMA SolventInit == Init => Solvent
<1> SUFFICES ASSUME Init PROVE Solvent
  OBVIOUS
<1>1. Opening \in Nat
  BY WalletAssumption
<1> QED BY <1>1 DEF Init, Solvent, InTheBlack, NoCopy, ZeroBalance, Idle

\* No withdrawal ever takes an approved balance below zero, whatever runs
\* together, although creditUser may overwrite what a transaction wrote and
\* nothing checks the sign of what it credits; and nothing takes it there of a
\* user who never was given less than nothing.
THEOREM NeverNegative == Spec => NoOverdraft
<1> DEFINE Over == \A u \in Users :
                     held'[u] > held[u] \/ u \notin docked' => account'[u].approved >= 0
<1>1. ASSUME Shape, Solvent, Solvent', [Next]_vars, NEW u \in Users, held'[u] > held[u]
      PROVE  account'[u].approved >= 0
  <2>1. ASSUME NEW r \in Requests, NEW w \in Withdrawals, WithdrawCommit(r, w)
        PROVE  account'[u].approved >= 0
    <3> DEFINE a == job[r].amount
               mem == Moved(r, 0 - a)
    <3>1. /\ job[r].op = "withdrawTxn" /\ Commit(r, mem)
          /\ held' = [held EXCEPT ![job[r].user] = @ + a]
      BY <2>1 DEF WithdrawCommit, Is
    <3>2. job[r].op \in Holding
      BY <3>1 DEF Holding
    <3>3. /\ a \in Int /\ 0 - a \in Int /\ a <= copy[r].doc.approved
          /\ copy[r].user = job[r].user /\ copy[r].user \in Users
          /\ copy[r].doc \in WalletBalance /\ copy[r].doc.approved \in Int
      BY <1>1, <3>1, <3>2, InHand DEF Solvent
    <3>4. mem \in WalletBalance /\ mem.approved = copy[r].doc.approved + (0 - a)
      BY <1>1, <3>2, <3>3, InHand
    <3>5. u = copy[r].user /\ a # 0
      BY <1>1, <3>1, <3>3 DEF Shape, TypeOK
    <3> HIDE DEF mem, a
    <3>6. "approved" \in ModifiedPaths(r, mem)
      BY <3>3, <3>4, <3>5 DEF ModifiedPaths
    <3>7. Stored(r, mem).approved = mem.approved
      BY <1>1, <3>3, <3>4, <3>6, StoredPaths DEF Shape, TypeOK
    <3>8. account'[u] = Stored(r, mem)
      BY <1>1, <3>1, <3>3, <3>5 DEF Commit, Shape, TypeOK, DocTypeOK
    <3> QED BY <3>3, <3>4, <3>7, <3>8
  <2>2. ASSUME NEW r \in Requests, RejectCommit(r) PROVE FALSE
    <3>1. job[r].op \in Asking /\ held' = [held EXCEPT ![job[r].user] = @ - job[r].amount]
      BY <2>2 DEF RejectCommit, RejectApply, Is, Asking
    <3>2. job[r].amount \in Nat /\ held \in [Users -> Int]
      BY <1>1, <3>1 DEF Shape, TypeOK
    <3> QED BY <1>1, <3>1, <3>2
  <2>3. ASSUME held' = held PROVE FALSE
    BY <1>1, <2>3 DEF Shape, TypeOK
  <2>4. ASSUME NEW r \in Requests, Step(r) PROVE account'[u].approved >= 0
    BY <2>1, <2>2, <2>3, <2>4
       DEF Step, ClaimFind, ClaimCommit, ClaimReplyLost, ClaimApply, ClaimRetry,
           ClaimAbort, ClaimUndo, WithdrawRetry, RejectRetry, CreditSave, CreditLog, history
  <2>5. ASSUME NEW r \in Requests, Arrive(r) \/ Drop(r) PROVE FALSE
    BY <2>3, <2>5
       DEF Arrive, Drop, ClaimStart, WithdrawFind, RejectFind, CreditFind, history
  <2> QED BY <1>1, <2>3, <2>4, <2>5
          DEF Next, ApproveWithdrawal, ClaimKeyExpires, vars, history
<1>2. Shape /\ Solvent /\ Solvent' /\ [Next]_vars => [Over]_vars
  BY <1>1 DEF Solvent, InTheBlack
<1>3. Spec => []Solvent
  BY SolventInit, SolventStep, ShapeInvariant, PTL DEF Spec
<1> QED BY <1>2, <1>3, ShapeInvariant, PTL DEF Spec, NoOverdraft

-----------------------------------------------------------------------------
\* An approved withdrawal stays approved and is not refunded any more.
THEOREM ApprovalIsFinal == Spec => ApprovedIsFinal
<1> DEFINE Final == \A w \in Withdrawals :
                      withdrawal[w].status = "approved" =>
                        /\ withdrawal'[w].status = "approved"
                        /\ w \in refunded' => w \in refunded
<1>1. ASSUME Shape, [Next]_vars PROVE Final
  <2>1. ASSUME NEW r \in Requests, NEW w \in Withdrawals, WithdrawCommit(r, w)
        PROVE  Final
    BY <1>1, <2>1 DEF WithdrawCommit, Shape, TypeOK
  <2>2. ASSUME NEW r \in Requests, RejectCommit(r) PROVE Final
    BY <1>1, <2>2 DEF RejectCommit, RejectApply, Shape, TypeOK
  <2>3. ASSUME NEW w \in Withdrawals, ApproveWithdrawal(w) PROVE Final
    BY <1>1, <2>3 DEF ApproveWithdrawal, history, Shape, TypeOK, Withdrawal
  <2>4. CASE UNCHANGED <<withdrawal, refunded>>
    BY <2>4
  <2>5. ASSUME NEW r \in Requests, Step(r) PROVE Final
    BY <2>1, <2>2, <2>4, <2>5
       DEF Step, ClaimFind, ClaimCommit, ClaimReplyLost, ClaimApply, ClaimRetry,
           ClaimAbort, ClaimUndo, WithdrawRetry, RejectRetry, CreditSave, CreditLog, history
  <2>6. ASSUME NEW r \in Requests, Arrive(r) \/ Drop(r) PROVE Final
    BY <2>4, <2>6
       DEF Arrive, Drop, ClaimStart, WithdrawFind, RejectFind, CreditFind, history
  <2> QED BY <1>1, <2>3, <2>4, <2>5, <2>6 DEF Next, ClaimKeyExpires, vars, history
<1>2. Shape /\ [Next]_vars => [Final]_vars
  BY <1>1
<1> QED BY <1>2, ShapeInvariant, PTL DEF Spec, ApprovedIsFinal

-----------------------------------------------------------------------------
\* A row written by a transaction quotes the stored balance before and after
\* the very change it is the record of.
Honest ==
    \A u \in Users :
      /\ ledger'[u] # ledger[u]
      /\ ledger'[u].last.type # "admin_credit"
      /\ ledger'[u].last.amount # 0
      => /\ ledger'[u].last.balanceBefore = account[u].approved
         /\ ledger'[u].last.balanceAfter = account'[u].approved

\* A row that quotes what an exact save read and wrote is an honest row.
LEMMA LoggedHonest ==
    ASSUME Shape, NEW r \in Requests, NEW u \in Users,
           NEW type \in {"profit_claim", "withdrawal_debit", "withdrawal_refund"},
           NEW amount \in Int, NEW n \in Int, n = 0 => amount = 0,
           NEW t \in Int, Applied(u, r, n, t),
           NEW before \in Int, before = copy[r].doc.approved,
           NEW after \in Int, after = before + n,
           Log(u, type, amount, before, after)
    PROVE  Honest
<1>1. ledger \in [Users -> Ledger]
  BY DEF Shape, TypeOK
<1>2. /\ ledger'[u].last.amount = amount
      /\ ledger'[u].last.balanceBefore = before
      /\ ledger'[u].last.balanceAfter = after
      /\ \A v \in Users \ {u} : ledger'[v] = ledger[v]
  BY <1>1 DEF Log
<1> QED BY <1>2 DEF Honest, Applied

\* Taking y away is adding -y.
LEMMA Debit ==
    \A x, y \in Int : /\ 0 - y \in Int /\ x - y \in Int
                      /\ x - y = x + (0 - y)
                      /\ 0 - y = 0 => y = 0
OBVIOUS

\* Every step of the wallet writes an honest row, or none.
LEMMA HonestStep == Shape /\ Fresh /\ [Next]_vars => Honest
<1> SUFFICES ASSUME Shape, Fresh, [Next]_vars PROVE Honest
  OBVIOUS
<1>1. CASE UNCHANGED ledger
  BY <1>1 DEF Honest
<1>2. ASSUME NEW r \in Requests, ClaimApply(r) PROVE Honest
  <2> DEFINE u == job[r].user
             before == copy[r].doc.approved
             amount == ProfitOf(before)
             after == before + amount
  <2>1. /\ job[r].op \in Holding /\ u \in Users
        /\ before \in Int /\ amount \in Int /\ after \in Int
    BY <1>2, InHand, ProfitType DEF ClaimApply, Is, Holding
  <2>2. Commit(r, Earned(r, amount)) /\ Log(u, "profit_claim", amount, before, after)
    BY <1>2 DEF ClaimApply
  <2>3. Applied(u, r, amount, amount)
    BY <2>1, <2>2, CommitIsExact, ExactEarned
  <2>4. before = copy[r].doc.approved /\ after = before + amount
    OBVIOUS
  <2> HIDE DEF u, before, amount, after
  <2> QED BY <2>1, <2>2, <2>3, <2>4, LoggedHonest
<1>3. ASSUME NEW r \in Requests, NEW w \in Withdrawals, WithdrawCommit(r, w) PROVE Honest
  <2> DEFINE u == job[r].user
             before == copy[r].doc.approved
             amount == job[r].amount
             n == 0 - amount
             after == before - amount
  <2>1. /\ job[r].op \in Holding /\ u \in Users
        /\ before \in Int /\ amount \in Int
    BY <1>3, InHand DEF WithdrawCommit, Is, Holding
  <2>2. Commit(r, Moved(r, n)) /\ Log(u, "withdrawal_debit", amount, before, after)
    BY <1>3 DEF WithdrawCommit
  <2>3. before = copy[r].doc.approved
    OBVIOUS
  <2> HIDE DEF before, amount
  <2>4. n \in Int /\ after \in Int /\ after = before + n /\ (n = 0 => amount = 0)
    BY <2>1, Debit
  <2> HIDE DEF n, after
  <2>5. /\ copy[r].stale \cap ModifiedPaths(r, Moved(r, n)) = {}
        /\ account' = [account EXCEPT ![copy[r].user] = Stored(r, Moved(r, n))]
    BY <2>2, CommitIsExact
  <2>6. Applied(u, r, n, 0)
    <3>1. job[r].op \in Holding /\ n \in Int
      BY <2>1, <2>4
    <3> QED BY <2>5, <3>1, ExactMoved
  <2> HIDE DEF u
  <2>7. u \in Users /\ before \in Int /\ amount \in Int /\ 0 \in Int
    BY <2>1
  <2> QED BY <2>2, <2>3, <2>4, <2>6, <2>7, LoggedHonest
<1>4. ASSUME NEW r \in Requests, RejectCommit(r) PROVE Honest
  <2> DEFINE u == job[r].user
             before == copy[r].doc.approved
             amount == job[r].amount
             after == before + amount
  <2>1. /\ job[r].op \in Holding /\ u \in Users
        /\ before \in Int /\ amount \in Int /\ after \in Int
    BY <1>4, InHand DEF RejectCommit, Is, Holding
  <2>2. Commit(r, Moved(r, amount)) /\ Log(u, "withdrawal_refund", amount, before, after)
    BY <1>4 DEF RejectCommit, RejectApply
  <2>3. Applied(u, r, amount, 0) /\ 0 \in Int
    BY <2>1, <2>2, CommitIsExact, ExactMoved
  <2>4. before = copy[r].doc.approved /\ after = before + amount
    OBVIOUS
  <2> HIDE DEF u, before, amount, after
  <2> QED BY <2>1, <2>2, <2>3, <2>4, LoggedHonest
<1>5. ASSUME NEW r \in Requests, CreditLog(r) PROVE Honest
  <2>1. job[r].user \in Users /\ ledger \in [Users -> Ledger]
    BY <1>5 DEF CreditLog, Is, Shape, TypeOK
  <2> QED BY <1>5, <2>1 DEF CreditLog, Log, Honest
<1>6. ASSUME NEW r \in Requests, Step(r) PROVE Honest
  BY <1>1, <1>2, <1>3, <1>4, <1>5, <1>6
     DEF Step, ClaimFind, ClaimCommit, ClaimReplyLost, ClaimRetry, ClaimAbort,
         ClaimUndo, WithdrawRetry, RejectRetry, CreditSave
<1>7. ASSUME NEW r \in Requests, Arrive(r) \/ Drop(r) PROVE Honest
  BY <1>1, <1>7 DEF Arrive, Drop, ClaimStart, WithdrawFind, RejectFind, CreditFind
<1> QED BY <1>1, <1>6, <1>7 DEF Next, ApproveWithdrawal, ClaimKeyExpires, vars

\* LedgerHonest: every row of a transaction quotes the balance before and
\* after its own change, whatever other requests were writing meanwhile.
THEOREM LedgerIsHonest == Spec => LedgerHonest
<1>1. Honest => \A u \in Users :
                   LET row == ledger'[u].last
                   IN  /\ ledger'[u] # ledger[u]
                       /\ row.type # "admin_credit"
                       /\ row.amount # 0
                       => /\ row.balanceBefore = account[u].approved
                          /\ row.balanceAfter = account'[u].approved
  BY DEF Honest
<1> QED BY <1>1, HonestStep, ShapeInvariant, CopiesFresh, PTL DEF Spec, LedgerHonest
=============================================================================
