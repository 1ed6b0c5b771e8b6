--------------------------- MODULE ReferralProofs ---------------------------
(***************************************************************************)
(* What holds of Referral for every number of referrers, registrations and *)
(* requests, any milestones and all bonuses: the types, that a referrer is *)
(* paid at most once for each e-mail, that a milestone is never paid early *)
(* and, for a referrer whose sign-ups neither overlapped nor broke off,    *)
(* that each is paid exactly once; that the balance is what the rows and   *)
(* the bonuses without a row add up to, and these are what was paid; that  *)
(* the statistics report just that; and that referrals implement Earnings. *)
(***************************************************************************)
EXTENDS Referral, UserDocumentProofs

Unpaid == {"signup", "signupPay"}

Triggering == {"milestonePay", "milestoneLog"}

Decided == Triggering \cup {"insert"}

Paid == {"signupLog", "count"} \cup Decided

\* What a request in the middle of a registration knows: who is registered, and
\* from there on the referrer, whether the bonus is paid, and the milestone.
JobFits(r) ==
    LET j == job[r]
    IN  /\ j.op # "idle" => j.email \in Emails
        /\ j.op \in Unpaid \cup Paid =>
             /\ j.user \in Users
             /\ referredBy[j.email] = j.user
             /\ referral[j.email] = NoReferral
        /\ j.op \in {"signupPay"} \cup Paid => copy[r].user = j.user
        /\ j.op \in Unpaid => bonuses[j.email] = 0
        /\ j.op \in Paid => bonuses[j.email] = 1
        /\ j.op \in Triggering => j.milestone \in Milestones

\* What is stored of an e-mail: no bonus before its user, none twice, and no
\* referral but for a bonus that was paid, to the referrer of the user.
EmailFits(e) ==
    /\ referredBy[e] = NoAccount => bonuses[e] = 0 /\ referral[e] = NoReferral
    /\ bonuses[e] <= 1
    /\ bonuses[e] = 1 => referredBy[e] \in Users
    /\ referral[e] # NoReferral =>
          bonuses[e] = 1 /\ referral[e].referrerId = referredBy[e]

\* One registration of an e-mail at most goes on to the bonus.
OnePayer ==
    \A r, q \in Requests :
        r # q /\ Paying(r) /\ Paying(q) => job[r].email # job[q].email

\* The inductive invariant behind the bonus of each e-mail.
Shape ==
    /\ TypeOK
    /\ \A r \in Requests : JobFits(r)
    /\ \A e \in Emails : EmailFits(e)
    /\ OnePayer

\* A milestone is decided upon, and paid, no earlier than it is reached.
NotEarly ==
    /\ MilestoneNotEarly
    /\ \A r \in Requests : Is(r, "milestonePay") =>
         Cardinality(Referred(job[r].user)) >= job[r].milestone - 1

\* A referrer whose sign-ups neither overlapped nor broke off.
Clean(u) == u \notin raced /\ \A e \in lost : referredBy[e] # u

\* The milestone the next referral of u reaches, or 0.
Coming(u) ==
    LET n == Cardinality(Referred(u)) + 1
    IN  IF n \in Milestones THEN n ELSE 0

\* r has paid u the milestone m and has not inserted the referral yet.
AheadOf(r, u, m) ==
    /\ job[r].op \in {"milestoneLog", "insert"}
    /\ job[r].user = u
    /\ job[r].milestone = m

\* The milestones paid for a referral that is still to be inserted.
Ahead(u) == {m \in Milestones : \E r \in Requests : AheadOf(r, u, m)}

\* What MilestonesExact becomes in the middle of a sign-up.
ExactFor(u) ==
    /\ \A r, q \in Requests :
         Paying(r) /\ Paying(q) /\ job[r].user = u /\ job[q].user = u => r = q
    /\ \A r \in Requests :
         job[r].op \in Decided /\ job[r].user = u => job[r].milestone = Coming(u)
    /\ \A m \in Milestones :
         milestones[u][m] = IF m <= Cardinality(Referred(u)) \/ m \in Ahead(u)
                              THEN 1 ELSE 0

\* The inductive invariant behind MilestonesExact; a request that has not counted
\* yet has no milestone in hand.
Exact ==
    /\ \A u \in Users : Clean(u) => ExactFor(u)
    /\ \A r \in Requests : job[r].op \notin Decided => job[r].milestone = 0

-----------------------------------------------------------------------------
\* What Shape says of everything but the user documents and the jobs.
StoreOK ==
    /\ referredBy \in [Emails -> Users \cup {NoUser, NoAccount}]
    /\ referral \in [Emails -> Referral]
    /\ logged \in [Users -> Nat]
    /\ bonuses \in [Emails -> Nat]
    /\ milestones \in [Users -> [Milestones -> Nat]]
    /\ unlogged \in [Users -> Int]
    /\ raced \in SUBSET Users
    /\ lost \in SUBSET Emails

\* It is part of Shape, and so is what a request has in hand.
LEMMA ShapeHas == Shape => StoreOK /\ DocTypeOK
BY DEF Shape, TypeOK, StoreOK

\* A request's job, what it knows and its copy.
LEMMA InHand ==
    ASSUME Shape, NEW r \in Requests
    PROVE  /\ job \in [Requests -> Job] /\ job[r] \in Job
           /\ JobFits(r) /\ copy[r] \in Copies
BY DEF Shape, TypeOK, DocTypeOK

\* Paying, by the points of the handler.
LEMMA PayingOps ==
    ASSUME Shape, NEW r \in Requests
    PROVE  Paying(r) <=> job[r].op \in Unpaid \cup Paid
<1>1. job[r].op \in Ops
  BY InHand DEF Job
<1> QED BY <1>1 DEF Paying, Ops, Unpaid, Paid, Decided, Triggering

\* A registration that pays, or that is about to store its user, has its e-mail
\* to itself: the unique index lets one of them through.
LEMMA Alone ==
    ASSUME Shape, NEW r \in Requests,
           Paying(r) \/ (Is(r, "create") /\ referredBy[job[r].email] = NoAccount)
    PROVE  \A q \in Requests \ {r} : Paying(q) => job[q].email # job[r].email
<1> SUFFICES ASSUME NEW q \in Requests \ {r}, Paying(q), ~ Paying(r)
             PROVE  job[q].email # job[r].email
  BY DEF Shape, OnePayer
<1>1. referredBy[job[q].email] \in Users
  BY PayingOps, InHand DEF JobFits
<1>2. NoAccount \notin Users
  BY ReferralAssumption
<1> QED BY <1>1, <1>2

\* The e-mails of the other registrations that pay are left alone.
OthersKeep(r) ==
    \A q \in Requests \ {r} : Paying(q) =>
        /\ referredBy'[job[q].email] = referredBy[job[q].email]
        /\ referral'[job[q].email] = referral[job[q].email]
        /\ bonuses'[job[q].email] = bonuses[job[q].email]

\* A step of one request that leaves that request and its e-mail in shape keeps
\* Shape.
LEMMA ShapeParts ==
    ASSUME Shape, NEW r \in Requests, NEW j \in Job,
           DocTypeOK', StoreOK', \A e \in Emails : EmailFits(e)',
           job' = [job EXCEPT ![r] = j], JobFits(r)', OthersKeep(r),
           j.op \in Unpaid \cup Paid =>
             \A q \in Requests \ {r} : Paying(q) => job[q].email # j.email,
           \A q \in Requests \ {r} : copy'[q].user = copy[q].user
    PROVE  Shape'
<1>1. job \in [Requests -> Job]
  BY InHand
<1>2. job' \in [Requests -> Job] /\ job'[r] = j
      /\ \A q \in Requests \ {r} : job'[q] = job[q]
  BY <1>1
<1>3. TypeOK'
  BY <1>2 DEF TypeOK, StoreOK
<1>4. ASSUME NEW q \in Requests \ {r}
      PROVE  JobFits(q)'
  <2>1. JobFits(q) /\ (Paying(q) <=> job[q].op \in Unpaid \cup Paid)
    BY InHand, PayingOps
  <2>2. CASE Paying(q)
    BY <1>2, <2>1, <2>2 DEF JobFits, OthersKeep
  <2>3. CASE ~ Paying(q)
    BY <1>2, <2>1, <2>3 DEF JobFits, Unpaid, Paid, Decided, Triggering
  <2> QED BY <2>2, <2>3
<1>5. \A q \in Requests : JobFits(q)'
  BY <1>4
<1>6. OnePayer'
  <2>1. j.op \in Ops
    BY DEF Job
  <2>2. Paying(r)' => j.op \in Unpaid \cup Paid
    BY <1>2, <2>1 DEF Paying, Ops, Unpaid, Paid, Decided, Triggering
  <2>3. \A q \in Requests \ {r} : Paying(q)' <=> Paying(q)
    BY <1>2 DEF Paying
  <2>4. ASSUME NEW p \in Requests, NEW q \in Requests, p # q, Paying(p)', Paying(q)'
        PROVE  job'[p].email # job'[q].email
    <3>1. CASE p # r /\ q # r
      BY <1>2, <2>3, <2>4, <3>1 DEF Shape, OnePayer
    <3>2. CASE p = r
      BY <1>2, <2>2, <2>3, <2>4, <3>2
    <3>3. CASE q = r
      BY <1>2, <2>2, <2>3, <2>4, <3>3
    <3> QED BY <3>1, <3>2, <3>3
  <2> QED BY <2>4 DEF OnePayer
<1> QED BY <1>3, <1>5, <1>6 DEF Shape

\* Where a step leaves the users, the referrals and the bonuses alone.
LEMMA EmailsKept ==
    ASSUME Shape, UNCHANGED <<referredBy, referral, bonuses>>
    PROVE  /\ \A e \in Emails : EmailFits(e)'
           /\ \A r \in Requests : OthersKeep(r)
<1>1. \A e \in Emails : EmailFits(e)'
  BY DEF Shape, EmailFits
<1> QED BY <1>1 DEF OthersKeep

\* A request that goes on keeps all it knows.
GoesOn(r, op, j) ==
    /\ job' = [job EXCEPT ![r] = j]
    /\ job'[r] = j
    /\ \A q \in Requests \ {r} : job'[q] = job[q]
    /\ j.op = op /\ j.email = job[r].email /\ j.user = job[r].user

\* Goto is such a step, and keeps the milestone too.
LEMMA GotoJob ==
    ASSUME Shape, NEW r \in Requests, NEW op \in Ops, Goto(r, op)
    PROVE  \E j \in Job : GoesOn(r, op, j) /\ j.milestone = job[r].milestone
<1> DEFINE j == [job[r] EXCEPT !.op = op]
<1>1. job[r] \in Job /\ job \in [Requests -> Job]
  BY InHand
<1>2. /\ j \in Job /\ j.op = op /\ j.email = job[r].email /\ j.user = job[r].user
      /\ j.milestone = job[r].milestone
  BY <1>1 DEF Job
<1>3. job' = [job EXCEPT ![r] = j] /\ job'[r] = j
      /\ \A q \in Requests \ {r} : job'[q] = job[q]
  BY <1>1, <1>2 DEF Goto
<1> HIDE DEF j
<1> QED BY <1>2, <1>3 DEF GoesOn

\* Idle is a job that knows nothing.
LEMMA IdleJob ==
    /\ Idle \in Job /\ Idle.op = "idle"
    /\ Idle.op \notin Unpaid \cup Paid
    /\ NoReferral \in Referral /\ NoReferral.referrerId = NoUser
BY DEF Idle, Job, Ops, NoReferral, Referral, Unpaid, Paid, Decided, Triggering

\* A request that is over leaves everybody in shape.
LEMMA FinishShape ==
    ASSUME Shape, NEW r \in Requests, Finish(r), DocTypeOK', StoreOK',
           \A e \in Emails : EmailFits(e)', OthersKeep(r),
           \A q \in Requests \ {r} : copy'[q].user = copy[q].user
    PROVE  Shape'
<1>1. job' = [job EXCEPT ![r] = Idle] /\ job'[r] = Idle
  BY InHand DEF Finish
<1>2. JobFits(r)'
  BY <1>1, IdleJob DEF JobFits, Unpaid, Paid, Decided, Triggering
<1> QED BY <1>1, <1>2, IdleJob, ShapeParts

\* A registration that pays goes on to a point that needs no more than it has.
LEMMA GoOnShape ==
    ASSUME Shape, NEW r \in Requests, NEW op, NEW j \in Job, GoesOn(r, op, j),
           Paying(r), JobFits(r)', OthersKeep(r), \A e \in Emails : EmailFits(e)',
           DocTypeOK', StoreOK',
           \A q \in Requests \ {r} : copy'[q].user = copy[q].user
    PROVE  Shape'
<1>1. \A q \in Requests \ {r} : Paying(q) => job[q].email # j.email
  BY Alone DEF GoesOn
<1>2. job' = [job EXCEPT ![r] = j]
  BY DEF GoesOn
<1> QED BY <1>1, <1>2, ShapeParts

-----------------------------------------------------------------------------
\* Nobody is registered, and no request is in the middle of anything.
LEMMA ShapeInit == Init => Shape
<1> SUFFICES ASSUME Init PROVE Shape
  OBVIOUS
<1>1. DocTypeOK
  BY NoCopyType DEF Init, DocTypeOK, ZeroBalance, WalletBalance
<1>2. TypeOK
  BY <1>1, IdleJob DEF Init, TypeOK
<1>3. \A r \in Requests : JobFits(r)
  BY IdleJob DEF Init, JobFits, Unpaid, Paid, Decided, Triggering
<1>4. \A e \in Emails : EmailFits(e)
  BY IdleJob DEF Init, EmailFits
<1>5. OnePayer
  BY IdleJob DEF Init, OnePayer, Paying
<1> QED BY <1>2, <1>3, <1>4, <1>5 DEF Shape

\* Where a step leaves the documents alone.
LEMMA DocUntouched ==
    ASSUME Shape, UNCHANGED docVars
    PROVE  /\ DocTypeOK' /\ copy' = copy
BY DEF Shape, TypeOK, DocTypeOK, docVars

\* register: the request knows the e-mail and the referrer, and no more.
LEMMA RegisterFindShape ==
    ASSUME Shape, NEW r \in Requests, NEW e \in Emails, NEW u \in Users \cup {NoUser},
           RegisterFind(r, e, u)
    PROVE  Shape'
<1> DEFINE j == [op |-> "create", email |-> e, user |-> u, milestone |-> 0]
<1>1. /\ job' = [job EXCEPT ![r] = j]
      /\ UNCHANGED <<docVars, referredBy, referral, logged, history>>
  BY DEF RegisterFind
<1>2. j \in Job /\ j.op = "create" /\ j.email = e
  BY DEF Job, Ops
<1> HIDE DEF j
<1>3. job'[r] = j
  BY <1>1, <1>2, InHand
<1>4. JobFits(r)'
  BY <1>2, <1>3 DEF JobFits, Unpaid, Paid, Decided, Triggering
<1>5. StoreOK'
  BY <1>1, ShapeHas DEF StoreOK, history
<1>6. (\A d \in Emails : EmailFits(d)') /\ OthersKeep(r)
  BY <1>1, EmailsKept DEF history
<1>7. j.op \notin Unpaid \cup Paid
  BY <1>2 DEF Unpaid, Paid, Decided, Triggering
<1> QED BY <1>1, <1>2, <1>4, <1>5, <1>6, <1>7, DocUntouched, ShapeParts

\* The user is stored: the e-mail is this registration's from here on.
LEMMA RegisterCreateShape ==
    ASSUME Shape, NEW r \in Requests, RegisterCreate(r)
    PROVE  Shape'
<1>1. PICK e \in Emails : e = job[r].email
  BY InHand DEF RegisterCreate, Is, JobFits
<1>2. PICK u \in Users \cup {NoUser} : u = job[r].user
  BY InHand DEF Job
<1>3. /\ Is(r, "create") /\ referredBy[e] = NoAccount
      /\ referredBy' = [referredBy EXCEPT ![e] = u]
      /\ UNCHANGED <<docVars, referral, logged, bonuses, milestones, unlogged, lost>>
      /\ raced' = raced \/ raced' = raced \cup {u}
      /\ u = NoUser => raced' = raced
      /\ IF u = NoUser THEN Finish(r) ELSE Goto(r, "signup")
  <2>1. \A q \in Requests : Paying(q) => job[q].user \in Users
    BY PayingOps, InHand DEF JobFits
  <2>2. u = NoUser => ~ \E q \in Requests \ {r} : Paying(q) /\ job[q].user = u
    BY <2>1, NoUserAssumption
  <2> QED BY <1>1, <1>2, <2>2 DEF RegisterCreate, Created
<1>4. StoreOK
  BY ShapeHas
<1>5. /\ referredBy' \in [Emails -> Users \cup {NoUser, NoAccount}]
      /\ referredBy'[e] = u /\ \A d \in Emails \ {e} : referredBy'[d] = referredBy[d]
  BY <1>3, <1>4 DEF StoreOK
<1>6. raced' \in SUBSET Users
  BY <1>3, <1>4 DEF StoreOK
<1>7. StoreOK'
  BY <1>3, <1>4, <1>5, <1>6 DEF StoreOK
<1>8. bonuses[e] = 0 /\ referral[e] = NoReferral
  BY <1>3 DEF Shape, EmailFits
<1>9. \A d \in Emails : EmailFits(d)'
  <2>1. EmailFits(e)'
    BY <1>3, <1>5, <1>8, ReferralAssumption DEF EmailFits
  <2>2. ASSUME NEW d \in Emails \ {e} PROVE EmailFits(d)'
    BY <1>3, <1>5, <2>2 DEF EmailFits, Shape
  <2> QED BY <2>1, <2>2
<1>10. \A q \in Requests \ {r} : Paying(q) => job[q].email # e
  BY <1>1, <1>3, Alone
<1>11. \A q \in Requests : Paying(q) => job[q].email \in Emails
  BY InHand DEF JobFits, Paying
<1>12. OthersKeep(r)
  BY <1>3, <1>5, <1>10, <1>11 DEF OthersKeep
<1>13. CASE u = NoUser
  BY <1>3, <1>7, <1>9, <1>12, <1>13, DocUntouched, FinishShape
<1>14. CASE u # NoUser
  <2>1. PICK j \in Job : GoesOn(r, "signup", j)
    BY <1>3, <1>14, GotoJob DEF Ops
  <2>2. job'[r] = j /\ j.op = "signup" /\ j.email = e /\ j.user = u
    BY <1>1, <1>2, <2>1 DEF GoesOn
  <2>3. JobFits(r)'
    BY <1>3, <1>5, <1>8, <1>14, <2>2 DEF JobFits, Unpaid, Paid, Decided, Triggering
  <2>4. job' = [job EXCEPT ![r] = j]
    BY <2>1 DEF GoesOn
  <2> QED BY <1>3, <1>7, <1>9, <1>10, <1>12, <2>2, <2>3, <2>4, DocUntouched, ShapeParts
<1> QED BY <1>13, <1>14

\* A registration that pays: its referrer, and what is stored of its e-mail.
PayerHas(r) ==
    /\ Paying(r)
    /\ job[r].user \in Users /\ job[r].email \in Emails
    /\ referredBy[job[r].email] = job[r].user
    /\ referral[job[r].email] = NoReferral
    /\ job[r].op # "signup" => copy[r].user = job[r].user
    /\ copy[r].doc \in WalletBalance

\* Every registration between the user and the referral is such a one.
LEMMA Payer ==
    ASSUME Shape, NEW r \in Requests, job[r].op \in Unpaid \cup Paid
    PROVE  PayerHas(r) /\ JobFits(r)
<1>1. Paying(r)
  BY PayingOps
<1>2. copy[r].doc \in WalletBalance
  BY InHand DEF Copies
<1> QED BY <1>1, <1>2, InHand
        DEF PayerHas, JobFits, Unpaid, Paid, Decided, Triggering

\* The referrer is loaded.
LEMMA SignupFindShape ==
    ASSUME Shape, NEW r \in Requests, SignupFind(r)
    PROVE  Shape'
<1> USE DEF Unpaid, Paid, Decided, Triggering
<1>1. job[r].op = "signup" /\ PayerHas(r) /\ JobFits(r)
  BY Payer DEF SignupFind, Is
<1>2. PICK j \in Job : GoesOn(r, "signupPay", j)
  BY GotoJob DEF SignupFind, Ops
<1>3. UNCHANGED <<referredBy, referral, logged, history>>
  BY DEF SignupFind
<1>4. PICK u \in Users : u = job[r].user
  BY <1>1 DEF PayerHas
<1>5. /\ DocTypeOK' /\ copy'[r].user = u
      /\ \A q \in Requests \ {r} : copy'[q] = copy[q]
  BY <1>4, ShapeHas, FindType DEF SignupFind
<1>6. StoreOK'
  BY <1>3, ShapeHas DEF StoreOK, history
<1>7. (\A e \in Emails : EmailFits(e)') /\ OthersKeep(r)
  BY <1>3, EmailsKept DEF history
<1>8. JobFits(r)'
  BY <1>1, <1>2, <1>3, <1>4, <1>5 DEF JobFits, GoesOn, PayerHas, history
<1>9. Paying(r)
  BY <1>1 DEF PayerHas
<1> QED BY <1>2, <1>5, <1>6, <1>7, <1>8, <1>9, GoOnShape

\* A bonus is a balance plus an amount, in two of its paths.
LEMMA CreditedType ==
    ASSUME NEW r \in Requests, copy[r].doc \in WalletBalance, NEW n \in Nat
    PROVE  /\ Credited(r, n) \in WalletBalance
           /\ Credited(r, n).pending = copy[r].doc.pending + n
           /\ Credited(r, n).approved = copy[r].doc.approved
           /\ Credited(r, n).totalEarned = copy[r].doc.totalEarned + n
<1> DEFINE d == [copy[r].doc EXCEPT !.pending = @ + n]
           c == [d EXCEPT !.totalEarned = @ + n]
<1>1. /\ d \in WalletBalance /\ d.pending = copy[r].doc.pending + n
      /\ d.approved = copy[r].doc.approved /\ d.totalEarned = copy[r].doc.totalEarned
  BY DEF WalletBalance
<1>2. Credited(r, n) = c
  BY DEF Credited, WalletBalance
<1> HIDE DEF d
<1>3. /\ c \in WalletBalance /\ c.pending = d.pending
      /\ c.approved = d.approved /\ c.totalEarned = d.totalEarned + n
  BY <1>1 DEF WalletBalance
<1> HIDE DEF c
<1> QED BY <1>1, <1>2, <1>3

\* Paying leaves the copies where they are, and the store in shape but for the
\* counts of what is paid, which the two callers update.
LEMMA PayKeeps ==
    ASSUME Shape, NEW r \in Requests, PayerHas(r), job[r].op # "signup",
           NEW n \in Nat, Pay(r, n)
    PROVE  /\ DocTypeOK'
           /\ \A q \in Requests : copy'[q].user = copy[q].user
           /\ unlogged' \in [Users -> Int]
           /\ UNCHANGED <<referredBy, referral, logged, raced, lost>>
<1>1. copy[r].user \in Users /\ copy[r].doc \in WalletBalance
      /\ job[r].user \in Users
  BY DEF PayerHas
<1>2. Credited(r, n) \in WalletBalance
  BY <1>1, CreditedType
<1>3. Save(r, Credited(r, n))
  BY DEF Pay
<1>4. DocTypeOK' /\ \A q \in Requests : copy'[q].user = copy[q].user
  BY <1>1, <1>2, <1>3, ShapeHas, SaveType
<1>5. unlogged \in [Users -> Int]
  BY ShapeHas DEF StoreOK
<1> QED BY <1>1, <1>4, <1>5 DEF Pay

\* The sign-up bonus: the first, and the last, of this e-mail.
LEMMA SignupPayShape ==
    ASSUME Shape, NEW r \in Requests, SignupPay(r)
    PROVE  Shape'
<1> USE DEF Unpaid, Paid, Decided, Triggering
<1>1. job[r].op = "signupPay" /\ PayerHas(r) /\ JobFits(r)
  BY Payer DEF SignupPay, Is
<1>2. PICK j \in Job : GoesOn(r, "signupLog", j)
  BY GotoJob DEF SignupPay, Ops
<1>3. PICK e \in Emails : e = job[r].email
  BY <1>1 DEF PayerHas
<1>4. /\ DocTypeOK'
      /\ \A q \in Requests : copy'[q].user = copy[q].user
      /\ unlogged' \in [Users -> Int]
      /\ UNCHANGED <<referredBy, referral, logged, raced, lost>>
  BY <1>1, PayKeeps, ReferralAssumption DEF SignupPay
<1>5. StoreOK /\ UNCHANGED milestones
      /\ bonuses' = [bonuses EXCEPT ![e] = @ + 1]
  BY <1>3, ShapeHas DEF SignupPay
<1>6. /\ bonuses[e] = 0 /\ bonuses' \in [Emails -> Nat] /\ bonuses'[e] = 1
      /\ \A d \in Emails \ {e} : bonuses'[d] = bonuses[d]
  BY <1>1, <1>3, <1>5 DEF StoreOK, JobFits
<1>7. StoreOK'
  BY <1>4, <1>5, <1>6 DEF StoreOK
<1>8. \A q \in Requests \ {r} : Paying(q) => job[q].email # e
  BY <1>1, <1>3, Alone DEF PayerHas
<1>9. \A q \in Requests : Paying(q) => job[q].email \in Emails
  BY InHand DEF JobFits, Paying
<1>10. OthersKeep(r)
  BY <1>4, <1>6, <1>8, <1>9 DEF OthersKeep
<1>11. \A d \in Emails : EmailFits(d)'
  <2>1. EmailFits(e)'
    BY <1>1, <1>3, <1>4, <1>6, ReferralAssumption DEF EmailFits, PayerHas
  <2>2. ASSUME NEW d \in Emails \ {e} PROVE EmailFits(d)'
    BY <1>4, <1>6, <2>2 DEF EmailFits, Shape
  <2> QED BY <2>1, <2>2
<1>12. JobFits(r)'
  BY <1>1, <1>2, <1>3, <1>4, <1>6 DEF JobFits, GoesOn, PayerHas
<1>13. Paying(r)
  BY <1>1 DEF PayerHas
<1> QED BY <1>2, <1>4, <1>7, <1>10, <1>11, <1>12, <1>13, GoOnShape

\* A row is written: the sums stay numbers.
LEMMA LogKeeps ==
    ASSUME Shape, NEW r \in Requests, PayerHas(r), NEW n \in Nat, Log(r, n)
    PROVE  /\ StoreOK'
           /\ UNCHANGED <<docVars, referredBy, referral, bonuses, milestones, raced, lost>>
<1>1. StoreOK /\ job[r].user \in Users
  BY ShapeHas DEF PayerHas
<1>2. logged' \in [Users -> Nat] /\ unlogged' \in [Users -> Int]
  BY <1>1 DEF StoreOK, Log
<1> QED BY <1>1, <1>2 DEF StoreOK, Log

\* A paying request that goes on between two writes of its referrer.
LEMMA QuietShape ==
    ASSUME Shape, NEW r \in Requests, NEW op \in Paid, NEW j \in Job, GoesOn(r, op, j),
           job[r].op \in Paid, op \in Triggering => j.milestone \in Milestones,
           StoreOK', DocTypeOK', UNCHANGED <<referredBy, referral, bonuses>>,
           \A q \in Requests : copy'[q].user = copy[q].user
    PROVE  Shape'
<1> USE DEF Unpaid, Paid, Decided, Triggering
<1>1. PayerHas(r) /\ JobFits(r)
  BY Payer
<1>2. JobFits(r)'
  BY <1>1 DEF JobFits, GoesOn, PayerHas
<1>3. (\A e \in Emails : EmailFits(e)') /\ OthersKeep(r) /\ Paying(r)
  BY <1>1, EmailsKept DEF PayerHas
<1> QED BY <1>2, <1>3, GoOnShape

\* The bonus is in the rows.
LEMMA SignupLogShape ==
    ASSUME Shape, NEW r \in Requests, SignupLog(r)
    PROVE  Shape'
<1> USE DEF Unpaid, Paid, Decided, Triggering
<1>1. job[r].op = "signupLog" /\ PayerHas(r)
  BY Payer DEF SignupLog, Is
<1>2. PICK j \in Job : GoesOn(r, "count", j)
  BY GotoJob DEF SignupLog, Ops
<1>3. StoreOK' /\ UNCHANGED <<docVars, referredBy, referral, bonuses>>
  BY <1>1, LogKeeps, ReferralAssumption DEF SignupLog
<1> QED BY <1>1, <1>2, <1>3, DocUntouched, QuietShape

\* What a count decides: the milestone it reaches, or none.
LEMMA ReachedJob ==
    ASSUME Shape, NEW r \in Requests, NEW n, Reached(r, n)
    PROVE  \E op \in {"milestonePay", "insert"}, j \in Job :
             /\ GoesOn(r, op, j)
             /\ op = "milestonePay" => n \in Milestones /\ j.milestone = n
             /\ op = "insert" => n \notin Milestones /\ j.milestone = job[r].milestone
<1>1. CASE n \in Milestones
  <2> DEFINE k == [job[r] EXCEPT !.op = "milestonePay"]
             j == [k EXCEPT !.milestone = n]
  <2>1. job[r] \in Job /\ job \in [Requests -> Job]
    BY InHand
  <2>2. k \in Job /\ k.op = "milestonePay" /\ k.email = job[r].email /\ k.user = job[r].user
    BY <2>1 DEF Job, Ops
  <2>3. /\ j \in Job /\ j.op = "milestonePay" /\ j.email = job[r].email
        /\ j.user = job[r].user /\ j.milestone = n
    <3> HIDE DEF k
    <3> QED BY <1>1, <2>2 DEF Job
  <2>4. job' = [job EXCEPT ![r] = j]
    <3>1. job' = [job EXCEPT ![r].op = "milestonePay", ![r].milestone = n]
      BY <1>1 DEF Reached
    <3> QED BY <2>1, <3>1
  <2> HIDE DEF j, k
  <2>5. job'[r] = j /\ \A q \in Requests \ {r} : job'[q] = job[q]
    BY <2>1, <2>3, <2>4
  <2>6. GoesOn(r, "milestonePay", j)
    BY <2>3, <2>4, <2>5 DEF GoesOn
  <2> QED BY <1>1, <2>3, <2>6
<1>2. CASE n \notin Milestones
  <2>1. PICK j \in Job : GoesOn(r, "insert", j) /\ j.milestone = job[r].milestone
    BY <1>2, GotoJob DEF Reached, Ops
  <2> QED BY <1>2, <2>1
<1> QED BY <1>1, <1>2

\* The count goes on to the milestone, if there is one.
LEMMA CountShape ==
    ASSUME Shape, NEW r \in Requests, Count(r)
    PROVE  Shape'
<1> USE DEF Unpaid, Paid, Decided, Triggering
<1>1. PICK n : Reached(r, n)
  BY DEF Count
<1>2. job[r].op = "count" /\ UNCHANGED <<docVars, referredBy, referral, logged, history>>
  BY <1>1 DEF Reached, Is
<1>3. PICK op \in {"milestonePay", "insert"}, j \in Job :
        GoesOn(r, op, j) /\ (op = "milestonePay" => j.milestone \in Milestones)
  BY <1>1, ReachedJob
<1>4. StoreOK'
  BY <1>2, ShapeHas DEF StoreOK, history
<1> QED BY <1>2, <1>3, <1>4, DocUntouched, QuietShape DEF history

\* The milestone's bonus is saved.
LEMMA MilestonePayShape ==
    ASSUME Shape, NEW r \in Requests, MilestonePay(r)
    PROVE  Shape'
<1> USE DEF Unpaid, Paid, Decided, Triggering
<1>1. job[r].op = "milestonePay" /\ PayerHas(r) /\ JobFits(r)
  BY Payer DEF MilestonePay, Is
<1>2. PICK m \in Milestones : m = job[r].milestone
  BY <1>1 DEF JobFits
<1>3. PICK u \in Users : u = job[r].user
  BY <1>1 DEF PayerHas
<1>4. PICK j \in Job : GoesOn(r, "milestoneLog", j) /\ j.milestone = job[r].milestone
  BY GotoJob DEF MilestonePay, Ops
<1>5. MilestoneBonus[m] \in Nat
  BY ReferralAssumption
<1>6. /\ DocTypeOK'
      /\ \A q \in Requests : copy'[q].user = copy[q].user
      /\ unlogged' \in [Users -> Int]
      /\ UNCHANGED <<referredBy, referral, logged, raced, lost>>
  BY <1>1, <1>2, <1>5, PayKeeps DEF MilestonePay
<1>7. UNCHANGED bonuses /\ milestones' = [milestones EXCEPT ![u][m] = @ + 1]
  BY <1>2, <1>3 DEF MilestonePay
<1>8. StoreOK'
  BY <1>6, <1>7, ShapeHas DEF StoreOK
<1> QED BY <1>1, <1>2, <1>4, <1>6, <1>7, <1>8, QuietShape

\* The milestone's row is written.
LEMMA MilestoneLogShape ==
    ASSUME Shape, NEW r \in Requests, MilestoneLog(r)
    PROVE  Shape'
<1> USE DEF Unpaid, Paid, Decided, Triggering
<1>1. job[r].op = "milestoneLog" /\ PayerHas(r) /\ JobFits(r)
  BY Payer DEF MilestoneLog, Is
<1>2. PICK j \in Job : GoesOn(r, "insert", j)
  BY GotoJob DEF MilestoneLog, Ops
<1>3. MilestoneBonus[job[r].milestone] \in Nat
  BY <1>1, ReferralAssumption DEF JobFits
<1>4. StoreOK' /\ UNCHANGED <<docVars, referredBy, referral, bonuses>>
  BY <1>1, <1>3, LogKeeps DEF MilestoneLog
<1> QED BY <1>1, <1>2, <1>4, DocUntouched, QuietShape

\* The referral is listed for a bonus that was paid, to the user's referrer.
LEMMA SignupInsertShape ==
    ASSUME Shape, NEW r \in Requests, SignupInsert(r)
    PROVE  Shape'
<1> USE DEF Unpaid, Paid, Decided, Triggering
<1>1. job[r].op = "insert" /\ PayerHas(r) /\ JobFits(r)
  BY Payer DEF SignupInsert, Is
<1>2. PICK e \in Emails : e = job[r].email
  BY <1>1 DEF PayerHas
<1>3. PICK u \in Users : u = job[r].user
  BY <1>1 DEF PayerHas
<1>4. PICK m \in Milestones \cup {0} : m = job[r].milestone
  BY InHand DEF Job
<1> DEFINE b == SignupBonus + (IF m = 0 THEN 0 ELSE MilestoneBonus[m])
           new == [referrerId |-> u, milestoneTriggered |-> m, bonusEarned |-> b]
<1>5. /\ referral' = [referral EXCEPT ![e] = new]
      /\ Release(r) /\ Finish(r)
      /\ UNCHANGED <<referredBy, logged, history>>
  BY <1>2, <1>3, <1>4 DEF SignupInsert
<1>6. b \in Nat
  BY ReferralAssumption
<1>7. new \in Referral /\ new.referrerId = u
  <2> HIDE DEF b
  <2> QED BY <1>6 DEF Referral
<1> HIDE DEF b, new
<1>8. StoreOK
  BY ShapeHas
<1>9. /\ referral' \in [Emails -> Referral] /\ referral'[e] = new
      /\ \A d \in Emails \ {e} : referral'[d] = referral[d]
  BY <1>5, <1>7, <1>8 DEF StoreOK
<1>10. StoreOK'
  BY <1>5, <1>8, <1>9 DEF StoreOK, history
<1>11. \A q \in Requests \ {r} : Paying(q) => job[q].email # e
  BY <1>1, <1>2, Alone DEF PayerHas
<1>12. \A q \in Requests : Paying(q) => job[q].email \in Emails
  BY InHand DEF JobFits, Paying
<1>13. OthersKeep(r)
  BY <1>5, <1>9, <1>11, <1>12 DEF OthersKeep, history
<1>14. \A d \in Emails : EmailFits(d)'
  <2>1. EmailFits(e)'
    BY <1>1, <1>2, <1>3, <1>5, <1>7, <1>9, ReferralAssumption
    DEF EmailFits, PayerHas, JobFits, history
  <2>2. ASSUME NEW d \in Emails \ {e} PROVE EmailFits(d)'
    BY <1>5, <1>9, <2>2 DEF EmailFits, Shape, history
  <2> QED BY <2>1, <2>2
<1>15. DocTypeOK' /\ \A q \in Requests \ {r} : copy'[q] = copy[q]
  BY <1>5, ShapeHas, ReleaseType
<1> QED BY <1>5, <1>10, <1>13, <1>14, <1>15, FinishShape

\* The request dies: what it stored stays.
LEMMA DropShape ==
    ASSUME Shape, NEW r \in Requests, Drop(r)
    PROVE  Shape'
<1>1. /\ lost' \in SUBSET Emails
      /\ Release(r) /\ Finish(r)
      /\ UNCHANGED <<referredBy, referral, logged, bonuses, milestones, unlogged, raced>>
  <2>1. Paying(r) => job[r].email \in Emails
    BY InHand DEF JobFits, Paying
  <2> QED BY <2>1, ShapeHas DEF Drop, StoreOK
<1>2. StoreOK'
  BY <1>1, ShapeHas DEF StoreOK
<1>3. (\A e \in Emails : EmailFits(e)') /\ OthersKeep(r)
  BY <1>1, EmailsKept
<1>4. DocTypeOK' /\ \A q \in Requests \ {r} : copy'[q] = copy[q]
  BY <1>1, ShapeHas, ReleaseType
<1> QED BY <1>1, <1>2, <1>3, <1>4, FinishShape

\* Shape is inductive.
LEMMA ShapeStep == Shape /\ [Next]_vars => Shape'
<1> SUFFICES ASSUME Shape, [Next]_vars PROVE Shape'
  OBVIOUS
<1>1. ASSUME NEW r \in Requests, Register(r)
      PROVE  Shape'
  BY <1>1, RegisterCreateShape, SignupFindShape, SignupPayShape, SignupLogShape,
     CountShape, MilestonePayShape, MilestoneLogShape, SignupInsertShape DEF Register
<1>2. CASE Next
  BY <1>1, <1>2, RegisterFindShape, DropShape DEF Next
<1>3. CASE UNCHANGED vars
  BY <1>3 DEF vars, Shape, TypeOK, DocTypeOK, JobFits, EmailFits, OnePayer, Paying
<1> QED BY <1>2, <1>3

\* A registration has its e-mail to itself from the user to the referral: the
\* inductive invariant behind the theorems that follow.
THEOREM ShapeInvariant == Spec => []Shape
BY ShapeInit, ShapeStep, PTL DEF Spec

\* The collections and the requests have their types in every state.
THEOREM TypeCorrect == Spec => []TypeOK
<1>1. Shape => TypeOK
  BY DEF Shape
<1> QED BY <1>1, ShapeInvariant, PTL

\* However many registrations of one e-mail race, its referrer is paid for it at
\* most once, and a referral is listed only for a bonus that was paid, to the
\* referrer of the user document.
THEOREM OneBonus == Spec => []OneBonusPerUser
<1>1. Shape => OneBonusPerUser
  BY DEF Shape, EmailFits, OneBonusPerUser
<1> QED BY <1>1, ShapeInvariant, PTL

-----------------------------------------------------------------------------
\* A step of the request r.
StepOf(r) ==
    \/ \E e \in Emails, u \in Users \cup {NoUser} : RegisterFind(r, e, u)
    \/ Register(r)
    \/ Drop(r)

\* What the steps of a request do to the jobs.
LEMMA JobMoves ==
    ASSUME Shape, NEW r \in Requests
    PROVE  /\ \A op \in Ops : Goto(r, op) =>
                /\ job'[r].op = op /\ job'[r].user = job[r].user
                /\ job'[r].milestone = job[r].milestone
                /\ \A q \in Requests \ {r} : job'[q] = job[q]
           /\ Finish(r) =>
                /\ job'[r].op = "idle" /\ job'[r].milestone = 0
                /\ \A q \in Requests \ {r} : job'[q] = job[q]
<1>1. ASSUME NEW op \in Ops, Goto(r, op)
      PROVE  /\ job'[r].op = op /\ job'[r].user = job[r].user
             /\ job'[r].milestone = job[r].milestone
             /\ \A q \in Requests \ {r} : job'[q] = job[q]
  BY <1>1, GotoJob DEF GoesOn
<1>2. ASSUME Finish(r)
      PROVE  /\ job'[r].op = "idle" /\ job'[r].milestone = 0
             /\ \A q \in Requests \ {r} : job'[q] = job[q]
  <2>1. job'[r] = Idle /\ \A q \in Requests \ {r} : job'[q] = job[q]
    BY <1>2, InHand DEF Finish
  <2> QED BY <2>1 DEF Idle
<1> QED BY <1>1, <1>2

\* A request's job after its step: what RegisterFind and Count put into it, a new
\* point with the same referrer and milestone, or nothing.
Onward(r, from, to) ==
    /\ job[r].op = from /\ job'[r].op = to
    /\ job'[r].user = job[r].user /\ job'[r].milestone = job[r].milestone

\* A request's job after it is over, or has only just begun.
Blank(r) == job'[r].op \in {"idle", "create"} /\ job'[r].milestone = 0

\* A request's job after it counted n - 1 referrals: the milestone n, or none.
Counted(r, n) ==
    IF n \in Milestones
      THEN /\ job'[r].op = "milestonePay" /\ job'[r].user = job[r].user
           /\ job'[r].milestone = n
      ELSE Onward(r, "count", "insert")

\* The handler, as a walk from one point to the next.
LEMMA Walk ==
    ASSUME Shape, NEW r \in Requests, StepOf(r)
    PROVE  /\ \A q \in Requests \ {r} : job'[q] = job[q]
           /\ \A e \in Emails, u \in Users \cup {NoUser} :
                RegisterFind(r, e, u) => job[r].op = "idle" /\ Blank(r)
           /\ RegisterCreate(r) =>
                job[r].op = "create" /\ (Blank(r) \/ Onward(r, "create", "signup"))
           /\ SignupFind(r) => Onward(r, "signup", "signupPay")
           /\ SignupPay(r) => Onward(r, "signupPay", "signupLog")
           /\ SignupLog(r) => Onward(r, "signupLog", "count")
           /\ Count(r) =>
                job[r].op = "count" /\ Counted(r, Cardinality(Referred(job[r].user)) + 1)
           /\ MilestonePay(r) => Onward(r, "milestonePay", "milestoneLog")
           /\ MilestoneLog(r) => Onward(r, "milestoneLog", "insert")
           /\ SignupInsert(r) => job[r].op = "insert" /\ Blank(r)
           /\ Drop(r) => Blank(r)
<1> DEFINE Others == \A q \in Requests \ {r} : job'[q] = job[q]
<1> USE DEF Ops
<1>1. ASSUME NEW e \in Emails, NEW u \in Users \cup {NoUser}, RegisterFind(r, e, u)
      PROVE  job[r].op = "idle" /\ Blank(r) /\ Others
  BY <1>1, InHand DEF RegisterFind, Is, Blank
<1>2. ASSUME RegisterCreate(r)
      PROVE  /\ job[r].op = "create" /\ Others
             /\ Blank(r) \/ Onward(r, "create", "signup")
  BY <1>2, JobMoves DEF RegisterCreate, Created, Is, Blank, Onward
<1>3. SignupFind(r) => Onward(r, "signup", "signupPay") /\ Others
  BY JobMoves DEF SignupFind, Is, Onward
<1>4. SignupPay(r) => Onward(r, "signupPay", "signupLog") /\ Others
  BY JobMoves DEF SignupPay, Is, Onward
<1>5. SignupLog(r) => Onward(r, "signupLog", "count") /\ Others
  BY JobMoves DEF SignupLog, Is, Onward
<1>6. ASSUME NEW n, n = Cardinality(Referred(job[r].user)) + 1, Count(r)
      PROVE  job[r].op = "count" /\ Counted(r, n) /\ Others
  <2>1. Reached(r, n) /\ job[r].op = "count"
    BY <1>6 DEF Count, Reached, Is
  <2>2. PICK op \in {"milestonePay", "insert"}, j \in Job :
             /\ GoesOn(r, op, j)
             /\ op = "milestonePay" => n \in Milestones /\ j.milestone = n
             /\ op = "insert" => n \notin Milestones /\ j.milestone = job[r].milestone
    BY <2>1, ReachedJob
  <2> QED BY <2>1, <2>2 DEF GoesOn, Counted, Onward
<1>7. MilestonePay(r) => Onward(r, "milestonePay", "milestoneLog") /\ Others
  BY JobMoves DEF MilestonePay, Is, Onward
<1>8. MilestoneLog(r) => Onward(r, "milestoneLog", "insert") /\ Others
  BY JobMoves DEF MilestoneLog, Is, Onward
<1>9. SignupInsert(r) => job[r].op = "insert" /\ Blank(r) /\ Others
  BY JobMoves DEF SignupInsert, Is, Blank
<1>10. Drop(r) => Blank(r) /\ Others
  BY JobMoves DEF Drop, Blank
<1>11. Others
  BY <1>1, <1>2, <1>3, <1>4, <1>5, <1>6, <1>7, <1>8, <1>9, <1>10 DEF StepOf, Register
<1> QED BY <1>1, <1>2, <1>3, <1>4, <1>5, <1>6, <1>7, <1>8, <1>9, <1>10, <1>11

\* A referrer's referrals can be counted.
LEMMA ReferredSize ==
    ASSUME NEW u
    PROVE  IsFiniteSet(Referred(u)) /\ Cardinality(Referred(u)) \in Nat
BY ReferralAssumption, FS_Subset, FS_CardinalityType DEF Referred

\* Only an insert changes the referrals: its referrer has one more.
LEMMA ReferredMoves ==
    ASSUME Shape, NEW r \in Requests, StepOf(r), NEW u \in Users
    PROVE  /\ SignupInsert(r) /\ job[r].user = u =>
                Cardinality(Referred(u)') = Cardinality(Referred(u)) + 1
           /\ ~ (SignupInsert(r) /\ job[r].user = u) => Referred(u)' = Referred(u)
<1>1. CASE SignupInsert(r)
  <2>1. job[r].op = "insert" /\ PayerHas(r)
    BY <1>1, Payer DEF SignupInsert, Is, Unpaid, Paid, Decided, Triggering
  <2>2. PICK e \in Emails : e = job[r].email
    BY <2>1 DEF PayerHas
  <2>3. referral[e].referrerId # u
    BY <2>1, <2>2, IdleJob, NoUserAssumption DEF PayerHas
  <2>4. referral'[e].referrerId = job[r].user
        /\ \A d \in Emails \ {e} : referral'[d] = referral[d]
    BY <1>1, <2>2, ShapeHas DEF SignupInsert, StoreOK
  <2>5. CASE job[r].user = u
    <3>1. Referred(u)' = Referred(u) \cup {e} /\ e \notin Referred(u)
      BY <2>3, <2>4, <2>5 DEF Referred
    <3>2. Cardinality(Referred(u) \cup {e}) = Cardinality(Referred(u)) + 1
      <4> DEFINE S == Referred(u)
      <4>1. IsFiniteSet(S) /\ e \notin S
        BY <3>1, ReferredSize
      <4> HIDE DEF S
      <4>2. Cardinality(S \cup {e}) = Cardinality(S) + 1
        BY <4>1, FS_AddElement
      <4> QED BY <4>2 DEF S
    <3> QED BY <1>1, <2>5, <3>1, <3>2
  <2>6. CASE job[r].user # u
    BY <2>3, <2>4, <2>6 DEF Referred
  <2> QED BY <2>5, <2>6
<1>2. CASE ~ SignupInsert(r)
  <2>1. UNCHANGED referral
    BY <1>2 DEF StepOf, Register, RegisterFind, RegisterCreate, Created, SignupFind,
                SignupPay, SignupLog, Pay, Log, Count, Reached, MilestonePay,
                MilestoneLog, Drop
  <2> QED BY <1>2, <2>1 DEF Referred
<1> QED BY <1>1, <1>2

\* A milestone's count is raised by its payment, and by nothing else.
LEMMA MilestoneMoves ==
    ASSUME Shape, NEW r \in Requests, StepOf(r), NEW u \in Users, NEW m \in Milestones
    PROVE  /\ milestones[u][m] \in Nat
           /\ milestones'[u][m] =
                IF MilestonePay(r) /\ job[r].user = u /\ job[r].milestone = m
                  THEN milestones[u][m] + 1 ELSE milestones[u][m]
<1>1. milestones \in [Users -> [Milestones -> Nat]]
  BY ShapeHas DEF StoreOK
<1>2. CASE MilestonePay(r)
  <2>1. job[r].op = "milestonePay" /\ PayerHas(r) /\ JobFits(r)
    BY <1>2, Payer DEF MilestonePay, Is, Unpaid, Paid, Decided, Triggering
  <2>2. PICK v \in Users, k \in Milestones : v = job[r].user /\ k = job[r].milestone
    BY <2>1 DEF PayerHas, JobFits, Triggering
  <2>3. milestones' = [milestones EXCEPT ![v][k] = @ + 1]
    BY <1>2, <2>2 DEF MilestonePay
  <2> QED BY <1>1, <1>2, <2>2, <2>3
<1>3. CASE ~ MilestonePay(r)
  <2>1. UNCHANGED milestones
    BY <1>3 DEF StepOf, Register, RegisterFind, RegisterCreate, Created, SignupFind,
                SignupPay, SignupLog, Pay, Log, Count, Reached, SignupInsert,
                MilestoneLog, Drop, history
  <2> QED BY <1>1, <1>3, <2>1
<1> QED BY <1>2, <1>3

\* With Shape, NotEarly is inductive: referrals are never taken back.
LEMMA NotEarlyStep == Shape /\ NotEarly /\ [Next]_vars => NotEarly'
<1> SUFFICES ASSUME Shape, NotEarly, [Next]_vars PROVE NotEarly'
  OBVIOUS
<1>1. ASSUME NEW r \in Requests, StepOf(r)
      PROVE  NotEarly'
  <2>1. ASSUME NEW u \in Users
        PROVE  /\ Cardinality(Referred(u)') >= Cardinality(Referred(u))
               /\ Cardinality(Referred(u)) \in Nat /\ Cardinality(Referred(u)') \in Nat
    BY <1>1, ReferredMoves, ReferredSize
  <2>2. ASSUME NEW u \in Users, NEW m \in Milestones, milestones'[u][m] > 0
        PROVE  Cardinality(Referred(u)') >= m - 1
    <3>1. m \in Nat /\ milestones[u][m] \in Nat
      BY <1>1, MilestoneMoves, ReferralAssumption
    <3>2. CASE milestones[u][m] > 0
      <4>1. Cardinality(Referred(u)) >= m - 1
        BY <3>2 DEF NotEarly, MilestoneNotEarly
      <4> QED BY <2>1, <3>1, <4>1
    <3>3. CASE milestones[u][m] = 0
      <4>1. MilestonePay(r) /\ job[r].user = u /\ job[r].milestone = m
        BY <1>1, <2>2, <3>3, MilestoneMoves
      <4>2. Cardinality(Referred(u)) >= m - 1
        BY <4>1 DEF NotEarly, MilestonePay
      <4> QED BY <2>1, <3>1, <4>2
    <3> QED BY <3>1, <3>2, <3>3
  <2>3. ASSUME NEW q \in Requests, job'[q].op = "milestonePay",
               NEW u, u = job'[q].user, NEW m, m = job'[q].milestone
        PROVE  Cardinality(Referred(u)') >= m - 1
    <3>1. CASE q = r
      <4>1. Count(r) /\ job[r].op = "count" /\ u = job[r].user
            /\ m = Cardinality(Referred(u)) + 1
        BY <1>1, <2>3, <3>1, Walk DEF StepOf, Register, Onward, Blank, Counted
      <4>2. u \in Users
        BY <4>1, Payer DEF PayerHas, Paid
      <4> QED BY <2>1, <4>1, <4>2
    <3>2. CASE q # r
      <4>1. job[q].op = "milestonePay" /\ u = job[q].user /\ m = job[q].milestone
        BY <1>1, <2>3, <3>2, Walk
      <4>2. u \in Users /\ m \in Nat
        BY <4>1, Payer, ReferralAssumption
        DEF PayerHas, JobFits, Paid, Decided, Triggering
      <4>3. Cardinality(Referred(u)) >= m - 1
        BY <4>1 DEF NotEarly, Is
      <4> QED BY <2>1, <4>2, <4>3
    <3> QED BY <3>1, <3>2
  <2>4. MilestoneNotEarly'
    BY <2>2 DEF MilestoneNotEarly
  <2>5. (\A q \in Requests : Is(q, "milestonePay") =>
           Cardinality(Referred(job[q].user)) >= job[q].milestone - 1)'
    BY <2>3 DEF Is, Referred
  <2> QED BY <2>4, <2>5 DEF NotEarly
<1>2. CASE Next
  BY <1>1, <1>2 DEF Next, StepOf
<1>3. CASE UNCHANGED vars
  BY <1>3 DEF vars, NotEarly, MilestoneNotEarly, Referred, Is
<1> QED BY <1>2, <1>3

\* A milestone is never paid early, however sign-ups race and break off: the
\* n-th is paid only when n - 1 referrals stand beside the one that triggers it.
THEOREM MilestonesInTime == Spec => []MilestoneNotEarly
<1>1. Init => NotEarly
  <2> SUFFICES ASSUME Init PROVE NotEarly
    OBVIOUS
  <2>1. \A u \in Users, m \in Milestones : milestones[u][m] = 0
    BY DEF Init
  <2>2. \A r \in Requests : job[r].op = "idle"
    BY IdleJob DEF Init
  <2> QED BY <2>1, <2>2 DEF NotEarly, MilestoneNotEarly, Is
<1>2. NotEarly => MilestoneNotEarly
  BY DEF NotEarly
<1> QED BY <1>1, <1>2, NotEarlyStep, ShapeInvariant, PTL DEF Spec

-----------------------------------------------------------------------------
\* A sign-up that broke off stays broken off, and its referrer the same.
LEMMA LostStays ==
    ASSUME Shape, NEW r \in Requests, StepOf(r), NEW u \in Users
    PROVE  /\ raced \subseteq raced' /\ lost \subseteq lost'
           /\ \A e \in lost : referredBy[e] = u => referredBy'[e] = u
<1>1. raced \subseteq raced' /\ lost \subseteq lost'
  BY DEF StepOf, Register, RegisterFind, RegisterCreate, Created, SignupFind, Pay, Log,
         SignupPay, SignupLog, Count, Reached, MilestonePay, MilestoneLog,
         SignupInsert, Drop, history
<1>2. ASSUME NEW e \in lost, referredBy[e] = u
      PROVE  referredBy'[e] = u
  <2>1. CASE RegisterCreate(r)
    <3>1. job[r].email # e
      BY <1>2, <2>1, ReferralAssumption DEF RegisterCreate
    <3> QED BY <1>2, <2>1, <3>1, ShapeHas DEF RegisterCreate, Created, StoreOK
  <2>2. CASE ~ RegisterCreate(r)
    BY <1>2, <2>2 DEF StepOf, Register, RegisterFind, SignupFind, Pay, Log,
         SignupPay, SignupLog, Count, Reached, MilestonePay, MilestoneLog,
         SignupInsert, Drop
  <2> QED BY <2>1, <2>2
<1> QED BY <1>1, <1>2

\* A referrer that is clean after a step was clean before it.
LEMMA CleanBefore ==
    ASSUME Shape, NEW r \in Requests, StepOf(r), NEW u \in Users, Clean(u)'
    PROVE  Clean(u)
BY LostStays DEF Clean

\* Where a step of r changes nothing for the referrer u, and leaves r the only one
\* that may pay u, with the milestone u's next referral reaches.
LEMMA ExactQuiet ==
    ASSUME NEW r \in Requests, NEW u \in Users, ExactFor(u),
           \A q \in Requests \ {r} : job'[q] = job[q],
           \A m \in Milestones : milestones'[u][m] = milestones[u][m],
           Referred(u)' = Referred(u),
           Paying(r)' /\ job'[r].user = u =>
             \A q \in Requests \ {r} : Paying(q) => job[q].user # u,
           job'[r].op \in Decided /\ job'[r].user = u => job'[r].milestone = Coming(u),
           \A m \in Milestones : AheadOf(r, u, m)' <=> AheadOf(r, u, m)
    PROVE  ExactFor(u)'
<1>1. Coming(u)' = Coming(u)
  BY DEF Coming
<1>2. \A q \in Requests, m \in Milestones : AheadOf(q, u, m)' <=> AheadOf(q, u, m)
  BY DEF AheadOf
<1>3. \A m \in Milestones : m \in Ahead(u)' <=> m \in Ahead(u)
  BY <1>2 DEF Ahead
<1>4. \A q \in Requests \ {r} : Paying(q)' <=> Paying(q)
  BY DEF Paying
<1>5. ASSUME NEW p \in Requests, NEW q \in Requests, Paying(p)', Paying(q)',
             job'[p].user = u, job'[q].user = u
      PROVE  p = q
  BY <1>4, <1>5 DEF ExactFor
<1>6. ASSUME NEW q \in Requests, job'[q].op \in Decided, job'[q].user = u
      PROVE  job'[q].milestone = Coming(u)'
  BY <1>1, <1>6 DEF ExactFor
<1>7. ASSUME NEW m \in Milestones
      PROVE  milestones'[u][m] =
               IF m <= Cardinality(Referred(u)') \/ m \in Ahead(u)' THEN 1 ELSE 0
  BY <1>3 DEF ExactFor
<1> QED BY <1>5, <1>6, <1>7 DEF ExactFor

\* The milestone of u's next referral is paid: it is ahead until the insert.
LEMMA ExactMilestonePay ==
    ASSUME Shape, NEW r \in Requests, MilestonePay(r), NEW u \in Users,
           job[r].user = u, ExactFor(u)
    PROVE  ExactFor(u)'
<1> USE DEF Unpaid, Paid, Decided, Triggering
<1>1. StepOf(r) /\ Onward(r, "milestonePay", "milestoneLog")
  BY Walk DEF StepOf, Register
<1>2. \A q \in Requests \ {r} : job'[q] = job[q]
  BY <1>1, Walk
<1>3. Paying(r) /\ JobFits(r)
  BY <1>1, Payer DEF PayerHas, Onward
<1>4. PICK k \in Milestones : k = job[r].milestone
  BY <1>1, <1>3 DEF JobFits, Onward
<1>5. Referred(u)' = Referred(u)
  <2>1. ~ SignupInsert(r)
    BY <1>1 DEF SignupInsert, Is, Onward
  <2> QED BY <1>1, <2>1, ReferredMoves
<1>6. Coming(u)' = Coming(u)
  BY <1>5 DEF Coming
<1>7. \A q \in Requests \ {r} : Paying(q) => job[q].user # u
  BY <1>3 DEF ExactFor
<1>8. k = Coming(u) /\ k = Cardinality(Referred(u)) + 1
  <2>1. k = Coming(u)
    BY <1>1, <1>4 DEF ExactFor, Onward
  <2> QED BY <1>4, <2>1, ReferralAssumption DEF Coming
<1>9. Ahead(u) = {}
  BY <1>1, <1>7 DEF Ahead, AheadOf, Onward, Paying
<1>10. ASSUME NEW m \in Milestones
       PROVE  m \in Ahead(u)' <=> m = k
  <2>1. AheadOf(r, u, m)' <=> m = k
    BY <1>1, <1>4 DEF AheadOf, Onward
  <2>2. \A q \in Requests \ {r} : ~ AheadOf(q, u, m)'
    BY <1>2, <1>7 DEF AheadOf, Paying
  <2> QED BY <2>1, <2>2 DEF Ahead
<1>11. ASSUME NEW m \in Milestones
       PROVE  milestones'[u][m] =
                IF m <= Cardinality(Referred(u)') \/ m \in Ahead(u)' THEN 1 ELSE 0
  <2>1. /\ milestones[u][m] \in Nat
        /\ milestones'[u][m] = IF m = k THEN milestones[u][m] + 1 ELSE milestones[u][m]
    BY <1>1, <1>4, MilestoneMoves
  <2>2. milestones[u][m] = IF m <= Cardinality(Referred(u)) THEN 1 ELSE 0
    BY <1>9 DEF ExactFor
  <2>3. m \in Nat /\ Cardinality(Referred(u)) \in Nat
    BY ReferredSize, ReferralAssumption
  <2> QED BY <1>5, <1>8, <1>10, <2>1, <2>2, <2>3
<1>12. \A q \in Requests \ {r} : ~ (Paying(q)' /\ job'[q].user = u)
  BY <1>2, <1>7 DEF Paying
<1>13. job'[r].milestone = Coming(u)'
  BY <1>1, <1>4, <1>6, <1>8 DEF Onward
<1>14. \A q \in Requests \ {r} : job'[q].op \in Decided => job'[q].user # u
  BY <1>12 DEF Paying
<1>15. (\A p, q \in Requests :
          Paying(p) /\ Paying(q) /\ job[p].user = u /\ job[q].user = u => p = q)'
  BY <1>12
<1>16. (\A q \in Requests :
          job[q].op \in Decided /\ job[q].user = u => job[q].milestone = Coming(u))'
  BY <1>13, <1>14
<1> QED BY <1>11, <1>15, <1>16 DEF ExactFor

\* The referral is inserted: what was ahead is reached.
LEMMA ExactInsert ==
    ASSUME Shape, NEW r \in Requests, SignupInsert(r), NEW u \in Users,
           job[r].user = u, ExactFor(u)
    PROVE  ExactFor(u)'
<1> USE DEF Unpaid, Paid, Decided, Triggering
<1>1. StepOf(r) /\ job[r].op = "insert" /\ Blank(r)
  BY Walk DEF StepOf, Register
<1>2. \A q \in Requests \ {r} : job'[q] = job[q]
  BY <1>1, Walk
<1>3. Paying(r)
  BY <1>1, Payer DEF PayerHas
<1>4. Cardinality(Referred(u)') = Cardinality(Referred(u)) + 1
      /\ Cardinality(Referred(u)) \in Nat
  BY <1>1, ReferredMoves, ReferredSize
<1>5. \A q \in Requests \ {r} : Paying(q) => job[q].user # u
  BY <1>3 DEF ExactFor
<1>6. \A q \in Requests : ~ (Paying(q)' /\ job'[q].user = u)
  BY <1>1, <1>2, <1>5 DEF Paying, Blank
<1>7. Ahead(u)' = {}
  BY <1>6 DEF Ahead, AheadOf, Paying
<1>8. job[r].milestone = Coming(u)
  BY <1>1 DEF ExactFor
<1>9. ASSUME NEW m \in Milestones
      PROVE  m \in Ahead(u) <=> m = Cardinality(Referred(u)) + 1
  <2>1. m # 0 /\ m \in Nat
    BY ReferralAssumption
  <2>2. AheadOf(r, u, m) <=> m = Coming(u)
    BY <1>1, <1>8 DEF AheadOf
  <2>3. \A q \in Requests \ {r} : ~ AheadOf(q, u, m)
    BY <1>5 DEF AheadOf, Paying
  <2>4. m = Coming(u) <=> m = Cardinality(Referred(u)) + 1
    BY <2>1 DEF Coming
  <2> QED BY <2>2, <2>3, <2>4 DEF Ahead
<1>10. ASSUME NEW m \in Milestones
       PROVE  milestones'[u][m] =
                IF m <= Cardinality(Referred(u)') \/ m \in Ahead(u)' THEN 1 ELSE 0
  <2>1. milestones'[u][m] = milestones[u][m]
    <3>1. ~ MilestonePay(r)
      BY <1>1 DEF MilestonePay, Is
    <3> QED BY <1>1, <3>1, MilestoneMoves
  <2>2. milestones[u][m] =
          IF m <= Cardinality(Referred(u)) \/ m \in Ahead(u) THEN 1 ELSE 0
    BY DEF ExactFor
  <2>3. m \in Nat
    BY ReferralAssumption
  <2> QED BY <1>4, <1>7, <1>9, <2>1, <2>2, <2>3
<1>11. \A q \in Requests : ~ (job'[q].op \in Decided /\ job'[q].user = u)
  BY <1>6 DEF Paying
<1>12. (\A p, q \in Requests :
          Paying(p) /\ Paying(q) /\ job[p].user = u /\ job[q].user = u => p = q)'
  BY <1>6
<1>13. (\A q \in Requests :
          job[q].op \in Decided /\ job[q].user = u => job[q].milestone = Coming(u))'
  BY <1>11
<1> QED BY <1>10, <1>12, <1>13 DEF ExactFor

\* A step keeps the account of a referrer that is clean after it.
LEMMA ExactForStep ==
    ASSUME Shape, Exact, NEW r \in Requests, StepOf(r), NEW u \in Users, Clean(u)'
    PROVE  ExactFor(u)'
<1> USE DEF Unpaid, Paid, Decided, Triggering
<1>1. ExactFor(u)
  BY CleanBefore DEF Exact
<1>2. CASE (MilestonePay(r) \/ SignupInsert(r)) /\ job[r].user = u
  BY <1>1, <1>2, ExactMilestonePay, ExactInsert
<1>3. CASE ~ ((MilestonePay(r) \/ SignupInsert(r)) /\ job[r].user = u)
  <2>1. Referred(u)' = Referred(u) /\ \A q \in Requests \ {r} : job'[q] = job[q]
    BY <1>3, ReferredMoves, Walk
  <2>2. \A m \in Milestones : milestones'[u][m] = milestones[u][m]
    BY <1>3, MilestoneMoves
  <2>3. 0 \notin Milestones
    BY ReferralAssumption
  <2> DEFINE Solo == Paying(r)' /\ job'[r].user = u =>
                       \A q \in Requests \ {r} : Paying(q) => job[q].user # u
             Next0 == job'[r].op \in Decided /\ job'[r].user = u =>
                        job'[r].milestone = Coming(u)
             Same == \A m \in Milestones : AheadOf(r, u, m)' <=> AheadOf(r, u, m)
  <2>4. Paying(r) => Solo \/ job[r].user # job'[r].user
    BY <1>1 DEF ExactFor
  <2>5. ASSUME NEW e \in Emails, NEW v \in Users \cup {NoUser}, RegisterFind(r, e, v)
        PROVE  Solo /\ Next0 /\ Same
    <3>1. job[r].op = "idle" /\ Blank(r)
      BY <2>5, Walk
    <3> QED BY <3>1 DEF Blank, Paying, AheadOf
  <2>6. ASSUME RegisterCreate(r)
        PROVE  Solo /\ Next0 /\ Same
    <3>1. job[r].op = "create" /\ (Blank(r) \/ Onward(r, "create", "signup"))
      BY <2>6, Walk
    <3>2. job[r].user = u => Solo
      <4>1. u \notin raced'
        BY DEF Clean
      <4> QED BY <2>6, <4>1 DEF RegisterCreate, Created
    <3> QED BY <3>1, <3>2 DEF Blank, Onward, Paying, AheadOf
  <2>7. ASSUME SignupFind(r) \/ SignupPay(r) \/ SignupLog(r)
        PROVE  Solo /\ Next0 /\ Same
    <3>1. \/ Onward(r, "signup", "signupPay") \/ Onward(r, "signupPay", "signupLog")
          \/ Onward(r, "signupLog", "count")
      BY <2>7, Walk
    <3> QED BY <2>4, <3>1 DEF Onward, Paying, AheadOf
  <2>8. ASSUME Count(r)
        PROVE  Solo /\ Next0 /\ Same
    <3>1. job[r].op = "count" /\ Counted(r, Cardinality(Referred(job[r].user)) + 1)
          /\ job[r].milestone = 0
      BY <2>8, Walk DEF Exact
    <3>2. Paying(r) /\ job'[r].user = job[r].user
      BY <3>1 DEF Counted, Onward, Paying
    <3>3. Solo
      BY <2>4, <3>2
    <3>4. Next0 /\ Same
      BY <2>3, <3>1 DEF Counted, Onward, Coming, AheadOf
    <3> QED BY <3>3, <3>4
  <2>9. ASSUME MilestoneLog(r) \/ MilestonePay(r)
        PROVE  Solo /\ Next0 /\ Same
    <3>1. \/ Onward(r, "milestoneLog", "insert")
          \/ Onward(r, "milestonePay", "milestoneLog") /\ job[r].user # u
      BY <1>3, <2>9, Walk
    <3>2. job[r].op \in Decided /\ job[r].user = u => job[r].milestone = Coming(u)
      BY <1>1 DEF ExactFor
    <3> QED BY <2>4, <3>1, <3>2 DEF Onward, Paying, AheadOf
  <2>10. ASSUME SignupInsert(r) \/ Drop(r)
         PROVE  Solo /\ Next0 /\ Same
    <3>1. Blank(r)
      BY <2>10, Walk
    <3>2. ~ (Paying(r) /\ job[r].user = u)
      <4>1. CASE SignupInsert(r)
        BY <1>3, <4>1
      <4>2. ASSUME Drop(r), Paying(r), job[r].user = u
            PROVE  FALSE
        <5>1. referredBy[job[r].email] = u
          BY <4>2, PayingOps, Payer DEF PayerHas
        <5> QED BY <4>2, <5>1 DEF Drop, Clean
      <4> QED BY <2>10, <4>1, <4>2
    <3> QED BY <3>1, <3>2 DEF Blank, Paying, AheadOf
  <2>11. Solo /\ Next0 /\ Same
    BY <2>5, <2>6, <2>7, <2>8, <2>9, <2>10 DEF StepOf, Register
  <2> QED BY <1>1, <2>1, <2>2, <2>11, ExactQuiet
<1> QED BY <1>2, <1>3

\* With Shape, Exact is inductive.
LEMMA ExactStep == Shape /\ Exact /\ [Next]_vars => Exact'
<1> SUFFICES ASSUME Shape, Exact, [Next]_vars PROVE Exact'
  OBVIOUS
<1>1. ASSUME NEW r \in Requests, StepOf(r)
      PROVE  Exact'
  <2>1. \A u \in Users : Clean(u)' => ExactFor(u)'
    BY <1>1, ExactForStep
  <2>2. job'[r].op \notin Decided => job'[r].milestone = 0
    BY <1>1, Walk DEF StepOf, Register, Exact, Blank, Onward, Counted, Decided, Triggering
  <2>3. \A q \in Requests : job'[q].op \notin Decided => job'[q].milestone = 0
    BY <1>1, <2>2, Walk DEF Exact
  <2> QED BY <2>1, <2>3 DEF Exact
<1>2. CASE Next
  BY <1>1, <1>2 DEF Next, StepOf
<1>3. CASE UNCHANGED vars
  <2>1. \A u \in Users : (Clean(u)' => Clean(u)) /\ (ExactFor(u) => ExactFor(u)')
    BY <1>3 DEF vars, Clean, ExactFor, Coming, Ahead, AheadOf, Referred, Paying
  <2> QED BY <1>3, <2>1 DEF vars, Exact
<1> QED BY <1>2, <1>3

\* Nobody has referred anybody, and nothing is paid.
LEMMA ExactInit == Init => Exact
<1> SUFFICES ASSUME Init PROVE Exact
  OBVIOUS
<1>1. \A r \in Requests : job[r].op = "idle" /\ job[r].milestone = 0
  BY DEF Init, Idle
<1>2. ASSUME NEW u \in Users
      PROVE  ExactFor(u)
  <2>1. Referred(u) = {}
    BY IdleJob, NoUserAssumption DEF Init, Referred
  <2>2. Cardinality(Referred(u)) = 0
    BY <2>1, FS_EmptySet
  <2>3. Ahead(u) = {}
    BY <1>1 DEF Ahead, AheadOf
  <2>4. \A m \in Milestones : milestones[u][m] = 0 /\ m \in Nat \ {0}
    BY ReferralAssumption DEF Init
  <2> QED BY <1>1, <2>2, <2>3, <2>4 DEF ExactFor, Paying, Decided, Triggering
<1> QED BY <1>1, <1>2 DEF Exact

\* A referrer whose sign-ups never overlapped, and none of which broke off, has
\* been paid each milestone it reached exactly once, and no other.
THEOREM MilestonesPaid == Spec => []MilestonesExact
<1>1. Exact => MilestonesExact
  <2> SUFFICES ASSUME Exact, NEW u \in Users \ (raced \cup {referredBy[e] : e \in lost}),
                      NEW m \in Milestones,
                      \A r \in Requests : Paying(r) => job[r].user # u
               PROVE  milestones[u][m] = IF m <= Cardinality(Referred(u)) THEN 1 ELSE 0
    BY DEF MilestonesExact
  <2>1. ExactFor(u)
    BY DEF Exact, Clean
  <2>2. Ahead(u) = {}
    BY DEF Ahead, AheadOf, Paying
  <2> QED BY <2>1, <2>2 DEF ExactFor
<1> QED BY <1>1, ExactInit, ExactStep, ShapeInvariant, PTL DEF Spec

-----------------------------------------------------------------------------
\* What a payment has in hand.
LEMMA PayInHand ==
    ASSUME Shape, NEW r \in Requests, NEW n \in Nat, Pay(r, n),
           job[r].op \in {"signupPay", "milestonePay"}
    PROVE  /\ job[r].user \in Users /\ copy[r].user = job[r].user
           /\ Credited(r, n) \in WalletBalance
           /\ Credited(r, n).pending = copy[r].doc.pending + n
           /\ Credited(r, n).approved = copy[r].doc.approved
           /\ Credited(r, n).totalEarned = copy[r].doc.totalEarned + n
<1>1. PayerHas(r) /\ job[r].op # "signup"
  BY Payer DEF Unpaid, Paid, Decided, Triggering
<1> QED BY <1>1, CreditedType DEF PayerHas

\* The two payments, and the two rows, with their amounts.
LEMMA Payments ==
    ASSUME Shape, NEW r \in Requests
    PROVE  /\ SignupPay(r) \/ MilestonePay(r) =>
                \E n \in Nat : Pay(r, n) /\ job[r].op \in {"signupPay", "milestonePay"}
           /\ SignupLog(r) \/ MilestoneLog(r) =>
                \E n \in Nat : Log(r, n) /\ job[r].user \in Users
<1>1. SignupBonus \in Nat /\ \A m \in Milestones : MilestoneBonus[m] \in Nat
  BY ReferralAssumption
<1>2. job[r].op \in Triggering => job[r].milestone \in Milestones
  BY InHand DEF JobFits
<1>3. job[r].op \in Paid => job[r].user \in Users
  BY Payer DEF PayerHas
<1> QED BY <1>1, <1>2, <1>3 DEF SignupPay, MilestonePay, SignupLog, MilestoneLog, Is,
                                Paid, Decided, Triggering

\* What a step does to the user documents is a step of UserDocument, or none.
LEMMA StepDoc ==
    ASSUME Shape, NEW r \in Requests, StepOf(r)
    PROVE  UNCHANGED docVars \/ DocStep(r)
<1>1. CASE SignupFind(r)
  <2>1. job[r].user \in Users
    BY <1>1, Payer DEF SignupFind, Is, PayerHas, Unpaid
  <2> QED BY <1>1, <2>1 DEF SignupFind, DocStep
<1>2. CASE SignupPay(r) \/ MilestonePay(r)
  <2>1. PICK n \in Nat : Pay(r, n) /\ job[r].op \in {"signupPay", "milestonePay"}
    BY <1>2, Payments
  <2>2. Credited(r, n) \in WalletBalance /\ copy[r].user \in Users
    BY <2>1, PayInHand
  <2> QED BY <2>1, <2>2 DEF Pay, DocStep
<1>3. CASE SignupInsert(r) \/ Drop(r)
  BY <1>3 DEF SignupInsert, Drop, DocStep
<1>4. CASE ~ (SignupFind(r) \/ SignupPay(r) \/ MilestonePay(r) \/ SignupInsert(r) \/ Drop(r))
  BY <1>4 DEF StepOf, Register, RegisterFind, RegisterCreate, Created, SignupLog, Log,
              MilestoneLog, Count, Reached
<1> QED BY <1>1, <1>2, <1>3, <1>4

\* With Shape, Fresh is inductive.
LEMMA FreshStep == Shape /\ Fresh /\ [Next]_vars => Fresh'
<1> SUFFICES ASSUME Shape, Fresh, [Next]_vars PROVE Fresh'
  OBVIOUS
<1>1. ASSUME UNCHANGED docVars PROVE Fresh'
  BY <1>1 DEF docVars, Fresh
<1>2. CASE Next
  BY <1>1, <1>2, ShapeHas, StepDoc, FreshDocStep DEF Next, StepOf
<1>3. CASE UNCHANGED vars
  BY <1>1, <1>3 DEF vars, docVars
<1> QED BY <1>2, <1>3

\* No copy, nothing to be fresh.
LEMMA FreshInit == Init => Fresh
BY NoUserAssumption DEF Init, Fresh, NoCopy

\* A path of a copy that no save has overtaken is what is stored, in every state,
\* the copy that serves for both bonuses of a sign-up included.
THEOREM CopiesFresh == Spec => []Fresh
BY FreshInit, FreshStep, ShapeInvariant, PTL DEF Spec

\* A bonus saved over no path that others have written in the meantime is added to
\* the pending balance and to the earnings, once each.
LEMMA ExactBonus ==
    ASSUME Shape, Fresh, NEW r \in Requests, NEW n \in Nat, Pay(r, n),
           job[r].op \in {"signupPay", "milestonePay"},
           copy[r].stale \cap ModifiedPaths(r, Credited(r, n)) = {}
    PROVE  LET u == job[r].user
           IN  /\ account'[u].pending = account[u].pending + n
               /\ account'[u].totalEarned = account[u].totalEarned + n
<1> DEFINE u == job[r].user
           mem == Credited(r, n)
<1>1. /\ u \in Users /\ copy[r].user = u /\ mem \in WalletBalance
      /\ mem.pending = copy[r].doc.pending + n
      /\ mem.totalEarned = copy[r].doc.totalEarned + n
  BY PayInHand
<1>2. DocTypeOK /\ account[u] \in WalletBalance /\ copy[r].doc \in WalletBalance
  BY <1>1, ShapeHas, InHand DEF DocTypeOK, Copies
<1>3. account'[u] = Stored(r, mem)
  BY <1>1, <1>2 DEF DocTypeOK, Pay, Save
<1>4. FreshCopy(r)
  BY FreshCopies
<1> HIDE DEF u, mem
<1>5. /\ copy[r].doc.pending \in Int /\ account[u].pending \in Int
      /\ copy[r].doc.totalEarned \in Int /\ account[u].totalEarned \in Int
  BY <1>2 DEF WalletBalance
<1>6. CASE n = 0
  <2>1. "pending" \notin ModifiedPaths(r, mem) /\ "totalEarned" \notin ModifiedPaths(r, mem)
    BY <1>1, <1>5, <1>6 DEF ModifiedPaths
  <2> QED BY <1>1, <1>2, <1>3, <1>5, <1>6, <2>1, StoredPaths DEF u
<1>7. CASE n # 0
  <2>1. "pending" \in ModifiedPaths(r, mem) /\ "totalEarned" \in ModifiedPaths(r, mem)
    BY <1>1, <1>5, <1>7 DEF ModifiedPaths
  <2>2. /\ copy[r].doc.pending = account[u].pending
        /\ copy[r].doc.totalEarned = account[u].totalEarned
    BY <1>1, <1>4, <2>1 DEF FreshCopy, mem
  <2> QED BY <1>1, <1>2, <1>3, <2>1, <2>2, StoredPaths DEF u
<1> QED BY <1>6, <1>7

\* The rows and the bonuses without a row are the balance, step by step.
LEMMA RowsStep == Shape /\ Fresh /\ RowsReconcile /\ [Next]_vars => RowsReconcile'
<1> SUFFICES ASSUME Shape, Fresh, RowsReconcile, [Next]_vars PROVE RowsReconcile'
  OBVIOUS
<1>1. /\ StoreOK /\ DocTypeOK
      /\ \A u \in Users : /\ account[u].pending \in Int /\ account[u].totalEarned \in Int
                          /\ logged[u] \in Int /\ unlogged[u] \in Int
  BY ShapeHas DEF DocTypeOK, WalletBalance, StoreOK
<1>2. ASSUME UNCHANGED <<account, clobbered, logged, unlogged>>
      PROVE  RowsReconcile'
  BY <1>2 DEF RowsReconcile
<1>3. ASSUME NEW r \in Requests, SignupPay(r) \/ MilestonePay(r)
      PROVE  RowsReconcile'
  <2>1. PICK n \in Nat : Pay(r, n) /\ job[r].op \in {"signupPay", "milestonePay"}
    BY <1>3, Payments
  <2>2. PICK u \in Users : u = job[r].user /\ copy[r].user = u
    BY <2>1, PayInHand
  <2>3. /\ account' = [account EXCEPT ![u] = Stored(r, Credited(r, n))]
        /\ clobbered \subseteq clobbered' /\ UNCHANGED logged
        /\ u \notin clobbered' => copy[r].stale \cap ModifiedPaths(r, Credited(r, n)) = {}
        /\ unlogged' = [unlogged EXCEPT ![u] = @ + n]
    BY <2>1, <2>2 DEF Pay, Save
  <2>4. u \notin clobbered' => /\ account'[u].pending = account[u].pending + n
                               /\ account'[u].totalEarned = account[u].totalEarned + n
    BY <2>1, <2>2, <2>3, ExactBonus
  <2>5. /\ \A v \in Users \ {u} : account'[v] = account[v] /\ unlogged'[v] = unlogged[v]
        /\ unlogged'[u] = unlogged[u] + n
    BY <1>1, <2>3 DEF DocTypeOK, StoreOK
  <2> QED BY <1>1, <2>3, <2>4, <2>5 DEF RowsReconcile
<1>4. ASSUME NEW r \in Requests, SignupLog(r) \/ MilestoneLog(r)
      PROVE  RowsReconcile'
  <2>1. PICK n \in Nat : Log(r, n) /\ job[r].user \in Users
    BY <1>4, Payments
  <2>2. PICK u \in Users : u = job[r].user
    BY <2>1
  <2>3. /\ UNCHANGED <<account, clobbered>>
        /\ unlogged' = [unlogged EXCEPT ![u] = @ - n]
        /\ logged' = [logged EXCEPT ![u] = @ + n]
    BY <2>1, <2>2 DEF Log, docVars
  <2>4. /\ \A v \in Users \ {u} : logged'[v] = logged[v] /\ unlogged'[v] = unlogged[v]
        /\ unlogged'[u] = unlogged[u] - n /\ logged'[u] = logged[u] + n
    BY <1>1, <2>3 DEF StoreOK
  <2> QED BY <1>1, <2>3, <2>4 DEF RowsReconcile
<1>5. ASSUME NEW r \in Requests, StepOf(r),
             ~ (SignupPay(r) \/ MilestonePay(r) \/ SignupLog(r) \/ MilestoneLog(r))
      PROVE  RowsReconcile'
  <2>1. UNCHANGED <<account, clobbered, logged, unlogged>>
    BY <1>5 DEF StepOf, Register, RegisterFind, RegisterCreate, Created, SignupFind, Find,
                Count, Reached, SignupInsert, Drop, Release, docVars, history
  <2> QED BY <1>2, <2>1
<1>6. CASE Next
  BY <1>3, <1>4, <1>5, <1>6 DEF Next, StepOf
<1>7. CASE UNCHANGED vars
  BY <1>2, <1>7 DEF vars
<1> QED BY <1>6, <1>7

\* For every referrer whose document no sign-up overwrote from a stale copy, the
\* pending balance and the earnings are what the rows and the bonuses without a
\* row (yet) add up to, for any bonuses and however sign-ups overlap.
THEOREM RowsReconciled == Spec => []RowsReconcile
<1>1. Init => RowsReconcile
  <2> SUFFICES ASSUME Init, NEW u \in Users
               PROVE  /\ account[u].pending = logged[u] + unlogged[u]
                      /\ account[u].totalEarned = logged[u] + unlogged[u]
    BY DEF RowsReconcile
  <2>1. /\ account[u].pending = 0 /\ account[u].totalEarned = 0
        /\ logged[u] = 0 /\ unlogged[u] = 0
    BY DEF Init, ZeroBalance
  <2> QED BY <2>1
<1> QED BY <1>1, RowsStep, ShapeInvariant, CopiesFresh, PTL DEF Spec

-----------------------------------------------------------------------------
\* What Earned, RowsToCome and TotalBonusEarned add up: bonuses by e-mail and by
\* milestone, rows by request, and what the referrals say by e-mail.
SignupPaid(u) ==
    [e \in Emails |-> IF referredBy[e] = u THEN SignupBonus * bonuses[e] ELSE 0]

MilestonePaid(u) == [m \in Milestones |-> MilestoneBonus[m] * milestones[u][m]]

ToWrite(u) ==
    [r \in Requests |->
        IF job[r].user # u THEN 0
        ELSE IF Is(r, "signupLog") THEN SignupBonus
        ELSE IF Is(r, "milestoneLog") THEN MilestoneBonus[job[r].milestone]
        ELSE 0]

Reported(u) ==
    [e \in Emails |->
        IF referral[e].referrerId = u THEN referral[e].bonusEarned ELSE 0]

\* What a request has paid u for a referral that is still to be inserted.
ToReport(u) ==
    [r \in Requests |->
        IF job[r].user # u \/ job[r].op \notin Paid THEN 0
        ELSE IF job[r].op \in {"milestoneLog", "insert"} /\ job[r].milestone # 0
             THEN SignupBonus + MilestoneBonus[job[r].milestone]
             ELSE SignupBonus]

Unreported(u) == SumFunctionOnSet(ToReport(u), Requests)

\* The rows, and the bonuses without one, are what was paid.
Ledger ==
    \A u \in Users : /\ logged[u] + unlogged[u] = Earned(u)
                     /\ RowsToCome(u) <= unlogged[u]

\* None of u's sign-ups broke off.
NoneLost(u) == \A e \in lost : referredBy[e] # u

\* What StatsAreHonest becomes in the middle of a sign-up: the referrals listed
\* and those to be inserted account for every bonus.
Reports ==
    \A u \in Users : NoneLost(u) => TotalBonusEarned(u) + Unreported(u) = Earned(u)

\* They are sums of those functions, in this state and in the next.
LEMMA Sums ==
    /\ \A u : Earned(u) = SumFunctionOnSet(SignupPaid(u), Emails)
                            + SumFunctionOnSet(MilestonePaid(u), Milestones)
    /\ \A u : RowsToCome(u) = SumFunctionOnSet(ToWrite(u), Requests)
    /\ \A u : TotalBonusEarned(u) = SumFunctionOnSet(Reported(u), Emails)
    /\ \A u : Earned(u)' = SumFunctionOnSet(SignupPaid(u)', Emails)
                             + SumFunctionOnSet(MilestonePaid(u)', Milestones)
    /\ \A u : RowsToCome(u)' = SumFunctionOnSet(ToWrite(u)', Requests)
    /\ \A u : TotalBonusEarned(u)' = SumFunctionOnSet(Reported(u)', Emails)
BY DEF Earned, RowsToCome, TotalBonusEarned, SignupPaid, MilestonePaid, ToWrite, Reported

\* The arithmetic of a bonus paid so many times.
LEMMA Times ==
    ASSUME NEW n \in Nat, NEW k \in Nat
    PROVE  k * n \in Nat /\ k * (n + 1) = k * n + k /\ k * 0 = 0
OBVIOUS

\* Everything added up is an amount.
LEMMA Amounts ==
    ASSUME Shape, NEW u \in Users
    PROVE  /\ \A e \in Emails : SignupPaid(u)[e] \in Nat /\ Reported(u)[e] \in Nat
           /\ \A m \in Milestones : MilestonePaid(u)[m] \in Nat
           /\ \A r \in Requests : ToWrite(u)[r] \in Nat /\ ToReport(u)[r] \in Nat
<1>1. StoreOK /\ SignupBonus \in Nat /\ \A m \in Milestones : MilestoneBonus[m] \in Nat
  BY ShapeHas, ReferralAssumption
<1>2. ASSUME NEW e \in Emails PROVE SignupPaid(u)[e] \in Nat /\ Reported(u)[e] \in Nat
  <2>1. bonuses[e] \in Nat /\ referral[e].bonusEarned \in Nat
    BY <1>1 DEF StoreOK, Referral
  <2>2. SignupBonus * bonuses[e] \in Nat
    BY <1>1, <2>1, Times
  <2> QED BY <2>1, <2>2 DEF SignupPaid, Reported
<1>3. ASSUME NEW m \in Milestones PROVE MilestonePaid(u)[m] \in Nat
  <2>1. milestones[u][m] \in Nat
    BY <1>1 DEF StoreOK
  <2>2. MilestoneBonus[m] * milestones[u][m] \in Nat
    BY <1>1, <2>1, Times
  <2> QED BY <2>2 DEF MilestonePaid
<1>4. ASSUME NEW r \in Requests PROVE ToWrite(u)[r] \in Nat /\ ToReport(u)[r] \in Nat
  <2>1. job[r].milestone \in Milestones \cup {0} /\ JobFits(r)
    BY InHand DEF Job
  <2>2. ToWrite(u)[r] \in Nat
    BY <1>1, <2>1 DEF ToWrite, Is, JobFits, Triggering
  <2>3. ToReport(u)[r] \in Nat
    BY <1>1, <2>1 DEF ToReport
  <2> QED BY <2>2, <2>3
<1> QED BY <1>2, <1>3, <1>4

\* And every sum of them is a number.
LEMMA SumsAreNumbers ==
    ASSUME Shape, NEW u \in Users
    PROVE  /\ Earned(u) \in Int /\ RowsToCome(u) \in Int
           /\ TotalBonusEarned(u) \in Int /\ Unreported(u) \in Int
           /\ logged[u] \in Int /\ unlogged[u] \in Int
<1>1. IsFiniteSet(Emails) /\ IsFiniteSet(Milestones) /\ IsFiniteSet(Requests)
  BY ReferralAssumption
<1>2. /\ SumFunctionOnSet(SignupPaid(u), Emails) \in Int
      /\ SumFunctionOnSet(MilestonePaid(u), Milestones) \in Int
      /\ SumFunctionOnSet(Reported(u), Emails) \in Int
  BY <1>1, Amounts, SumType
<1>3. /\ SumFunctionOnSet(ToWrite(u), Requests) \in Int
      /\ SumFunctionOnSet(ToReport(u), Requests) \in Int
  BY <1>1, Amounts, SumType
<1>4. logged[u] \in Int /\ unlogged[u] \in Int
  BY ShapeHas DEF StoreOK
<1> QED BY <1>2, <1>3, <1>4, Sums DEF Unreported

\* A step of r changes the sums over requests by r's part.
LEMMA RequestSums ==
    ASSUME Shape, NEW r \in Requests, StepOf(r), NEW u \in Users
    PROVE  /\ ToWrite(u)'[r] \in Int =>
                RowsToCome(u)' = RowsToCome(u) + (ToWrite(u)'[r] - ToWrite(u)[r])
           /\ ToReport(u)'[r] \in Int =>
                Unreported(u)' = Unreported(u) + (ToReport(u)'[r] - ToReport(u)[r])
<1>1. \A q \in Requests \ {r} : job'[q] = job[q]
  BY Walk
<1>2. \A q \in Requests : ToWrite(u)[q] \in Int /\ ToReport(u)[q] \in Int
  BY Amounts
<1>3. \A q \in Requests \ {r} : /\ ToWrite(u)[q] = ToWrite(u)'[q]
                                /\ ToReport(u)[q] = ToReport(u)'[q]
  BY <1>1 DEF ToWrite, ToReport, Is
<1>4. ASSUME ToWrite(u)'[r] \in Int
      PROVE  RowsToCome(u)' = RowsToCome(u) + (ToWrite(u)'[r] - ToWrite(u)[r])
  <2> DEFINE a == ToWrite(u)
             b == ToWrite(u)'
  <2>1. /\ \A q \in Requests : a[q] \in Int /\ b[q] \in Int
        /\ \A q \in Requests \ {r} : a[q] = b[q]
    BY <1>2, <1>3, <1>4
  <2>2. RowsToCome(u) = SumFunctionOnSet(a, Requests) /\ RowsToCome(u)' = SumFunctionOnSet(b, Requests)
    BY Sums
  <2> HIDE DEF a, b
  <2>3. SumFunctionOnSet(b, Requests) = SumFunctionOnSet(a, Requests) + (b[r] - a[r])
    BY <2>1, SumPoint, ReferralAssumption
  <2> QED BY <2>2, <2>3 DEF a, b
<1>5. ASSUME ToReport(u)'[r] \in Int
      PROVE  Unreported(u)' = Unreported(u) + (ToReport(u)'[r] - ToReport(u)[r])
  <2> DEFINE a == ToReport(u)
             b == ToReport(u)'
  <2>1. /\ \A q \in Requests : a[q] \in Int /\ b[q] \in Int
        /\ \A q \in Requests \ {r} : a[q] = b[q]
    BY <1>2, <1>3, <1>5
  <2>2. Unreported(u) = SumFunctionOnSet(a, Requests) /\ Unreported(u)' = SumFunctionOnSet(b, Requests)
    BY DEF Unreported
  <2> HIDE DEF a, b
  <2>3. SumFunctionOnSet(b, Requests) = SumFunctionOnSet(a, Requests) + (b[r] - a[r])
    BY <2>1, SumPoint, ReferralAssumption
  <2> QED BY <2>2, <2>3 DEF a, b
<1> QED BY <1>4, <1>5

\* The bonus of a sign-up is earned once more.
LEMMA SignupEarned ==
    ASSUME Shape, NEW r \in Requests, SignupPay(r), NEW u \in Users
    PROVE  Earned(u)' = Earned(u) + (IF job[r].user = u THEN SignupBonus ELSE 0)
<1> DEFINE f == SignupPaid(u)
           g == SignupPaid(u)'
           k == IF job[r].user = u THEN SignupBonus ELSE 0
<1>1. job[r].op = "signupPay" /\ PayerHas(r)
  BY Payer DEF SignupPay, Is, Unpaid
<1>2. PICK e \in Emails : e = job[r].email
  BY <1>1 DEF PayerHas
<1>3. /\ referredBy[e] = job[r].user /\ UNCHANGED <<referredBy, milestones>>
      /\ bonuses' = [bonuses EXCEPT ![e] = @ + 1]
  BY <1>1, <1>2 DEF SignupPay, Pay, PayerHas
<1>4. /\ bonuses[e] \in Nat /\ bonuses'[e] = bonuses[e] + 1 /\ SignupBonus \in Nat
      /\ \A d \in Emails \ {e} : bonuses'[d] = bonuses[d]
  BY <1>3, ShapeHas, ReferralAssumption DEF StoreOK
<1>5. SignupBonus * (bonuses[e] + 1) = SignupBonus * bonuses[e] + SignupBonus
      /\ SignupBonus * bonuses[e] \in Nat
  BY <1>4, Times
<1>6. /\ \A d \in Emails \ {e} : f[d] = g[d]
      /\ g[e] = f[e] + k
  <2>1. \A d \in Emails \ {e} : f[d] = g[d]
    BY <1>3, <1>4 DEF SignupPaid
  <2>2. /\ f[e] = IF job[r].user = u THEN SignupBonus * bonuses[e] ELSE 0
        /\ g[e] = IF job[r].user = u THEN SignupBonus * (bonuses[e] + 1) ELSE 0
    BY <1>3, <1>4 DEF SignupPaid
  <2> HIDE DEF f, g
  <2> QED BY <1>5, <2>1, <2>2
<1>7. \A d \in Emails : f[d] \in Nat
  BY Amounts
<1>8. k \in Nat
  BY <1>4
<1>9. /\ Earned(u) = SumFunctionOnSet(f, Emails) + SumFunctionOnSet(MilestonePaid(u), Milestones)
      /\ Earned(u)' = SumFunctionOnSet(g, Emails) + SumFunctionOnSet(MilestonePaid(u), Milestones)
  <2>1. MilestonePaid(u)' = MilestonePaid(u)
    BY <1>3 DEF MilestonePaid
  <2> QED BY <2>1, Sums
<1>10. SumFunctionOnSet(MilestonePaid(u), Milestones) \in Int
  <2>1. \A m \in Milestones : MilestonePaid(u)[m] \in Int
    BY Amounts
  <2> QED BY <2>1, SumType, ReferralAssumption
<1> HIDE DEF f, g, k
<1>11. \A d \in Emails : f[d] \in Int /\ g[d] \in Int
  BY <1>6, <1>7, <1>8
<1>12. /\ SumFunctionOnSet(f, Emails) \in Int
       /\ SumFunctionOnSet(g, Emails) = SumFunctionOnSet(f, Emails) + (g[e] - f[e])
  BY <1>6, <1>11, SumPoint, ReferralAssumption
<1> QED BY <1>6, <1>7, <1>8, <1>9, <1>10, <1>12 DEF k

\* So is the bonus of a milestone.
LEMMA MilestoneEarned ==
    ASSUME Shape, NEW r \in Requests, MilestonePay(r), NEW u \in Users
    PROVE  Earned(u)' = Earned(u) +
             (IF job[r].user = u THEN MilestoneBonus[job[r].milestone] ELSE 0)
<1> DEFINE f == MilestonePaid(u)
           g == MilestonePaid(u)'
           k == IF job[r].user = u THEN MilestoneBonus[job[r].milestone] ELSE 0
<1>1. job[r].op = "milestonePay" /\ JobFits(r)
  BY InHand DEF MilestonePay, Is
<1>2. PICK m \in Milestones : m = job[r].milestone
  BY <1>1 DEF JobFits, Triggering
<1>3. UNCHANGED <<referredBy, bonuses>> /\ StepOf(r)
  BY DEF MilestonePay, Pay, StepOf, Register
<1>4. /\ milestones[u][m] \in Nat /\ MilestoneBonus[m] \in Nat
      /\ milestones'[u][m] =
           IF job[r].user = u THEN milestones[u][m] + 1 ELSE milestones[u][m]
      /\ \A n \in Milestones \ {m} : milestones'[u][n] = milestones[u][n]
  BY <1>2, <1>3, MilestoneMoves, ReferralAssumption
<1>5. /\ MilestoneBonus[m] * (milestones[u][m] + 1) =
           MilestoneBonus[m] * milestones[u][m] + MilestoneBonus[m]
      /\ MilestoneBonus[m] * milestones[u][m] \in Nat
  BY <1>4, Times
<1>6. /\ \A n \in Milestones \ {m} : f[n] = g[n]
      /\ g[m] = f[m] + k
  <2>1. \A n \in Milestones \ {m} : f[n] = g[n]
    BY <1>4 DEF MilestonePaid
  <2>2. /\ f[m] = MilestoneBonus[m] * milestones[u][m]
        /\ g[m] = MilestoneBonus[m] *
                    (IF job[r].user = u THEN milestones[u][m] + 1 ELSE milestones[u][m])
    BY <1>4 DEF MilestonePaid
  <2> HIDE DEF f, g
  <2> QED BY <1>2, <1>5, <2>1, <2>2
<1>7. \A n \in Milestones : f[n] \in Nat
  BY Amounts
<1>8. k \in Nat
  BY <1>2, <1>4
<1>9. /\ Earned(u) = SumFunctionOnSet(SignupPaid(u), Emails) + SumFunctionOnSet(f, Milestones)
      /\ Earned(u)' = SumFunctionOnSet(SignupPaid(u), Emails) + SumFunctionOnSet(g, Milestones)
  <2>1. SignupPaid(u)' = SignupPaid(u)
    BY <1>3 DEF SignupPaid
  <2> QED BY <2>1, Sums
<1>10. SumFunctionOnSet(SignupPaid(u), Emails) \in Int
  <2>1. \A e \in Emails : SignupPaid(u)[e] \in Int
    BY Amounts
  <2> QED BY <2>1, SumType, ReferralAssumption
<1> HIDE DEF f, g, k
<1>11. \A n \in Milestones : f[n] \in Int /\ g[n] \in Int
  BY <1>6, <1>7, <1>8
<1>12. IsFiniteSet(Milestones) /\ \A n \in Milestones \ {m} : f[n] = g[n]
  BY <1>6, ReferralAssumption
<1>13. /\ SumFunctionOnSet(f, Milestones) \in Int
       /\ SumFunctionOnSet(g, Milestones) = SumFunctionOnSet(f, Milestones) + (g[m] - f[m])
  BY <1>11, <1>12, SumPoint
<1> QED BY <1>6, <1>7, <1>8, <1>9, <1>10, <1>13 DEF k

\* Nothing else earns: a user stored has no bonus yet.
LEMMA NothingEarned ==
    ASSUME Shape, NEW r \in Requests, StepOf(r), ~ (SignupPay(r) \/ MilestonePay(r)),
           NEW u \in Users
    PROVE  Earned(u)' = Earned(u)
<1>1. UNCHANGED <<bonuses, milestones>>
  BY DEF StepOf, Register, RegisterFind, RegisterCreate, Created, SignupFind, SignupLog,
         Log, Count, Reached, MilestoneLog, SignupInsert, Drop, history
<1>2. ASSUME NEW e \in Emails
      PROVE  SignupPaid(u)[e] = SignupPaid(u)'[e]
  <2>1. CASE referredBy'[e] = referredBy[e]
    BY <1>1, <2>1 DEF SignupPaid
  <2>2. CASE referredBy'[e] # referredBy[e]
    <3>1. RegisterCreate(r)
      BY <2>2 DEF StepOf, Register, RegisterFind, SignupFind, SignupPay, SignupLog, Pay,
                  Log, Count, Reached, MilestonePay, MilestoneLog, SignupInsert, Drop
    <3>2. referredBy[e] = NoAccount
      BY <2>2, <3>1, ShapeHas DEF RegisterCreate, Created, StoreOK
    <3>3. bonuses[e] = 0 /\ SignupBonus * 0 = 0
      BY <3>2, Times, ReferralAssumption DEF Shape, EmailFits
    <3> QED BY <1>1, <3>3 DEF SignupPaid
  <2> QED BY <2>1, <2>2
<1>3. SumFunctionOnSet(SignupPaid(u), Emails) = SumFunctionOnSet(SignupPaid(u)', Emails)
  BY <1>2, SumEqual, ReferralAssumption
<1>4. MilestonePaid(u)' = MilestonePaid(u)
  BY <1>1 DEF MilestonePaid
<1> QED BY <1>3, <1>4, Sums

-----------------------------------------------------------------------------
\* A payment: the bonus is earned, and its row is to come.
LEMMA LedgerPay ==
    ASSUME Shape, Ledger, NEW r \in Requests, NEW n \in Nat, NEW u \in Users,
           StepOf(r), Pay(r, n), job[r].op \in {"signupPay", "milestonePay"},
           Earned(u)' = Earned(u) + (IF job[r].user = u THEN n ELSE 0),
           ToWrite(u)'[r] = IF job[r].user = u THEN n ELSE 0
    PROVE  /\ logged'[u] + unlogged'[u] = Earned(u)'
           /\ RowsToCome(u)' <= unlogged'[u]
<1> DEFINE k == IF job[r].user = u THEN n ELSE 0
<1>1. k \in Nat /\ ToWrite(u)[r] = 0
  BY DEF ToWrite, Is
<1>2. RowsToCome(u)' = RowsToCome(u) + (k - 0)
  BY <1>1, RequestSums
<1>3. logged'[u] = logged[u] /\ unlogged'[u] = unlogged[u] + k
  <2>1. job[r].user \in Users
    BY PayInHand
  <2> QED BY <2>1, ShapeHas DEF Pay, StoreOK
<1>4. logged[u] + unlogged[u] = Earned(u) /\ RowsToCome(u) <= unlogged[u]
  BY DEF Ledger
<1>5. Earned(u)' = Earned(u) + k
  OBVIOUS
<1> HIDE DEF k
<1> QED BY <1>1, <1>2, <1>3, <1>4, <1>5, SumsAreNumbers

\* A row: the bonus moves from those without one to the rows.
LEMMA LedgerLog ==
    ASSUME Shape, Ledger, NEW r \in Requests, NEW n \in Nat, NEW u \in Users,
           StepOf(r), Log(r, n), job[r].user \in Users, Earned(u)' = Earned(u),
           ToWrite(u)[r] = IF job[r].user = u THEN n ELSE 0,
           ToWrite(u)'[r] = 0
    PROVE  /\ logged'[u] + unlogged'[u] = Earned(u)'
           /\ RowsToCome(u)' <= unlogged'[u]
<1> DEFINE k == IF job[r].user = u THEN n ELSE 0
<1>1. k \in Nat
  OBVIOUS
<1>2. RowsToCome(u)' = RowsToCome(u) + (0 - k)
  BY RequestSums
<1>3. logged'[u] = logged[u] + k /\ unlogged'[u] = unlogged[u] - k
  BY SumsAreNumbers, ShapeHas DEF Log, StoreOK
<1>4. logged[u] + unlogged[u] = Earned(u) /\ RowsToCome(u) <= unlogged[u]
  BY DEF Ledger
<1> HIDE DEF k
<1> QED BY <1>1, <1>2, <1>3, <1>4, SumsAreNumbers

\* The ledger, after each step.
LEMMA LedgerStep == Shape /\ Ledger /\ [Next]_vars => Ledger'
<1> SUFFICES ASSUME Shape, Ledger, [Next]_vars PROVE Ledger'
  OBVIOUS
<1>1. ASSUME NEW r \in Requests, StepOf(r), NEW u \in Users
      PROVE  /\ logged'[u] + unlogged'[u] = Earned(u)'
             /\ RowsToCome(u)' <= unlogged'[u]
  <2>1. SignupBonus \in Nat /\ \A m \in Milestones : MilestoneBonus[m] \in Nat
    BY ReferralAssumption
  <2>2. job[r].op \in Triggering => job[r].milestone \in Milestones
    BY InHand DEF JobFits
  <2>3. job[r].op \in Paid => job[r].user \in Users
    BY Payer DEF PayerHas
  <2>4. CASE SignupPay(r)
    <3>1. Onward(r, "signupPay", "signupLog")
      BY <1>1, <2>4, Walk
    <3>2. ToWrite(u)'[r] = IF job[r].user = u THEN SignupBonus ELSE 0
      BY <3>1 DEF ToWrite, Is, Onward
    <3>3. Pay(r, SignupBonus) /\ job[r].op = "signupPay"
      BY <2>4 DEF SignupPay, Is
    <3> QED BY <1>1, <2>1, <2>4, <3>2, <3>3, SignupEarned, LedgerPay
  <2>5. CASE MilestonePay(r)
    <3>1. Onward(r, "milestonePay", "milestoneLog")
      BY <1>1, <2>5, Walk
    <3>2. ToWrite(u)'[r] = IF job[r].user = u THEN MilestoneBonus[job[r].milestone] ELSE 0
      BY <3>1 DEF ToWrite, Is, Onward
    <3>3. Pay(r, MilestoneBonus[job[r].milestone]) /\ job[r].op = "milestonePay"
      BY <2>5 DEF MilestonePay, Is
    <3>4. MilestoneBonus[job[r].milestone] \in Nat
      BY <2>1, <2>2, <3>3 DEF Triggering
    <3> QED BY <1>1, <2>5, <3>2, <3>3, <3>4, MilestoneEarned, LedgerPay
  <2>6. CASE SignupLog(r)
    <3>1. Onward(r, "signupLog", "count")
      BY <1>1, <2>6, Walk
    <3>2. /\ ToWrite(u)[r] = IF job[r].user = u THEN SignupBonus ELSE 0
          /\ ToWrite(u)'[r] = 0
      BY <3>1 DEF ToWrite, Is, Onward
    <3>3. Log(r, SignupBonus) /\ job[r].user \in Users
      BY <2>3, <2>6 DEF SignupLog, Is, Paid
    <3>4. Earned(u)' = Earned(u)
      BY <1>1, <3>1, NothingEarned DEF SignupPay, MilestonePay, Is, Onward
    <3> QED BY <1>1, <2>1, <3>2, <3>3, <3>4, LedgerLog
  <2>7. CASE MilestoneLog(r)
    <3>1. Onward(r, "milestoneLog", "insert")
      BY <1>1, <2>7, Walk
    <3>2. /\ ToWrite(u)[r] = IF job[r].user = u THEN MilestoneBonus[job[r].milestone] ELSE 0
          /\ ToWrite(u)'[r] = 0
      BY <3>1 DEF ToWrite, Is, Onward
    <3>3. /\ Log(r, MilestoneBonus[job[r].milestone]) /\ job[r].user \in Users
          /\ MilestoneBonus[job[r].milestone] \in Nat
      BY <2>1, <2>2, <2>3, <2>7 DEF MilestoneLog, Is, Paid, Decided, Triggering
    <3>4. Earned(u)' = Earned(u)
      BY <1>1, <3>1, NothingEarned DEF SignupPay, MilestonePay, Is, Onward
    <3> QED BY <1>1, <3>2, <3>3, <3>4, LedgerLog
  <2>8. CASE ~ (SignupPay(r) \/ MilestonePay(r) \/ SignupLog(r) \/ MilestoneLog(r))
    <3>1. UNCHANGED <<logged, unlogged>>
      BY <1>1, <2>8 DEF StepOf, Register, RegisterFind, RegisterCreate, Created,
             SignupFind, Count, Reached, SignupInsert, Drop, history
    <3>2. Earned(u)' = Earned(u)
      BY <1>1, <2>8, NothingEarned
    <3>3. job'[r].op \notin {"signupLog", "milestoneLog"}
      BY <1>1, <2>8, Walk DEF StepOf, Register, Blank, Onward, Counted
    <3>4. ToWrite(u)'[r] = 0 /\ ToWrite(u)[r] \in Nat
      <4>1. ToWrite(u)[r] \in Nat
        BY Amounts
      <4> QED BY <3>3, <4>1 DEF ToWrite, Is
    <3>5. RowsToCome(u)' = RowsToCome(u) + (0 - ToWrite(u)[r])
      BY <1>1, <3>4, RequestSums
    <3>6. logged[u] + unlogged[u] = Earned(u) /\ RowsToCome(u) <= unlogged[u]
      BY DEF Ledger
    <3> QED BY <3>1, <3>2, <3>4, <3>5, <3>6, SumsAreNumbers
  <2> QED BY <2>4, <2>5, <2>6, <2>7, <2>8
<1>2. CASE Next
  BY <1>1, <1>2 DEF Next, StepOf, Ledger
<1>3. CASE UNCHANGED vars
  BY <1>3 DEF vars, Ledger, Earned, RowsToCome, Is
<1> QED BY <1>2, <1>3

\* Nothing is paid, and nothing is to be written or reported.
LEMMA NothingYet ==
    ASSUME Init, NEW u \in Users
    PROVE  /\ Earned(u) = 0 /\ RowsToCome(u) = 0
           /\ TotalBonusEarned(u) = 0 /\ Unreported(u) = 0
<1>1. /\ \A e \in Emails : bonuses[e] = 0 /\ referral[e].referrerId # u
      /\ \A m \in Milestones : milestones[u][m] = 0
      /\ \A r \in Requests : job[r].op = "idle"
  BY IdleJob, NoUserAssumption DEF Init
<1>2. /\ \A e \in Emails : SignupPaid(u)[e] = 0 /\ Reported(u)[e] = 0
      /\ \A m \in Milestones : MilestonePaid(u)[m] = 0
      /\ \A r \in Requests : ToWrite(u)[r] = 0 /\ ToReport(u)[r] = 0
  <2>1. /\ SignupBonus * 0 = 0
        /\ \A m \in Milestones : MilestoneBonus[m] * 0 = 0
    BY Times, ReferralAssumption
  <2>2. \A e \in Emails : SignupPaid(u)[e] = 0 /\ Reported(u)[e] = 0
    BY <1>1, <2>1 DEF SignupPaid, Reported
  <2>3. \A m \in Milestones : MilestonePaid(u)[m] = 0
    BY <1>1, <2>1 DEF MilestonePaid
  <2>4. \A r \in Requests : ToWrite(u)[r] = 0 /\ ToReport(u)[r] = 0
    BY <1>1 DEF ToWrite, ToReport, Is, Paid, Decided, Triggering
  <2> QED BY <2>2, <2>3, <2>4
<1>3. IsFiniteSet(Emails) /\ IsFiniteSet(Milestones) /\ IsFiniteSet(Requests)
  BY ReferralAssumption
<1>4. /\ SumFunctionOnSet(SignupPaid(u), Emails) = 0
      /\ SumFunctionOnSet(Reported(u), Emails) = 0
  BY <1>2, <1>3, SumZero
<1>5. SumFunctionOnSet(MilestonePaid(u), Milestones) = 0
  BY <1>2, <1>3, SumZero
<1>6. /\ SumFunctionOnSet(ToWrite(u), Requests) = 0
      /\ SumFunctionOnSet(ToReport(u), Requests) = 0
  BY <1>2, <1>3, SumZero
<1> QED BY <1>4, <1>5, <1>6, Sums DEF Unreported

\* Every bonus that was paid has its row, or is counted among those without one,
\* in every reachable state, however sign-ups overlap or break off.
THEOREM LedgerInvariant == Spec => []Ledger
<1>1. Init => Ledger
  <2> SUFFICES ASSUME Init, NEW u \in Users
               PROVE  logged[u] + unlogged[u] = Earned(u) /\ RowsToCome(u) <= unlogged[u]
    BY DEF Ledger
  <2>1. logged[u] = 0 /\ unlogged[u] = 0
    BY DEF Init
  <2> QED BY <2>1, NothingYet
<1> QED BY <1>1, LedgerStep, ShapeInvariant, PTL DEF Spec

\* The balance, the rows and the bonuses that were paid agree, for any bonuses and
\* milestones, any number of sign-ups and however they overlap or break off.
THEOREM BonusesReconciled == Spec => []BonusesReconcile
<1>1. RowsReconcile /\ Ledger => BonusesReconcile
  BY DEF Ledger, BonusesReconcile
<1> QED BY <1>1, RowsReconciled, LedgerInvariant, PTL

-----------------------------------------------------------------------------
\* No milestone is in hand before the referrals are counted.
Undecided == \A r \in Requests : job[r].op \notin Decided => job[r].milestone = 0

\* A step that lists no referral reports nothing new.
LEMMA ReportedKept ==
    ASSUME NEW u \in Users, UNCHANGED referral
    PROVE  TotalBonusEarned(u)' = TotalBonusEarned(u)
BY DEF TotalBonusEarned

\* The referral inserted reports what its sign-up has paid.
LEMMA ReportedInserted ==
    ASSUME Shape, NEW r \in Requests, SignupInsert(r), NEW u \in Users
    PROVE  TotalBonusEarned(u)' = TotalBonusEarned(u) + ToReport(u)[r]
<1> DEFINE f == Reported(u)
           g == Reported(u)'
           k == ToReport(u)[r]
<1>1. job[r].op = "insert" /\ PayerHas(r)
  BY Payer DEF SignupInsert, Is, Paid, Decided
<1>2. PICK e \in Emails : e = job[r].email
  BY <1>1 DEF PayerHas
<1>3. /\ referral[e].referrerId # u
      /\ referral'[e].referrerId = job[r].user
      /\ referral'[e].bonusEarned = SignupBonus +
           (IF job[r].milestone = 0 THEN 0 ELSE MilestoneBonus[job[r].milestone])
      /\ \A d \in Emails \ {e} : referral'[d] = referral[d]
  BY <1>1, <1>2, ShapeHas, IdleJob, NoUserAssumption
  DEF SignupInsert, PayerHas, StoreOK
<1>4. SignupBonus \in Nat
  BY ReferralAssumption
<1>5. f[e] = 0 /\ g[e] = k
  BY <1>1, <1>3, <1>4 DEF Reported, ToReport, Paid, Decided
<1>6. \A d \in Emails \ {e} : f[d] = g[d]
  BY <1>3 DEF Reported
<1>7. (\A d \in Emails : f[d] \in Nat) /\ k \in Nat
  BY Amounts
<1>8. /\ TotalBonusEarned(u) = SumFunctionOnSet(f, Emails)
      /\ TotalBonusEarned(u)' = SumFunctionOnSet(g, Emails)
  BY Sums
<1> HIDE DEF f, g, k
<1>9. IsFiniteSet(Emails) /\ \A d \in Emails : f[d] \in Int /\ g[d] \in Int
  BY <1>5, <1>6, <1>7, ReferralAssumption
<1>10. /\ SumFunctionOnSet(f, Emails) \in Int
       /\ SumFunctionOnSet(g, Emails) = SumFunctionOnSet(f, Emails) + (g[e] - f[e])
  BY <1>6, <1>9, SumPoint
<1> QED BY <1>5, <1>7, <1>8, <1>10 DEF k

\* A sign-up that breaks off after it paid is one that was lost.
LEMMA DropReports ==
    ASSUME Shape, NEW r \in Requests, Drop(r), NEW u \in Users, NoneLost(u)'
    PROVE  ToReport(u)[r] = 0
<1> SUFFICES ASSUME job[r].user = u, job[r].op \in Paid PROVE FALSE
  BY DEF ToReport
<1>1. PayerHas(r)
  BY Payer
<1>2. job[r].email \in lost' /\ referredBy'[job[r].email] = u
  BY <1>1 DEF Drop, PayerHas
<1> QED BY <1>2 DEF NoneLost

\* What a step of r takes from, or adds to, what is still to be reported.
LEMMA ToReportMoves ==
    ASSUME Shape, Undecided, NEW r \in Requests, StepOf(r), NEW u \in Users
    PROVE  /\ SignupPay(r) =>
                /\ ToReport(u)[r] = 0
                /\ ToReport(u)'[r] = IF job[r].user = u THEN SignupBonus ELSE 0
           /\ MilestonePay(r) =>
                ToReport(u)'[r] = ToReport(u)[r] +
                  (IF job[r].user = u THEN MilestoneBonus[job[r].milestone] ELSE 0)
           /\ SignupLog(r) \/ Count(r) \/ MilestoneLog(r) =>
                ToReport(u)'[r] = ToReport(u)[r]
           /\ SignupFind(r) \/ RegisterCreate(r)
                \/ (\E e \in Emails, v \in Users \cup {NoUser} : RegisterFind(r, e, v)) =>
                ToReport(u)[r] = 0 /\ ToReport(u)'[r] = 0
           /\ SignupInsert(r) \/ Drop(r) => ToReport(u)'[r] = 0
<1> USE DEF ToReport, Paid, Decided, Triggering
<1>1. SignupBonus \in Nat /\ \A m \in Milestones : MilestoneBonus[m] \in Nat /\ m # 0
  BY ReferralAssumption
<1>2. ASSUME SignupPay(r)
      PROVE  /\ ToReport(u)[r] = 0
             /\ ToReport(u)'[r] = IF job[r].user = u THEN SignupBonus ELSE 0
  BY <1>2, Walk DEF Onward
<1>3. ASSUME MilestonePay(r)
      PROVE  ToReport(u)'[r] = ToReport(u)[r] +
               (IF job[r].user = u THEN MilestoneBonus[job[r].milestone] ELSE 0)
  <2>1. Onward(r, "milestonePay", "milestoneLog")
    BY <1>3, Walk
  <2>2. job[r].milestone \in Milestones
    BY <2>1, InHand DEF JobFits, Onward
  <2>3. CASE job[r].user = u
    <3>1. ToReport(u)[r] = SignupBonus
      BY <2>1, <2>3 DEF Onward
    <3>2. ToReport(u)'[r] = SignupBonus + MilestoneBonus[job[r].milestone]
      BY <1>1, <2>1, <2>2, <2>3 DEF Onward
    <3> QED BY <2>3, <3>1, <3>2
  <2>4. CASE job[r].user # u
    BY <2>1, <2>4 DEF Onward
  <2> QED BY <2>3, <2>4
<1>4. ASSUME SignupLog(r) \/ Count(r) \/ MilestoneLog(r)
      PROVE  ToReport(u)'[r] = ToReport(u)[r]
  <2>1. CASE SignupLog(r)
    BY <2>1, Walk DEF Onward
  <2>2. CASE Count(r)
    <3>1. job[r].op = "count" /\ Counted(r, Cardinality(Referred(job[r].user)) + 1)
      BY <2>2, Walk
    <3>2. job[r].milestone = 0
      BY <3>1 DEF Undecided
    <3> QED BY <3>1, <3>2 DEF Counted, Onward
  <2>3. CASE MilestoneLog(r)
    BY <2>3, Walk DEF Onward
  <2> QED BY <1>4, <2>1, <2>2, <2>3
<1>5. ASSUME SignupFind(r) \/ RegisterCreate(r)
               \/ (\E e \in Emails, v \in Users \cup {NoUser} : RegisterFind(r, e, v))
      PROVE  ToReport(u)[r] = 0 /\ ToReport(u)'[r] = 0
  BY <1>5, Walk DEF Onward, Blank
<1>6. ASSUME SignupInsert(r) \/ Drop(r)
      PROVE  ToReport(u)'[r] = 0
  BY <1>6, Walk DEF Blank
<1> QED BY <1>2, <1>3, <1>4, <1>5, <1>6

\* Every step of a sign-up that is not lost keeps its referrer's account.
LEMMA ReportsFor ==
    ASSUME Shape, Undecided, NEW r \in Requests, StepOf(r),
           NEW u \in Users, NoneLost(u)',
           TotalBonusEarned(u) + Unreported(u) = Earned(u)
    PROVE  TotalBonusEarned(u)' + Unreported(u)' = Earned(u)'
<1>1. /\ TotalBonusEarned(u) \in Int /\ Unreported(u) \in Int /\ Earned(u) \in Int
      /\ ToReport(u)[r] \in Nat
  BY Amounts, SumsAreNumbers
<1>2. ToReport(u)'[r] \in Int =>
        Unreported(u)' = Unreported(u) + (ToReport(u)'[r] - ToReport(u)[r])
  BY RequestSums
<1>3. ~ SignupInsert(r) => TotalBonusEarned(u)' = TotalBonusEarned(u)
  BY ReportedKept DEF StepOf, Register, RegisterFind, RegisterCreate, Created, SignupFind,
     SignupPay, SignupLog, Pay, Log, Count, Reached, MilestonePay, MilestoneLog, Drop
<1>4. CASE SignupPay(r)
  <2>1. SignupBonus \in Nat /\ ~ SignupInsert(r)
    BY <1>4, ReferralAssumption DEF SignupPay, SignupInsert, Is
  <2>2. /\ ToReport(u)[r] = 0
        /\ ToReport(u)'[r] = IF job[r].user = u THEN SignupBonus ELSE 0
    BY <1>4, ToReportMoves
  <2>3. Earned(u)' = Earned(u) + (IF job[r].user = u THEN SignupBonus ELSE 0)
    BY <1>4, SignupEarned
  <2> QED BY <1>1, <1>2, <1>3, <2>1, <2>2, <2>3
<1>5. CASE MilestonePay(r)
  <2>1. ~ SignupInsert(r) /\ job[r].milestone \in Milestones
    BY <1>5, InHand DEF MilestonePay, SignupInsert, Is, JobFits, Triggering
  <2>2. MilestoneBonus[job[r].milestone] \in Nat
    BY <2>1, ReferralAssumption
  <2>3. ToReport(u)'[r] = ToReport(u)[r] +
          (IF job[r].user = u THEN MilestoneBonus[job[r].milestone] ELSE 0)
    BY <1>5, ToReportMoves
  <2>4. Earned(u)' = Earned(u) +
          (IF job[r].user = u THEN MilestoneBonus[job[r].milestone] ELSE 0)
    BY <1>5, MilestoneEarned
  <2> QED BY <1>1, <1>2, <1>3, <2>1, <2>2, <2>3, <2>4
<1>6. CASE ~ (SignupPay(r) \/ MilestonePay(r) \/ SignupInsert(r))
  <2>1. Earned(u)' = Earned(u)
    BY <1>6, NothingEarned
  <2>2. ToReport(u)'[r] = ToReport(u)[r]
    <3>1. CASE Drop(r)
      BY <3>1, DropReports, ToReportMoves
    <3>2. CASE ~ Drop(r)
      BY <1>6, <3>2, ToReportMoves DEF StepOf, Register
    <3> QED BY <3>1, <3>2
  <2> QED BY <1>1, <1>2, <1>3, <1>6, <2>1, <2>2
<1>7. CASE SignupInsert(r)
  <2>1. ~ (SignupPay(r) \/ MilestonePay(r))
    BY <1>7 DEF SignupInsert, SignupPay, MilestonePay, Is
  <2>2. Earned(u)' = Earned(u)
    BY <2>1, NothingEarned
  <2>3. ToReport(u)'[r] = 0
    BY <1>7, ToReportMoves
  <2>4. TotalBonusEarned(u)' = TotalBonusEarned(u) + ToReport(u)[r]
    BY <1>7, ReportedInserted
  <2> QED BY <1>1, <1>2, <2>2, <2>3, <2>4
<1> QED BY <1>4, <1>5, <1>6, <1>7

\* A referrer who has lost a sign-up has lost it for good.
LEMMA ReportsStep == Shape /\ Exact /\ Reports /\ [Next]_vars => Reports'
<1> SUFFICES ASSUME Shape, Exact, Reports, [Next]_vars PROVE Reports'
  OBVIOUS
<1>1. Undecided
  BY DEF Exact, Undecided
<1>2. ASSUME NEW r \in Requests, StepOf(r), NEW u \in Users, NoneLost(u)'
      PROVE  TotalBonusEarned(u)' + Unreported(u)' = Earned(u)'
  <2>1. NoneLost(u)
    BY <1>2, LostStays DEF NoneLost
  <2> QED BY <1>1, <1>2, <2>1, ReportsFor DEF Reports
<1>3. CASE Next
  BY <1>2, <1>3 DEF Next, StepOf, Reports
<1>4. CASE UNCHANGED vars
  BY <1>4 DEF vars, Reports, NoneLost, TotalBonusEarned, Unreported, ToReport, Earned
<1> QED BY <1>3, <1>4

\* For every referrer none of whose sign-ups broke off, the referrals listed and
\* the bonuses of those still to be inserted are what was paid, in every reachable
\* state: the inductive invariant behind the statistics.
THEOREM ReportsInvariant == Spec => []Reports
<1>1. Init => Reports
  <2> SUFFICES ASSUME Init, NEW u \in Users
               PROVE  TotalBonusEarned(u) + Unreported(u) = Earned(u)
    BY DEF Reports
  <2> QED BY NothingYet
<1> QED BY <1>1, ReportsStep, ExactInit, ExactStep, ShapeInvariant, PTL DEF Spec

\* What getStats reports as totalBonusEarned is what was paid, once no sign-up of
\* the referrer is in flight and if none broke off, however they overlapped.
THEOREM StatsHonest == Spec => []StatsAreHonest
<1>1. Shape /\ Reports => StatsAreHonest
  <2> SUFFICES ASSUME Shape, Reports, NEW u \in Users,
                      \A r \in Requests : Paying(r) => job[r].user # u,
                      \A e \in lost : referredBy[e] # u
               PROVE  TotalBonusEarned(u) = Earned(u)
    BY DEF StatsAreHonest
  <2>1. TotalBonusEarned(u) + Unreported(u) = Earned(u)
    BY DEF Reports, NoneLost
  <2>2. \A r \in Requests : ToReport(u)[r] = 0
    BY PayingOps DEF ToReport
  <2>3. Unreported(u) = 0
    BY <2>2, SumZero, ReferralAssumption DEF Unreported
  <2>4. TotalBonusEarned(u) \in Int
    BY SumsAreNumbers
  <2> QED BY <2>1, <2>3, <2>4
<1> QED BY <1>1, ReportsInvariant, ShapeInvariant, PTL

-----------------------------------------------------------------------------
\* Referrals as Earnings sees them: a step of one of its writers, or none.
KeepsBooks == [Writers!Next]_(Writers!books)

\* Both modules build their steps of the same ones.
LEMMA SameSteps ==
    ASSUME NEW r
    PROVE  /\ \A u : Writers!Find(r, u) <=> Find(r, u)
           /\ Writers!Release(r) <=> Release(r)
           /\ \A mem : Writers!Save(r, mem) <=> Save(r, mem)
<1>1. Writers!NoCopy = NoCopy
  BY DEF Writers!NoCopy, NoCopy, Writers!ZeroBalance, ZeroBalance
<1>2. ASSUME NEW mem PROVE Writers!Save(r, mem) <=> Save(r, mem)
  <2>1. PICK paths, s : /\ paths = ModifiedPaths(r, mem) /\ s = Stored(r, mem)
                        /\ paths = Writers!ModifiedPaths(r, mem)
                        /\ s = Writers!Stored(r, mem)
    BY DEF Writers!ModifiedPaths, ModifiedPaths, Writers!Stored, Stored
  <2>2. PICK own : own = [copy[r] EXCEPT !.doc = mem, !.stale = @ \ paths]
    OBVIOUS
  <2>3. PICK after : /\ after = CopiesAfter(r, mem, own)
                     /\ after = Writers!CopiesAfter(r, mem, own)
    BY <2>1 DEF Writers!CopiesAfter, CopiesAfter
  <2>4. Save(r, mem) <=>
          /\ account' = [account EXCEPT ![copy[r].user] = s]
          /\ copy' = after
          /\ clobbered' = IF copy[r].stale \cap paths = {}
                            THEN clobbered ELSE clobbered \cup {copy[r].user}
    BY <2>1, <2>2, <2>3, Zenon DEF Save
  <2>5. Writers!Save(r, mem) <=>
          /\ account' = [account EXCEPT ![copy[r].user] = s]
          /\ copy' = after
          /\ clobbered' = IF copy[r].stale \cap paths = {}
                            THEN clobbered ELSE clobbered \cup {copy[r].user}
    BY <2>1, <2>2, <2>3, Zenon DEF Writers!Save
  <2> QED BY <2>4, <2>5
<1> QED BY <1>1, <1>2 DEF Writers!Find, Find, Writers!Release, Release

\* The two bonuses are Earnings' Earn, the second of a copy already saved.
LEMMA PayBooks ==
    ASSUME Shape, NEW r \in Requests, SignupPay(r) \/ MilestonePay(r)
    PROVE  KeepsBooks
<1> DEFINE Bonus == {SignupBonus} \cup {MilestoneBonus[m] : m \in Milestones}
<1>1. PICK n \in Nat : /\ Pay(r, n) /\ job[r].op \in {"signupPay", "milestonePay"}
                       /\ n \in Bonus
  <2>1. SignupBonus \in Nat /\ \A m \in Milestones : MilestoneBonus[m] \in Nat
    BY ReferralAssumption
  <2>2. job[r].op \in Triggering => job[r].milestone \in Milestones
    BY InHand DEF JobFits
  <2> QED BY <2>1, <2>2 DEF SignupPay, MilestonePay, Is, Triggering
<1>2. /\ copy[r].user \in Users /\ copy[r].doc \in WalletBalance
      /\ Credited(r, n) \in WalletBalance
      /\ Credited(r, n).pending = copy[r].doc.pending + n
      /\ Credited(r, n).approved = copy[r].doc.approved
      /\ Credited(r, n).totalEarned = copy[r].doc.totalEarned + n
  BY <1>1, PayInHand, ShapeHas DEF DocTypeOK, Copies
<1>3. Credited(r, n) = Writers!Plus(copy[r].doc, n, 0, n)
  <2>1. copy[r].doc.approved + 0 = copy[r].doc.approved
    BY <1>2 DEF WalletBalance
  <2>2. Credited(r, n) = [pending |-> Credited(r, n).pending,
                          approved |-> Credited(r, n).approved,
                          totalEarned |-> Credited(r, n).totalEarned]
    BY <1>2 DEF WalletBalance
  <2> QED BY <1>2, <2>1, <2>2 DEF Writers!Plus
<1>4. Writers!Save(r, Writers!Plus(copy[r].doc, n, 0, n))
  BY <1>1, <1>3, SameSteps DEF Pay
<1>5. Writers!Given(r, n)
  BY DEF Writers!Given
<1>6. Writers!Earn(r, n)
  BY <1>4, <1>5 DEF Writers!Earn
<1> QED BY <1>1, <1>2, <1>6 DEF Writers!Write, Writers!Next, KeepsBooks

\* A sign-up that reads the referrer is a writer that loads a document, one that
\* is over lets it go, and the others leave the books alone.
LEMMA NextKeepsBooks == Shape /\ [Next]_vars => KeepsBooks
<1> SUFFICES ASSUME Shape, [Next]_vars PROVE KeepsBooks
  OBVIOUS
<1>1. ASSUME UNCHANGED docVars PROVE KeepsBooks
  BY <1>1 DEF docVars, Writers!books, KeepsBooks
<1>2. ASSUME NEW r \in Requests, SignupFind(r) PROVE KeepsBooks
  <2>1. job[r].user \in Users
    BY <1>2, Payer DEF SignupFind, Is, PayerHas, Unpaid
  <2>2. Writers!Load(r)
    BY <1>2, <2>1, SameSteps DEF SignupFind, Writers!Load
  <2> QED BY <2>2 DEF Writers!Next, KeepsBooks
<1>3. ASSUME NEW r \in Requests, SignupInsert(r) \/ Drop(r) PROVE KeepsBooks
  <2>1. Writers!Forget(r)
    BY <1>3, SameSteps DEF SignupInsert, Drop, Writers!Forget
  <2> QED BY <2>1 DEF Writers!Next, KeepsBooks
<1>4. ASSUME NEW r \in Requests,
             \/ \E e \in Emails, u \in Users \cup {NoUser} : RegisterFind(r, e, u)
             \/ RegisterCreate(r) \/ SignupLog(r) \/ Count(r) \/ MilestoneLog(r)
      PROVE  KeepsBooks
  BY <1>1, <1>4 DEF RegisterFind, RegisterCreate, Created, SignupLog, Log,
                    MilestoneLog, Count, Reached
<1>5. CASE UNCHANGED vars
  BY <1>1, <1>5 DEF vars, docVars
<1> QED BY <1>2, <1>3, <1>4, <1>5, PayBooks DEF Next, Register

\* Referrals implement Earnings: they write a balance in no way but to add a
\* bonus, to the pending balance and the earnings at once, in plain saves of a
\* document that may have been loaded before the other bonus.
THEOREM ReferralsKeepEarnings == Spec => KeepsEarnings
<1>1. Init => Writers!Init
  BY DEF Init, NoCopy, ZeroBalance, Writers!Init, Writers!NoCopy, Writers!ZeroBalance
<1>2. Shape /\ [Next]_vars => [Writers!Next]_(Writers!books)
  BY NextKeepsBooks DEF KeepsBooks
<1> QED BY <1>1, <1>2, ShapeInvariant, PTL DEF Spec, KeepsEarnings, Writers!Spec
=============================================================================
