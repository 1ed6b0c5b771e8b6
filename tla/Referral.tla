------------------------------ MODULE Referral ------------------------------
(***************************************************************************)
(* AuthService.register up to the tokens, and the bonuses it pays through  *)
(* ReferralService.handleSignupReferral: one for each user a referrer      *)
(* brings, and one more when the number of referrals reaches a milestone.  *)
(*                                                                         *)
(* Nothing here runs in a transaction.  The handlers are cut at each await *)
(* that reads or writes something shared.  Users are the referrers; the    *)
(* users who register are known by their e-mail.                           *)
(***************************************************************************)
EXTENDS UserDocument, FiniteSets, Functions

CONSTANTS
    Emails,             \* e-mails people register with
    NoEmail,
    NoAccount,          \* nobody has registered with this e-mail
    Milestones,         \* the keys of settings.referralMilestones
    MilestoneBonus,     \* ... and its values
    SignupBonus         \* settings.signupReferralBonus

ASSUME ReferralAssumption ==
    /\ IsFiniteSet(Emails) /\ IsFiniteSet(Milestones) /\ IsFiniteSet(Requests)
    /\ NoEmail \notin Emails
    /\ NoAccount \notin Users \cup {NoUser}
    /\ Milestones \subseteq Nat \ {0}
    /\ MilestoneBonus \in [Milestones -> Nat]
    /\ SignupBonus \in Nat

VARIABLES
    referredBy,     \* users: the referrer of the user with this e-mail
    referral,       \* the `referrals` collection, by the referred user's e-mail
    logged,         \* per referrer, the sum of the `referral_bonus` rows
    job,            \* what each request is doing
    bonuses,        \* history: times the sign-up bonus was saved for an e-mail
    milestones,     \* history: times a milestone's bonus was saved
    unlogged,       \* history: cents saved with no row (yet), per referrer
    raced,          \* history: referrers two of whose sign-ups overlapped
    lost            \* history: e-mails whose registration broke off after the
                    \*   user was created and before the referral was

history == <<bonuses, milestones, unlogged, raced, lost>>

vars == <<account, copy, clobbered, referredBy, referral, logged, job,
          bonuses, milestones, unlogged, raced, lost>>

Referral == [referrerId : Users \cup {NoUser}, bonusEarned : Nat,
             milestoneTriggered : Milestones \cup {0}]

NoReferral == [referrerId |-> NoUser, bonusEarned |-> 0, milestoneTriggered |-> 0]

Ops == {"idle", "create", "signup", "signupPay", "signupLog", "count",
        "milestonePay", "milestoneLog", "insert"}

\* A request registers `email` for the referrer `user`; `milestone` is the one
\* this sign-up triggers, or 0.
Job == [op : Ops, email : Emails \cup {NoEmail}, user : Users \cup {NoUser},
        milestone : Milestones \cup {0}]

Idle == [op |-> "idle", email |-> NoEmail, user |-> NoUser, milestone |-> 0]

Init ==
    /\ account = [u \in Users |-> ZeroBalance]
    /\ copy = [r \in Requests |-> NoCopy]
    /\ clobbered = {}
    /\ referredBy = [e \in Emails |-> NoAccount]
    /\ referral = [e \in Emails |-> NoReferral]
    /\ logged = [u \in Users |-> 0]
    /\ job = [r \in Requests |-> Idle]
    /\ bonuses = [e \in Emails |-> 0]
    /\ milestones = [u \in Users |-> [m \in Milestones |-> 0]]
    /\ unlogged = [u \in Users |-> 0]
    /\ raced = {}
    /\ lost = {}

-----------------------------------------------------------------------------
Is(r, op) == job[r].op = op
Goto(r, op) == job' = [job EXCEPT ![r].op = op]
Finish(r) == job' = [job EXCEPT ![r] = Idle]

\* The user of r's registration exists, and its referrer is to be paid.
Paying(r) == job[r].op \notin {"idle", "create"}

Referred(u) == {e \in Emails : referral[e].referrerId = u}

-----------------------------------------------------------------------------
\* register: the e-mail is not taken, and the code given, if any, is u's.
\* (An unknown code is refused here and changes nothing.)
RegisterFind(r, e, u) ==
    /\ Is(r, "idle")
    /\ referredBy[e] = NoAccount
    /\ job' = [job EXCEPT ![r] = [op |-> "create", email |-> e, user |-> u,
                                  milestone |-> 0]]
    /\ UNCHANGED <<docVars, referredBy, referral, logged, history>>

\* The user is stored; a referrer's bonus is next, the tokens otherwise.
Created(r) ==
    LET u == job[r].user
    IN  /\ referredBy' = [referredBy EXCEPT ![job[r].email] = u]
        /\ IF u = NoUser THEN Finish(r) ELSE Goto(r, "signup")
        /\ raced' = IF \E q \in Requests \ {r} : Paying(q) /\ job[q].user = u
                      THEN raced \cup {u} ELSE raced
        /\ UNCHANGED <<docVars, referral, logged, bonuses, milestones, unlogged, lost>>

\* Mutant of RegisterCreate: no unique index on users.email.
RegisterCreateNoIndex(r) == Is(r, "create") /\ Created(r)

\* userModel.create: the unique index on the e-mail refuses a second user.
RegisterCreate(r) ==
    /\ Is(r, "create")
    /\ referredBy[job[r].email] = NoAccount
    /\ Created(r)

-----------------------------------------------------------------------------
\* handleSignupReferral: no referral exists for a user created a moment ago,
\* and the referrer is loaded.
SignupFind(r) ==
    /\ Is(r, "signup")
    /\ referral[job[r].email] = NoReferral
    /\ Find(r, job[r].user)
    /\ Goto(r, "signupPay")
    /\ UNCHANGED <<referredBy, referral, logged, history>>

\* balance.pending and balance.totalEarned += n, in memory.
Credited(r, n) == [copy[r].doc EXCEPT !.pending = @ + n, !.totalEarned = @ + n]

\* Mutant of Pay: the document is saved without the total.
PayPendingOnly(r, n) ==
    /\ Save(r, [copy[r].doc EXCEPT !.pending = @ + n])
    /\ unlogged' = [unlogged EXCEPT ![job[r].user] = @ + n]
    /\ UNCHANGED <<referredBy, referral, logged, raced, lost>>

\* referrer.save(), of a document loaded before the first of the two bonuses.
Pay(r, n) ==
    /\ Save(r, Credited(r, n))
    /\ unlogged' = [unlogged EXCEPT ![job[r].user] = @ + n]
    /\ UNCHANGED <<referredBy, referral, logged, raced, lost>>

\* walletTransactionModel.create
Log(r, n) ==
    /\ logged' = [logged EXCEPT ![job[r].user] = @ + n]
    /\ unlogged' = [unlogged EXCEPT ![job[r].user] = @ - n]
    /\ UNCHANGED <<docVars, referredBy, referral, bonuses, milestones, raced, lost>>

SignupPay(r) ==
    /\ Is(r, "signupPay")
    /\ Pay(r, SignupBonus)
    /\ bonuses' = [bonuses EXCEPT ![job[r].email] = @ + 1]
    /\ Goto(r, "signupLog")
    /\ UNCHANGED milestones

SignupLog(r) ==
    /\ Is(r, "signupLog")
    /\ Log(r, SignupBonus)
    /\ Goto(r, "count")

-----------------------------------------------------------------------------
\* Mutant of Reached: any number is a milestone.
ReachedAnyway(r, n) ==
    /\ Is(r, "count")
    /\ job' = [job EXCEPT ![r].op = "milestonePay", ![r].milestone = n]
    /\ UNCHANGED <<docVars, referredBy, referral, logged, history>>

\* What follows a count of n - 1 referrals: the milestone n, if there is one.
Reached(r, n) ==
    /\ Is(r, "count")
    /\ IF n \in Milestones
         THEN job' = [job EXCEPT ![r].op = "milestonePay", ![r].milestone = n]
         ELSE Goto(r, "insert")
    /\ UNCHANGED <<docVars, referredBy, referral, logged, history>>

\* Mutants of Count: this sign-up is not counted; the users are counted and
\* not the referrals; a sign-up that reaches no milestone returns early.
CountWithoutThis(r) == Reached(r, Cardinality(Referred(job[r].user)))
CountUsers(r) == Reached(r, Cardinality({e \in Emails : referredBy[e] = job[r].user}))
CountAndReturn(r) ==
    LET n == Cardinality(Referred(job[r].user)) + 1
    IN  /\ Is(r, "count")
        /\ IF n \in Milestones
             THEN /\ job' = [job EXCEPT ![r].op = "milestonePay", ![r].milestone = n]
                  /\ UNCHANGED copy
             ELSE Finish(r) /\ copy' = [copy EXCEPT ![r] = NoCopy]
        /\ UNCHANGED <<account, clobbered, referredBy, referral, logged, history>>

\* countDocuments: the referrals inserted so far, and this one.
Count(r) == Reached(r, Cardinality(Referred(job[r].user)) + 1)

MilestonePay(r) ==
    /\ Is(r, "milestonePay")
    /\ Pay(r, MilestoneBonus[job[r].milestone])
    /\ milestones' = [milestones EXCEPT ![job[r].user][job[r].milestone] = @ + 1]
    /\ Goto(r, "milestoneLog")
    /\ UNCHANGED bonuses

MilestoneLog(r) ==
    /\ Is(r, "milestoneLog")
    /\ Log(r, MilestoneBonus[job[r].milestone])
    /\ Goto(r, "insert")

\* Mutant of SignupInsert: bonusEarned leaves the milestone out.
SignupInsertBonusOnly(r) ==
    /\ Is(r, "insert")
    /\ referral' = [referral EXCEPT ![job[r].email] =
            [referrerId |-> job[r].user, milestoneTriggered |-> job[r].milestone,
             bonusEarned |-> SignupBonus]]
    /\ Release(r)
    /\ Finish(r)
    /\ UNCHANGED <<referredBy, logged, history>>

\* referralModel.create
SignupInsert(r) ==
    LET m == job[r].milestone
    IN  /\ Is(r, "insert")
        /\ referral' = [referral EXCEPT ![job[r].email] =
                [referrerId |-> job[r].user, milestoneTriggered |-> m,
                 bonusEarned |-> SignupBonus + (IF m = 0 THEN 0 ELSE MilestoneBonus[m])]]
        /\ Release(r)
        /\ Finish(r)
        /\ UNCHANGED <<referredBy, logged, history>>

-----------------------------------------------------------------------------
\* The request dies where it stands: the insert hits the unique index, an
\* await throws, the instance crashes.  The user and what was paid stay, and
\* a second attempt is refused: the e-mail is taken.
Drop(r) ==
    /\ ~ Is(r, "idle")
    /\ lost' = IF Paying(r) THEN lost \cup {job[r].email} ELSE lost
    /\ Release(r)
    /\ Finish(r)
    /\ UNCHANGED <<referredBy, referral, logged, bonuses, milestones, unlogged, raced>>

Register(r) ==
    \/ RegisterCreate(r)
    \/ SignupFind(r) \/ SignupPay(r) \/ SignupLog(r)
    \/ Count(r) \/ MilestonePay(r) \/ MilestoneLog(r) \/ SignupInsert(r)

Next ==
    \E r \in Requests :
        \/ \E e \in Emails, u \in Users \cup {NoUser} : RegisterFind(r, e, u)
        \/ Register(r)
        \/ Drop(r)

Spec == Init /\ [][Next]_vars

\* An await is answered, or throws: the drivers' timeouts see to that.
FairSpec == Spec /\ \A r \in Requests : WF_vars(Register(r) \/ Drop(r))
-----------------------------------------------------------------------------
\* Type invariant: what the collections and the requests' local state hold.
TypeOK ==
    /\ DocTypeOK
    /\ referredBy \in [Emails -> Users \cup {NoUser, NoAccount}]
    /\ referral \in [Emails -> Referral]
    /\ logged \in [Users -> Nat]
    /\ job \in [Requests -> Job]
    /\ bonuses \in [Emails -> Nat]
    /\ milestones \in [Users -> [Milestones -> Nat]]
    /\ unlogged \in [Users -> Int]
    /\ raced \in SUBSET Users
    /\ lost \in SUBSET Emails

\* However many registrations of one e-mail race, its referrer is paid for it
\* at most once, and a referral is listed only for a bonus that was paid, to
\* the referrer the user document names: register looks before it inserts, and
\* the unique index decides who goes on to the bonus.
OneBonusPerUser ==
    \A e \in Emails :
        /\ bonuses[e] <= 1
        /\ bonuses[e] = 1 => referredBy[e] \in Users
        /\ referral[e] # NoReferral =>
              bonuses[e] = 1 /\ referral[e].referrerId = referredBy[e]

\* A milestone is never paid early: sign-ups that race or break off may skip
\* one or pay it twice, but the n-th is paid only when n - 1 referrals stand
\* beside the one that triggers it.
MilestoneNotEarly ==
    \A u \in Users, m \in Milestones :
        milestones[u][m] > 0 => Cardinality(Referred(u)) >= m - 1

\* A referrer whose sign-ups never overlapped, and none of which broke off,
\* has been paid each milestone reached exactly once, and no other.
MilestonesExact ==
    \A u \in Users \ (raced \cup {referredBy[e] : e \in lost}), m \in Milestones :
        (\A r \in Requests : Paying(r) => job[r].user # u) =>
            milestones[u][m] = IF m <= Cardinality(Referred(u)) THEN 1 ELSE 0

\* For every referrer whose document no sign-up overwrote from a stale copy, the
\* pending balance and the earnings are what the rows and the bonuses without a
\* row (yet) add up to, however sign-ups overlap or break off.
RowsReconcile ==
    \A u \in Users \ clobbered :
        /\ account[u].pending = logged[u] + unlogged[u]
        /\ account[u].totalEarned = logged[u] + unlogged[u]

\* What u was paid in bonuses for sign-ups and for milestones, the part of it
\* that sign-ups are about to write the rows of, and what getStats reports as
\* totalBonusEarned.
Earned(u) ==
    SumFunctionOnSet([e \in Emails |->
        IF referredBy[e] = u THEN SignupBonus * bonuses[e] ELSE 0], Emails)
    + SumFunctionOnSet([m \in Milestones |-> MilestoneBonus[m] * milestones[u][m]],
        Milestones)

RowsToCome(u) ==
    SumFunctionOnSet([r \in Requests |->
        IF job[r].user # u THEN 0
        ELSE IF Is(r, "signupLog") THEN SignupBonus
        ELSE IF Is(r, "milestoneLog") THEN MilestoneBonus[job[r].milestone]
        ELSE 0], Requests)

TotalBonusEarned(u) ==
    SumFunctionOnSet([e \in Emails |->
        IF referral[e].referrerId = u THEN referral[e].bonusEarned ELSE 0], Emails)

\* The balance, the rows and the bonuses that were paid agree: rows are missing
\* only for sign-ups that have not, or never, written them, and those that have
\* not are among the missing; the balance is that sum for every referrer whose
\* document no sign-up overwrote from a stale copy.
BonusesReconcile ==
    /\ RowsReconcile
    /\ \A u \in Users : /\ logged[u] + unlogged[u] = Earned(u)
                        /\ RowsToCome(u) <= unlogged[u]

\* What getStats reports as totalBonusEarned is what was paid, overlapping
\* sign-ups or not, once none is in flight and if none broke off.
StatsAreHonest ==
    \A u \in Users :
        /\ \A r \in Requests : Paying(r) => job[r].user # u
        /\ \A e \in lost : referredBy[e] # u
        => TotalBonusEarned(u) = Earned(u)

Writers == INSTANCE Earnings WITH
    Opening <- 0,
    CreditAmounts <- {},
    WithdrawAmounts <- {},
    Bonuses <- {SignupBonus} \cup {MilestoneBonus[m] : m \in Milestones},
    ProfitOn <- [b \in Int |-> 0],
    held <- [u \in Users |-> 0],
    docked <- {}

\* Referrals implement Earnings: they write a balance in no way but to add a
\* bonus, to the pending balance and the earnings at once, in plain saves of a
\* document that may have been loaded before the other bonus.
KeepsEarnings == Writers!Spec

\* A user registered with a referrer's code is listed as a referral in the
\* end, whatever else is going on, unless that registration itself broke off.
ReferralListed ==
    \A e \in Emails :
        referredBy[e] \in Users ~> referral[e] # NoReferral \/ e \in lost
=============================================================================
