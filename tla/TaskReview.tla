----------------------------- MODULE TaskReview -----------------------------
(***************************************************************************)
(* TaskService within one UTC day: users submit proof for tasks, admins    *)
(* approve or reject the submissions and change the tasks, an approval     *)
(* pays the task's reward, and the profit claim asks whether everything    *)
(* is done.                                                                *)
(*                                                                         *)
(* Nothing here runs in a transaction.  Every handler is cut at each await *)
(* that writes something shared, and before each document it will save     *)
(* again later; what it read is in `job` and `copy`.                       *)
(***************************************************************************)
EXTENDS UserDocument, FiniteSets, Functions

CONSTANTS
    Tasks,
    Completions,            \* ids of userTaskCompletions documents
    NoTask, NoCompletion,
    Reward,                 \* Reward[t]: task.rewardAmount
    MaxResubmissions,       \* 1 in the code
    DailySubmissionLimit,   \* 10 in the code
    MaxOps                  \* bound: operations begun

ASSUME ReviewAssumption ==
    /\ IsFiniteSet(Tasks) /\ IsFiniteSet(Completions) /\ IsFiniteSet(Requests)
    /\ NoTask \notin Tasks
    /\ NoCompletion \notin Completions
    /\ Reward \in [Tasks -> Nat]
    /\ MaxResubmissions \in Nat
    /\ DailySubmissionLimit \in Nat
    /\ MaxOps \in Nat

VARIABLES
    active,         \* tasks with isActive; none is ever isDeleted
    completion,     \* the `userTaskCompletions` collection
    submissions,    \* Redis: task_submission_count:<user>:<day>
    logged,         \* per user, the sum of the `task_reward` rows
    audit,          \* per completion, the approvals in the activity log
    job,            \* what each request is doing
    counted,        \* history: submissions stored that Redis had counted
    approvals,      \* history: times a completion was saved as approved
    rejections,     \* history: times it was rejected
    paid,           \* history: times its reward was saved
    unlogged,       \* history: rewards saved with no row (yet), per user
    ops             \* bound: operations begun

submitVars == <<submissions, counted>>
rewardVars == <<logged, audit, paid, unlogged>>
reviewVars == <<completion, approvals, rejections>>

vars == <<account, copy, clobbered, active, completion, submissions, logged,
          audit, job, counted, approvals, rejections, paid, unlogged, ops>>

Status == {"none", "pending", "approved", "rejected"}

Completion == [status : Status, user : Users \cup {NoUser},
               task : Tasks \cup {NoTask}, resubmissionCount : Nat]

NoDocument == [status |-> "none", user |-> NoUser, task |-> NoTask,
               resubmissionCount |-> 0]

Ops == {"idle", "submit", "submitCounted", "submitUncounted",
        "approve", "approveFind", "approvePay", "approveLog", "approveAudit",
        "rejectAudit", "gate"}

\* The completion a request works on, and what it has read of it.  A gate has
\* two counts, and the tasks it should refuse for (history).
Job == [op : Ops, user : Users \cup {NoUser}, task : Tasks \cup {NoTask},
        id : Completions \cup {NoCompletion}, read : Completion,
        activeTasks : Nat \cup {-1}, completed : Nat \cup {-1},
        missing : SUBSET Tasks]

Idle == [op |-> "idle", user |-> NoUser, task |-> NoTask, id |-> NoCompletion,
         read |-> NoDocument, activeTasks |-> -1, completed |-> -1, missing |-> {}]

Init ==
    /\ account = [u \in Users |-> ZeroBalance]
    /\ copy = [r \in Requests |-> NoCopy]
    /\ clobbered = {}
    /\ active = Tasks
    /\ completion = [c \in Completions |-> NoDocument]
    /\ submissions = [u \in Users |-> 0]
    /\ logged = [u \in Users |-> 0]
    /\ audit = [c \in Completions |-> 0]
    /\ job = [r \in Requests |-> Idle]
    /\ counted = [u \in Users |-> 0]
    /\ approvals = [c \in Completions |-> 0]
    /\ rejections = [c \in Completions |-> 0]
    /\ paid = [c \in Completions |-> 0]
    /\ unlogged = [u \in Users |-> 0]
    /\ ops = 0

-----------------------------------------------------------------------------
Is(r, op) == job[r].op = op
Goto(r, op) == job' = [job EXCEPT ![r].op = op] /\ UNCHANGED ops
Finish(r) == job' = [job EXCEPT ![r] = Idle] /\ UNCHANGED ops
Begin(r, j) ==
    /\ Is(r, "idle")
    /\ ops < MaxOps
    /\ ops' = ops + 1
    /\ job' = [job EXCEPT ![r] = j]

\* completionModel.findOne({ userId, taskId, submissionDate: today })
Found(u, t) == {c \in Completions :
                  /\ completion[c].status # "none"
                  /\ completion[c].user = u
                  /\ completion[c].task = t}

-----------------------------------------------------------------------------
\* submitTask up to Redis: the task is active, and today's submission for it,
\* if there is one, was rejected and may still be submitted again.
SubmitFind(r, u, t) ==
    /\ t \in active
    /\ \/ /\ Found(u, t) = {}
          /\ Begin(r, [Idle EXCEPT !.op = "submit", !.user = u, !.task = t])
       \/ \E c \in Found(u, t) :
          /\ completion[c].status = "rejected"
          /\ completion[c].resubmissionCount < MaxResubmissions
          /\ Begin(r, [Idle EXCEPT !.op = "submit", !.user = u, !.task = t,
                                   !.id = c, !.read = completion[c]])
    /\ UNCHANGED <<docVars, active, reviewVars, submitVars, rewardVars>>

\* Mutant of SubmitCount: the count before INCR is compared.
SubmitCountBefore(r) ==
    LET u == job[r].user
    IN  /\ Is(r, "submit")
        /\ submissions' = [submissions EXCEPT ![u] = @ + 1]
        /\ IF submissions[u] > DailySubmissionLimit
             THEN Finish(r) ELSE Goto(r, "submitCounted")
        /\ UNCHANGED <<docVars, active, reviewVars, counted, rewardVars>>

\* INCR; a count beyond the limit is refused, and stays counted.  Without
\* Redis nothing is counted and nothing refused.
SubmitCount(r) ==
    LET u == job[r].user
    IN  /\ Is(r, "submit")
        /\ \/ /\ submissions' = [submissions EXCEPT ![u] = @ + 1]
              /\ IF submissions[u] + 1 > DailySubmissionLimit
                   THEN Finish(r) ELSE Goto(r, "submitCounted")
           \/ /\ UNCHANGED submissions
              /\ Goto(r, "submitUncounted")
        /\ UNCHANGED <<docVars, active, reviewVars, counted, rewardVars>>

StoredBy(r) ==
    /\ counted' = IF Is(r, "submitCounted")
                    THEN [counted EXCEPT ![job[r].user] = @ + 1] ELSE counted
    /\ Finish(r)
    /\ UNCHANGED <<docVars, active, submissions, approvals, rejections, rewardVars>>

\* Mutant of SubmitCreate: the index on user, task and day is not unique.
SubmitCreateNoIndex(r, c) ==
    /\ job[r].op \in {"submitCounted", "submitUncounted"}
    /\ job[r].id = NoCompletion
    /\ completion[c].status = "none"
    /\ completion' = [completion EXCEPT ![c] =
                        [status |-> "pending", user |-> job[r].user,
                         task |-> job[r].task, resubmissionCount |-> 0]]
    /\ StoredBy(r)

\* completionModel.create: refused when the unique index already has an entry
\* for the user, the task and the day.
SubmitCreate(r, c) ==
    /\ job[r].op \in {"submitCounted", "submitUncounted"}
    /\ job[r].id = NoCompletion
    /\ Found(job[r].user, job[r].task) = {}
    /\ completion[c].status = "none"
    /\ completion' = [completion EXCEPT ![c] =
                        [status |-> "pending", user |-> job[r].user,
                         task |-> job[r].task, resubmissionCount |-> 0]]
    /\ StoredBy(r)

\* existing.save(): status and count as computed from what was read, over
\* whatever is stored by now.
SubmitAgain(r) ==
    LET c == job[r].id
    IN  /\ job[r].op \in {"submitCounted", "submitUncounted"}
        /\ c # NoCompletion
        /\ completion' = [completion EXCEPT
              ![c].status = "pending",
              ![c].resubmissionCount = job[r].read.resubmissionCount + 1]
        /\ StoredBy(r)

-----------------------------------------------------------------------------
\* approveSubmission: refused only when already approved.
ApproveFind(r, c) ==
    /\ completion[c].status \notin {"none", "approved"}
    /\ Begin(r, [Idle EXCEPT !.op = "approve", !.user = completion[c].user,
                             !.task = completion[c].task, !.id = c,
                             !.read = completion[c]])
    /\ UNCHANGED <<docVars, active, reviewVars, submitVars, rewardVars>>

\* completion.save()
ApproveSave(r) ==
    LET c == job[r].id
    IN  /\ Is(r, "approve")
        /\ completion' = [completion EXCEPT ![c].status = "approved"]
        /\ approvals' = [approvals EXCEPT ![c] = @ + 1]
        /\ Goto(r, "approveFind")
        /\ UNCHANGED <<docVars, active, rejections, submitVars, rewardVars>>

\* Mutant of ApproveFindUser: the user is read before the completion is saved.
ApproveFindUserFirst(r) ==
    /\ Is(r, "approve")
    /\ Find(r, job[r].user)
    /\ Goto(r, "approvePay")
    /\ UNCHANGED <<active, reviewVars, submitVars, rewardVars>>

\* The task and the owner are read.
ApproveFindUser(r) ==
    /\ Is(r, "approveFind")
    /\ Find(r, job[r].user)
    /\ Goto(r, "approvePay")
    /\ UNCHANGED <<active, reviewVars, submitVars, rewardVars>>

\* Mutant of Rewarded: totalEarned is forgotten.
RewardedPendingOnly(r) == [copy[r].doc EXCEPT !.pending = @ + Reward[job[r].task]]

\* balance.pending and balance.totalEarned += task.rewardAmount
Rewarded(r) == [copy[r].doc EXCEPT !.pending = @ + Reward[job[r].task],
                                   !.totalEarned = @ + Reward[job[r].task]]

\* user.save()
ApprovePay(r) ==
    /\ Is(r, "approvePay")
    /\ Save(r, Rewarded(r))
    /\ paid' = [paid EXCEPT ![job[r].id] = @ + 1]
    /\ unlogged' = [unlogged EXCEPT ![job[r].user] = @ + Reward[job[r].task]]
    /\ Goto(r, "approveLog")
    /\ UNCHANGED <<active, reviewVars, submitVars, logged, audit>>

\* walletTransactionModel.create
ApproveLog(r) ==
    /\ Is(r, "approveLog")
    /\ logged' = [logged EXCEPT ![job[r].user] = @ + Reward[job[r].task]]
    /\ unlogged' = [unlogged EXCEPT ![job[r].user] = @ - Reward[job[r].task]]
    /\ Release(r)
    /\ Goto(r, "approveAudit")
    /\ UNCHANGED <<active, reviewVars, submitVars, audit, paid>>

\* activityLogModel.create
ApproveAudit(r) ==
    /\ Is(r, "approveAudit")
    /\ audit' = [audit EXCEPT ![job[r].id] = @ + 1]
    /\ Finish(r)
    /\ UNCHANGED <<docVars, active, reviewVars, submitVars, logged, paid, unlogged>>

\* Mutant of Reject: a status outside the schema's enum.
RejectMisspelt(r, c) ==
    /\ completion[c].status # "none"
    /\ completion' = [completion EXCEPT ![c].status = "declined"]
    /\ rejections' = [rejections EXCEPT ![c] = @ + 1]
    /\ Begin(r, [Idle EXCEPT !.op = "rejectAudit", !.id = c])
    /\ UNCHANGED <<docVars, active, approvals, submitVars, rewardVars>>

\* rejectSubmission: one findByIdAndUpdate, on a submission in any status,
\* then its entry in the activity log, which nothing here reads.
Reject(r, c) ==
    /\ completion[c].status # "none"
    /\ completion' = [completion EXCEPT ![c].status = "rejected"]
    /\ rejections' = [rejections EXCEPT ![c] = @ + 1]
    /\ Begin(r, [Idle EXCEPT !.op = "rejectAudit", !.id = c])
    /\ UNCHANGED <<docVars, active, approvals, submitVars, rewardVars>>

RejectAudit(r) ==
    /\ Is(r, "rejectAudit")
    /\ Finish(r)
    /\ UNCHANGED <<docVars, active, reviewVars, submitVars, rewardVars>>

-----------------------------------------------------------------------------
\* updateTask and softDeleteTask set isActive, each in one findByIdAndUpdate;
\* createTask inserts a task that is active, or not.  (updateTask may also
\* change what a task pays or its deadline: Reward is fixed here, and a passed
\* deadline only keeps SubmitFind from happening.)
SetActive(t) ==
    /\ ops < MaxOps
    /\ ops' = ops + 1
    /\ active' \in {active \cup {t}, active \ {t}}
    /\ UNCHANGED <<docVars, reviewVars, submitVars, rewardVars, job>>

-----------------------------------------------------------------------------
Done(u) == {c \in Completions :
              completion[c].user = u /\ completion[c].status = "approved"}

Missing(u) == {t \in active : \A c \in Done(u) : completion[c].task # t}

\* hasCompletedAllActiveTasksToday: two counts, asked for together and
\* answered in any order.
GateStart(r, u) ==
    /\ Begin(r, [Idle EXCEPT !.op = "gate", !.user = u, !.missing = Missing(u)])
    /\ UNCHANGED <<docVars, active, reviewVars, submitVars, rewardVars>>

GateActive(r) ==
    /\ Is(r, "gate") /\ job[r].activeTasks = -1
    /\ job' = [job EXCEPT ![r].activeTasks = Cardinality(active)]
    /\ UNCHANGED <<docVars, active, reviewVars, submitVars, rewardVars, ops>>

GateCompleted(r) ==
    /\ Is(r, "gate") /\ job[r].completed = -1
    /\ job' = [job EXCEPT ![r].completed = Cardinality(Done(job[r].user))]
    /\ UNCHANGED <<docVars, active, reviewVars, submitVars, rewardVars, ops>>

GatePasses(r) ==
    /\ Is(r, "gate")
    /\ job[r].activeTasks > 0
    /\ job[r].activeTasks = job[r].completed

GateReply(r) ==
    /\ Is(r, "gate") /\ job[r].activeTasks # -1 /\ job[r].completed # -1
    /\ Finish(r)
    /\ UNCHANGED <<docVars, active, reviewVars, submitVars, rewardVars>>

-----------------------------------------------------------------------------
\* The request dies where it stands: the proof is refused or its upload
\* fails, the insert hits the unique index, an await throws, the instance
\* crashes.  What was stored stays.
Drop(r) ==
    /\ ~ Is(r, "idle")
    /\ Release(r)
    /\ Finish(r)
    /\ UNCHANGED <<active, reviewVars, submitVars, rewardVars>>

Submit(r) ==
    \/ SubmitCount(r)
    \/ \E c \in Completions : SubmitCreate(r, c)
    \/ SubmitAgain(r)

Approve(r) ==
    \/ ApproveSave(r) \/ ApproveFindUser(r) \/ ApprovePay(r)
    \/ ApproveLog(r) \/ ApproveAudit(r)

Gate(r) == GateActive(r) \/ GateCompleted(r) \/ GateReply(r)

Arrive(r) ==
    \/ \E u \in Users, t \in Tasks : SubmitFind(r, u, t)
    \/ \E c \in Completions : ApproveFind(r, c) \/ Reject(r, c)
    \/ \E u \in Users : GateStart(r, u)

Next ==
    \/ \E r \in Requests :
          Arrive(r) \/ Submit(r) \/ Approve(r) \/ RejectAudit(r) \/ Gate(r) \/ Drop(r)
    \/ \E t \in Tasks : SetActive(t)

Spec == Init /\ [][Next]_vars
-----------------------------------------------------------------------------
\* Type invariant: what the collections and the requests' local state hold.
TypeOK ==
    /\ DocTypeOK
    /\ active \in SUBSET Tasks
    /\ completion \in [Completions -> Completion]
    /\ submissions \in [Users -> Nat]
    /\ logged \in [Users -> Nat]
    /\ audit \in [Completions -> Nat]
    /\ job \in [Requests -> Job]
    /\ counted \in [Users -> Nat]
    /\ approvals \in [Completions -> Nat]
    /\ rejections \in [Completions -> Nat]
    /\ paid \in [Completions -> Nat]
    /\ unlogged \in [Users -> Int]
    /\ ops \in 0 .. MaxOps

\* However many submissions of a task race, a user has one document for it
\* today: submitTask looks before it inserts, and the unique index decides.
OneSubmissionPerDay ==
    \A c, d \in Completions :
        /\ c # d /\ completion[c].status # "none"
        /\ completion[c].user = completion[d].user
        => completion[c].task # completion[d].task

\* No document ever says it was submitted again more often than allowed,
\* although submitTask checks and increments a count it read long before.
CountWithinLimit ==
    \A c \in Completions : completion[c].resubmissionCount <= MaxResubmissions

\* However submissions interleave, those accepted after Redis counted them
\* stay within the daily limit: INCR checks and counts in one step.
DailyLimit == \A u \in Users : counted[u] <= DailySubmissionLimit

\* The two limits of submitTask, on the submissions of a task and of a day, hold
\* together, whichever of its reads is old by the time it writes.
WithinLimits == CountWithinLimit /\ DailyLimit

\* Every reward paid and every approval in the activity log goes back to an
\* approval of its own that was saved before: racing approvals may both pay,
\* but none pays twice, and none is logged or paid without having been saved.
PaidIsApproved ==
    \A c \in Completions :
        /\ audit[c] <= paid[c]
        /\ paid[c] + Cardinality({r \in Requests : /\ job[r].id = c
                                     /\ job[r].op \in {"approveFind", "approvePay"}})
             <= approvals[c]

\* For every user whose document no approval overwrote from a stale copy, the
\* pending balance and the earnings are what the rows and the rewards without a
\* row (yet) add up to, however approvals of the user's submissions overlap.
RowsReconcile ==
    \A u \in Users \ clobbered :
        /\ account[u].pending = logged[u] + unlogged[u]
        /\ account[u].totalEarned = logged[u] + unlogged[u]

\* What u was paid for its submissions, and the part of it that approvals are
\* about to write the rows of.
Earned(u) ==
    SumFunctionOnSet([c \in Completions |->
        IF completion[c].user = u THEN paid[c] * Reward[completion[c].task] ELSE 0],
      Completions)

RowsToCome(u) ==
    SumFunctionOnSet([r \in Requests |->
        IF Is(r, "approveLog") /\ job[r].user = u THEN Reward[job[r].task] ELSE 0],
      Requests)

\* The balance, the rows and the rewards that were paid agree: rows are missing
\* only for approvals that have not, or never, written them, and those that
\* have not are among the missing; the balance is that sum for every user whose
\* document no approval overwrote from a stale copy.
RewardsReconcile ==
    /\ RowsReconcile
    /\ \A u \in Users : /\ logged[u] + unlogged[u] = Earned(u)
                        /\ RowsToCome(u) <= unlogged[u]

Writers == INSTANCE Earnings WITH
    Opening <- 0,
    CreditAmounts <- {},
    WithdrawAmounts <- {},
    Bonuses <- {Reward[t] : t \in Tasks},
    ProfitOn <- [b \in Int |-> 0],
    held <- [u \in Users |-> 0],
    docked <- {}

\* Task review implements Earnings: it writes a balance in no way but to add a
\* task's reward, to the pending balance and the earnings at once, in a plain
\* save of the document it has loaded.
KeepsEarnings == Writers!Spec

\* Stated by the code, and not so (see README, findings).
\* 'Submission already approved': a submission is paid for once, and once
\* more only after a rejection.
RewardOnce == \A c \in Completions : paid[c] <= 1 + rejections[c]

\* 'Complete all active tasks today before claiming profit': when the counts
\* let a user through, no task that was active and undone when the check
\* began is so still.
CompletedAll ==
    \A r \in Requests : GatePasses(r) => job[r].missing \cap Missing(job[r].user) = {}
=============================================================================
