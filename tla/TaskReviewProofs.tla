-------------------------- MODULE TaskReviewProofs --------------------------
(***************************************************************************)
(* What holds of TaskReview for every number of users, tasks, submissions  *)
(* and requests, every reward and both limits: the types, one submission   *)
(* of a task per user and day, the limits of submitTask, that payments and *)
(* log entries go back to saved approvals, that the balance is what the    *)
(* rows and the rewards without a row add up to, that these are the        *)
(* rewards that were paid, and that task review implements Earnings.       *)
(***************************************************************************)
EXTENDS TaskReview, UserDocumentProofs

Submitting == {"submit", "submitCounted", "submitUncounted"}

ToPay == {"approveFind", "approvePay"}

ToLog == {"approveLog", "approveAudit"}

Approving == {"approve"} \cup ToPay \cup ToLog

\* What a request at some point of its handler has found: an owner, a task, a
\* submission that is stored, the owner's document before it pays; and one that
\* resubmits read a count below the limit.
JobFits(r) ==
    LET j == job[r]
    IN  /\ j.op \in Submitting \cup Approving \cup {"gate"} => j.user \in Users
        /\ j.op \in Submitting \cup Approving => j.task \in Tasks
        /\ j.op \in Approving => j.id \in Completions
        /\ j.id \in Completions => completion[j.id].status # "none"
        /\ j.op \in {"approvePay", "approveLog"} => copy[r].user = j.user
        /\ j.op \in Submitting /\ j.id # NoCompletion =>
             j.read.resubmissionCount < MaxResubmissions

\* A stored submission has its user and its task, one that is not has neither.
DocumentFits(c) ==
    IF completion[c].status = "none" THEN completion[c].user = NoUser
    ELSE completion[c].user \in Users /\ completion[c].task \in Tasks

\* The inductive invariant behind the submissions.
Shape ==
    /\ TypeOK
    /\ \A r \in Requests : JobFits(r)
    /\ \A c \in Completions : DocumentFits(c)
    /\ OneSubmissionPerDay
    /\ CountWithinLimit

\* The requests Redis has counted that have not stored their submission, those
\* about to pay for a submission, and those about to log what they paid.
Accepted(u) == {r \in Requests : Is(r, "submitCounted") /\ job[r].user = u}

Payers(c) == {r \in Requests : job[r].id = c /\ job[r].op \in ToPay}

Loggers(c) == {r \in Requests : job[r].id = c /\ job[r].op \in ToLog}

\* The inductive invariant behind the daily limit and the payments: a request
\* is counted before it stores, is saved as approved before it may pay, and has
\* paid before it may log, so what is still to come is part of the count.
SubmitTally ==
    \A u \in Users :
        /\ counted[u] + Cardinality(Accepted(u)) <= submissions[u]
        /\ counted[u] + Cardinality(Accepted(u)) <= DailySubmissionLimit

PayTally ==
    \A c \in Completions :
        /\ paid[c] + Cardinality(Payers(c)) <= approvals[c]
        /\ audit[c] + Cardinality(Loggers(c)) <= paid[c]

Tally == SubmitTally /\ PayTally

-----------------------------------------------------------------------------
\* What Shape says of the collection of submissions, and of the counters.
SubmissionsOK ==
    /\ completion \in [Completions -> Completion]
    /\ \A c \in Completions : DocumentFits(c)
    /\ OneSubmissionPerDay
    /\ CountWithinLimit

CountersOK ==
    /\ active \in SUBSET Tasks
    /\ submissions \in [Users -> Nat]
    /\ logged \in [Users -> Nat]
    /\ audit \in [Completions -> Nat]
    /\ counted \in [Users -> Nat]
    /\ approvals \in [Completions -> Nat]
    /\ rejections \in [Completions -> Nat]
    /\ paid \in [Completions -> Nat]
    /\ unlogged \in [Users -> Int]
    /\ ops \in 0 .. MaxOps

\* Both are part of Shape.
LEMMA ShapeHas == Shape => SubmissionsOK /\ CountersOK
BY DEF Shape, TypeOK, SubmissionsOK, CountersOK

\* A submission that is stored stays stored.
StaysStored ==
    \A c \in Completions :
        completion[c].status # "none" => completion'[c].status # "none"

\* A step of one request that leaves that request in shape keeps Shape.
LEMMA ShapeParts ==
    ASSUME Shape, NEW r \in Requests, NEW j \in Job,
           DocTypeOK', SubmissionsOK', CountersOK',
           job' = [job EXCEPT ![r] = j], JobFits(r)', StaysStored,
           \A q \in Requests \ {r} : copy'[q].user = copy[q].user
    PROVE  Shape'
<1>1. job \in [Requests -> Job]
  BY DEF Shape, TypeOK
<1>2. job' \in [Requests -> Job] /\ \A q \in Requests \ {r} : job'[q] = job[q]
  BY <1>1
<1>3. TypeOK'
  BY <1>2 DEF TypeOK, SubmissionsOK, CountersOK
<1>4. ASSUME NEW q \in Requests \ {r}
      PROVE  JobFits(q)'
  <2>1. JobFits(q)
    BY DEF Shape
  <2> QED BY <1>2, <2>1 DEF JobFits, StaysStored
<1>5. \A q \in Requests : JobFits(q)'
  BY <1>4
<1> QED BY <1>3, <1>5 DEF Shape, SubmissionsOK

\* What each request has in hand.
LEMMA InHand ==
    ASSUME Shape, NEW r \in Requests
    PROVE  /\ job[r] \in Job /\ JobFits(r) /\ copy[r] \in Copies
           /\ job \in [Requests -> Job]
BY DEF Shape, TypeOK, DocTypeOK

\* A request that goes on to another point of its handler keeps all it knows.
GoesOn(r, op, j) ==
    /\ job' = [job EXCEPT ![r] = j]
    /\ job'[r] = j
    /\ j.op = op /\ j.user = job[r].user
    /\ j.task = job[r].task /\ j.id = job[r].id
    /\ j.read = job[r].read

\* Goto is such a step.
LEMMA GotoJob ==
    ASSUME Shape, NEW r \in Requests, NEW op \in Ops,
           job' = [job EXCEPT ![r].op = op]
    PROVE  \E j \in Job : GoesOn(r, op, j)
<1> DEFINE j == [job[r] EXCEPT !.op = op]
<1>1. job[r] \in Job /\ job \in [Requests -> Job]
  BY InHand
<1>2. /\ j \in Job /\ j.op = op /\ j.user = job[r].user
      /\ j.task = job[r].task /\ j.id = job[r].id /\ j.read = job[r].read
  BY <1>1 DEF Job
<1>3. job' = [job EXCEPT ![r] = j] /\ job'[r] = j
  BY <1>1, <1>2
<1> HIDE DEF j
<1> QED BY <1>2, <1>3 DEF GoesOn

\* Idle is a job, and asks for nothing.
LEMMA IdleJob ==
    /\ Idle \in Job /\ Idle.op = "idle" /\ Idle.id \notin Completions
    /\ NoDocument \in Completion /\ NoDocument.status = "none"
    /\ NoDocument.user = NoUser /\ NoDocument.resubmissionCount = 0
BY ReviewAssumption DEF Idle, Job, Ops, NoDocument, Completion, Status

\* A request that is over is in shape.
LEMMA FinishJob ==
    ASSUME Shape, NEW r \in Requests, job' = [job EXCEPT ![r] = Idle]
    PROVE  JobFits(r)' /\ job'[r] = Idle
<1>1. job'[r] = Idle
  BY InHand
<1> QED BY <1>1, IdleJob DEF JobFits, Submitting, Approving, ToPay, ToLog

\* A stored submission whose owner and task stay, and whose count is within the
\* limit, may get any status but "none".
LEMMA Rewritten ==
    ASSUME Shape, NEW c \in Completions, completion[c].status # "none",
           NEW s \in Status \ {"none"}, NEW n \in 0 .. MaxResubmissions,
           completion' = [completion EXCEPT
              ![c] = [status |-> s, user |-> completion[c].user,
                      task |-> completion[c].task, resubmissionCount |-> n]]
    PROVE  SubmissionsOK' /\ StaysStored
<1>1. completion \in [Completions -> Completion]
  BY DEF Shape, TypeOK
<1>2. completion[c].user \in Users \cup {NoUser}
      /\ completion[c].task \in Tasks \cup {NoTask} /\ n \in Nat
  BY <1>1, ReviewAssumption DEF Completion
<1> DEFINE new == [status |-> s, user |-> completion[c].user,
                   task |-> completion[c].task, resubmissionCount |-> n]
<1>3. new \in Completion
  BY <1>2 DEF Completion
<1>4. /\ completion' \in [Completions -> Completion]
      /\ completion'[c] = new
      /\ \A d \in Completions \ {c} : completion'[d] = completion[d]
  BY <1>1, <1>3
<1>5. \A d \in Completions : /\ completion'[d].user = completion[d].user
                             /\ completion'[d].task = completion[d].task
  BY <1>4
<1>6. \A d \in Completions : completion'[d].status # "none" <=> completion[d].status # "none"
  BY <1>4
<1>7. \A d \in Completions : DocumentFits(d)'
  BY <1>5, <1>6 DEF DocumentFits, Shape
<1>8. OneSubmissionPerDay'
  BY <1>5, <1>6 DEF OneSubmissionPerDay, Shape
<1>9. CountWithinLimit'
  <2>1. CountWithinLimit
    BY DEF Shape
  <2> QED BY <1>4, <2>1 DEF CountWithinLimit
<1> QED BY <1>4, <1>6, <1>7, <1>8, <1>9 DEF SubmissionsOK, StaysStored

\* Setting the status of a submission changes nothing else of it.
LEMMA StatusOnly ==
    ASSUME Shape, NEW c \in Completions, NEW s,
           completion' = [completion EXCEPT ![c].status = s]
    PROVE  completion' = [completion EXCEPT
              ![c] = [status |-> s, user |-> completion[c].user,
                      task |-> completion[c].task,
                      resubmissionCount |-> completion[c].resubmissionCount]]
<1>1. completion[c] \in Completion
  BY DEF Shape, TypeOK
<1>2. [completion[c] EXCEPT !.status = s] =
        [status |-> s, user |-> completion[c].user, task |-> completion[c].task,
         resubmissionCount |-> completion[c].resubmissionCount]
  BY <1>1 DEF Completion
<1>3. completion' = [completion EXCEPT ![c] = [completion[c] EXCEPT !.status = s]]
  OBVIOUS
<1> QED BY <1>2, <1>3

\* A step that leaves the collection alone keeps what Shape says of it.
LEMMA Untouched ==
    ASSUME Shape, UNCHANGED completion
    PROVE  SubmissionsOK' /\ StaysStored
<1>1. SubmissionsOK
  BY ShapeHas
<1> QED BY <1>1 DEF SubmissionsOK, StaysStored, DocumentFits, OneSubmissionPerDay,
                    CountWithinLimit

\* Nor do the documents, where a step leaves them alone.
LEMMA DocUntouched ==
    ASSUME Shape, UNCHANGED docVars
    PROVE  /\ DocTypeOK'
           /\ \A q \in Requests : copy'[q].user = copy[q].user
BY DEF Shape, TypeOK, DocTypeOK, docVars

-----------------------------------------------------------------------------
\* The initial state is in shape.
LEMMA ShapeInit == Init => Shape
<1> SUFFICES ASSUME Init PROVE Shape
  OBVIOUS
<1>1. DocTypeOK
  BY NoCopyType DEF Init, DocTypeOK, ZeroBalance, WalletBalance
<1>2. TypeOK
  BY <1>1, IdleJob, ReviewAssumption DEF Init, TypeOK
<1>3. \A r \in Requests : JobFits(r)
  BY IdleJob DEF Init, JobFits, Submitting, Approving, ToPay, ToLog
<1>4. \A c \in Completions : DocumentFits(c)
  BY IdleJob DEF Init, DocumentFits
<1>5. OneSubmissionPerDay
  BY IdleJob DEF Init, OneSubmissionPerDay
<1>6. CountWithinLimit
  BY IdleJob, ReviewAssumption DEF Init, CountWithinLimit
<1> QED BY <1>2, <1>3, <1>4, <1>5, <1>6 DEF Shape

\* An operation begins: the request knows a submission that is stored, its
\* owner and its task.
LEMMA BeginShape ==
    ASSUME Shape, NEW r \in Requests, Arrive(r)
    PROVE  Shape'
<1> USE DEF Submitting, Approving, ToPay, ToLog
<1>1. /\ CountersOK /\ SubmissionsOK /\ job[r] \in Job
      /\ job \in [Requests -> Job] /\ ops \in 0 .. MaxOps
  BY ShapeHas, InHand DEF CountersOK
<1>2. ASSUME NEW u \in Users, NEW t \in Tasks, SubmitFind(r, u, t)
      PROVE  Shape'
  <2>1. UNCHANGED <<docVars, active, reviewVars, submitVars, rewardVars>>
    BY <1>2 DEF SubmitFind
  <2>2. CASE Begin(r, [Idle EXCEPT !.op = "submit", !.user = u, !.task = t])
    <3> DEFINE j == [Idle EXCEPT !.op = "submit", !.user = u, !.task = t]
    <3>1. j \in Job /\ j.op = "submit" /\ j.user = u /\ j.task = t /\ j.id = NoCompletion
      BY IdleJob DEF Idle, Job, Ops
    <3>2. job' = [job EXCEPT ![r] = j] /\ ops' \in 0 .. MaxOps
      BY <1>1, <2>2, ReviewAssumption DEF Begin
    <3> HIDE DEF j
    <3>3. job'[r] = j
      BY <1>1, <3>1, <3>2
    <3>4. JobFits(r)'
      BY <3>1, <3>3, ReviewAssumption DEF JobFits
    <3>5. CountersOK'
      BY <1>1, <2>1, <3>2 DEF CountersOK, reviewVars, submitVars, rewardVars
    <3> QED BY <2>1, <3>1, <3>2, <3>4, <3>5, Untouched, DocUntouched, ShapeParts
            DEF reviewVars
  <2>3. ASSUME NEW c \in Found(u, t),
               completion[c].resubmissionCount < MaxResubmissions,
               Begin(r, [Idle EXCEPT !.op = "submit", !.user = u, !.task = t,
                                     !.id = c, !.read = completion[c]])
        PROVE  Shape'
    <3> DEFINE j == [Idle EXCEPT !.op = "submit", !.user = u, !.task = t,
                                 !.id = c, !.read = completion[c]]
    <3>0. c \in Completions /\ completion[c].status # "none" /\ completion[c] \in Completion
      BY <1>1, <2>3 DEF Found, SubmissionsOK
    <3>1. j \in Job /\ j.op = "submit" /\ j.user = u /\ j.task = t /\ j.id = c
          /\ j.read = completion[c]
      BY <3>0, IdleJob DEF Idle, Job, Ops
    <3>2. job' = [job EXCEPT ![r] = j] /\ ops' \in 0 .. MaxOps
      BY <1>1, <2>3, ReviewAssumption DEF Begin
    <3> HIDE DEF j
    <3>3. job'[r] = j
      BY <1>1, <3>1, <3>2
    <3>4. JobFits(r)'
      BY <2>1, <2>3, <3>0, <3>1, <3>3 DEF JobFits, reviewVars
    <3>5. CountersOK'
      BY <1>1, <2>1, <3>2 DEF CountersOK, reviewVars, submitVars, rewardVars
    <3> QED BY <2>1, <3>1, <3>2, <3>4, <3>5, Untouched, DocUntouched, ShapeParts
            DEF reviewVars
  <2> QED BY <1>2, <2>2, <2>3 DEF SubmitFind
<1>3. ASSUME NEW c \in Completions, ApproveFind(r, c)
      PROVE  Shape'
  <2> DEFINE j == [Idle EXCEPT !.op = "approve", !.user = completion[c].user,
                               !.task = completion[c].task, !.id = c,
                               !.read = completion[c]]
  <2>1. UNCHANGED <<docVars, active, reviewVars, submitVars, rewardVars>>
    BY <1>3 DEF ApproveFind
  <2>2. /\ completion[c].status # "none" /\ completion[c] \in Completion
        /\ completion[c].user \in Users /\ completion[c].task \in Tasks
    BY <1>1, <1>3 DEF ApproveFind, SubmissionsOK, DocumentFits
  <2>3. j \in Job /\ j.op = "approve" /\ j.user = completion[c].user
        /\ j.task = completion[c].task /\ j.id = c
    BY <2>2, IdleJob DEF Idle, Job, Ops
  <2>4. job' = [job EXCEPT ![r] = j] /\ ops' \in 0 .. MaxOps
    BY <1>1, <1>3, ReviewAssumption DEF ApproveFind, Begin
  <2> HIDE DEF j
  <2>5. job'[r] = j
    BY <1>1, <2>3, <2>4
  <2>6. JobFits(r)'
    BY <2>1, <2>2, <2>3, <2>5 DEF JobFits, reviewVars
  <2>7. CountersOK'
    BY <1>1, <2>1, <2>4 DEF CountersOK, reviewVars, submitVars, rewardVars
  <2> QED BY <2>1, <2>3, <2>4, <2>6, <2>7, Untouched, DocUntouched, ShapeParts
          DEF reviewVars
<1>4. ASSUME NEW c \in Completions, Reject(r, c)
      PROVE  Shape'
  <2> DEFINE j == [Idle EXCEPT !.op = "rejectAudit", !.id = c]
  <2>1. /\ completion[c].status # "none" /\ completion[c] \in Completion
        /\ completion[c].resubmissionCount \in 0 .. MaxResubmissions
    BY <1>1, <1>4, ReviewAssumption
    DEF Reject, SubmissionsOK, CountWithinLimit, Completion
  <2>2. completion' = [completion EXCEPT
           ![c] = [status |-> "rejected", user |-> completion[c].user,
                   task |-> completion[c].task,
                   resubmissionCount |-> completion[c].resubmissionCount]]
    <3>1. completion' = [completion EXCEPT ![c].status = "rejected"]
      BY <1>4 DEF Reject
    <3> QED BY <3>1, StatusOnly
  <2>3. SubmissionsOK' /\ StaysStored
    BY <2>1, <2>2, Rewritten DEF Status
  <2>4. j \in Job /\ j.op = "rejectAudit" /\ j.id = c
    BY IdleJob DEF Idle, Job, Ops
  <2>5. job' = [job EXCEPT ![r] = j] /\ ops' \in 0 .. MaxOps
    BY <1>1, <1>4, ReviewAssumption DEF Reject, Begin
  <2> HIDE DEF j
  <2>6. job'[r] = j
    BY <1>1, <2>4, <2>5
  <2>7. JobFits(r)'
    BY <2>1, <2>3, <2>4, <2>6 DEF JobFits, StaysStored
  <2>8. rejections' \in [Completions -> Nat]
    BY <1>1, <1>4 DEF Reject, CountersOK
  <2>9. CountersOK'
    BY <1>1, <1>4, <2>5, <2>8 DEF Reject, CountersOK, submitVars, rewardVars
  <2> QED BY <1>4, <2>3, <2>4, <2>5, <2>7, <2>9, DocUntouched, ShapeParts DEF Reject
<1>5. ASSUME NEW u \in Users, GateStart(r, u)
      PROVE  Shape'
  <2> DEFINE j == [Idle EXCEPT !.op = "gate", !.user = u, !.missing = Missing(u)]
  <2>1. UNCHANGED <<docVars, active, reviewVars, submitVars, rewardVars>>
    BY <1>5 DEF GateStart
  <2>2. Missing(u) \in SUBSET Tasks
    BY <1>1 DEF Missing, CountersOK
  <2>3. j \in Job /\ j.op = "gate" /\ j.user = u /\ j.id \notin Completions
    BY <2>2, IdleJob DEF Idle, Job, Ops
  <2>4. job' = [job EXCEPT ![r] = j] /\ ops' \in 0 .. MaxOps
    BY <1>1, <1>5, ReviewAssumption DEF GateStart, Begin
  <2> HIDE DEF j
  <2>5. job'[r] = j
    BY <1>1, <2>3, <2>4
  <2>6. JobFits(r)'
    BY <2>3, <2>5 DEF JobFits
  <2>7. CountersOK'
    BY <1>1, <2>1, <2>4 DEF CountersOK, reviewVars, submitVars, rewardVars
  <2> QED BY <2>1, <2>3, <2>4, <2>6, <2>7, Untouched, DocUntouched, ShapeParts
          DEF reviewVars
<1> QED BY <1>2, <1>3, <1>4, <1>5 DEF Arrive

-----------------------------------------------------------------------------
\* A request that goes on within its handler keeps Shape.
LEMMA GotoShape ==
    ASSUME Shape, NEW r \in Requests, NEW op \in Submitting \cup Approving,
           job' = [job EXCEPT ![r].op = op],
           DocTypeOK', SubmissionsOK', CountersOK', StaysStored,
           op \in Submitting => job[r].op \in Submitting,
           op \in Approving => job[r].op \in Approving,
           op \in {"approvePay", "approveLog"} => copy'[r].user = job[r].user,
           \A q \in Requests \ {r} : copy'[q].user = copy[q].user
    PROVE  Shape'
<1>1. op \in Ops
  BY DEF Ops, Submitting, Approving, ToPay, ToLog
<1>2. PICK j \in Job : GoesOn(r, op, j)
  BY <1>1, GotoJob
<1>3. JobFits(r)
  BY InHand
<1>4. JobFits(r)'
  BY <1>2, <1>3 DEF GoesOn, JobFits, StaysStored, Submitting, Approving, ToPay, ToLog
<1> QED BY <1>2, <1>4, ShapeParts DEF GoesOn

\* A request that is over keeps Shape.
LEMMA FinishShape ==
    ASSUME Shape, NEW r \in Requests, job' = [job EXCEPT ![r] = Idle],
           DocTypeOK', SubmissionsOK', CountersOK', StaysStored,
           \A q \in Requests \ {r} : copy'[q].user = copy[q].user
    PROVE  Shape'
BY FinishJob, IdleJob, ShapeParts

\* The steps of submitTask after its reads.
LEMMA SubmitShape ==
    ASSUME Shape, NEW r \in Requests, Submit(r)
    PROVE  Shape'
<1>1. /\ CountersOK /\ SubmissionsOK /\ job[r] \in Job /\ JobFits(r)
      /\ job \in [Requests -> Job]
  BY ShapeHas, InHand
<1>2. CASE SubmitCount(r)
  <2>0. job[r].user \in Users /\ job[r].op = "submit"
    BY <1>1, <1>2 DEF SubmitCount, Is, JobFits, Submitting
  <2>1. submissions' \in [Users -> Nat]
    BY <1>1, <1>2, <2>0 DEF SubmitCount, CountersOK
  <2>2. UNCHANGED <<docVars, active, reviewVars, counted, rewardVars, ops>>
    BY <1>2 DEF SubmitCount, Finish, Goto
  <2>3. CountersOK'
    BY <1>1, <2>1, <2>2 DEF CountersOK, reviewVars, rewardVars
  <2>4. CASE Finish(r)
    BY <2>2, <2>3, <2>4, FinishShape, Untouched, DocUntouched DEF Finish, reviewVars
  <2>5. ASSUME NEW op \in {"submitCounted", "submitUncounted"}, Goto(r, op)
        PROVE  Shape'
    <3>1. op \in Submitting /\ op \notin Approving /\ job[r].op \in Submitting
      BY <2>0 DEF Submitting, Approving, ToPay, ToLog
    <3>2. job' = [job EXCEPT ![r].op = op] /\ op \notin {"approvePay", "approveLog"}
      BY <2>5 DEF Goto
    <3> QED BY <2>2, <2>3, <3>1, <3>2, GotoShape, Untouched, DocUntouched DEF reviewVars
  <2> QED BY <1>2, <2>4, <2>5 DEF SubmitCount
<1>3. ASSUME StoredBy(r), SubmissionsOK', StaysStored,
             job[r].op \in {"submitCounted", "submitUncounted"}
      PROVE  Shape'
  <2>1. job[r].user \in Users
    BY <1>1, <1>3 DEF JobFits, Submitting
  <2>2. counted' \in [Users -> Nat]
    BY <1>1, <1>3, <2>1 DEF StoredBy, CountersOK
  <2>3. CountersOK'
    BY <1>1, <1>3, <2>2 DEF StoredBy, Finish, CountersOK, rewardVars
  <2>4. UNCHANGED docVars /\ job' = [job EXCEPT ![r] = Idle]
    BY <1>3 DEF StoredBy, Finish
  <2> QED BY <1>3, <2>3, <2>4, FinishShape, DocUntouched
<1>4. ASSUME NEW c \in Completions, SubmitCreate(r, c)
      PROVE  Shape'
  <2> DEFINE new == [status |-> "pending", user |-> job[r].user,
                     task |-> job[r].task, resubmissionCount |-> 0]
  <2>1. /\ job[r].op \in {"submitCounted", "submitUncounted"}
        /\ job[r].user \in Users /\ job[r].task \in Tasks
        /\ Found(job[r].user, job[r].task) = {}
        /\ completion[c].status = "none"
    BY <1>1, <1>4 DEF SubmitCreate, JobFits, Submitting
  <2>2. /\ new \in Completion /\ new.user = job[r].user /\ new.task = job[r].task
        /\ new.status = "pending" /\ new.resubmissionCount = 0
    BY <2>1 DEF Completion, Status
  <2>3. completion' = [completion EXCEPT ![c] = new]
    BY <1>4 DEF SubmitCreate
  <2> HIDE DEF new
  <2>4. /\ completion' \in [Completions -> Completion] /\ completion'[c] = new
        /\ \A d \in Completions \ {c} : completion'[d] = completion[d]
    BY <1>1, <2>2, <2>3 DEF SubmissionsOK
  <2>5. \A d \in Completions : DocumentFits(d)'
    BY <1>1, <2>1, <2>2, <2>4 DEF DocumentFits, SubmissionsOK
  <2>6. CountWithinLimit'
    BY <1>1, <2>2, <2>4, ReviewAssumption DEF CountWithinLimit, SubmissionsOK
  <2>7. ASSUME NEW d \in Completions \ {c}, completion[d].user = job[r].user
        PROVE  completion[d].task # job[r].task
    <3>1. completion[d].status # "none"
      BY <1>1, <2>1, <2>7, NoUserAssumption DEF DocumentFits, SubmissionsOK
    <3> QED BY <2>1, <2>7, <3>1 DEF Found
  <2>8. OneSubmissionPerDay'
    BY <1>1, <2>2, <2>4, <2>7 DEF OneSubmissionPerDay, SubmissionsOK
  <2>9. SubmissionsOK' /\ StaysStored
    BY <2>1, <2>4, <2>5, <2>6, <2>8 DEF SubmissionsOK, StaysStored
  <2> QED BY <1>3, <1>4, <2>1, <2>9 DEF SubmitCreate
<1>5. CASE SubmitAgain(r)
  <2> DEFINE c == job[r].id
             n == job[r].read.resubmissionCount + 1
  <2>1. /\ job[r].op \in {"submitCounted", "submitUncounted"}
        /\ c \in Completions /\ completion[c].status # "none"
        /\ completion[c] \in Completion
        /\ n \in 0 .. MaxResubmissions
    BY <1>1, <1>5, ReviewAssumption
    DEF SubmitAgain, JobFits, Submitting, Job, Completion, SubmissionsOK
  <2>2. completion' = [completion EXCEPT ![c].status = "pending",
                                         ![c].resubmissionCount = n]
    BY <1>5 DEF SubmitAgain
  <2>3. completion' = [completion EXCEPT
           ![c] = [status |-> "pending", user |-> completion[c].user,
                   task |-> completion[c].task, resubmissionCount |-> n]]
    <3> HIDE DEF c, n
    <3>1. [[completion[c] EXCEPT !.status = "pending"] EXCEPT !.resubmissionCount = n] =
            [status |-> "pending", user |-> completion[c].user,
             task |-> completion[c].task, resubmissionCount |-> n]
      <4> DEFINE once == [status |-> "pending", user |-> completion[c].user,
                          task |-> completion[c].task,
                          resubmissionCount |-> completion[c].resubmissionCount]
      <4>1. [completion[c] EXCEPT !.status = "pending"] = once
        BY <2>1 DEF Completion
      <4>2. [once EXCEPT !.resubmissionCount = n] =
              [status |-> "pending", user |-> completion[c].user,
               task |-> completion[c].task, resubmissionCount |-> n]
        OBVIOUS
      <4> HIDE DEF once
      <4> QED BY <4>1, <4>2, Zenon
    <3>2. completion' = [completion EXCEPT ![c] =
             [[completion[c] EXCEPT !.status = "pending"] EXCEPT !.resubmissionCount = n]]
      BY <1>1, <2>1, <2>2 DEF SubmissionsOK
    <3> QED BY <3>1, <3>2
  <2> HIDE DEF c, n
  <2>4. SubmissionsOK' /\ StaysStored
    BY <2>1, <2>3, Rewritten DEF Status
  <2> QED BY <1>3, <1>5, <2>1, <2>4 DEF SubmitAgain
<1> QED BY <1>2, <1>4, <1>5 DEF Submit

\* What an approval that is about to pay may save.
LEMMA PayInHand ==
    ASSUME Shape, NEW r \in Requests, job[r].op \in {"approvePay", "approveLog"}
    PROVE  /\ job[r].user \in Users /\ copy[r].user = job[r].user
           /\ job[r].id \in Completions /\ Reward[job[r].task] \in Nat
           /\ copy[r].doc \in WalletBalance
           /\ Rewarded(r) = [pending |-> copy[r].doc.pending + Reward[job[r].task],
                             approved |-> copy[r].doc.approved,
                             totalEarned |-> copy[r].doc.totalEarned
                                               + Reward[job[r].task]]
           /\ Rewarded(r) \in WalletBalance
<1>1. /\ job[r].user \in Users /\ copy[r].user = job[r].user
      /\ job[r].id \in Completions /\ job[r].task \in Tasks
      /\ copy[r] \in Copies
  BY InHand DEF JobFits, Submitting, Approving, ToPay, ToLog
<1>2. Reward[job[r].task] \in Nat /\ copy[r].doc \in WalletBalance
  BY <1>1, ReviewAssumption DEF Copies
<1> DEFINE p == copy[r].doc.pending + Reward[job[r].task]
           e == copy[r].doc.totalEarned + Reward[job[r].task]
<1>3. /\ p \in Int /\ e \in Int /\ copy[r].doc.approved \in Int
  BY <1>2 DEF WalletBalance
<1>4. Rewarded(r) = [pending |-> p, approved |-> copy[r].doc.approved, totalEarned |-> e]
  <2> HIDE DEF p, e
  <2> DEFINE once == [pending |-> p, approved |-> copy[r].doc.approved,
                      totalEarned |-> copy[r].doc.totalEarned]
  <2>1. Rewarded(r) = [[copy[r].doc EXCEPT !.pending = p] EXCEPT !.totalEarned = e]
    BY <1>2 DEF Rewarded, WalletBalance, p, e
  <2>2. [copy[r].doc EXCEPT !.pending = p] = once
    BY <1>2 DEF WalletBalance
  <2>3. [once EXCEPT !.totalEarned = e] =
          [pending |-> p, approved |-> copy[r].doc.approved, totalEarned |-> e]
    OBVIOUS
  <2> HIDE DEF once
  <2> QED BY <2>1, <2>2, <2>3, Zenon
<1>5. Rewarded(r) \in WalletBalance
  <2> HIDE DEF p, e
  <2> QED BY <1>3, <1>4 DEF WalletBalance
<1> QED BY <1>1, <1>2, <1>4, <1>5

\* The steps of approveSubmission after its read.
LEMMA ApproveShape ==
    ASSUME Shape, NEW r \in Requests, Approve(r)
    PROVE  Shape'
<1>1. /\ CountersOK /\ SubmissionsOK /\ JobFits(r) /\ DocTypeOK
  BY ShapeHas, InHand DEF Shape, TypeOK
<1> USE DEF Approving, ToPay, ToLog
<1>2. CASE ApproveSave(r)
  <2> DEFINE c == job[r].id
  <2>1. /\ job[r].op = "approve" /\ c \in Completions
        /\ completion[c].status # "none"
        /\ completion[c].resubmissionCount \in 0 .. MaxResubmissions
    BY <1>1, <1>2, ReviewAssumption
    DEF ApproveSave, Is, JobFits, SubmissionsOK, CountWithinLimit, Completion
  <2>2. SubmissionsOK' /\ StaysStored
    <3> HIDE DEF c
    <3>1. completion' = [completion EXCEPT ![c].status = "approved"]
      BY <1>2 DEF ApproveSave, c
    <3>2. completion' = [completion EXCEPT
             ![c] = [status |-> "approved", user |-> completion[c].user,
                     task |-> completion[c].task,
                     resubmissionCount |-> completion[c].resubmissionCount]]
      BY <2>1, <3>1, StatusOnly
    <3> QED BY <2>1, <3>2, Rewritten DEF Status
  <2>3. approvals' \in [Completions -> Nat]
    BY <1>1, <1>2, <2>1 DEF ApproveSave, CountersOK
  <2>4. CountersOK'
    BY <1>1, <1>2, <2>3 DEF ApproveSave, Goto, CountersOK, submitVars, rewardVars
  <2>5. job' = [job EXCEPT ![r].op = "approveFind"] /\ UNCHANGED docVars
    BY <1>2 DEF ApproveSave, Goto
  <2> QED BY <2>1, <2>2, <2>4, <2>5, GotoShape, DocUntouched DEF Submitting
<1>3. CASE ApproveFindUser(r)
  <2>1. job[r].op = "approveFind" /\ job[r].user \in Users
    BY <1>1, <1>3 DEF ApproveFindUser, Is, JobFits
  <2>2. /\ DocTypeOK' /\ copy'[r].user = job[r].user
        /\ \A q \in Requests \ {r} : copy'[q].user = copy[q].user
    BY <1>1, <1>3, <2>1, FindType DEF ApproveFindUser
  <2>3. CountersOK'
    BY <1>1, <1>3 DEF ApproveFindUser, Goto, CountersOK, submitVars, rewardVars, reviewVars
  <2>4. job' = [job EXCEPT ![r].op = "approvePay"] /\ UNCHANGED completion
    BY <1>3 DEF ApproveFindUser, Goto, reviewVars
  <2> QED BY <2>1, <2>2, <2>3, <2>4, GotoShape, Untouched DEF Submitting
<1>4. CASE ApprovePay(r)
  <2>1. /\ job[r].op = "approvePay" /\ job[r].user \in Users
        /\ copy[r].user = job[r].user /\ job[r].id \in Completions
        /\ Reward[job[r].task] \in Nat /\ Rewarded(r) \in WalletBalance
    BY <1>4, PayInHand DEF ApprovePay, Is
  <2>2. /\ DocTypeOK' /\ copy'[r].user = job[r].user
        /\ \A q \in Requests \ {r} : copy'[q].user = copy[q].user
    BY <1>1, <1>4, <2>1, SaveType DEF ApprovePay
  <2>3. paid' \in [Completions -> Nat] /\ unlogged' \in [Users -> Int]
    BY <1>1, <1>4, <2>1 DEF ApprovePay, CountersOK
  <2>4. CountersOK'
    BY <1>1, <1>4, <2>3 DEF ApprovePay, Goto, CountersOK, submitVars, reviewVars
  <2>5. job' = [job EXCEPT ![r].op = "approveLog"] /\ UNCHANGED completion
    BY <1>4 DEF ApprovePay, Goto, reviewVars
  <2> QED BY <2>1, <2>2, <2>4, <2>5, GotoShape, Untouched DEF Submitting
<1>5. CASE ApproveLog(r)
  <2>1. /\ job[r].op = "approveLog" /\ job[r].user \in Users
        /\ Reward[job[r].task] \in Nat
    BY <1>5, PayInHand DEF ApproveLog, Is
  <2>2. /\ DocTypeOK'
        /\ \A q \in Requests \ {r} : copy'[q].user = copy[q].user
    BY <1>1, <1>5, ReleaseType DEF ApproveLog
  <2>3. logged' \in [Users -> Nat] /\ unlogged' \in [Users -> Int]
    BY <1>1, <1>5, <2>1 DEF ApproveLog, CountersOK
  <2>4. CountersOK'
    BY <1>1, <1>5, <2>3 DEF ApproveLog, Goto, CountersOK, submitVars, reviewVars
  <2>5. job' = [job EXCEPT ![r].op = "approveAudit"] /\ UNCHANGED completion
    BY <1>5 DEF ApproveLog, Goto, reviewVars
  <2> QED BY <2>1, <2>2, <2>4, <2>5, GotoShape, Untouched DEF Submitting
<1>6. CASE ApproveAudit(r)
  <2>1. job[r].id \in Completions
    BY <1>1, <1>6 DEF ApproveAudit, Is, JobFits
  <2>2. audit' \in [Completions -> Nat]
    BY <1>1, <1>6, <2>1 DEF ApproveAudit, CountersOK
  <2>3. CountersOK'
    BY <1>1, <1>6, <2>2 DEF ApproveAudit, Finish, CountersOK, submitVars, reviewVars
  <2>4. job' = [job EXCEPT ![r] = Idle] /\ UNCHANGED completion /\ UNCHANGED docVars
    BY <1>6 DEF ApproveAudit, Finish, reviewVars
  <2> QED BY <2>3, <2>4, FinishShape, Untouched, DocUntouched
<1> QED BY <1>2, <1>3, <1>4, <1>5, <1>6 DEF Approve

\* The two counts of the profit claim, its reply, and the other ends.
LEMMA RestShape ==
    ASSUME Shape, NEW r \in Requests, Gate(r) \/ RejectAudit(r) \/ Drop(r)
    PROVE  Shape'
<1>1. /\ CountersOK /\ JobFits(r) /\ DocTypeOK /\ job[r] \in Job
      /\ job \in [Requests -> Job]
  BY ShapeHas, InHand DEF Shape, TypeOK
<1>2. UNCHANGED <<active, reviewVars, submitVars, rewardVars, ops>>
  BY DEF Gate, GateActive, GateCompleted, GateReply, RejectAudit, Drop, Finish
<1>3. CountersOK' /\ SubmissionsOK' /\ StaysStored
  BY <1>1, <1>2, Untouched DEF CountersOK, submitVars, rewardVars, reviewVars
<1>4. CASE GateReply(r) \/ RejectAudit(r) \/ Drop(r)
  <2>1. job' = [job EXCEPT ![r] = Idle]
    BY <1>4 DEF GateReply, RejectAudit, Drop, Finish
  <2>2. DocTypeOK' /\ \A q \in Requests \ {r} : copy'[q].user = copy[q].user
    BY <1>1, <1>4, ReleaseType, DocUntouched DEF GateReply, RejectAudit, Drop
  <2> QED BY <1>3, <2>1, <2>2, FinishShape
<1>5. ASSUME NEW j \in Job, job' = [job EXCEPT ![r] = j], UNCHANGED docVars,
             job[r].op = "gate", j.op = "gate",
             j.user = job[r].user, j.id = job[r].id
      PROVE  Shape'
  <2>1. job'[r] = j
    BY <1>1, <1>5
  <2>2. JobFits(r)'
    BY <1>1, <1>3, <1>5, <2>1
    DEF JobFits, StaysStored, Submitting, Approving, ToPay, ToLog
  <2> QED BY <1>3, <1>5, <2>2, ShapeParts, DocUntouched
<1>6. CASE GateActive(r)
  <2> DEFINE n == Cardinality(active)
  <2>1. IsFiniteSet(active)
    BY <1>1, ReviewAssumption, FS_Subset DEF CountersOK
  <2>2. n \in Nat
    BY <2>1, FS_CardinalityType
  <2> HIDE DEF n
  <2>3. job' = [job EXCEPT ![r] = [job[r] EXCEPT !.activeTasks = n]]
    BY <1>6 DEF GateActive, n
  <2>4. /\ [job[r] EXCEPT !.activeTasks = n] \in Job
        /\ [job[r] EXCEPT !.activeTasks = n].op = job[r].op
        /\ [job[r] EXCEPT !.activeTasks = n].user = job[r].user
        /\ [job[r] EXCEPT !.activeTasks = n].id = job[r].id
    BY <1>1, <2>2 DEF Job
  <2> QED BY <1>5, <1>6, <2>3, <2>4 DEF GateActive, Is
<1>7. CASE GateCompleted(r)
  <2> DEFINE n == Cardinality(Done(job[r].user))
  <2>1. IsFiniteSet(Done(job[r].user))
    BY ReviewAssumption, FS_Subset DEF Done
  <2>2. n \in Nat
    BY <2>1, FS_CardinalityType
  <2> HIDE DEF n
  <2>3. job' = [job EXCEPT ![r] = [job[r] EXCEPT !.completed = n]]
    BY <1>7 DEF GateCompleted, n
  <2>4. /\ [job[r] EXCEPT !.completed = n] \in Job
        /\ [job[r] EXCEPT !.completed = n].op = job[r].op
        /\ [job[r] EXCEPT !.completed = n].user = job[r].user
        /\ [job[r] EXCEPT !.completed = n].id = job[r].id
    BY <1>1, <2>2 DEF Job
  <2> QED BY <1>5, <1>7, <2>3, <2>4 DEF GateCompleted, Is
<1> QED BY <1>4, <1>6, <1>7 DEF Gate

\* An admin changes a task.
LEMMA ActiveShape ==
    ASSUME Shape, NEW t \in Tasks, SetActive(t)
    PROVE  Shape'
<1>1. CountersOK /\ SubmissionsOK /\ TypeOK
  BY ShapeHas DEF Shape
<1>2. active' \in SUBSET Tasks /\ ops' \in 0 .. MaxOps
  BY <1>1, ReviewAssumption DEF SetActive, CountersOK
<1>3. UNCHANGED <<docVars, reviewVars, submitVars, rewardVars, job>>
  BY DEF SetActive
<1>4. CountersOK' /\ SubmissionsOK'
  BY <1>1, <1>2, <1>3, Untouched DEF CountersOK, submitVars, rewardVars, reviewVars
<1>5. TypeOK'
  BY <1>1, <1>3, <1>4, DocUntouched DEF TypeOK, CountersOK, SubmissionsOK
<1>6. \A r \in Requests : JobFits(r)'
  BY <1>3 DEF Shape, JobFits, reviewVars, docVars
<1> QED BY <1>4, <1>5, <1>6 DEF Shape, SubmissionsOK

\* Every step keeps Shape.
LEMMA ShapeStep == Shape /\ [Next]_vars => Shape'
<1> SUFFICES ASSUME Shape, [Next]_vars PROVE Shape'
  OBVIOUS
<1>1. CASE Next
  BY <1>1, BeginShape, SubmitShape, ApproveShape, RestShape, ActiveShape DEF Next
<1>2. CASE UNCHANGED vars
  <2>1. UNCHANGED completion /\ UNCHANGED docVars /\ CountersOK /\ TypeOK
    BY <1>2, ShapeHas DEF vars, docVars, Shape
  <2>2. SubmissionsOK' /\ DocTypeOK'
    BY <2>1, Untouched, DocUntouched
  <2>3. CountersOK'
    BY <1>2, <2>1 DEF CountersOK, vars
  <2>4. TypeOK'
    BY <1>2, <2>1, <2>2, <2>3 DEF TypeOK, vars, SubmissionsOK, CountersOK
  <2>5. \A r \in Requests : JobFits(r)'
    BY <1>2 DEF Shape, JobFits, vars
  <2> QED BY <2>2, <2>4, <2>5 DEF Shape, SubmissionsOK
<1> QED BY <1>1, <1>2

\* The collections, the counters and the requests' local state have their
\* types, and every request knows what its next step needs.
THEOREM ShapeInvariant == Spec => []Shape
BY ShapeInit, ShapeStep, PTL DEF Spec

\* The type invariant of TaskReview, for every number of users, tasks,
\* submissions and requests.
THEOREM TypeCorrect == Spec => []TypeOK
BY ShapeInvariant, PTL DEF Shape

\* However many submissions of a task race, a user has one document for it
\* today: the unique index refuses what submitTask's own look has missed.
THEOREM OneADay == Spec => []OneSubmissionPerDay
BY ShapeInvariant, PTL DEF Shape

-----------------------------------------------------------------------------
\* A step of request r moves nobody else in or out of the counted sets.
OnlyJob(r) == \A q \in Requests \ {r} : job'[q] = job[q]

\* How the step changes a count of requests: S before, T after.
CountMoves(r, S, T) ==
    /\ Cardinality(S) \in Nat /\ Cardinality(T) \in Nat
    /\ (r \in S <=> r \in T) => Cardinality(T) = Cardinality(S)
    /\ r \in S /\ r \notin T => Cardinality(T) = Cardinality(S) - 1
    /\ r \notin S /\ r \in T => Cardinality(T) = Cardinality(S) + 1

\* The three counts of Tally change by one at most, and as r moves.
LEMMA TallyMoves ==
    ASSUME NEW r \in Requests, OnlyJob(r)
    PROVE  /\ \A u \in Users : CountMoves(r, Accepted(u), Accepted(u)')
           /\ \A c \in Completions : /\ CountMoves(r, Payers(c), Payers(c)')
                                     /\ CountMoves(r, Loggers(c), Loggers(c)')
<1>1. ASSUME NEW u \in Users PROVE CountMoves(r, Accepted(u), Accepted(u)')
  <2>1. IsFiniteSet(Accepted(u))
    BY ReviewAssumption, FS_Subset DEF Accepted
  <2>2. Accepted(u) \ {r} = Accepted(u)' \ {r}
    BY DEF Accepted, Is, OnlyJob
  <2> QED BY <2>1, <2>2, OneMoves DEF CountMoves
<1>2. ASSUME NEW c \in Completions PROVE CountMoves(r, Payers(c), Payers(c)')
  <2>1. IsFiniteSet(Payers(c))
    BY ReviewAssumption, FS_Subset DEF Payers
  <2>2. Payers(c) \ {r} = Payers(c)' \ {r}
    BY DEF Payers, OnlyJob
  <2> QED BY <2>1, <2>2, OneMoves DEF CountMoves
<1>3. ASSUME NEW c \in Completions PROVE CountMoves(r, Loggers(c), Loggers(c)')
  <2>1. IsFiniteSet(Loggers(c))
    BY ReviewAssumption, FS_Subset DEF Loggers
  <2>2. Loggers(c) \ {r} = Loggers(c)' \ {r}
    BY DEF Loggers, OnlyJob
  <2> QED BY <2>1, <2>2, OneMoves DEF CountMoves
<1> QED BY <1>1, <1>2, <1>3

\* A step that counts nothing and brings no request closer to being counted.
LEMMA SubmitTallyQuiet ==
    ASSUME Shape, Tally, NEW r \in Requests, OnlyJob(r),
           UNCHANGED <<counted, submissions>>, job'[r].op # "submitCounted"
    PROVE  SubmitTally'
<1>1. /\ counted \in [Users -> Nat] /\ submissions \in [Users -> Nat]
  BY ShapeHas DEF CountersOK
<1> SUFFICES ASSUME NEW u \in Users
             PROVE  /\ counted[u] + Cardinality(Accepted(u)') <= submissions[u]
                    /\ counted[u] + Cardinality(Accepted(u)') <= DailySubmissionLimit
  BY DEF SubmitTally
<1>2. r \notin Accepted(u)'
  BY DEF Accepted, Is
<1>3. /\ Cardinality(Accepted(u)) \in Nat /\ Cardinality(Accepted(u)') \in Nat
      /\ Cardinality(Accepted(u)') <= Cardinality(Accepted(u))
  BY <1>2, TallyMoves DEF CountMoves
<1>4. /\ counted[u] + Cardinality(Accepted(u)) <= submissions[u]
      /\ counted[u] + Cardinality(Accepted(u)) <= DailySubmissionLimit
  BY DEF Tally, SubmitTally, PayTally
<1> QED BY <1>1, <1>3, <1>4, ReviewAssumption

\* A step that pays nothing, and of a request that is nowhere near a payment.
LEMMA PayTallyQuiet ==
    ASSUME Shape, Tally, NEW r \in Requests, OnlyJob(r),
           UNCHANGED <<paid, approvals, audit>>, job'[r].op \notin ToPay \cup ToLog
    PROVE  PayTally'
<1>1. /\ paid \in [Completions -> Nat] /\ approvals \in [Completions -> Nat]
      /\ audit \in [Completions -> Nat]
  BY ShapeHas DEF CountersOK
<1> SUFFICES ASSUME NEW c \in Completions
             PROVE  /\ paid[c] + Cardinality(Payers(c)') <= approvals[c]
                    /\ audit[c] + Cardinality(Loggers(c)') <= paid[c]
  BY DEF PayTally
<1>2. r \notin Payers(c)' /\ r \notin Loggers(c)'
  BY DEF Payers, Loggers
<1>3. /\ Cardinality(Payers(c)) \in Nat /\ Cardinality(Payers(c)') \in Nat
      /\ Cardinality(Payers(c)') <= Cardinality(Payers(c))
      /\ Cardinality(Loggers(c)) \in Nat /\ Cardinality(Loggers(c)') \in Nat
      /\ Cardinality(Loggers(c)') <= Cardinality(Loggers(c))
  BY <1>2, TallyMoves DEF CountMoves
<1>4. /\ paid[c] + Cardinality(Payers(c)) <= approvals[c]
      /\ audit[c] + Cardinality(Loggers(c)) <= paid[c]
  BY DEF Tally, SubmitTally, PayTally
<1> QED BY <1>1, <1>3, <1>4

\* Requests idle, counters zero: the tally is right.
LEMMA TallyInit == Init => Tally
<1> SUFFICES ASSUME Init PROVE Tally
  OBVIOUS
<1>1. ASSUME NEW u \in Users PROVE Accepted(u) = {}
  BY IdleJob DEF Init, Accepted, Is
<1>2. ASSUME NEW c \in Completions PROVE Payers(c) = {} /\ Loggers(c) = {}
  BY IdleJob DEF Init, Payers, Loggers, ToPay, ToLog
<1>3. /\ \A u \in Users : counted[u] = 0 /\ submissions[u] = 0
      /\ \A c \in Completions : paid[c] = 0 /\ approvals[c] = 0 /\ audit[c] = 0
  BY DEF Init
<1>4. \A S : S = {} => Cardinality(S) = 0
  BY FS_EmptySet
<1>5. /\ \A u \in Users : Cardinality(Accepted(u)) = 0
      /\ \A c \in Completions : Cardinality(Payers(c)) = 0 /\ Cardinality(Loggers(c)) = 0
  BY <1>1, <1>2, <1>4
<1> QED BY <1>3, <1>5, ReviewAssumption DEF Tally, SubmitTally, PayTally

\* Where Goto and Finish leave a request, and that they leave the others.
LEMMA JobMoves ==
    ASSUME Shape, NEW r \in Requests
    PROVE  /\ \A op \in Ops : Goto(r, op) =>
                 /\ OnlyJob(r) /\ job'[r].op = op
                 /\ job'[r].user = job[r].user /\ job'[r].id = job[r].id
           /\ Finish(r) => OnlyJob(r) /\ job'[r].op = "idle"
<1>1. job \in [Requests -> Job] /\ job[r] \in Job
  BY InHand
<1>2. ASSUME NEW op \in Ops, Goto(r, op)
      PROVE  /\ OnlyJob(r) /\ job'[r].op = op
             /\ job'[r].user = job[r].user /\ job'[r].id = job[r].id
  <2>1. PICK j \in Job : GoesOn(r, op, j)
    BY <1>2, GotoJob DEF Goto
  <2> QED BY <1>1, <2>1 DEF GoesOn, OnlyJob
<1>3. ASSUME Finish(r) PROVE OnlyJob(r) /\ job'[r].op = "idle"
  BY <1>1, <1>3, IdleJob DEF Finish, OnlyJob
<1> QED BY <1>2, <1>3

\* The point at which each operation begins.
LEMMA BeginMoves ==
    ASSUME Shape, NEW r \in Requests
    PROVE  /\ \A u \in Users, t \in Tasks : SubmitFind(r, u, t) =>
                OnlyJob(r) /\ job[r].op = "idle" /\ job'[r].op = "submit"
           /\ \A c \in Completions : ApproveFind(r, c) =>
                /\ OnlyJob(r) /\ job[r].op = "idle" /\ job'[r].op = "approve"
                /\ job'[r].id = c /\ job'[r].user = completion[c].user
                /\ job'[r].task = completion[c].task
           /\ \A c \in Completions : Reject(r, c) =>
                OnlyJob(r) /\ job[r].op = "idle" /\ job'[r].op = "rejectAudit"
           /\ \A u \in Users : GateStart(r, u) =>
                OnlyJob(r) /\ job[r].op = "idle" /\ job'[r].op = "gate"
<1>1. job \in [Requests -> Job]
  BY InHand
<1>2. ASSUME NEW u \in Users, NEW t \in Tasks, SubmitFind(r, u, t)
      PROVE  OnlyJob(r) /\ job[r].op = "idle" /\ job'[r].op = "submit"
  BY <1>1, <1>2 DEF SubmitFind, Begin, Idle, OnlyJob, Is
<1>3. ASSUME NEW c \in Completions, ApproveFind(r, c)
      PROVE  /\ OnlyJob(r) /\ job[r].op = "idle" /\ job'[r].op = "approve"
             /\ job'[r].id = c /\ job'[r].user = completion[c].user
             /\ job'[r].task = completion[c].task
  BY <1>1, <1>3 DEF ApproveFind, Begin, Idle, OnlyJob, Is
<1>4. ASSUME NEW c \in Completions, Reject(r, c)
      PROVE  OnlyJob(r) /\ job[r].op = "idle" /\ job'[r].op = "rejectAudit"
  BY <1>1, <1>4 DEF Reject, Begin, Idle, OnlyJob, Is
<1>5. ASSUME NEW u \in Users, GateStart(r, u)
      PROVE  OnlyJob(r) /\ job[r].op = "idle" /\ job'[r].op = "gate"
  BY <1>1, <1>5 DEF GateStart, Begin, Idle, OnlyJob, Is
<1> QED BY <1>2, <1>3, <1>4, <1>5

\* An operation begins far from what is counted.
LEMMA BeginTally ==
    ASSUME Shape, Tally, NEW r \in Requests, Arrive(r)
    PROVE  Tally'
<1>1. UNCHANGED <<counted, submissions, paid, approvals, audit>>
  BY DEF Arrive, SubmitFind, ApproveFind, Reject, GateStart,
         reviewVars, submitVars, rewardVars
<1>2. OnlyJob(r) /\ job'[r].op \in {"submit", "approve", "rejectAudit", "gate"}
  BY BeginMoves DEF Arrive
<1> QED BY <1>1, <1>2, SubmitTallyQuiet, PayTallyQuiet DEF Tally, ToPay, ToLog

\* Redis counts before the submission is stored, and refuses by what it counted.
LEMMA SubmitStepTally ==
    ASSUME Shape, Tally, NEW r \in Requests, Submit(r)
    PROVE  Tally'
<1>1. /\ counted \in [Users -> Nat] /\ submissions \in [Users -> Nat]
      /\ JobFits(r)
  BY ShapeHas, InHand DEF CountersOK
<1>2. job[r].op \in Submitting /\ job[r].user \in Users
  BY <1>1 DEF Submit, SubmitCount, SubmitCreate, SubmitAgain, Is, JobFits, Submitting
<1>3. /\ UNCHANGED <<paid, approvals, audit>> /\ OnlyJob(r)
      /\ job'[r].op \in {"idle", "submitCounted", "submitUncounted"}
      /\ job'[r].op = "idle" \/ job'[r].user = job[r].user
  <2>1. UNCHANGED <<paid, approvals, audit>>
    BY DEF Submit, SubmitCount, SubmitCreate, SubmitAgain, StoredBy, reviewVars, rewardVars
  <2>2. Finish(r) \/ Goto(r, "submitCounted") \/ Goto(r, "submitUncounted")
    BY DEF Submit, SubmitCount, SubmitCreate, SubmitAgain, StoredBy
  <2>3. {"submitCounted", "submitUncounted"} \subseteq Ops
    BY DEF Ops
  <2> QED BY <2>1, <2>2, <2>3, JobMoves
<1>4. PayTally'
  BY <1>3, PayTallyQuiet DEF ToPay, ToLog
<1>5. SubmitTally'
  <2> SUFFICES ASSUME NEW u \in Users
               PROVE  /\ counted'[u] + Cardinality(Accepted(u)') <= submissions'[u]
                      /\ counted'[u] + Cardinality(Accepted(u)') <= DailySubmissionLimit
    BY DEF SubmitTally
  <2>1. CountMoves(r, Accepted(u), Accepted(u)')
    BY <1>3, TallyMoves
  <2>2. /\ counted[u] + Cardinality(Accepted(u)) <= submissions[u]
        /\ counted[u] + Cardinality(Accepted(u)) <= DailySubmissionLimit
    BY DEF Tally, SubmitTally, PayTally
  <2>3. CASE SubmitCount(r)
    <3>1. r \notin Accepted(u) /\ UNCHANGED counted
      BY <2>3 DEF SubmitCount, Accepted, Is
    <3>2. CASE r \notin Accepted(u)'
      <4>1. submissions[u] <= submissions'[u]
        BY <1>1, <1>2, <2>3 DEF SubmitCount
      <4>2. submissions'[u] \in Nat
        BY <1>1, <1>2, <2>3 DEF SubmitCount
      <4> QED BY <1>1, <2>1, <2>2, <3>1, <3>2, <4>1, <4>2, ReviewAssumption DEF CountMoves
    <3>3. CASE r \in Accepted(u)'
      <4>1. u = job[r].user /\ job'[r].op = "submitCounted"
        BY <1>3, <3>3 DEF Accepted, Is
      <4>2. ~ Goto(r, "submitUncounted") /\ ~ Finish(r)
        BY <4>1, JobMoves DEF Ops
      <4>3. /\ submissions[u] + 1 <= DailySubmissionLimit
            /\ submissions'[u] = submissions[u] + 1
        BY <1>1, <1>2, <2>3, <4>1, <4>2, ReviewAssumption DEF SubmitCount
      <4> QED BY <1>1, <2>1, <2>2, <3>1, <3>3, <4>3, ReviewAssumption DEF CountMoves
    <3> QED BY <3>2, <3>3
  <2>4. CASE (\E c \in Completions : SubmitCreate(r, c)) \/ SubmitAgain(r)
    <3>1. StoredBy(r)
      BY <2>4 DEF SubmitCreate, SubmitAgain
    <3>2. UNCHANGED submissions /\ r \notin Accepted(u)'
      <4>1. job'[r].op = "idle"
        BY <3>1, JobMoves DEF StoredBy
      <4> QED BY <3>1, <4>1 DEF StoredBy, Accepted, Is
    <3>3. CASE r \in Accepted(u)
      <4>1. counted'[u] = counted[u] + 1
        BY <1>1, <3>1, <3>3 DEF StoredBy, Accepted
      <4> QED BY <1>1, <2>1, <2>2, <3>2, <3>3, <4>1, ReviewAssumption DEF CountMoves
    <3>4. CASE r \notin Accepted(u)
      <4>1. counted'[u] = counted[u]
        BY <1>1, <3>1, <3>4 DEF StoredBy, Accepted
      <4> QED BY <1>1, <2>1, <2>2, <3>2, <3>4, <4>1, ReviewAssumption DEF CountMoves
    <3> QED BY <3>3, <3>4
  <2> QED BY <2>3, <2>4 DEF Submit
<1> QED BY <1>4, <1>5 DEF Tally

\* An approval is saved before its request may pay, and pays before it may log.
LEMMA ApproveTally ==
    ASSUME Shape, Tally, NEW r \in Requests, Approve(r)
    PROVE  Tally'
<1>1. /\ paid \in [Completions -> Nat] /\ approvals \in [Completions -> Nat]
      /\ audit \in [Completions -> Nat] /\ JobFits(r)
  BY ShapeHas, InHand DEF CountersOK
<1> DEFINE next == {"approveFind", "approvePay", "approveLog", "approveAudit"}
<1>2. /\ Finish(r) \/ \E op \in next : Goto(r, op)
      /\ UNCHANGED <<counted, submissions>>
  BY DEF Approve, ApproveSave, ApproveFindUser, ApprovePay, ApproveLog, ApproveAudit,
         submitVars
<1>3. /\ OnlyJob(r) /\ job'[r].op \in next \cup {"idle"}
      /\ job'[r].op = "idle" \/ job'[r].id = job[r].id
  <2>1. next \subseteq Ops
    BY DEF Ops
  <2> QED BY <1>2, <2>1, JobMoves
<1>4. SubmitTally'
  BY <1>2, <1>3, SubmitTallyQuiet
<1>5. job[r].id \in Completions
  BY <1>1 DEF Approve, ApproveSave, ApproveFindUser, ApprovePay, ApproveLog,
              ApproveAudit, Is, JobFits, Approving, ToPay, ToLog
<1>6. PayTally'
  <2> SUFFICES ASSUME NEW c \in Completions
               PROVE  /\ paid'[c] + Cardinality(Payers(c)') <= approvals'[c]
                      /\ audit'[c] + Cardinality(Loggers(c)') <= paid'[c]
    BY DEF PayTally
  <2>1. CountMoves(r, Payers(c), Payers(c)') /\ CountMoves(r, Loggers(c), Loggers(c)')
    BY <1>3, TallyMoves
  <2>2. /\ paid[c] + Cardinality(Payers(c)) <= approvals[c]
        /\ audit[c] + Cardinality(Loggers(c)) <= paid[c]
    BY DEF Tally, SubmitTally, PayTally
  <2> USE DEF Payers, Loggers, ToPay, ToLog
  <2>3. CASE job[r].id # c
    <3>1. r \notin Payers(c) /\ r \notin Loggers(c)
      BY <2>3
    <3>2. r \notin Payers(c)' /\ r \notin Loggers(c)'
      BY <1>3, <2>3
    <3>3. paid'[c] = paid[c] /\ audit'[c] = audit[c] /\ approvals'[c] = approvals[c]
      BY <1>1, <1>5, <2>3 DEF Approve, ApproveSave, ApproveFindUser, ApprovePay, ApproveLog,
                   ApproveAudit, reviewVars, rewardVars
    <3> HIDE DEF Payers, Loggers, ToPay, ToLog
    <3> QED BY <2>1, <2>2, <3>1, <3>2, <3>3 DEF CountMoves
  <2>4. CASE job[r].id = c
    <3>0. \A op \in next : Goto(r, op) => job'[r].op = op /\ job'[r].id = c
      <4>1. next \subseteq Ops
        BY DEF Ops
      <4> QED BY <2>4, <4>1, JobMoves
    <3>1. CASE ApproveSave(r)
      <4>1. /\ r \notin Payers(c) /\ r \in Payers(c)'
            /\ r \notin Loggers(c) /\ r \notin Loggers(c)'
        BY <3>0, <3>1 DEF ApproveSave, Is
      <4>2. UNCHANGED <<paid, audit>> /\ approvals'[c] = approvals[c] + 1
        BY <1>1, <2>4, <3>1 DEF ApproveSave, rewardVars
      <4> HIDE DEF Payers, Loggers, ToPay, ToLog
      <4> QED BY <1>1, <2>1, <2>2, <4>1, <4>2 DEF CountMoves
    <3>2. CASE ApproveFindUser(r)
      <4>1. /\ r \in Payers(c) /\ r \in Payers(c)'
            /\ r \notin Loggers(c) /\ r \notin Loggers(c)'
        BY <2>4, <3>0, <3>2 DEF ApproveFindUser, Is
      <4>2. UNCHANGED <<paid, audit, approvals>>
        BY <3>2 DEF ApproveFindUser, rewardVars, reviewVars
      <4> HIDE DEF Payers, Loggers, ToPay, ToLog
      <4> QED BY <1>1, <2>1, <2>2, <4>1, <4>2 DEF CountMoves
    <3>3. CASE ApprovePay(r)
      <4>1. /\ r \in Payers(c) /\ r \notin Payers(c)'
            /\ r \notin Loggers(c) /\ r \in Loggers(c)'
        BY <2>4, <3>0, <3>3 DEF ApprovePay, Is
      <4>2. UNCHANGED <<approvals, audit>> /\ paid'[c] = paid[c] + 1
        BY <1>1, <2>4, <3>3 DEF ApprovePay, reviewVars
      <4> HIDE DEF Payers, Loggers, ToPay, ToLog
      <4> QED BY <1>1, <2>1, <2>2, <4>1, <4>2 DEF CountMoves
    <3>4. CASE ApproveLog(r)
      <4>1. /\ r \notin Payers(c) /\ r \notin Payers(c)'
            /\ r \in Loggers(c) /\ r \in Loggers(c)'
        BY <2>4, <3>0, <3>4 DEF ApproveLog, Is
      <4>2. UNCHANGED <<paid, audit, approvals>>
        BY <3>4 DEF ApproveLog, reviewVars
      <4> HIDE DEF Payers, Loggers, ToPay, ToLog
      <4> QED BY <1>1, <2>1, <2>2, <4>1, <4>2 DEF CountMoves
    <3>5. CASE ApproveAudit(r)
      <4>0. job'[r].op = "idle"
        BY <3>5, JobMoves DEF ApproveAudit
      <4>1. /\ r \notin Payers(c) /\ r \notin Payers(c)'
            /\ r \in Loggers(c) /\ r \notin Loggers(c)'
        BY <2>4, <3>5, <4>0 DEF ApproveAudit, Is
      <4>2. UNCHANGED <<approvals, paid>> /\ audit'[c] = audit[c] + 1
        BY <1>1, <2>4, <3>5 DEF ApproveAudit, reviewVars
      <4> HIDE DEF Payers, Loggers, ToPay, ToLog
      <4> QED BY <1>1, <2>1, <2>2, <4>1, <4>2 DEF CountMoves
    <3> QED BY <3>1, <3>2, <3>3, <3>4, <3>5 DEF Approve
  <2> QED BY <2>3, <2>4
<1> QED BY <1>4, <1>6 DEF Tally

\* Every step keeps the tally.
LEMMA TallyStep == Shape /\ Tally /\ [Next]_vars => Tally'
<1> SUFFICES ASSUME Shape, Tally, [Next]_vars PROVE Tally'
  OBVIOUS
<1>1. ASSUME NEW r \in Requests, Gate(r) \/ RejectAudit(r) \/ Drop(r)
      PROVE  Tally'
  <2>1. UNCHANGED <<counted, submissions, paid, approvals, audit>>
    BY <1>1 DEF Gate, GateActive, GateCompleted, GateReply, RejectAudit, Drop,
                reviewVars, submitVars, rewardVars
  <2>2. job \in [Requests -> Job] /\ job[r] \in Job
    BY InHand
  <2>3. OnlyJob(r) /\ job'[r].op \in {"idle", "gate"}
    <3>1. CASE GateActive(r)
      BY <2>2, <3>1 DEF GateActive, Is, OnlyJob, Job
    <3>2. CASE GateCompleted(r)
      BY <2>2, <3>2 DEF GateCompleted, Is, OnlyJob, Job
    <3>3. CASE GateReply(r) \/ RejectAudit(r) \/ Drop(r)
      BY <3>3, JobMoves DEF GateReply, RejectAudit, Drop
    <3> QED BY <1>1, <3>1, <3>2, <3>3 DEF Gate
  <2> QED BY <2>1, <2>3, SubmitTallyQuiet, PayTallyQuiet DEF Tally, ToPay, ToLog
<1>2. ASSUME UNCHANGED job, UNCHANGED <<counted, submissions, paid, approvals, audit>>
      PROVE  Tally'
  BY <1>2 DEF Tally, SubmitTally, PayTally, Accepted, Payers, Loggers, Is
<1>3. ASSUME NEW t \in Tasks, SetActive(t) PROVE Tally'
  BY <1>2, <1>3 DEF SetActive, reviewVars, submitVars, rewardVars
<1>4. CASE Next
  BY <1>1, <1>3, <1>4, BeginTally, SubmitStepTally, ApproveTally DEF Next
<1>5. CASE UNCHANGED vars
  BY <1>2, <1>5 DEF vars
<1> QED BY <1>4, <1>5

\* Submissions Redis counted, and payments, are accounted for before they are
\* made: the inductive invariant behind the two theorems that follow.
THEOREM TallyInvariant == Spec => []Tally
<1>1. Init => Shape /\ Tally
  BY ShapeInit, TallyInit
<1>2. Shape /\ Tally /\ [Next]_vars => Shape' /\ Tally'
  BY ShapeStep, TallyStep
<1> QED BY <1>1, <1>2, PTL DEF Spec

\* The limit on submitting a task again and the limit on a day's submissions
\* hold together, although submitTask acts on what it read before.
THEOREM LimitsHold == Spec => []WithinLimits
<1>1. Shape /\ Tally => WithinLimits
  <2> SUFFICES ASSUME Shape, Tally, NEW u \in Users
               PROVE  counted[u] <= DailySubmissionLimit
    BY DEF WithinLimits, DailyLimit, Shape
  <2>1. IsFiniteSet(Accepted(u))
    BY ReviewAssumption, FS_Subset DEF Accepted
  <2>2. Cardinality(Accepted(u)) \in Nat /\ counted[u] \in Nat
    BY <2>1, FS_CardinalityType, ShapeHas DEF CountersOK
  <2> QED BY <2>2, ReviewAssumption DEF Tally, SubmitTally, PayTally
<1> QED BY <1>1, ShapeInvariant, TallyInvariant, PTL

\* Every payment and every approval in the activity log goes back to an
\* approval of its own that was saved before.
THEOREM PaymentsApproved == Spec => []PaidIsApproved
<1>1. Shape /\ Tally => PaidIsApproved
  <2> SUFFICES ASSUME Shape, Tally, NEW c \in Completions
               PROVE  /\ audit[c] <= paid[c]
                      /\ paid[c] + Cardinality(Payers(c)) <= approvals[c]
    BY DEF PaidIsApproved, Payers, ToPay
  <2>1. IsFiniteSet(Loggers(c))
    BY ReviewAssumption, FS_Subset DEF Loggers
  <2>2. Cardinality(Loggers(c)) \in Nat /\ audit[c] \in Nat /\ paid[c] \in Nat
    BY <2>1, FS_CardinalityType, ShapeHas DEF CountersOK
  <2> QED BY <2>2 DEF Tally, PayTally
<1> QED BY <1>1, ShapeInvariant, TallyInvariant, PTL

-----------------------------------------------------------------------------
\* What a step does to the user documents is a step of UserDocument, or none.
LEMMA StepDoc ==
    ASSUME Shape, NEW r \in Requests,
           Arrive(r) \/ Submit(r) \/ Approve(r) \/ RejectAudit(r) \/ Gate(r) \/ Drop(r)
    PROVE  UNCHANGED docVars \/ DocStep(r)
<1>1. CASE ApproveFindUser(r)
  <2>1. job[r].user \in Users
    BY <1>1, InHand DEF ApproveFindUser, Is, JobFits, Approving, ToPay
  <2> QED BY <1>1, <2>1 DEF ApproveFindUser, DocStep
<1>2. CASE ApprovePay(r)
  <2>1. Rewarded(r) \in WalletBalance /\ copy[r].user \in Users
    BY <1>2, PayInHand DEF ApprovePay, Is
  <2> QED BY <1>2, <2>1 DEF ApprovePay, DocStep
<1>3. CASE ApproveLog(r) \/ Drop(r)
  BY <1>3 DEF ApproveLog, Drop, DocStep
<1>4. CASE Arrive(r) \/ Submit(r) \/ ApproveSave(r) \/ ApproveAudit(r)
           \/ RejectAudit(r) \/ Gate(r)
  BY <1>4 DEF Arrive, SubmitFind, ApproveFind, Reject, GateStart,
              Submit, SubmitCount, SubmitCreate, SubmitAgain, StoredBy,
              ApproveSave, ApproveAudit, RejectAudit,
              Gate, GateActive, GateCompleted, GateReply
<1> QED BY <1>1, <1>2, <1>3, <1>4 DEF Approve

\* With Shape, Fresh is inductive.
LEMMA FreshStep == Shape /\ Fresh /\ [Next]_vars => Fresh'
<1> SUFFICES ASSUME Shape, Fresh, [Next]_vars PROVE Fresh'
  OBVIOUS
<1>1. DocTypeOK
  BY DEF Shape, TypeOK
<1>2. ASSUME UNCHANGED docVars PROVE Fresh'
  BY <1>2 DEF docVars, Fresh
<1>3. CASE Next
  BY <1>1, <1>2, <1>3, StepDoc, FreshDocStep DEF Next, SetActive
<1>4. CASE UNCHANGED vars
  BY <1>2, <1>4 DEF vars, docVars
<1> QED BY <1>3, <1>4

\* No copy, nothing to be fresh.
LEMMA FreshInit == Init => Fresh
BY NoUserAssumption DEF Init, Fresh, NoCopy

\* A path of a copy that no save has overtaken is what is stored, in every
\* state: what makes the payment of a reward exact.
THEOREM CopiesFresh == Spec => []Fresh
BY FreshInit, FreshStep, ShapeInvariant, PTL DEF Spec

-----------------------------------------------------------------------------
\* A reward saved over no path that others have written in the meantime is
\* added to the pending balance and to the earnings, once each.
LEMMA ExactReward ==
    ASSUME Shape, Fresh, NEW r \in Requests, job[r].op = "approvePay",
           copy[r].stale \cap ModifiedPaths(r, Rewarded(r)) = {},
           account' = [account EXCEPT ![copy[r].user] = Stored(r, Rewarded(r))]
    PROVE  LET u == job[r].user
               n == Reward[job[r].task]
           IN  /\ account'[u].pending = account[u].pending + n
               /\ account'[u].totalEarned = account[u].totalEarned + n
<1> DEFINE u == job[r].user
           n == Reward[job[r].task]
           mem == Rewarded(r)
<1>1. /\ u \in Users /\ copy[r].user = u /\ n \in Nat
      /\ copy[r].doc \in WalletBalance /\ mem \in WalletBalance
      /\ mem.pending = copy[r].doc.pending + n
      /\ mem.totalEarned = copy[r].doc.totalEarned + n
  BY PayInHand
<1>2. DocTypeOK /\ account[u] \in WalletBalance
  BY <1>1 DEF Shape, TypeOK, DocTypeOK
<1>3. account'[u] = Stored(r, mem)
  BY <1>1, <1>2 DEF DocTypeOK
<1>4. FreshCopy(r)
  BY FreshCopies
<1> HIDE DEF u, n, mem
<1>5. /\ copy[r].doc.pending \in Int /\ account[u].pending \in Int
      /\ copy[r].doc.totalEarned \in Int /\ account[u].totalEarned \in Int
  BY <1>1, <1>2 DEF WalletBalance
<1>6. CASE n = 0
  <2>1. "pending" \notin ModifiedPaths(r, mem) /\ "totalEarned" \notin ModifiedPaths(r, mem)
    BY <1>1, <1>5, <1>6 DEF ModifiedPaths
  <2> QED BY <1>1, <1>2, <1>3, <1>5, <1>6, <2>1, StoredPaths DEF u, n
<1>7. CASE n # 0
  <2>1. "pending" \in ModifiedPaths(r, mem) /\ "totalEarned" \in ModifiedPaths(r, mem)
    BY <1>1, <1>5, <1>7 DEF ModifiedPaths
  <2>2. /\ copy[r].doc.pending = account[u].pending
        /\ copy[r].doc.totalEarned = account[u].totalEarned
    BY <1>1, <1>4, <2>1 DEF FreshCopy, mem
  <2> QED BY <1>1, <1>2, <1>3, <2>1, <2>2, StoredPaths DEF u, n
<1> QED BY <1>6, <1>7

\* The rows and the rewards without a row are the balance, step by step.
LEMMA RowsStep == Shape /\ Fresh /\ RowsReconcile /\ [Next]_vars => RowsReconcile'
<1> SUFFICES ASSUME Shape, Fresh, RowsReconcile, [Next]_vars PROVE RowsReconcile'
  OBVIOUS
<1>1. /\ CountersOK /\ DocTypeOK
      /\ \A u \in Users : /\ account[u].pending \in Int /\ account[u].totalEarned \in Int
                          /\ logged[u] \in Int /\ unlogged[u] \in Int
  BY ShapeHas DEF Shape, TypeOK, DocTypeOK, WalletBalance, CountersOK
<1>2. ASSUME UNCHANGED <<account, clobbered, logged, unlogged>>
      PROVE  RowsReconcile'
  BY <1>2 DEF RowsReconcile
<1>3. ASSUME NEW r \in Requests, ApprovePay(r)
      PROVE  RowsReconcile'
  <2> DEFINE u == job[r].user
             n == Reward[job[r].task]
  <2>1. /\ job[r].op = "approvePay" /\ u \in Users /\ copy[r].user = u /\ n \in Nat
        /\ Rewarded(r) \in WalletBalance
    BY <1>3, PayInHand DEF ApprovePay, Is
  <2>2. /\ account' = [account EXCEPT ![copy[r].user] = Stored(r, Rewarded(r))]
        /\ clobbered \subseteq clobbered' /\ UNCHANGED logged
        /\ u \notin clobbered' => copy[r].stale \cap ModifiedPaths(r, Rewarded(r)) = {}
        /\ unlogged' = [unlogged EXCEPT ![u] = @ + n]
    BY <1>3, <2>1 DEF ApprovePay, Save
  <2>3. u \notin clobbered' => /\ account'[u].pending = account[u].pending + n
                               /\ account'[u].totalEarned = account[u].totalEarned + n
    BY <2>1, <2>2, ExactReward
  <2> HIDE DEF u, n
  <2>4. /\ \A v \in Users \ {u} : account'[v] = account[v] /\ unlogged'[v] = unlogged[v]
        /\ unlogged'[u] = unlogged[u] + n
    BY <1>1, <2>1, <2>2 DEF DocTypeOK, CountersOK
  <2> QED BY <1>1, <2>1, <2>2, <2>3, <2>4 DEF RowsReconcile
<1>4. ASSUME NEW r \in Requests, ApproveLog(r)
      PROVE  RowsReconcile'
  <2> DEFINE u == job[r].user
             n == Reward[job[r].task]
  <2>1. u \in Users /\ n \in Nat
    BY <1>4, PayInHand DEF ApproveLog, Is
  <2>2. /\ UNCHANGED <<account, clobbered>>
        /\ unlogged' = [unlogged EXCEPT ![u] = @ - n]
        /\ logged' = [logged EXCEPT ![u] = @ + n]
    BY <1>4 DEF ApproveLog, Release
  <2> HIDE DEF u, n
  <2>3. /\ \A v \in Users \ {u} : logged'[v] = logged[v] /\ unlogged'[v] = unlogged[v]
        /\ unlogged'[u] = unlogged[u] - n /\ logged'[u] = logged[u] + n
    BY <1>1, <2>1, <2>2 DEF CountersOK
  <2> QED BY <1>1, <2>1, <2>2, <2>3 DEF RowsReconcile
<1>5. ASSUME NEW r \in Requests,
             Arrive(r) \/ Submit(r) \/ ApproveSave(r) \/ ApproveFindUser(r)
               \/ ApproveAudit(r) \/ RejectAudit(r) \/ Gate(r) \/ Drop(r)
      PROVE  RowsReconcile'
  <2>1. UNCHANGED <<account, clobbered, logged, unlogged>>
    BY <1>5 DEF Arrive, SubmitFind, ApproveFind, Reject, GateStart,
                Submit, SubmitCount, SubmitCreate, SubmitAgain, StoredBy,
                ApproveSave, ApproveFindUser, ApproveAudit, RejectAudit, Drop,
                Find, Release, Gate, GateActive, GateCompleted, GateReply,
                docVars, rewardVars
  <2> QED BY <1>2, <2>1
<1>6. CASE Next
  BY <1>2, <1>3, <1>4, <1>5, <1>6 DEF Next, Approve, SetActive, docVars, rewardVars
<1>7. CASE UNCHANGED vars
  BY <1>2, <1>7 DEF vars
<1> QED BY <1>6, <1>7

\* For every user whose document no approval overwrote from a stale copy, the
\* pending balance and the earnings are what the rows and the rewards without
\* a row (yet) add up to, for any rewards and however approvals overlap.
THEOREM RowsReconciled == Spec => []RowsReconcile
<1>1. Init => RowsReconcile
  <2> SUFFICES ASSUME Init, NEW u \in Users
               PROVE  /\ account[u].pending = logged[u] + unlogged[u]
                      /\ account[u].totalEarned = logged[u] + unlogged[u]
    BY DEF RowsReconcile
  <2>1. /\ account[u].pending = 0 /\ account[u].totalEarned = 0
        /\ logged[u] = 0 /\ unlogged[u] = 0
    BY DEF Init, ZeroBalance
  <2> QED BY <2>1
<1> QED BY <1>1, RowsStep, ShapeInvariant, CopiesFresh, PTL DEF Spec

-----------------------------------------------------------------------------
\* The rewards paid, one submission at a time, and the rows to come, one request
\* at a time: what Earned and RowsToCome add up.
PaidFor(u) ==
    [c \in Completions |->
        IF completion[c].user = u THEN paid[c] * Reward[completion[c].task] ELSE 0]

ToWrite(u) ==
    [r \in Requests |->
        IF Is(r, "approveLog") /\ job[r].user = u THEN Reward[job[r].task] ELSE 0]

\* An approval works for the owner and the task of its submission.
Owned(r) ==
    job[r].op \in Approving =>
      /\ completion[job[r].id].user = job[r].user
      /\ completion[job[r].id].task = job[r].task

\* The rows, and the rewards without one, are what was paid.
Ledger ==
    \A u \in Users : /\ logged[u] + unlogged[u] = Earned(u)
                     /\ RowsToCome(u) <= unlogged[u]

\* The inductive invariant behind RewardsReconcile: nothing is paid for a
\* submission that is not stored, so nothing moves when its owner is written.
Money ==
    /\ \A r \in Requests : Owned(r)
    /\ \A c \in Completions : completion[c].status = "none" => paid[c] = 0
    /\ Ledger

\* What is stored keeps its owner and its task.
KeepsOwner ==
    \A c \in Completions : completion[c].status # "none" =>
        /\ completion'[c].status # "none"
        /\ completion'[c].user = completion[c].user
        /\ completion'[c].task = completion[c].task

\* Earned and RowsToCome are those sums, in this state and in the next.
LEMMA Sums ==
    /\ \A u : Earned(u) = SumFunctionOnSet(PaidFor(u), Completions)
    /\ \A u : RowsToCome(u) = SumFunctionOnSet(ToWrite(u), Requests)
    /\ \A u : Earned(u)' = SumFunctionOnSet(PaidFor(u)', Completions)
    /\ \A u : RowsToCome(u)' = SumFunctionOnSet(ToWrite(u)', Requests)
BY DEF Earned, RowsToCome, PaidFor, ToWrite

\* The arithmetic of a reward paid so many times.
LEMMA Times ==
    ASSUME NEW n \in Nat, NEW k \in Nat
    PROVE  n * k \in Nat /\ (n + 1) * k = n * k + k /\ 0 * k = 0
OBVIOUS

\* Every reward is an amount.
LEMMA Amounts ==
    ASSUME Shape, NEW u \in Users
    PROVE  /\ \A c \in Completions :
                /\ paid[c] \in Nat /\ PaidFor(u)[c] \in Nat
                /\ completion[c].user = u => Reward[completion[c].task] \in Nat
           /\ \A r \in Requests : ToWrite(u)[r] \in Nat
<1>1. ASSUME NEW c \in Completions
      PROVE  /\ paid[c] \in Nat /\ PaidFor(u)[c] \in Nat
             /\ completion[c].user = u => Reward[completion[c].task] \in Nat
  <2>1. paid[c] \in Nat
    BY ShapeHas DEF CountersOK
  <2>2. completion[c].user = u => Reward[completion[c].task] \in Nat
    BY NoUserAssumption, ReviewAssumption DEF Shape, DocumentFits
  <2>3. completion[c].user = u => paid[c] * Reward[completion[c].task] \in Nat
    BY <2>1, <2>2, Times
  <2> QED BY <2>1, <2>2, <2>3 DEF PaidFor
<1>2. ASSUME NEW r \in Requests PROVE ToWrite(u)[r] \in Nat
  <2>1. job[r].op = "approveLog" => Reward[job[r].task] \in Nat
    BY PayInHand
  <2> QED BY <2>1 DEF ToWrite, Is
<1> QED BY <1>1, <1>2

\* Every sum of them is a number.
LEMMA SumsAreNumbers ==
    ASSUME Shape, NEW u \in Users
    PROVE  /\ Earned(u) \in Int /\ RowsToCome(u) \in Int
           /\ logged[u] \in Int /\ unlogged[u] \in Int
<1>1. /\ SumFunctionOnSet(PaidFor(u), Completions) \in Int
      /\ SumFunctionOnSet(ToWrite(u), Requests) \in Int
  BY Amounts, SumType, ReviewAssumption
<1> QED BY <1>1, Sums, ShapeHas DEF CountersOK

\* Whatever a request does, what is stored keeps its owner.
LEMMA OwnersKept ==
    ASSUME Shape, NEW r \in Requests,
           Arrive(r) \/ Submit(r) \/ Approve(r) \/ RejectAudit(r) \/ Gate(r) \/ Drop(r)
    PROVE  KeepsOwner
<1>1. completion \in [Completions -> Completion]
  BY ShapeHas DEF SubmissionsOK
<1>2. ASSUME NEW c \in Completions, NEW s, s # "none",
             completion' = [completion EXCEPT ![c].status = s]
      PROVE  KeepsOwner
  BY <1>1, <1>2 DEF KeepsOwner, Completion
<1>3. ASSUME UNCHANGED completion PROVE KeepsOwner
  BY <1>3 DEF KeepsOwner
<1>4. ASSUME NEW c \in Completions, SubmitCreate(r, c) PROVE KeepsOwner
  BY <1>1, <1>4 DEF KeepsOwner, SubmitCreate
<1>5. CASE SubmitAgain(r)
  <2>1. job[r].id \in Completions
    BY <1>5, InHand DEF SubmitAgain, Job
  <2>2. completion' = [completion EXCEPT
              ![job[r].id].status = "pending",
              ![job[r].id].resubmissionCount = job[r].read.resubmissionCount + 1]
    BY <1>5 DEF SubmitAgain
  <2> QED BY <1>1, <2>1, <2>2 DEF KeepsOwner, Completion
<1>6. CASE ApproveSave(r)
  <2>1. job[r].id \in Completions
    BY <1>6, InHand DEF ApproveSave, Is, JobFits, Approving
  <2> QED BY <1>2, <1>6, <2>1 DEF ApproveSave
<1>7. ASSUME NEW c \in Completions, Reject(r, c) PROVE KeepsOwner
  BY <1>2, <1>7 DEF Reject
<1>8. CASE (\E u \in Users, t \in Tasks : SubmitFind(r, u, t))
           \/ (\E c \in Completions : ApproveFind(r, c))
           \/ (\E u \in Users : GateStart(r, u))
           \/ SubmitCount(r) \/ ApproveFindUser(r) \/ ApprovePay(r) \/ ApproveLog(r)
           \/ ApproveAudit(r) \/ RejectAudit(r) \/ Gate(r) \/ Drop(r)
  BY <1>3, <1>8
  DEF SubmitFind, ApproveFind, GateStart, SubmitCount, ApproveFindUser, ApprovePay,
      ApproveLog, ApproveAudit, RejectAudit, Drop, Gate, GateActive, GateCompleted,
      GateReply, reviewVars
<1> QED BY <1>4, <1>5, <1>6, <1>7, <1>8 DEF Arrive, Submit, Approve

\* What a step does to its request's job, as far as approvals go: the request
\* begins one, goes on with it, or is in none.
LEMMA ApprovalMoves ==
    ASSUME Shape, NEW r \in Requests,
           Arrive(r) \/ Submit(r) \/ Approve(r) \/ RejectAudit(r) \/ Gate(r) \/ Drop(r)
    PROVE  /\ OnlyJob(r)
           /\ \/ job'[r].op \notin Approving
              \/ \E c \in Completions :
                   /\ ApproveFind(r, c)
                   /\ job'[r].op = "approve" /\ job'[r].id = c
                   /\ job'[r].user = completion[c].user
                   /\ job'[r].task = completion[c].task
              \/ /\ Approve(r) /\ job[r].op \in Approving
                 /\ job'[r].id = job[r].id /\ job'[r].user = job[r].user
                 /\ job'[r].task = job[r].task
           /\ job'[r].op = "approveLog" => ApprovePay(r)
           /\ ApprovePay(r) => job'[r].op = "approveLog"
<1> USE DEF Approving, ToPay, ToLog
<1>1. job \in [Requests -> Job] /\ job[r] \in Job
  BY InHand
<1>2. ASSUME NEW op \in Ops, Goto(r, op)
      PROVE  /\ OnlyJob(r) /\ job'[r].op = op
             /\ job'[r].id = job[r].id /\ job'[r].user = job[r].user
             /\ job'[r].task = job[r].task
  <2>1. PICK j \in Job : GoesOn(r, op, j)
    BY <1>2, GotoJob DEF Goto
  <2> QED BY <1>1, <2>1 DEF GoesOn, OnlyJob
<1>3. ASSUME NEW c \in Completions, ApproveFind(r, c)
      PROVE  /\ OnlyJob(r) /\ ~ ApprovePay(r)
             /\ job'[r].op = "approve" /\ job'[r].id = c
             /\ job'[r].user = completion[c].user
             /\ job'[r].task = completion[c].task
  BY <1>3, BeginMoves DEF ApprovePay, Is
<1>4. CASE Approve(r)
  <2>1. job[r].op \in Approving /\ OnlyJob(r)
    BY <1>2, <1>4, JobMoves DEF Approve, ApproveSave, ApproveFindUser, ApprovePay,
                                ApproveLog, ApproveAudit, Is, Ops
  <2>2. \/ job'[r].op = "idle"
        \/ /\ job'[r].id = job[r].id /\ job'[r].user = job[r].user
           /\ job'[r].task = job[r].task
    BY <1>2, <1>4, JobMoves DEF Approve, ApproveSave, ApproveFindUser, ApprovePay,
                                ApproveLog, ApproveAudit, Ops
  <2>3. ApprovePay(r) <=> job'[r].op = "approveLog"
    BY <1>2, <1>4, JobMoves DEF Approve, ApproveSave, ApproveFindUser, ApprovePay,
                                ApproveLog, ApproveAudit, Is, Ops
  <2> QED BY <1>4, <2>1, <2>2, <2>3
<1>5. CASE (\E u \in Users, t \in Tasks : SubmitFind(r, u, t))
           \/ (\E c \in Completions : Reject(r, c))
           \/ (\E u \in Users : GateStart(r, u))
  <2>1. OnlyJob(r) /\ job'[r].op \in {"submit", "rejectAudit", "gate"} /\ job[r].op = "idle"
    BY <1>5, BeginMoves
  <2> QED BY <2>1 DEF ApprovePay, Is
<1>6. CASE Submit(r) \/ RejectAudit(r) \/ GateReply(r) \/ Drop(r)
  <2>1. OnlyJob(r) /\ job'[r].op \in {"idle", "submitCounted", "submitUncounted"}
    BY <1>2, <1>6, JobMoves DEF Submit, SubmitCount, SubmitCreate, SubmitAgain, StoredBy,
                                RejectAudit, GateReply, Drop, Ops
  <2>2. ~ ApprovePay(r)
    BY <1>2, <2>1 DEF ApprovePay, Ops
  <2> QED BY <2>1, <2>2
<1>7. CASE GateActive(r) \/ GateCompleted(r)
  <2>1. OnlyJob(r) /\ job[r].op = "gate" /\ job'[r].op = "gate"
    <3>1. CASE GateActive(r)
      BY <1>1, <3>1 DEF GateActive, Is, OnlyJob, Job
    <3>2. CASE GateCompleted(r)
      BY <1>1, <3>2 DEF GateCompleted, Is, OnlyJob, Job
    <3> QED BY <1>7, <3>1, <3>2
  <2> QED BY <2>1 DEF ApprovePay, Is
<1> QED BY <1>3, <1>4, <1>5, <1>6, <1>7 DEF Arrive, Gate

\* An approval takes owner and task from its submission, and both stay.
LEMMA OwnedStep ==
    ASSUME Shape, Money, NEW r \in Requests,
           Arrive(r) \/ Submit(r) \/ Approve(r) \/ RejectAudit(r) \/ Gate(r) \/ Drop(r)
    PROVE  \A q \in Requests : Owned(q)'
<1>1. KeepsOwner /\ OnlyJob(r)
  BY OwnersKept, ApprovalMoves
<1>2. ASSUME NEW q \in Requests, job[q].op \in Approving
      PROVE  /\ job[q].id \in Completions
             /\ completion'[job[q].id].user = job[q].user
             /\ completion'[job[q].id].task = job[q].task
  <2>1. job[q].id \in Completions /\ completion[job[q].id].status # "none"
    BY <1>2, InHand DEF JobFits
  <2> QED BY <1>1, <1>2, <2>1 DEF Money, Owned, KeepsOwner
<1>3. ASSUME NEW q \in Requests \ {r} PROVE Owned(q)'
  BY <1>1, <1>2 DEF Owned, OnlyJob
<1>4. Owned(r)'
  <2>1. ASSUME NEW c \in Completions, ApproveFind(r, c)
        PROVE  completion' = completion
    BY <2>1 DEF ApproveFind, reviewVars
  <2> QED BY <1>2, <2>1, ApprovalMoves DEF Owned
<1> QED BY <1>3, <1>4

\* A step that neither pays nor writes a row leaves the ledger as it is, or with
\* fewer rows to come.
LEMMA MoneyQuiet ==
    ASSUME Shape, Money, Shape', NEW r \in Requests, OnlyJob(r), KeepsOwner,
           UNCHANGED <<logged, unlogged, paid>>, job'[r].op # "approveLog",
           \A q \in Requests : Owned(q)'
    PROVE  Money'
<1>1. ASSUME NEW c \in Completions, completion'[c].status = "none" PROVE paid'[c] = 0
  BY <1>1 DEF Money, KeepsOwner
<1>2. ASSUME NEW u \in Users
      PROVE  /\ logged'[u] + unlogged'[u] = Earned(u)'
             /\ RowsToCome(u)' <= unlogged'[u]
  <2>1. ASSUME NEW c \in Completions
        PROVE  PaidFor(u)[c] = PaidFor(u)'[c]
    <3>1. CASE completion[c].status # "none"
      BY <3>1 DEF PaidFor, KeepsOwner
    <3>2. CASE completion[c].status = "none"
      <4>1. paid[c] = 0 /\ paid'[c] = 0 /\ completion[c].user # u
        BY <3>2, NoUserAssumption DEF Money, Shape, DocumentFits
      <4>2. completion'[c].user = u => Reward[completion'[c].task] \in Nat
        BY NoUserAssumption, ReviewAssumption DEF Shape, DocumentFits
      <4>3. completion'[c].user = u => 0 * Reward[completion'[c].task] = 0
        BY <4>2, Times
      <4> QED BY <4>1, <4>3 DEF PaidFor
    <3> QED BY <3>1, <3>2
  <2>2. SumFunctionOnSet(PaidFor(u), Completions) = SumFunctionOnSet(PaidFor(u)', Completions)
    BY <2>1, SumEqual, ReviewAssumption
  <2>3. Earned(u)' = Earned(u)
    BY <2>2, Sums
  <2>4. /\ \A q \in Requests : ToWrite(u)[q] \in Nat
        /\ \A q \in Requests \ {r} : ToWrite(u)'[q] = ToWrite(u)[q]
        /\ ToWrite(u)'[r] = 0
    <3>1. \A q \in Requests : ToWrite(u)[q] \in Nat
      BY Amounts
    <3>2. \A q \in Requests \ {r} : ToWrite(u)'[q] = ToWrite(u)[q]
      BY DEF ToWrite, OnlyJob, Is
    <3> QED BY <3>1, <3>2 DEF ToWrite, Is
  <2> DEFINE f == ToWrite(u)
             g == ToWrite(u)'
  <2>5. /\ \A q \in Requests : f[q] \in Int /\ g[q] \in Int
        /\ \A q \in Requests \ {r} : f[q] = g[q]
        /\ f[r] \in Nat /\ g[r] = 0
    BY <2>4
  <2>6. RowsToCome(u) = SumFunctionOnSet(f, Requests) /\ RowsToCome(u)' = SumFunctionOnSet(g, Requests)
    BY Sums
  <2> HIDE DEF f, g
  <2>7. /\ SumFunctionOnSet(f, Requests) \in Int /\ SumFunctionOnSet(g, Requests) \in Int
        /\ SumFunctionOnSet(g, Requests) = SumFunctionOnSet(f, Requests) + (g[r] - f[r])
    BY <2>5, SumPoint, ReviewAssumption
  <2>8. RowsToCome(u)' <= RowsToCome(u) /\ RowsToCome(u)' \in Int
    BY <2>5, <2>6, <2>7
  <2>9. logged[u] + unlogged[u] = Earned(u) /\ RowsToCome(u) <= unlogged[u]
    BY DEF Money, Ledger
  <2> QED BY <2>3, <2>8, <2>9, SumsAreNumbers
<1> QED BY <1>1, <1>2 DEF Money, Ledger

\* A payment: the reward is earned, and its row is to come.
LEMMA MoneyPay ==
    ASSUME Shape, Money, Shape', NEW r \in Requests, ApprovePay(r),
           \A q \in Requests : Owned(q)'
    PROVE  Money'
<1> DEFINE c == job[r].id
           n == Reward[job[r].task]
<1>1. /\ job[r].op = "approvePay" /\ c \in Completions /\ n \in Nat
      /\ job[r].user \in Users
      /\ completion[c].user = job[r].user /\ completion[c].task = job[r].task
      /\ completion[c].status # "none"
  BY PayInHand, InHand DEF ApprovePay, Is, Money, Owned, Approving, ToPay, JobFits
<1>2. /\ UNCHANGED <<completion, logged>>
      /\ paid' = [paid EXCEPT ![c] = @ + 1]
      /\ unlogged' = [unlogged EXCEPT ![job[r].user] = @ + n]
  BY DEF ApprovePay, reviewVars
<1>3. /\ OnlyJob(r) /\ job'[r].op = "approveLog"
      /\ job'[r].user = job[r].user /\ job'[r].task = job[r].task
  BY <1>1, ApprovalMoves, InHand DEF Approve, ApproveFind, Is, Approving, ToLog
<1>4. CountersOK
  BY ShapeHas
<1> HIDE DEF c, n
<1>5. /\ paid'[c] = paid[c] + 1 /\ \A d \in Completions \ {c} : paid'[d] = paid[d]
      /\ unlogged'[job[r].user] = unlogged[job[r].user] + n
      /\ \A v \in Users \ {job[r].user} : unlogged'[v] = unlogged[v]
  BY <1>1, <1>2, <1>4 DEF CountersOK
<1>6. ASSUME NEW d \in Completions, completion'[d].status = "none" PROVE paid'[d] = 0
  BY <1>1, <1>2, <1>5, <1>6 DEF Money
<1>7. ASSUME NEW u \in Users
      PROVE  /\ logged'[u] + unlogged'[u] = Earned(u)'
             /\ RowsToCome(u)' <= unlogged'[u]
  <2> DEFINE f == PaidFor(u)
             g == PaidFor(u)'
             k == IF u = job[r].user THEN n ELSE 0
  <2>1. /\ \A d \in Completions : f[d] \in Int /\ g[d] \in Int
        /\ \A d \in Completions \ {c} : f[d] = g[d]
        /\ g[c] = f[c] + k
    <3>1. \A d \in Completions : f[d] \in Int /\ g[d] \in Int
      <4>1. ASSUME NEW d \in Completions PROVE PaidFor(u)[d] \in Nat
        BY Amounts
      <4>2. ASSUME NEW d \in Completions PROVE PaidFor(u)'[d] \in Nat
        <5>1. paid'[d] \in Nat
          BY ShapeHas DEF Shape, TypeOK
        <5>2. completion[d].user = u => Reward[completion[d].task] \in Nat
          BY Amounts
        <5>3. completion[d].user = u => paid'[d] * Reward[completion[d].task] \in Nat
          BY <5>1, <5>2, Times
        <5> QED BY <1>2, <5>1, <5>3 DEF PaidFor
      <4> QED BY <4>1, <4>2
    <3>2. \A d \in Completions \ {c} : f[d] = g[d]
      BY <1>2, <1>5 DEF PaidFor
    <3>3. g[c] = f[c] + k
      <4>1. paid[c] \in Nat
        BY <1>1, <1>4 DEF CountersOK
      <4>2. n = Reward[completion[c].task]
        BY <1>1 DEF n
      <4>3. (paid[c] + 1) * n = paid[c] * n + n /\ paid[c] * n \in Nat
        BY <1>1, <4>1, Times
      <4>4. g[c] = IF completion[c].user = u THEN (paid[c] + 1) * n ELSE 0
        BY <1>1, <1>2, <1>5, <4>2 DEF PaidFor
      <4>5. f[c] = IF completion[c].user = u THEN paid[c] * n ELSE 0
        BY <1>1, <4>2 DEF PaidFor
      <4> HIDE DEF f, g
      <4> QED BY <1>1, <4>3, <4>4, <4>5
    <3> QED BY <3>1, <3>2, <3>3
  <2>2. Earned(u) = SumFunctionOnSet(f, Completions) /\ Earned(u)' = SumFunctionOnSet(g, Completions)
    BY Sums
  <2>3. k \in Nat
    BY <1>1
  <2>4. unlogged'[u] = unlogged[u] + k
    BY <1>1, <1>5, SumsAreNumbers
  <2> HIDE DEF f, g, k
  <2>5. /\ SumFunctionOnSet(f, Completions) \in Int /\ f[c] \in Int
        /\ SumFunctionOnSet(g, Completions) = SumFunctionOnSet(f, Completions) + (g[c] - f[c])
    BY <1>1, <2>1, SumPoint, ReviewAssumption
  <2>6. Earned(u)' = Earned(u) + k
    BY <2>1, <2>2, <2>3, <2>5
  <2> DEFINE a == ToWrite(u)
             b == ToWrite(u)'
  <2>7. /\ \A q \in Requests : a[q] \in Int /\ b[q] \in Int
        /\ \A q \in Requests \ {r} : a[q] = b[q]
        /\ a[r] = 0 /\ b[r] = k
    <3>1. \A q \in Requests : ToWrite(u)[q] \in Nat
      BY Amounts
    <3>2. \A q \in Requests \ {r} : ToWrite(u)'[q] = ToWrite(u)[q]
      BY <1>3 DEF ToWrite, OnlyJob, Is
    <3>3. ToWrite(u)[r] = 0 /\ ToWrite(u)'[r] = k
      BY <1>1, <1>3 DEF ToWrite, Is, n, k
    <3> QED BY <2>3, <3>1, <3>2, <3>3
  <2>8. RowsToCome(u) = SumFunctionOnSet(a, Requests) /\ RowsToCome(u)' = SumFunctionOnSet(b, Requests)
    BY Sums
  <2> HIDE DEF a, b
  <2>9. SumFunctionOnSet(b, Requests) = SumFunctionOnSet(a, Requests) + (b[r] - a[r])
    BY <2>7, SumPoint, ReviewAssumption
  <2>10. logged[u] + unlogged[u] = Earned(u) /\ RowsToCome(u) <= unlogged[u]
    BY DEF Money, Ledger
  <2> QED BY <1>2, <2>3, <2>4, <2>6, <2>7, <2>8, <2>9, <2>10, SumsAreNumbers
<1> QED BY <1>6, <1>7 DEF Money, Ledger

\* A row: the reward moves from those without one to the rows.
LEMMA MoneyLog ==
    ASSUME Shape, Money, Shape', NEW r \in Requests, ApproveLog(r),
           \A q \in Requests : Owned(q)'
    PROVE  Money'
<1> DEFINE n == Reward[job[r].task]
<1>1. job[r].op = "approveLog" /\ n \in Nat /\ job[r].user \in Users
  BY PayInHand DEF ApproveLog, Is
<1>2. /\ UNCHANGED <<completion, paid>>
      /\ logged' = [logged EXCEPT ![job[r].user] = @ + n]
      /\ unlogged' = [unlogged EXCEPT ![job[r].user] = @ - n]
  BY DEF ApproveLog, reviewVars
<1>3. OnlyJob(r) /\ job'[r].op = "approveAudit"
  BY JobMoves DEF ApproveLog, Ops
<1>4. CountersOK
  BY ShapeHas
<1>5. ASSUME NEW d \in Completions, completion'[d].status = "none" PROVE paid'[d] = 0
  BY <1>2, <1>5 DEF Money
<1>6. ASSUME NEW u \in Users
      PROVE  /\ logged'[u] + unlogged'[u] = Earned(u)'
             /\ RowsToCome(u)' <= unlogged'[u]
  <2> DEFINE k == IF u = job[r].user THEN n ELSE 0
             a == ToWrite(u)
             b == ToWrite(u)'
  <2>1. Earned(u)' = Earned(u)
    BY <1>2 DEF Earned
  <2>2. k \in Nat
    BY <1>1
  <2>3. /\ \A q \in Requests : a[q] \in Int /\ b[q] \in Int
        /\ \A q \in Requests \ {r} : a[q] = b[q]
        /\ a[r] = k /\ b[r] = 0
    <3>1. \A q \in Requests : ToWrite(u)[q] \in Nat
      BY Amounts
    <3>2. \A q \in Requests \ {r} : ToWrite(u)'[q] = ToWrite(u)[q]
      BY <1>3 DEF ToWrite, OnlyJob, Is
    <3>3. ToWrite(u)[r] = k /\ ToWrite(u)'[r] = 0
      BY <1>1, <1>3 DEF ToWrite, Is
    <3> QED BY <3>1, <3>2, <3>3
  <2> HIDE DEF n
  <2>4. logged'[u] = logged[u] + k /\ unlogged'[u] = unlogged[u] - k
    <3>1. logged[u] \in Int /\ unlogged[u] \in Int
      BY SumsAreNumbers
    <3> QED BY <1>1, <1>2, <1>4, <3>1 DEF CountersOK
  <2>5. RowsToCome(u) = SumFunctionOnSet(a, Requests) /\ RowsToCome(u)' = SumFunctionOnSet(b, Requests)
    BY Sums
  <2> HIDE DEF a, b, k
  <2>6. SumFunctionOnSet(b, Requests) = SumFunctionOnSet(a, Requests) + (b[r] - a[r])
    BY <2>3, SumPoint, ReviewAssumption
  <2>7. logged[u] + unlogged[u] = Earned(u) /\ RowsToCome(u) <= unlogged[u]
    BY DEF Money, Ledger
  <2> QED BY <2>1, <2>2, <2>3, <2>4, <2>5, <2>6, <2>7, SumsAreNumbers
<1> QED BY <1>5, <1>6 DEF Money, Ledger

\* Nothing is paid, and nothing is to come.
LEMMA MoneyInit == Init => Money
<1> SUFFICES ASSUME Init PROVE Money
  OBVIOUS
<1>1. \A r \in Requests : Owned(r)
  BY IdleJob DEF Init, Owned, Approving, ToPay, ToLog
<1>2. ASSUME NEW u \in Users
      PROVE  logged[u] + unlogged[u] = Earned(u) /\ RowsToCome(u) <= unlogged[u]
  <2>1. /\ \A c \in Completions : PaidFor(u)[c] = 0
        /\ \A r \in Requests : ToWrite(u)[r] = 0
    BY IdleJob, NoUserAssumption DEF Init, PaidFor, ToWrite, Is
  <2>2. Earned(u) = 0 /\ RowsToCome(u) = 0
    <3>1. SumFunctionOnSet(PaidFor(u), Completions) = 0
      BY <2>1, SumZero, ReviewAssumption
    <3>2. SumFunctionOnSet(ToWrite(u), Requests) = 0
      BY <2>1, SumZero, ReviewAssumption
    <3> QED BY <3>1, <3>2, Sums
  <2>3. logged[u] = 0 /\ unlogged[u] = 0
    BY DEF Init
  <2> QED BY <2>2, <2>3
<1>3. \A c \in Completions : paid[c] = 0
  BY DEF Init
<1> QED BY <1>1, <1>2, <1>3 DEF Money, Ledger

\* Every step keeps the ledger.
LEMMA MoneyStep == Shape /\ Money /\ [Next]_vars => Money'
<1> SUFFICES ASSUME Shape, Money, [Next]_vars PROVE Money'
  OBVIOUS
<1>1. Shape'
  BY ShapeStep
<1>2. ASSUME UNCHANGED <<job, completion, paid, logged, unlogged>> PROVE Money'
  BY <1>2 DEF Money, Owned, Ledger, Earned, RowsToCome, Is
<1>3. ASSUME NEW r \in Requests,
             Arrive(r) \/ Submit(r) \/ Approve(r) \/ RejectAudit(r) \/ Gate(r) \/ Drop(r)
      PROVE  Money'
  <2>1. \A q \in Requests : Owned(q)'
    BY <1>3, OwnedStep
  <2>2. CASE ApprovePay(r) \/ ApproveLog(r)
    BY <1>1, <2>1, <2>2, MoneyPay, MoneyLog
  <2>3. CASE ~ (ApprovePay(r) \/ ApproveLog(r))
    <3>1. UNCHANGED <<logged, unlogged, paid>>
      BY <1>3, <2>3
      DEF Arrive, SubmitFind, ApproveFind, Reject, GateStart, Submit, SubmitCount,
          SubmitCreate, SubmitAgain, StoredBy, Approve, ApproveSave, ApproveFindUser,
          ApproveAudit, RejectAudit, Drop, Gate, GateActive, GateCompleted, GateReply,
          rewardVars
    <3>2. KeepsOwner /\ OnlyJob(r) /\ job'[r].op # "approveLog"
      BY <1>3, <2>3, OwnersKept, ApprovalMoves
    <3> QED BY <1>1, <2>1, <3>1, <3>2, MoneyQuiet
  <2> QED BY <2>2, <2>3
<1>4. ASSUME NEW t \in Tasks, SetActive(t) PROVE Money'
  BY <1>2, <1>4 DEF SetActive, reviewVars, rewardVars
<1>5. CASE Next
  BY <1>3, <1>4, <1>5 DEF Next
<1>6. CASE UNCHANGED vars
  BY <1>2, <1>6 DEF vars
<1> QED BY <1>5, <1>6

\* The rows and the rewards without a row add up to what was paid: the inductive
\* invariant behind the theorem that follows.
THEOREM MoneyInvariant == Spec => []Money
<1>1. Init => Shape /\ Money
  BY ShapeInit, MoneyInit
<1>2. Shape /\ Money /\ [Next]_vars => Shape' /\ Money'
  BY ShapeStep, MoneyStep
<1> QED BY <1>1, <1>2, PTL DEF Spec

\* The balance, the rows and the rewards that were paid agree, for any rewards,
\* any number of submissions and however approvals overlap or break off.
THEOREM RewardsReconciled == Spec => []RewardsReconcile
<1>1. RowsReconcile /\ Money => RewardsReconcile
  BY DEF Money, Ledger, RewardsReconcile
<1> QED BY <1>1, RowsReconciled, MoneyInvariant, PTL

-----------------------------------------------------------------------------
\* Task review as Earnings sees it: a step of one of its writers, or none.
KeepsBooks == [Writers!Next]_(Writers!books)

\* Both modules build their steps of the same ones.
LEMMA SameSteps ==
    ASSUME NEW r
    PROVE  /\ \A u : Writers!Find(r, u) <=> Find(r, u)
           /\ Writers!Release(r) <=> Release(r)
           /\ \A mem : Writers!Save(r, mem) <=> Save(r, mem)
<1>1. Writers!NoCopy = NoCopy
  BY DEF Writers!NoCopy, NoCopy, Writers!ZeroBalance, ZeroBalance
<1>2. ASSUME NEW mem PROVE Writers!Save(r, mem) <=> Save(r, mem)
  <2>1. PICK paths, s : /\ paths = ModifiedPaths(r, mem) /\ s = Stored(r, mem)
                        /\ paths = Writers!ModifiedPaths(r, mem)
                        /\ s = Writers!Stored(r, mem)
    BY DEF Writers!ModifiedPaths, ModifiedPaths, Writers!Stored, Stored
  <2>2. PICK own : own = [copy[r] EXCEPT !.doc = mem, !.stale = @ \ paths]
    OBVIOUS
  <2>3. PICK after : /\ after = CopiesAfter(r, mem, own)
                     /\ after = Writers!CopiesAfter(r, mem, own)
    BY <2>1 DEF Writers!CopiesAfter, CopiesAfter
  <2>4. Save(r, mem) <=>
          /\ account' = [account EXCEPT ![copy[r].user] = s]
          /\ copy' = after
          /\ clobbered' = IF copy[r].stale \cap paths = {}
                            THEN clobbered ELSE clobbered \cup {copy[r].user}
    BY <2>1, <2>2, <2>3, Zenon DEF Save
  <2>5. Writers!Save(r, mem) <=>
          /\ account' = [account EXCEPT ![copy[r].user] = s]
          /\ copy' = after
          /\ clobbered' = IF copy[r].stale \cap paths = {}
                            THEN clobbered ELSE clobbered \cup {copy[r].user}
    BY <2>1, <2>2, <2>3, Zenon DEF Writers!Save
  <2> QED BY <2>4, <2>5
<1> QED BY <1>1, <1>2 DEF Writers!Find, Find, Writers!Release, Release

\* A payment is Earnings' Earn.
LEMMA PayBooks ==
    ASSUME Shape, NEW r \in Requests, ApprovePay(r)
    PROVE  KeepsBooks
<1>1. /\ copy[r].user \in Users /\ copy[r].doc \in WalletBalance
      /\ Reward[job[r].task] \in Nat
      /\ Rewarded(r) = [pending |-> copy[r].doc.pending + Reward[job[r].task],
                        approved |-> copy[r].doc.approved,
                        totalEarned |-> copy[r].doc.totalEarned + Reward[job[r].task]]
  BY PayInHand DEF ApprovePay, Is
<1>2. job[r].task \in Tasks
  BY InHand DEF ApprovePay, Is, JobFits, Approving, ToPay
<1>3. PICK n \in {Reward[t] : t \in Tasks} : n = Reward[job[r].task]
  BY <1>2
<1>4. Rewarded(r) = Writers!Plus(copy[r].doc, n, 0, n)
  <2>1. copy[r].doc.approved + 0 = copy[r].doc.approved
    BY <1>1 DEF WalletBalance
  <2> QED BY <1>1, <1>3, <2>1 DEF Writers!Plus
<1>5. Writers!Save(r, Writers!Plus(copy[r].doc, n, 0, n))
  BY <1>4, SameSteps DEF ApprovePay
<1>6. Writers!Given(r, n)
  BY <1>1, <1>3 DEF Writers!Given
<1>7. Writers!Earn(r, n)
  BY <1>5, <1>6 DEF Writers!Earn
<1> QED BY <1>1, <1>3, <1>7 DEF Writers!Write, Writers!Next, KeepsBooks

\* A request that reads the owner is a writer that loads a document, one that
\* is over lets it go, and the others leave the books alone.
LEMMA NextKeepsBooks == Shape /\ [Next]_vars => KeepsBooks
<1> SUFFICES ASSUME Shape, [Next]_vars PROVE KeepsBooks
  OBVIOUS
<1>1. ASSUME UNCHANGED docVars PROVE KeepsBooks
  BY <1>1 DEF docVars, Writers!books, KeepsBooks
<1>2. ASSUME NEW r \in Requests, ApproveFindUser(r) PROVE KeepsBooks
  <2>1. job[r].user \in Users
    BY <1>2, InHand DEF ApproveFindUser, Is, JobFits, Approving, ToPay
  <2>2. Writers!Load(r)
    BY <1>2, <2>1, SameSteps DEF ApproveFindUser, Writers!Load
  <2> QED BY <2>2 DEF Writers!Next, KeepsBooks
<1>3. ASSUME NEW r \in Requests, ApproveLog(r) \/ Drop(r) PROVE KeepsBooks
  <2>1. Writers!Forget(r)
    BY <1>3, SameSteps DEF ApproveLog, Drop, Writers!Forget
  <2> QED BY <2>1 DEF Writers!Next, KeepsBooks
<1>4. ASSUME NEW r \in Requests,
             \/ Arrive(r) \/ Submit(r) \/ ApproveSave(r) \/ ApproveAudit(r)
             \/ RejectAudit(r) \/ Gate(r)
      PROVE  KeepsBooks
  BY <1>1, <1>4
     DEF Arrive, SubmitFind, ApproveFind, Reject, GateStart,
         Submit, SubmitCount, SubmitCreate, SubmitAgain, StoredBy,
         ApproveSave, ApproveAudit, RejectAudit,
         Gate, GateActive, GateCompleted, GateReply
<1>5. CASE (\E t \in Tasks : SetActive(t)) \/ UNCHANGED vars
  BY <1>1, <1>5 DEF SetActive, vars, docVars
<1> QED BY <1>2, <1>3, <1>4, <1>5, PayBooks DEF Next, Approve

\* Task review implements Earnings: it writes a balance in no way but to add a
\* task's reward, to the pending balance and the earnings at once, in a plain
\* save of the document it has loaded.
THEOREM ReviewKeepsEarnings == Spec => KeepsEarnings
<1>1. Init => Writers!Init
  BY DEF Init, NoCopy, ZeroBalance, Writers!Init, Writers!NoCopy, Writers!ZeroBalance
<1>2. Shape /\ [Next]_vars => [Writers!Next]_(Writers!books)
  BY NextKeepsBooks DEF KeepsBooks
<1> QED BY <1>1, <1>2, ShapeInvariant, PTL DEF Spec, KeepsEarnings, Writers!Spec
=============================================================================
