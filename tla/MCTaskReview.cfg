\* One user, two tasks, two requests.
SPECIFICATION Spec
CONSTANTS
    Users = {u1}
    Requests = {r1, r2}
    NoUser = NoUser
    t1 = t1
    t2 = t2
    Tasks = {t1, t2}
    Completions = {c1, c2}
    NoTask = NoTask
    NoCompletion = NoCompletion
    Reward <- MCReward
    MaxResubmissions = 1
    DailySubmissionLimit = 2
    MaxOps = 5
SYMMETRY Symmetry
INVARIANTS TypeOK OneSubmissionPerDay WithinLimits PaidIsApproved RewardsReconcile
CHECK_DEADLOCK FALSE
