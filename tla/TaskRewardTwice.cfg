\* Two admins approve one submission at the same time.
SPECIFICATION Spec
CONSTANTS
    Users = {u1}
    Requests = {r1, r2}
    NoUser = NoUser
    t1 = t1
    t2 = t2
    Tasks = {t1, t2}
    Completions = {c1}
    NoTask = NoTask
    NoCompletion = NoCompletion
    Reward <- MCReward
    MaxResubmissions = 1
    DailySubmissionLimit = 2
    MaxOps = 3
INVARIANT RewardOnce
CHECK_DEADLOCK FALSE
