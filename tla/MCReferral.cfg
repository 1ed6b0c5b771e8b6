\* Two referrers, three people who register, two requests; no symmetry, for
\* liveness.
SPECIFICATION FairSpec
CONSTANTS
    Users = {u1, u2}
    Requests = {r1, r2}
    NoUser = NoUser
    Emails = {e1, e2, e3}
    NoEmail = NoEmail
    NoAccount = NoAccount
    Milestones = {2, 3}
    MilestoneBonus <- MCMilestoneBonus
    SignupBonus = 2
INVARIANTS TypeOK OneBonusPerUser MilestoneNotEarly MilestonesExact BonusesReconcile StatsAreHonest
PROPERTY ReferralListed
CHECK_DEADLOCK FALSE
