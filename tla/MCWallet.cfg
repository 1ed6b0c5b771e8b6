\* One user: every race of three requests over one balance.
SPECIFICATION Spec
CONSTANTS
    Users = {u1}
    Requests = {r1, r2, r3}
    NoUser = NoUser
    Withdrawals = {w1, w2}
    NoWithdrawal = NoWithdrawal
    WithdrawAmounts = {2, 4}
    CreditAmounts <- MCCreditAmounts
    MinWithdrawalAmount = 2
    RateNum = 1
    RateDen = 4
    Opening = 4
    MaxOps = 4
SYMMETRY Symmetry
INVARIANTS TypeOK Conservation LedgerReconciles ClaimExclusive
PROPERTIES NoOverdraft LedgerHonest ApprovedIsFinal SettlesAtOnce KeepsEarnings
CHECK_DEADLOCK FALSE
