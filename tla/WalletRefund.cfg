\* A rejected withdrawal is approved.
SPECIFICATION Spec
CONSTANTS
    Users = {u1}
    Requests = {r1, r2}
    NoUser = NoUser
    Withdrawals = {w1}
    NoWithdrawal = NoWithdrawal
    WithdrawAmounts = {4}
    CreditAmounts = {3}
    MinWithdrawalAmount = 2
    RateNum = 1
    RateDen = 4
    Opening = 4
    MaxOps = 3
INVARIANT RefundedIsRejected
CHECK_DEADLOCK FALSE
