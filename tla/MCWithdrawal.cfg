CONSTANTS
    q1 = q1
    q2 = q2
    x1 = x1
    x2 = x2
    x3 = x3
    w1 = w1
    w2 = w2
    Requests = {q1, q2}
    Withdrawals = {x1, x2}
    RequestOf <- MCRequestOf
    Amount <- MCAmount
    NeedsApproval = {q1}
    Fund = 3
    Workers = {w1, w2}
SPECIFICATION FairWdSpec
INVARIANTS
    MoneyIsWhereItSays
    OutcomesAgree
PROPERTIES
    WithdrawalsEnd
    BouncesComeBack
\* Every withdrawal is decided and the wallet spent in the end.
CHECK_DEADLOCK FALSE
