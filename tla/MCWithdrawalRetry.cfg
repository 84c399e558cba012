CONSTANTS
    q1 = q1
    q2 = q2
    x1 = x1
    x2 = x2
    x3 = x3
    w1 = w1
    w2 = w2
    Requests = {q1, q2}
    Withdrawals = {x2, x3}
    RequestOf <- MCRequestOf
    Amount <- MCAmount
    NeedsApproval = {q1}
    Fund = 3
    Workers = {w1}
SPECIFICATION WdSpec
INVARIANT PaidOncePerRequest
CHECK_DEADLOCK FALSE
