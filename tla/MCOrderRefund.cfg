CONSTANTS
    r1 = r1
    r2 = r2
    r3 = r3
    d1 = d1
    d2 = d2
    x1 = x1
    x2 = x2
    x3 = x3
    w1 = w1
    w2 = w2
    Sources = {"wallet", "unapplied", "order"}
    Captured = 2
    Refunds = {r1, r2, r3}
    RefundAmount <- MCRefundAmount
    Disputes = {d1}
    DisputeAmount <- MCDisputeAmount
    Misreported = {r3}
    Workers = {w1, w2}
    Tenders = {"card", "wallet", "bonus"}
    Paid <- MCPaid
    Components <- MCComponents
    OrderRefunds = {x1, x2}
    Requests <- MCRequests
SPECIFICATION OrderRefundSpec
SYMMETRY Alike
INVARIANTS
    RefundsFitCapture
    OwedBackIsCovered
    ContestedMoneyIsHeld
    StatusIsTheBooks
    RefundsAgree
    OrderGivesBack
    CardShareStaysOwed
