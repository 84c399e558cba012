CONSTANTS
    r1 = r1
    r2 = r2
    r3 = r3
    d1 = d1
    d2 = d2
    w1 = w1
    w2 = w2
    Sources = {"wallet", "unapplied", "order"}
    Captured = 2
    Refunds = {r1, r3}
    RefundAmount <- MCRefundAmount
    Disputes = {d1}
    DisputeAmount <- MCDisputeAmount
    Misreported = {r1}
    Workers = {w1}
SPECIFICATION FairRevSpec
PROPERTIES
    
    ChargebacksAreDecided
