\* One order payment and two workers.
SPECIFICATION PaySpec
CONSTANTS
    topup = topup
    card = card
    w1 = w1
    w2 = w2
    Payments = {card}
    Purpose <- MCPurpose
    Amount <- MCAmount
    Reports <- MCReports
    MaxBalance = 3
    Workers = {w1, w2}
INVARIANTS
    ReceivedIsBookedOnce
PROPERTIES
    ImplementsCollection
    ClosedUnpaid
CHECK_DEADLOCK FALSE
