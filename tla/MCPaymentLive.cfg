\* One top-up, webhooks delivered in the end.
SPECIFICATION FairPaySpec
CONSTANTS
    topup = topup
    card = card
    w1 = w1
    w2 = w2
    Payments = {topup}
    Purpose <- MCPurpose
    Amount <- MCAmount
    Reports <- MCReports
    MaxBalance = 3
    Workers = {w1}
PROPERTIES
    CapturedIsBooked
CHECK_DEADLOCK FALSE
