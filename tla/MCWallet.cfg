\* Casts of two to five transactions, two of them retried.
SPECIFICATION WalletSpec
CONSTANTS
    w1 = w1
    w2 = w2
    w3 = w3
    psp = psp
    psp2 = psp2
    ours = ours
    h1 = h1
    j1 = j1
    j2 = j2
    j3 = j3
    j4 = j4
    j5 = j5
    jx = jx
    p1 = p1
    p2 = p2
    load = load
    place = place
    capture = capture
    sweep = sweep
    transfer = transfer
    other = other
    more = more
    lapse = lapse
    lapse2 = lapse2
    o1 = o1
    o2 = o2
    out1 = out1
    out2 = out2
    out3 = out3
    undo1 = undo1
    Accounts <- MCAccounts
    Currencies = {"INR"}
    JournalIds = {j1, j2, j3, j4, j5, jx, o1, o2}
    HoldIds = {h1}
    MaxLegs = 3
    MaxAmount = 2
    NormalSign <- MCSign
    AllowNegative <- MCAllow
    Denomination <- MCDenomination
    Entries <- MCEntries
    Txs <- MCTxs
    Calls <- MCCalls
    AccountId <- MCAccountId
    HoldOrder <- MCHoldOrder
    Parties = {p1, p2}
    Refers <- MCRefers
    MaxRuns <- MCMaxRuns
    Wallets = {w1, w2, w3}
    OwnerOf <- MCOwnerOf
    Rule <- MCRule
    Loading <- MCLoading
    MaxBalance <- MCMaxBalance
    DailyLoadLimit <- MCMaxBalance
    MaxCustomerBalance = 3
    MaxCustomerDailyLoad = 3
    Withdrawing = {o1, o2}
    Undoes <- MCUndoes
    DailyWithdrawalLimit <- MCDailyWithdrawalLimit
    MaxCustomerDailyWithdrawal = 2
    MaxCustomerDailyWithdrawals = 2
    Casts <- MCCasts
INVARIANTS
    BalanceIsPostings
    HeldIsActiveHolds
    NoOverdraft
    OnlyReferencesDeadlock
    LimitsHold
PROPERTIES
    ImplementsLedger
    ExpiryTakesIdle
CHECK_DEADLOCK FALSE
