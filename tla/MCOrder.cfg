CONSTANTS
    o1 = o1
    o2 = o2
    bonus = bonus
    main = main
    Orders = {o1, o2}
    Wallets = {bonus, main}
    Price <- MCPrice
    Fund <- MCFund
    MaxTxn <- MCMaxTxn
    DrawOrder <- MCDrawOrder
    Plans <- MCPlans
SPECIFICATION FairOrdSpec
INVARIANTS
    EachPaysItsShare
    HeldMoneyIsThere
    
 
\* Every order is decided and every wallet empty in the end.
CHECK_DEADLOCK FALSE
