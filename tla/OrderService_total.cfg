SPECIFICATION OrderSpec
CONSTANTS
    bread = bread
    milk = milk
    BREAD = BREAD
    Calls = {c1}
    Ids = {bread, milk, BREAD}
    Canonical <- Letters
    Price <- TwoProducts
    Requests <- Quantities
    Half = 8
    PoolSize = 1
INVARIANT
    TotalIsSum
CHECK_DEADLOCK FALSE
