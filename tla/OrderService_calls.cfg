SPECIFICATION FairOrderSpec
CONSTANTS
    bread = bread
    milk = milk
    BREAD = BREAD
    Calls = {c1, c2}
    Ids = {bread, milk, BREAD}
    Canonical <- Letters
    Price <- OneProduct
    Requests <- PlainOrNegative
    Half = 8
    PoolSize = 1
INVARIANTS
    OrderInv
    StoredTogether
PROPERTY
    CallsEnd
CHECK_DEADLOCK FALSE
