SPECIFICATION PathSpec
CONSTANTS
    bread = "bread"
    milk = "milk"
    BREAD = "BREAD"
    salt = "salt"
    NoUuid = "none"
    Calls = {c1}
    Ids = {"bread", "milk", "BREAD", "salt"}
    Canonical <- Letters
    Price <- Catalogue
    Requests <- AnyItems
    HttpRequests <- AnyRequest
    Users = {"ada"}
    Addresses = {"home"}
    DefaultUser = "ada"
    DbFailures = {"class_57", "query_canceled"}
    Half = 8
    PoolSize = 1
    MaxItems = 1
INVARIANTS
    
    AnswerIsTrue
    
    NothingInternalShown
PROPERTY
    AbandonedCallsEnd
CHECK_DEADLOCK FALSE
