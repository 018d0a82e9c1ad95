SPECIFICATION LifecycleSpec
CONSTANTS
    Requests = {r1, r2}
    Watchers = {w1}
    Profiles = {p1}
    Environments <- OneDeviation
INVARIANTS
    LifecycleInv
    NothingLeaks
    TelemetryLast
    NoHandlerAtClose
    CleanExit
    WatchersTold
    
PROPERTIES
    StopNotHeld
    StopEnds
CHECK_DEADLOCK FALSE
