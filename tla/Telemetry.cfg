SPECIFICATION TelemetrySpec
CONSTANTS
    Interval = 2
    Horizon = 6
    MaxErrors = 5
INVARIANTS
    FailedNewLeavesNothing
    StuckSignalAlone
    WarnsSpaced
    EveryErrorAccounted
CHECK_DEADLOCK FALSE
