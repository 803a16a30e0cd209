CONSTANTS
    Programs = {"java_pong"}
    NumSends = 5
    FlightLimit = 4
    RetainLimit = 3
    StoreIsSlow = FALSE
SPECIFICATION Spec
INVARIANT NeverDies
CHECK_DEADLOCK FALSE
