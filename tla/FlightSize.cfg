CONSTANTS
    Programs = {"c_ping", "c_pong_ctx", "c_pong_xsp", "java_ping"}
    NumSends = 5
    FlightLimit = 4
    RetainLimit = 3
    StoreIsSlow = TRUE
SPECIFICATION FairSpec
INVARIANTS NeverDies CounterRight MaxIsPeak
PROPERTY PingEnds
CHECK_DEADLOCK FALSE
