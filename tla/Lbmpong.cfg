CONSTANTS
    Msgs = {2, 3}
    Ignores = {1}
    MaxFaults = 2
SPECIFICATION FairSpec
INVARIANTS TypeOK OneInFlight MeasuredExactly OnlyPongSkews PrintedTogether
PROPERTIES StopsAfterMsgs
CHECK_DEADLOCK FALSE
