CONSTANTS
    warmup_loops = 2
    num_msgs = 3
    exit_on_eos = TRUE
    MaxFaults = 2
    TimelyResolution = FALSE
    TimelySleeps = FALSE
SPECIFICATION FairSpec
INVARIANTS OnlyMeasuredRecorded ResetUndisturbed PassMeansMeasured
PROPERTIES IsEcho PingEnds PongEnds
CHECK_DEADLOCK FALSE
