CONSTANTS
    warmup_loops = 2
    num_msgs = 2
    exit_on_eos = TRUE
    MaxFaults = 0
    TimelyResolution = FALSE
    TimelySleeps = FALSE
SPECIFICATION Spec
INVARIANT StartsOver
CHECK_DEADLOCK FALSE
