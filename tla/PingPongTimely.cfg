CONSTANTS
    warmup_loops = 3
    num_msgs = 3
    exit_on_eos = TRUE
    MaxFaults = 2
    TimelyResolution = TRUE
    TimelySleeps = TRUE
SPECIFICATION FairSpec
INVARIANTS StartsFresh ReportConsistent NoFalseAlarm
PROPERTIES IsLatencyTest
CHECK_DEADLOCK FALSE
