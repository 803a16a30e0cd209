CONSTANTS
    IntMax = 15
    WordMod = 64
    num_sends = 4
    sends_per_sec = 2
    NsPerSec = 3
    MaxTime = 8
SPECIFICATION FairSpec
INVARIANTS TypeOK NeverMoreThanRequested TightSendsExact
PROPERTIES CatchesUp IsPaced Terminates
CHECK_DEADLOCK FALSE
