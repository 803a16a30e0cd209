CONSTANT NumObjects = 2
SPECIFICATION FairSpec
INVARIANTS NoEventsOnClosed
PROPERTY Ends
CHECK_DEADLOCK FALSE
