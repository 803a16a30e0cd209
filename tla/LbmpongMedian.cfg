CONSTANTS
    Msgs = {3}
    Ignores = {1}
    MaxFaults = 1
SPECIFICATION Spec
INVARIANT MedianIsMiddle
CHECK_DEADLOCK FALSE
