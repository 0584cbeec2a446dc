SPECIFICATION FairSpec
CONSTANTS
    Depth = 3
    Interval = 2
    MaxAge = 2
    MaxRestarts = 1
INVARIANT TypeOK
PROPERTY SelfHealing
CHECK_DEADLOCK FALSE
