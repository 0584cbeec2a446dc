SPECIFICATION OrderlySpec
CONSTANTS
    Depth = 4
    Interval = 2
    MaxAge = 1
    MaxRestarts = 0
PROPERTY DropsOnlyStale
CHECK_DEADLOCK FALSE
