CONSTANTS
    Endpoints = {e1, e2}
    MaxQueue = 2
    MaxArrivals = 2
    Dt = 2
    MaxSteps = 2
    GoodInterval = 2
    BadInterval = 5
    MaxTime = 7
SPECIFICATION FairSpec
INVARIANTS TypeOK EveryDatagramReachesItsPeer NothingLeftBehind OnePlayerPerClient KeepsTime PacketsStaySmall
CHECK_DEADLOCK FALSE
PROPERTY KeepsTicking
