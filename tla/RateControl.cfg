CONSTANTS
    GoodInterval = 1
    BadInterval = 2
    Threshold = 2
    InitialPenalty = 2
    MaxPenalty = 7
    GoodDwell = 4
    Slots = {0, 1}
SPECIFICATION FairSpec
INVARIANT TypeOK
PROPERTIES EarnedBack FlapsSlowDown FollowsTheLink
