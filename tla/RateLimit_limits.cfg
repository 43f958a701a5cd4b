SPECIFICATION FairSpec
CONSTANTS
    Requests = {r1, r2, r3}
    Limit = 2
    Window = 2
    MaxCrashes = 1
INVARIANTS TypeOK AtMostTwiceTheLimit RetryAfterHonest
PROPERTY LimitEnds
