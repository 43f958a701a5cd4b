SPECIFICATION FairSpec
CONSTANTS
    Requests = {r1, r2}
    Limit = 1
    Window = 2
    MaxCrashes = 1
PROPERTY LimitIsTemporary
