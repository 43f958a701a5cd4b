SPECIFICATION ThemeSpec
CONSTANTS
    MaxPosts = 1
    Clients = {k1}
INVARIANT AssertionHolds
CHECK_DEADLOCK FALSE
