SPECIFICATION PartsSpec
CONSTANTS
    MaxLogins = 2
    Slots = {s1, s2}
    MaxClicks = 2
    MaxFailures = 1
    MaxTaps = 2
    MaxPosts = 2
    Clients = {k1, k2}
    MaxValues = 3
    Profiles = {{"email", "nicks"}, {"email", "groups", "password"}, {"nicks", "origin"},
                {"origin", "password", "passwordHint"}, {"email", "passwordHint"}}
    MaxRecords = 3
    Keys = {"a"}
    Limit = 1
    MaxTime = 2
    Extensions = {"png", "jpg"}
    MaxAttempts = 2
    MaxUploads = 3
    MaxFaults = 3
INVARIANTS
    PartsTypeOK
    NeverAnEarlierProfile
    AtRestAgrees
    FailureIsShown
    OneCallPending
    CancellationIsSilent
    PasskeyWayOn
    ErrorShown
    PageWayOn
    LogoutReachesAll
    SentComplete
    NoRecordSkipped
    PictureSettled
PROPERTIES
    ActsForTheUserShown
    ComesToRest
    SubmissionNotReplaced
    LoginElsewhereFollowed
    DeletedIsFinal
\* Each part may stop: a page is left, a form is sent, a user does no more.
CHECK_DEADLOCK FALSE
