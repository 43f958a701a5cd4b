SPECIFICATION FairSpec
CONSTANTS
    Logins = {l1, l2}
    Unnamed = {l2}
    Calls = {c1, c2, c3}
    NoLogin = NoLogin
    AttemptLimit = 2
    MaxFaults = 2
INVARIANTS TypeOK OneSessionPerLogin SessionSound
PROPERTIES LateReplayFindsNothing LoginSucceeds
\* Every login and every call is used once: the instance stops when all are.
CHECK_DEADLOCK FALSE
