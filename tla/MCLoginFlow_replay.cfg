SPECIFICATION Spec
CONSTANTS
    Logins = {l1}
    Unnamed = {}
    Calls = {c1, c2}
    NoLogin = NoLogin
    AttemptLimit = 2
    MaxFaults = 0
SYMMETRY Symmetry
INVARIANT StateIsOneTime
CHECK_DEADLOCK FALSE
