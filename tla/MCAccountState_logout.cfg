SPECIFICATION Spec
CONSTANTS
    Sessions = {s1}
    Calls = {c1, c2}
    Prefs = {p0, p1}
    Default = p0
    NoSession = NoSession
    NoRow = NoRow
    MaxUploads = 0
    MaxUpdates = 2
SYMMETRY Symmetry
INVARIANT LogoutIsFinal
CHECK_DEADLOCK FALSE
