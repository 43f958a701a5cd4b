SPECIFICATION Spec
CONSTANTS
    Sessions = {s1, s2}
    Calls = {c1, c2}
    Prefs = {p0, p1}
    Default = p0
    NoSession = NoSession
    NoRow = NoRow
    MaxUploads = 1
    MaxUpdates = 2
SYMMETRY Symmetry
VIEW View
INVARIANTS TypeOK NothingAheadOfItsSource CopiesAgree
\* The instance stops when the last session has ended.
CHECK_DEADLOCK FALSE
