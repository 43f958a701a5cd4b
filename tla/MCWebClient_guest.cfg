SPECIFICATION Spec
CONSTANTS
    Languages = {"en", "fr"}
    Themes = {"light", "dark"}
    Default <- DefaultPreferences
    NoPrefs = NoPrefs
    NoLanguage = NoLanguage
    Slots = {s1, s2}
    MaxChoices = 1
    MaxFailures = 0
SYMMETRY Symmetry
INVARIANT GuestChoiceKept
\* The user may stop choosing, and the page then rests.
CHECK_DEADLOCK FALSE
