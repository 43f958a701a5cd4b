SPECIFICATION FairSpec
CONSTANTS
    Languages = {"en", "fr"}
    Themes = {"light", "dark"}
    Default <- DefaultPreferences
    NoPrefs = NoPrefs
    NoLanguage = NoLanguage
    Slots = {s1, s2, s3}
    MaxChoices = 2
    MaxFailures = 1
INVARIANTS TypeOK LanguageAgrees
PROPERTY EventuallyQuiet
\* The user may stop choosing, and the page then rests.
CHECK_DEADLOCK FALSE
