---------------------------- MODULE MCWebClient ----------------------------
\* Small instances of WebClient.
EXTENDS WebClient, TLC

DefaultPreferences == [language |-> "en", theme |-> "light"]
Symmetry == Permutations(Slots)
=============================================================================
