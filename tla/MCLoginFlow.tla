---------------------------- MODULE MCLoginFlow ----------------------------
\* Small instances of LoginFlow.
EXTENDS LoginFlow, TLC

Symmetry == Permutations(Logins) \cup Permutations(Calls)
=============================================================================
