--------------------------- MODULE MCAccountState ---------------------------
\* Small instances of AccountState.
EXTENDS AccountState, TLC

Symmetry == Permutations(Calls)

\* What an idle call remembers of its last handler is never read again.
Memory(c) == IF Idle(c) THEN <<>> ELSE <<sid[c], copy[c], next[c]>>
View == <<stores, pc, [c \in Calls |-> Memory(c)], history>>
=============================================================================
