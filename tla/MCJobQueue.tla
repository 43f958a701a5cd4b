----------------------------- MODULE MCJobQueue -----------------------------
(* Small instances of JobQueue for TLC. *)
EXTENDS JobQueue, TLC

\* Requests without a limit (0 counts as none), with one attempt only, and with a negative one.
LimitsAll == {0, 1, -1}
LimitsDefault == {0}

DelaysNowOrLater == {0, 1}
DelaysAll == {-1, 0, 2}

Symmetry == Permutations(Workers)
=============================================================================
