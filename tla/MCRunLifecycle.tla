--------------------------- MODULE MCRunLifecycle ---------------------------
(* Small instances of RunLifecycle for TLC. *)
EXTENDS RunLifecycle, TLC

CONSTANTS n1, n2, e1, e2, u1, u2

TwoNodes     == {n1, n2}
OneAgent     == {n1}
TwoExecutors == {e1, e2}
OneUpdater   == {u1}
TwoUpdaters  == {u1, u2}

Symmetric == Permutations(TwoExecutors) \cup Permutations(TwoUpdaters)
=============================================================================
