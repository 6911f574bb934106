---------------------------- MODULE MCApprovals ----------------------------
(* Instances of Approvals for TLC. *)
EXTENDS Approvals, TLC

CONSTANTS n1, n2, w1, a1, a2

TwoNodes == {n1, n2}
OneWorker == {w1}
TwoApprovers == {a1, a2}

Symmetric == Permutations(Nodes) \cup Permutations(Approvers)
=============================================================================
