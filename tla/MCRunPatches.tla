--------------------------- MODULE MCRunPatches -----------------------------
(* A small instance of RunPatches for TLC. *)
EXTENDS RunPatches, TLC

CONSTANTS p1, p2, p3, r1

Posters == {p1, p2, p3}
Readers == {r1}

AddNode == [op |-> "add", path |-> "/nodes/-"]
AddEdge == [op |-> "add", path |-> "/edges/-"]
RemoveNode == [op |-> "remove", path |-> "other"]

\* A patch that can be applied, one that cannot, and an empty one.
Contents == {<<AddNode, AddEdge>>, <<AddNode, RemoveNode>>, <<>>}

Symmetric == Permutations(Posters)

=============================================================================
