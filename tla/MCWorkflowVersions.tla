------------------------- MODULE MCWorkflowVersions -------------------------
(* Small workflows and patches for WorkflowVersions.                         *)
EXTENDS WorkflowVersions, TLC

CONSTANTS s1, s2, t1, n1, n2

Slots == {s1, s2}
Tags == {t1}
Items == {n1, n2}

Arr(items) == [has |-> TRUE, items |-> items]
Missing == [has |-> FALSE, items |-> <<>>]

\* One node, with and without an edges array.
Workflows == {[nodes |-> Arr(<<n1>>), edges |-> Arr(<<>>)], [nodes |-> Arr(<<n1>>), edges |-> Missing]}

Op(op, array, index) ==
    [op |-> op, rooted |-> TRUE, array |-> array, index |-> index, value |-> n2]

Bare(o) == [o EXCEPT !.rooted = FALSE]

\* Append a node, remove or replace the first, append an edge; a list that
\* fails halfway; a removal whose path has no leading slash.
Patches == {<<Op("add", "nodes", End)>>, <<Op("remove", "nodes", 0)>>,
            <<Op("add", "edges", End)>>,
            <<Op("replace", "nodes", 0), Op("remove", "edges", 0)>>,
            <<Bare(Op("remove", "nodes", 0))>>}

Symmetric == Permutations(Slots)

=============================================================================
