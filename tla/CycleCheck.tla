----------------------------- MODULE CycleCheck -----------------------------
(***************************************************************************)
(* The last step of the compiler's validation (common/compiler/ir.go,      *)
(* hasCycle): a depth-first search of the dependents that refuses a        *)
(* workflow at the first back edge whose target has no loop configuration. *)
(*                                                                         *)
(* The roots come out of a Go map, in any order.  The dependents of a node *)
(* are a list; each is looked at once, so a list in some order is a set    *)
(* whose members are taken in some order.                                  *)
(***************************************************************************)
EXTENDS WorkflowIR, Integers

VARIABLES
    graph,     \* the dependents of the nodes being checked
    loops,     \* the nodes with a loop configuration
    visited,
    recStack,  \* the calls of hasCycle that have not returned
    left,      \* dependents that a call has not looked at
    verdict

cvars == <<graph, loops, visited, recStack, left, verdict>>

Graphs == UNION {[N -> SUBSET N] : N \in SUBSET Node}

OnStack == {recStack[i] : i \in DOMAIN recStack}

CheckInit ==
    /\ graph = [n \in {} |-> {}]
    /\ loops = {}
    /\ visited = {}
    /\ recStack = <<>>
    /\ left = graph
    /\ verdict = "none"

\* validate gets to its cycle check with a new IR.
Begin(g, l) ==
    /\ verdict # "running"
    /\ graph' = g
    /\ loops' = l
    /\ visited' = {}
    /\ recStack' = <<>>
    /\ left' = g
    /\ verdict' = "running"

Top == recStack[Len(recStack)]

\* Mutant: the node is put on the stack and not marked as visited.
hasCycleUnmarked(n) ==
    /\ recStack' = Append(recStack, n)
    /\ UNCHANGED visited

\* A call of hasCycle(n).
hasCycle(n) ==
    /\ visited' = visited \cup {n}
    /\ recStack' = Append(recStack, n)

\* for nodeID := range ir.Nodes.
NextRoot ==
    /\ verdict = "running"
    /\ recStack = <<>>
    /\ \E n \in DOMAIN graph \ visited : hasCycle(n)
    /\ UNCHANGED <<graph, loops, left, verdict>>

\* Mutant: visited is taken for on the stack.
NextDependentVisited ==
    /\ verdict = "running"
    /\ recStack # <<>>
    /\ \E d \in left[Top] :
          /\ left' = [left EXCEPT ![Top] = @ \ {d}]
          /\ \/ d \notin visited /\ hasCycle(d) /\ UNCHANGED verdict
             \/ /\ d \in visited
                /\ verdict' = IF d \notin loops THEN "cyclic" ELSE verdict
                /\ UNCHANGED <<visited, recStack>>
    /\ UNCHANGED <<graph, loops>>

\* for _, dep := range node.Dependents.
NextDependent ==
    /\ verdict = "running"
    /\ recStack # <<>>
    /\ \E d \in left[Top] :
          /\ left' = [left EXCEPT ![Top] = @ \ {d}]
          /\ \/ d \notin visited /\ hasCycle(d) /\ UNCHANGED verdict
             \/ /\ d \in visited
                /\ verdict' = IF d \in OnStack /\ d \notin loops THEN "cyclic" ELSE verdict
                /\ UNCHANGED <<visited, recStack>>
    /\ UNCHANGED <<graph, loops>>

\* recStack[nodeID] = false, return false.
Return ==
    /\ verdict = "running"
    /\ recStack # <<>>
    /\ left[Top] = {}
    /\ recStack' = SubSeq(recStack, 1, Len(recStack) - 1)
    /\ UNCHANGED <<graph, loops, visited, left, verdict>>

\* Every node has been visited: the workflow is accepted.
Accept ==
    /\ verdict = "running"
    /\ recStack = <<>>
    /\ DOMAIN graph \subseteq visited
    /\ verdict' = "acyclic"
    /\ UNCHANGED <<graph, loops, visited, recStack, left>>

Search == NextRoot \/ NextDependent \/ Return \/ Accept

\* Any IR may come next.
BeginAny == graph' \in Graphs /\ loops' \subseteq DOMAIN graph' /\ Begin(graph', loops')

CheckNext == BeginAny \/ Search

CheckSpec == CheckInit /\ [][CheckNext]_cvars

-----------------------------------------------------------------------------

CheckTypeOK ==
    /\ graph \in Graphs
    /\ loops \subseteq DOMAIN graph
    /\ visited \subseteq DOMAIN graph
    /\ recStack \in Seq(DOMAIN graph)
    /\ left \in [DOMAIN graph -> SUBSET DOMAIN graph]
    /\ verdict \in {"none", "running", "acyclic", "cyclic"}

\* A set of nodes in which every node has a dependent: there is a cycle in it,
\* and every cycle is such a set.
HasCycleIn(S) == S # {} /\ \A u \in S : graph[u] \cap S # {}

\* A workflow that passes the check has no cycle without a loop node,
\* whatever the order of the roots and of the dependents.
AcceptedCyclesLoop ==
    verdict = "acyclic" => \A S \in SUBSET (DOMAIN graph \ loops) : ~HasCycleIn(S)

\* A workflow that is refused has a cycle: the calls from the target of the
\* back edge on, which is not a loop node.
RefusedHasCycle ==
    verdict = "cyclic" =>
        \E i \in DOMAIN recStack :
            /\ recStack[i] \notin loops
            /\ recStack[i] \in graph[Top]
            /\ \A j \in i..(Len(recStack) - 1) : recStack[j + 1] \in graph[recStack[j]]

=============================================================================
