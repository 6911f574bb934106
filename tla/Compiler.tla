------------------------------ MODULE Compiler ------------------------------
(***************************************************************************)
(* The workflow compiler (common/compiler/ir.go): from a workflow schema,  *)
(* nodes and edges as a user draws them, to the IR a run executes.         *)
(*                                                                         *)
(* A schema is [nodes |-> [n |-> [type, loop]], edges |-> sequence of      *)
(* [from, to, cond]]; cond = "" is an unconditional edge.                  *)
(***************************************************************************)
EXTENDS WorkflowIR, Integers, FiniteSetsExt, Functions

\* The nil *LoopConfig of node n.
NoLoop(n) == [max |-> 0, condition |-> FALSE, back |-> n, break |-> <<>>, timeout |-> <<>>]

\* The members of list s that are in S, in their order.
Only(s, S) ==
    LET kept[i \in 0..Len(s)] ==
            IF i = 0 THEN <<>>
            ELSE IF s[i] \in S THEN Append(kept[i - 1], s[i]) ELSE kept[i - 1]
    IN  kept[Len(s)]

EdgesFrom(schema, n) == Only(schema.edges, {e \in Range(schema.edges) : e.from = n})

WithCondition(edges, c) == Only(edges, {e \in Range(edges) : e.cond = c})

Targets(edges) == [i \in DOMAIN edges |-> edges[i].to]

HasConditionalEdges(schema, n) ==
    \E e \in Range(EdgesFrom(schema, n)) : e.cond # ""

\* One next-node list per distinct condition, and the unconditional edges as
\* the default.  The rules come out of a Go map, so their order is arbitrary.
createBranchConfig(edges) ==
    {Targets(WithCondition(edges, c)) : c \in {e.cond : e \in Range(edges)} \cup {""}}

\* No outgoing edge of any kind.  A loop always has its loop_back_to.
isTerminal(dependents, branch, loop) ==
    /\ dependents = <<>>
    /\ branch \subseteq {<<>>}
    /\ loop.max = 0

\* A branch node's dependents are its rules' targets and its default's: the
\* targets of all its edges, in an order nothing depends on.
convertWorkflowNode(schema, n) ==
    LET w     == schema.nodes[n]
        edges == EdgesFrom(schema, n)
        branches == \/ w.type = "conditional"
                    \/ w.type = "hitl" /\ HasConditionalEdges(schema, n)
    IN  [type |-> IF w.type \in {"conditional", "loop", "parallel"} THEN "task" ELSE w.type,
         dependents |-> Targets(edges),
         branch |-> IF branches THEN createBranchConfig(edges) ELSE {},
         loop |-> IF w.type = "loop" THEN w.loop ELSE NoLoop(n)]

CompileWorkflowSchema(schema) ==
    [n \in DOMAIN schema.nodes |->
        LET c == convertWorkflowNode(schema, n)
        IN  [type |-> c.type,
             dependencies |-> {e.from : e \in {e \in Range(schema.edges) : e.to = n}},
             dependents |-> c.dependents,
             branch |-> c.branch,
             loop |-> c.loop,
             isTerminal |-> isTerminal(c.dependents, c.branch, c.loop)]]

=============================================================================
