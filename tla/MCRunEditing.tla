---------------------------- MODULE MCRunEditing ----------------------------
(***************************************************************************)
(* Instances of RunEditing: every graph with three nodes, some of them     *)
(* loops, and a few workflows with branches and approvals.                 *)
(***************************************************************************)
EXTENDS RunEditing, TLC

MCNode == {"a", "b", "c", "d"}

Edge(from, to) == [from |-> from, to |-> to, cond |-> ""]
If(from, to, cond) == [from |-> from, to |-> to, cond |-> cond]

\* The timeout path names a node that most workflows do not have.
LoopTo(n) == [max |-> 2, condition |-> TRUE, back |-> n, break |-> <<"c">>, timeout |-> <<"d">>]

Def(n, type) == [type |-> type, loop |-> IF type = "loop" THEN LoopTo("a") ELSE NoLoop(n)]

Schema(types, edges) == [nodes |-> [n \in DOMAIN types |-> Def(n, types[n])], edges |-> edges]

ABC == {"a", "b", "c"}

\* Every set of edges between a, b and c, with a or b or both loops; only b
\* may have an edge to itself.
Graph3 ==
    {Schema([n \in ABC |-> IF n \in L THEN "loop" ELSE "http"],
            AnyOrder({Edge(e[1], e[2]) : e \in E})) :
        L \in SUBSET {"a", "b"}, E \in SUBSET ((ABC \X ABC) \ {<<"c", "c">>, <<"a", "a">>})}

Approval == Schema("a" :> "hitl" @@ "b" :> "http" @@ "c" :> "agent",
                   <<If("a", "b", "p"), If("a", "c", "q")>>)
Branch == Schema("a" :> "http" @@ "b" :> "conditional" @@ "c" :> "http",
                 <<Edge("a", "b"), If("b", "c", "p"), Edge("b", "c")>>)
EmptyBranch == Schema("a" :> "http" @@ "b" :> "conditional", <<Edge("a", "b")>>)
Parallel == Schema("a" :> "parallel" @@ "b" :> "http" @@ "c" :> "http",
                   <<Edge("a", "b"), Edge("a", "c")>>)
Unknown == Schema("a" :> "http" @@ "b" :> "cron", <<Edge("a", "b")>>)
Dangling == Schema("a" :> "http" @@ "b" :> "http", <<Edge("a", "b"), Edge("b", "d")>>)

MCWorkflows == Graph3 \cup {Approval, Branch, EmptyBranch, Parallel, Unknown, Dangling}

AddNode(n, type) == [path |-> "nodes", id |-> n, def |-> Def(n, type), edge |-> Edge(n, n)]
AddEdge(edge) == [path |-> "edges", id |-> edge.from, def |-> Def("a", "http"), edge |-> edge]
Other == [path |-> "other", id |-> "a", def |-> Def("a", "http"), edge |-> Edge("a", "a")]

MCEdits == {<<AddNode("d", "http"), AddEdge(Edge("a", "d"))>>,
            <<AddNode("d", "loop"), AddEdge(Edge("c", "d")), AddEdge(If("d", "a", "p"))>>,
            <<AddEdge(If("b", "a", "p"))>>,
            <<AddNode("b", "agent")>>,
            <<AddNode("d", "http"), Other>>}

MCRunPatch == <<AddNode("d", "agent"), AddEdge(Edge("b", "d"))>>

=============================================================================
