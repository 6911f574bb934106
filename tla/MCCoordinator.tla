--------------------------- MODULE MCCoordinator ---------------------------
(***************************************************************************)
(* The workflows the runs of Coordinator execute.  Each is a schema that   *)
(* the compiler accepts, compiled by the model of the compiler.            *)
(***************************************************************************)
EXTENDS Coordinator, Compiler, TLC

MCNode == {"a", "b", "c", "d", "x", "y", "gone"}

Edge(from, to) == [from |-> from, to |-> to, cond |-> ""]
If(from, to, cond) == [from |-> from, to |-> to, cond |-> cond]

\* Nodes given as a function to their type; loops are added with WithLoop.
Schema(types, edges) ==
    [nodes |-> [n \in DOMAIN types |-> [type |-> types[n], loop |-> NoLoop(n)]],
     edges |-> edges]

WithLoop(schema, n, loop) == [schema EXCEPT !.nodes[n].loop = loop]

All(N, type) == [n \in N |-> type]

Chain  == Schema(All({"a", "b"}, "http"), <<Edge("a", "b")>>)
FanOut == Schema(All({"a", "b", "c"}, "http"), <<Edge("a", "b"), Edge("a", "c")>>)
\* Two entries; one branch of the run is longer than the other.
Uneven == Schema(All({"a", "b", "c"}, "http"), <<Edge("b", "c")>>)
Diamond == Schema(All({"a", "b", "c", "d"}, "http"),
                  <<Edge("a", "b"), Edge("a", "c"), Edge("b", "d"), Edge("c", "d")>>)
Branch == Schema(All({"a", "b", "c"}, "http") @@ "x" :> "conditional",
                 <<Edge("a", "x"), If("x", "b", "p"), Edge("x", "c")>>)
\* An approval with two outcomes: a worker node that branches.
Approval == Schema(All({"b", "c"}, "http") @@ "a" :> "hitl",
                   <<If("a", "b", "approved"), If("a", "c", "rejected")>>)
\* A function node between two http nodes has no worker.
Skip == Schema(All({"a", "b"}, "http") @@ "c" :> "function",
               <<Edge("a", "c"), Edge("c", "b")>>)
NestedBranch == Schema(All({"a", "b"}, "http") @@ All({"x", "y"}, "conditional"),
                       <<Edge("a", "x"), Edge("x", "y"), Edge("y", "b")>>)
\* a is repeated until the loop x breaks to b; the timeout path names a node
\* that the schema does not have, which the compiler does not notice.
Loop == WithLoop(Schema(All({"a", "b"}, "http") @@ "x" :> "loop",
                        <<Edge("a", "x"), Edge("x", "b")>>),
                 "x", [max |-> 3, condition |-> TRUE, back |-> "a",
                       break |-> <<"b">>, timeout |-> <<"b", "gone">>])
\* The same loop, left after one repetition, with nothing behind it.
ShortLoop == WithLoop(Schema("a" :> "http" @@ "x" :> "loop", <<Edge("a", "x")>>),
                      "x", [max |-> 2, condition |-> TRUE, back |-> "a",
                            break |-> <<>>, timeout |-> <<>>])
\* An entry node of a type no worker serves.
FunctionEntry == Schema("a" :> "function" @@ "b" :> "http", <<Edge("a", "b")>>)

One(schema) == <<CompileWorkflowSchema(schema)>>

\* The agent a, then b; each may add a node after itself.
AgentChain ==
    LET T == "a" :> "agent" @@ "b" :> "agent"
    IN  <<CompileWorkflowSchema(Schema(T, <<Edge("a", "b")>>)),
          CompileWorkflowSchema(Schema(T @@ "c" :> "http", <<Edge("a", "b"), Edge("a", "c")>>)),
          CompileWorkflowSchema(Schema(T @@ All({"c", "d"}, "http"),
                                       <<Edge("a", "b"), Edge("a", "c"), Edge("b", "d")>>))>>

\* One agent, which may add a node after itself.
LoneAgent ==
    <<CompileWorkflowSchema(Schema("a" :> "agent", <<>>)),
      CompileWorkflowSchema(Schema("a" :> "agent" @@ "b" :> "http", <<Edge("a", "b")>>))>>

GraphWorkflows ==
    [chain |-> One(Chain), fanout |-> One(FanOut), uneven |-> One(Uneven),
     branch |-> One(Branch), approval |-> One(Approval), skip |-> One(Skip),
     diamond |-> One(Diamond), nested |-> One(NestedBranch), loop |-> One(Loop),
     agents |-> AgentChain]

FaultWorkflows ==
    [chain |-> One(Chain), uneven |-> One(Uneven), branch |-> One(Branch), skip |-> One(Skip),
     entry |-> One(FunctionEntry), agent |-> LoneAgent, loop |-> One(ShortLoop)]

UnevenOnly == [uneven |-> One(Uneven)]
DiamondOnly == [diamond |-> One(Diamond)]

=============================================================================
