----------------------------- MODULE WorkflowIR -----------------------------
(***************************************************************************)
(* The intermediate representation a run executes (common/sdk/types.go):   *)
(* a map from node id to compiled node, and the predicates on compiled     *)
(* nodes that the coordinator and the run starter branch on.               *)
(*                                                                         *)
(* A condition (CEL expression) is abstracted to "may hold or not": a      *)
(* branch is the set of node lists it can return, a loop keeps only        *)
(* whether it has a condition.                                             *)
(***************************************************************************)
EXTENDS Naturals, Sequences

CONSTANT Node    \* node ids

\* Types of compiled nodes; the compiler maps conditional, loop and parallel
\* nodes to "task".
ExecutableType == {"hitl", "http", "agent", "function", "transform", "aggregate", "filter"}
NodeType == ExecutableType \cup {"task"}

\* max = 0 stands for the nil *LoopConfig: the compiler rejects max <= 0.
LoopConfig ==
    [max: Nat, condition: BOOLEAN, back: Node, break: Seq(Node), timeout: Seq(Node)]

\* The next-node lists of the rules and of the default; {} is the nil pointer.
BranchConfig == SUBSET Seq(Node)

NodeDef ==
    [type: NodeType, dependencies: SUBSET Node, dependents: Seq(Node),
     branch: BranchConfig, loop: LoopConfig, isTerminal: BOOLEAN]

HasLoop(d) == d.loop.max > 0

HasBranch(d) == d.branch # {}

\* A branch or loop node that the coordinator evaluates itself.
IsAbsorber(d) == (HasBranch(d) \/ HasLoop(d)) /\ d.type \notin ExecutableType

\* Types some worker consumes the stream of.
SupportedType == {"http", "agent", "hitl"}

findEntryNodes(ir) == {n \in DOMAIN ir : ir[n].dependencies = {}}

=============================================================================
