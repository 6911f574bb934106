----------------------------- MODULE RunEditing -----------------------------
(***************************************************************************)
(* How the IR of a run comes about and is edited: the run starter compiles *)
(* the frozen workflow, POST /runs/:id/patch turns the IR back into a      *)
(* workflow, appends nodes and edges and compiles that                     *)
(* (orchestrator/handlers/run.go, PatchRun), and the coordinator's reload  *)
(* compiles the frozen workflow again with the patches of the agents.      *)
(* A compilation can fail at a node, at an edge, in validate, or in the    *)
(* cycle check, which is module CycleCheck.                                *)
(*                                                                         *)
(* PatchRun reads the IR, compiles, and changes it with a plain SET: one is *)
(* in progress at a time here, and reloads write in between.               *)
(***************************************************************************)
EXTENDS Compiler, CycleCheck

CONSTANTS
    Cond,        \* conditions of edges
    Workflows,   \* the workflows of runs
    Edits,       \* the operation lists posted to /runs/:id/patch
    RunPatch,    \* the operations of the run's recorded patches
    UnknownType, \* types of nodes that the compiler does not know
    MaxChanges   \* bound on the edits and reloads

ControlType == {"conditional", "loop", "parallel"}

\* A workflow, and an operation of a patch; def and edge are what it adds.
WorkflowNode == [type: ControlType \cup NodeType \cup UnknownType, loop: LoopConfig]

EdgeType == [from: Node, to: Node, cond: Cond \cup {""}]

IsSchema(w) ==
    /\ DOMAIN w.nodes \subseteq Node
    /\ \A n \in DOMAIN w.nodes : w.nodes[n] \in WorkflowNode
    /\ w.edges \in Seq(EdgeType)

EditType == [path: {"nodes", "edges", "other"}, id: Node, def: WorkflowNode, edge: EdgeType]

ASSUME EditingAssumption ==
    /\ IsFiniteSet(Node) /\ IsFiniteSet(Cond)
    /\ \A w \in Workflows : IsSchema(w)
    /\ Edits \subseteq Seq(EditType)
    /\ RunPatch \in Seq(EditType)
    /\ MaxChanges \in Nat

VARIABLES
    base,   \* the frozen workflow of the run
    ir,     \* key ir:<run>
    job,    \* the compilation in progress
    changes  \* edits and reloads so far

vars == <<base, ir, job, changes, graph, loops, visited, recStack, left, verdict>>

-----------------------------------------------------------------------------
(* Compilation.  Besides what module Compiler keeps of a node, the          *)
(* conditions of its branch: rules, one next-node list per condition, and   *)
(* default.                                                                 *)

HasBranchConfig(schema, n) == convertWorkflowNode(schema, n).branch # {}

Conditions(schema, n) == {e.cond : e \in Range(EdgesFrom(schema, n))} \ {""}

NextNodes(schema, n, c) == Targets(WithCondition(EdgesFrom(schema, n), c))

NoRules == [c \in {} |-> <<>>]

Compiled(schema) ==
    LET nodes == CompileWorkflowSchema(schema)
    IN  [n \in DOMAIN nodes |->
            [node |-> nodes[n],
             rules |-> IF HasBranchConfig(schema, n)
                       THEN [c \in Conditions(schema, n) |-> NextNodes(schema, n, c)] ELSE NoRules,
             default |-> IF HasBranchConfig(schema, n) THEN NextNodes(schema, n, "") ELSE <<>>]]

isValidExecutableType(type) == type \in ExecutableType

\* createLoopConfig has no error: the number of iterations is valid.  Every
\* loop here has a loop_back_to.
HasLoopConfig(w) == w.loop.max > 0

\* Mutant: any type is let through.
ConvertsAnyType(w) == w.type = "loop" => HasLoopConfig(w)

\* convertWorkflowNode has no error.
Converts(w) ==
    /\ w.type \in ControlType \/ isValidExecutableType(w.type)
    /\ w.type = "loop" => HasLoopConfig(w)

\* Every edge is between nodes of the schema.
EdgesExist(schema) ==
    \A e \in Range(schema.edges) : {e.from, e.to} \subseteq DOMAIN schema.nodes

\* Mutant: no check for an entry node.
ValidWithoutEntry(new) ==
    /\ \E n \in DOMAIN new : new[n].node.isTerminal
    /\ \A n \in DOMAIN new : HasLoop(new[n].node) => new[n].node.loop.back \in DOMAIN new
    /\ \A n \in DOMAIN new : HasBranch(new[n].node) => new[n].rules # NoRules \/ new[n].default # <<>>

\* validate, steps 1 to 4.
validate(new) ==
    /\ \E n \in DOMAIN new : new[n].node.isTerminal
    /\ \E n \in DOMAIN new : new[n].node.dependencies = {}
    /\ \A n \in DOMAIN new : HasLoop(new[n].node) => new[n].node.loop.back \in DOMAIN new
    /\ \A n \in DOMAIN new : HasBranch(new[n].node) => new[n].rules # NoRules \/ new[n].default # <<>>

Dependents(new) == [n \in DOMAIN new |-> Range(new[n].node.dependents)]

Loops(new) == {n \in DOMAIN new : HasLoop(new[n].node)}

\* Every cycle goes through a loop node.
CyclesLoop(new) ==
    {S \in SUBSET (DOMAIN new \ Loops(new)) : S # {} /\ \A u \in S : Dependents(new)[u] \cap S # {}} = {}

-----------------------------------------------------------------------------
(* PatchRun. *)

\* The members of a set as a list.  They come out of a Go map, in an order that
\* nothing depends on.
AnyOrder(S) == CHOOSE f \in [1..Cardinality(S) -> S] : IsInjective(f)

\* Lists one after the other.
Concat(lists) ==
    LET upTo[i \in 0..Len(lists)] == IF i = 0 THEN <<>> ELSE upTo[i - 1] \o lists[i]
    IN  upTo[Len(lists)]

EdgesOf(n, targets, c) == [i \in DOMAIN targets |-> [from |-> n, to |-> targets[i], cond |-> c]]

\* The edges of node n: its dependents, which are the targets of its rules and
\* of its default too, and then those targets again with their conditions.
EdgesFromIR(old, n) ==
    EdgesOf(n, old[n].node.dependents, "")
    \o Concat(AnyOrder({EdgesOf(n, old[n].rules[c], c) : c \in DOMAIN old[n].rules}))
    \o EdgesOf(n, old[n].default, "")

\* Mutant: the branches are not written back.
irToWorkflowSchemaPlain(old) ==
    [nodes |-> [n \in DOMAIN old |->
        [type |-> IF HasBranch(old[n].node) THEN "conditional" ELSE old[n].node.type,
         loop |-> NoLoop(n)]],
     edges |-> Concat(AnyOrder({EdgesOf(n, old[n].node.dependents, "") : n \in DOMAIN old}))]

\* A loop's max_iterations comes back as an int, which createLoopConfig's
\* assertion to float64 does not take: no valid number.  The IR's metadata, the
\* username and the tag, does not come back at all; it is left out of the model.
irToWorkflowSchema(old) ==
    [nodes |-> [n \in DOMAIN old |->
        [type |-> CASE HasBranch(old[n].node) -> "conditional"
                    [] HasLoop(old[n].node) -> "loop"
                    [] OTHER -> old[n].node.type,
         loop |-> NoLoop(n)]],
     edges |-> Concat(AnyOrder({EdgesFromIR(old, n) : n \in DOMAIN old}))]

\* Only additions of nodes and edges are implemented.
Supported(ops) == \A i \in DOMAIN ops : ops[i].path \in {"nodes", "edges"}

AddedNodes(ops) == {i \in DOMAIN ops : ops[i].path = "nodes"}

AddedEdges(ops) ==
    LET added == Only(ops, {o \in Range(ops) : o.path = "edges"})
    IN  [i \in DOMAIN added |-> added[i].edge]

\* A node with an id that is there already takes its place when the nodes are
\* put into a map; the last one stays.
applyPatch(schema, ops) ==
    [nodes |-> [n \in DOMAIN schema.nodes \cup {ops[i].id : i \in AddedNodes(ops)} |->
                   LET here == {i \in AddedNodes(ops) : ops[i].id = n}
                   IN  IF here = {} THEN schema.nodes[n] ELSE ops[Max(here)].def],
     edges |-> schema.edges \o AddedEdges(ops)]

\* All of the compilation of a workflow with additions but the cycle check.
\* A node whose place is taken has to convert as well.
Compiles(schema, ops) ==
    LET patched == applyPatch(schema, ops)
    IN  /\ \A n \in DOMAIN schema.nodes : Converts(schema.nodes[n])
        /\ \A i \in AddedNodes(ops) : Converts(ops[i].def)
        /\ EdgesExist(patched)
        /\ validate(Compiled(patched))

-----------------------------------------------------------------------------

NoIR == [n \in {} |-> {}]

\* kind: "start" or "patch"; read, ops: the IR a PatchRun works on and its
\* operations; new: the IR that is being checked.
NoJob == [kind |-> "none", read |-> NoIR, ops |-> <<>>, new |-> NoIR]

Init ==
    /\ base \in Workflows
    /\ ir = NoIR
    /\ job = NoJob
    /\ changes = 0
    /\ CheckInit

\* CompileWorkflowSchema up to the cycle check; an error changes nothing.
Compile(schema, ops, kind) ==
    LET new == Compiled(applyPatch(schema, ops))
    IN  IF Compiles(schema, ops)
        THEN /\ job' = [kind |-> kind, read |-> ir, ops |-> ops, new |-> new]
             /\ Begin(Dependents(new), Loops(new))
        ELSE UNCHANGED <<job, cvars>>

\* The run starter compiles the workflow, once: run:started keeps a second one
\* out.  An error leaves the run without IR.
StartRun ==
    /\ job = NoJob /\ ir = NoIR /\ verdict = "none"
    /\ Compile(base, <<>>, "start")
    /\ UNCHANGED <<base, ir, changes>>

\* POST /runs/:id/patch: 404 without an IR, 400 if the operations or the
\* workflow with them are refused.
PatchRun(ops) ==
    /\ job = NoJob /\ ir # NoIR
    /\ changes < MaxChanges
    /\ Supported(ops)
    /\ Compile(irToWorkflowSchema(ir), ops, "patch")
    /\ changes' = changes + 1
    /\ UNCHANGED <<base, ir>>

Check ==
    /\ job # NoJob
    /\ Search
    /\ UNCHANGED <<base, ir, job, changes>>

\* SET ir:<run>.
SetIR ==
    /\ job # NoJob /\ verdict = "acyclic"
    /\ ir' = job.new
    /\ job' = NoJob
    /\ UNCHANGED <<base, changes, cvars>>

\* A SET that fails: the request is answered 500, the run starter returns.
SetIRFails ==
    /\ job # NoJob /\ verdict = "acyclic"
    /\ job' = NoJob
    /\ UNCHANGED <<base, ir, changes, cvars>>

RefuseCycle ==
    /\ job # NoJob /\ verdict = "cyclic"
    /\ job' = NoJob
    /\ UNCHANGED <<base, ir, changes, cvars>>

\* reloadIRIfPatched: the frozen workflow with the recorded patches is compiled
\* and stored, whatever the IR has become.  What can pass the cycle check is
\* what module CycleCheck shows of it.
ReloadIR ==
    LET new == Compiled(applyPatch(base, RunPatch))
    IN  /\ ir # NoIR
        /\ changes < MaxChanges
        /\ IF Compiles(base, RunPatch) THEN CyclesLoop(new) ELSE FALSE
        /\ ir' = new
        /\ changes' = changes + 1
        /\ UNCHANGED <<base, job, cvars>>

Next ==
    \/ StartRun
    \/ \E ops \in Edits : PatchRun(ops)
    \/ Check
    \/ SetIR
    \/ SetIRFails
    \/ RefuseCycle
    \/ ReloadIR

Spec == Init /\ [][Next]_vars

\* A compilation is straight-line code in one goroutine.
FairSpec == Spec /\ WF_vars(Check) /\ WF_vars(SetIR) /\ WF_vars(RefuseCycle)

-----------------------------------------------------------------------------

IsIR(x) ==
    /\ DOMAIN x \subseteq Node
    /\ \A n \in DOMAIN x :
          /\ x[n].node \in NodeDef
          /\ DOMAIN x[n].rules \subseteq Cond
          /\ \A c \in DOMAIN x[n].rules : x[n].rules[c] \in Seq(Node)
          /\ x[n].default \in Seq(Node)

\* The IR, the one being compiled and the state of the cycle check hold what
\* their types say.
TypeOK ==
    /\ base \in Workflows
    /\ IsIR(ir) /\ IsIR(job.new)
    /\ changes \in 0..MaxChanges
    /\ CheckTypeOK

\* Whoever wrote the IR of a run, and after however many edits: there is a node
\* to start with and one to end with; every dependent, every target of a branch
\* and every loop_back_to is a node; each node's dependencies are the nodes it is a
\* dependent of; the dependents of a branch are its targets; and a cycle goes
\* through a loop.  Only the targets of a loop's break and timeout paths may be
\* missing: validate does not look at them.
IRWellFormed ==
    ir # NoIR =>
        /\ findEntryNodes([n \in DOMAIN ir |-> ir[n].node]) # {}
        /\ \E n \in DOMAIN ir : ir[n].node.isTerminal
        /\ \A n \in DOMAIN ir :
              /\ Dependents(ir)[n] \subseteq DOMAIN ir
              /\ HasLoop(ir[n].node) => ir[n].node.loop.back \in DOMAIN ir
              /\ \A m \in DOMAIN ir : n \in ir[m].node.dependencies <=> m \in Dependents(ir)[n]
              /\ HasBranch(ir[n].node) =>
                    Dependents(ir)[n] = UNION {Range(next) : next \in ir[n].node.branch}
        /\ CyclesLoop(ir)

\* The targets that a PatchRun's operations add to node n.
AddedTargets(ops, n) == {e.to : e \in {e \in Range(AddedEdges(ops)) : e.from = n}}

\* As far as nodes and edges go, a PatchRun only adds to the IR it read: the nodes
\* it does not define keep their dependents and the nodes of their rules and of
\* their default; a node without branch keeps its type.
EditKeeps ==
    [][ir' # ir /\ job.kind = "patch" /\ job'.kind = "none" =>
          \A n \in DOMAIN job.read \ {job.ops[i].id : i \in AddedNodes(job.ops)} :
              LET old == job.read[n]
                  new == ir'[n]
              IN  /\ Dependents(ir')[n] = Dependents(job.read)[n] \cup AddedTargets(job.ops, n)
                  /\ ~HasBranch(old.node) => new.node.type = old.node.type
                  /\ \A c \in DOMAIN old.rules :
                        c \in DOMAIN new.rules /\ Range(old.rules[c]) \subseteq Range(new.rules[c])
                  /\ Range(old.default) \subseteq Range(new.default)
      ]_vars

\* A compilation ends, with a new IR or a refusal.
CompilationEnds == (job # NoJob) ~> (job = NoJob)

=============================================================================
