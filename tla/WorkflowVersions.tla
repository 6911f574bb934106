-------------------------- MODULE WorkflowVersions --------------------------
(***************************************************************************)
(* The versions of a workflow: artifacts (a DAG, or a patch on top of a    *)
(* DAG), the chain of patches each patch head stands for, the tags that    *)
(* name the current version, the copies frozen for runs, and compaction of *)
(* a chain into a new DAG (orchestrator/handlers/workflow.go,              *)
(* service/workflow.go, artifact.go, tag.go, materializer.go,              *)
(* compaction.go, the first half of service/run.go, and                    *)
(* common/repository/artifact.go and tag.go).                              *)
(*                                                                         *)
(* A request is a sequence of SQL statements, each on its own: nothing is  *)
(* in a transaction, so requests interleave between any two and may stop   *)
(* after any.  Content is kept with the artifact; its foreign key to       *)
(* cas_blob guarantees that the blob is there first.                       *)
(***************************************************************************)
EXTENDS Integers, Sequences, FiniteSets

CONSTANTS
    Slot,         \* requests that are served at the same time
    Tag,          \* (username, tag name) pairs
    Item,         \* nodes and edges, as values
    Workflow,     \* the workflows that are posted
    Patch,        \* the lists of operations that are posted
    CompactDepth, \* threshold of GetCompactionCandidates
    MaxRequests   \* bound on the number of requests

\* A workflow is two arrays; either may be missing from the JSON object.
Array == [has: BOOLEAN, items: Seq(Item)]
WorkflowType == [nodes: Array, edges: Array]

\* path is /<array>/<index>, or <array>/<index> if it is not rooted; End stands
\* for "-".  An operation on any other path, or without one, is an "other".
End == -1
Operation == [op: {"add", "remove", "replace", "other"}, rooted: BOOLEAN,
              array: {"nodes", "edges"}, index: Int, value: Item]

ASSUME VersionsAssumption ==
    /\ Workflow \subseteq WorkflowType /\ Workflow # {}
    /\ Patch \subseteq Seq(Operation)
    /\ CompactDepth \in Nat \ {0}
    /\ MaxRequests \in Nat

VARIABLES
    tag,       \* table tag: what each tag points at
    artifact,  \* table artifact; the id is the position
    chain,     \* table patch_chain_member: the members of each head, by seq
    runs,      \* table run
    req,       \* the request in each slot
    started,   \* requests so far
    born       \* tag rows inserted so far

vars == <<tag, artifact, chain, runs, req, started, born>>

-----------------------------------------------------------------------------
(* JSON patch. *)

InRange(w, o) == w[o.array].has /\ o.index \in 0..(Len(w[o.array].items) - 1)

\* Mutant: an index one past the end is let through.
PatcherAcceptsOnePast(w, o) ==
    \/ o.op = "add" /\ o.rooted /\ o.index = End
    \/ /\ o.op \in {"remove", "replace"}
       /\ w[o.array].has /\ o.index \in 0..Len(w[o.array].items)

\* What the handler's own patcher lets through (WorkflowPatcher): appends,
\* which create a missing array, and removals and replacements by index, which
\* do not need the slash the path starts with.
PatcherAccepts(w, o) ==
    \/ o.op = "add" /\ o.rooted /\ o.index = End
    \/ o.op \in {"remove", "replace"} /\ InRange(w, o)

\* What jsonpatch.Apply lets through: the array must be there, and the path must
\* be a JSON pointer.
LibraryAccepts(w, o) ==
    /\ o.rooted /\ w[o.array].has
    /\ \/ o.op = "add" /\ o.index \in {End} \cup 0..Len(w[o.array].items)
       \/ o.op \in {"remove", "replace"} /\ InRange(w, o)

\* The array after an accepted operation.
Edited(items, o) ==
    CASE o.op = "add" /\ o.index = End -> Append(items, o.value)
      [] o.op = "add" /\ o.index # End ->
            SubSeq(items, 1, o.index) \o <<o.value>> \o SubSeq(items, o.index + 1, Len(items))
      [] o.op = "remove" -> SubSeq(items, 1, o.index) \o SubSeq(items, o.index + 2, Len(items))
      [] OTHER -> [items EXCEPT ![o.index + 1] = o.value]

Edit(w, o) == [w EXCEPT ![o.array] = [has |-> TRUE, items |-> Edited(w[o.array].items, o)]]

Result(w) == [ok |-> TRUE, workflow |-> w]

\* All operations in order; the first that is not accepted fails the patch.
ApplyOperations(result, ops, Accepts(_, _)) ==
    LET after[i \in 0..Len(ops)] ==
            IF i = 0 THEN result
            ELSE LET r == after[i - 1]
                 IN  IF r.ok /\ Accepts(r.workflow, ops[i])
                     THEN Result(Edit(r.workflow, ops[i]))
                     ELSE [r EXCEPT !.ok = FALSE]
    IN  after[Len(ops)]

ApplyJSONPatchToWorkflow(w, ops) == ApplyOperations(Result(w), ops, PatcherAccepts)

applyPatch(result, ops) == ApplyOperations(result, ops, LibraryAccepts)

-----------------------------------------------------------------------------
(* Reading a version. *)

IsDAGVersion(a) == artifact[a].kind = "dag_version"

IsPatchSet(a) == artifact[a].kind = "patch_set"

GetPatchChain(head) == chain[head]

\* Components: the base workflow and the operations of the patches.
loadPatchSetComponents(a, members) ==
    [base |-> artifact[artifact[a].base].workflow,
     patches |-> [i \in DOMAIN members |-> artifact[members[i]].ops]]

\* The tag has already been resolved to artifact a.
GetWorkflowComponents(a) ==
    IF IsDAGVersion(a) THEN [base |-> artifact[a].workflow, patches |-> <<>>]
    ELSE loadPatchSetComponents(a, GetPatchChain(a))

\* Mutant: the patches before seq.
ComponentsBeforeVersion(a, seq) ==
    IF IsDAGVersion(a) THEN [base |-> artifact[a].workflow, patches |-> <<>>]
    ELSE loadPatchSetComponents(a, SubSeq(GetPatchChain(a), 1, seq - 1))

\* GET /workflows/:tag/versions/:seq.  A seq past the end is refused, see
\* VersionExists; seq 0 is the base.
GetWorkflowComponentsAtVersion(a, seq) ==
    IF IsDAGVersion(a) THEN [base |-> artifact[a].workflow, patches |-> <<>>]
    ELSE loadPatchSetComponents(a, SubSeq(GetPatchChain(a), 1, seq))

VersionExists(a, seq) == seq \in 0..(IF IsDAGVersion(a) THEN 1 ELSE Len(GetPatchChain(a)))

\* Each patch in turn on top of the base.
Materialize(c) ==
    LET after[i \in 0..Len(c.patches)] ==
            IF i = 0 THEN Result(c.base) ELSE applyPatch(after[i - 1], c.patches[i])
    IN  after[Len(c.patches)]

\* The answer to a GET: the components and, if it is asked for, the workflow.
\* The counts that come with them are left out; the depth is that of the head,
\* also when an older version is asked for.
WorkflowResponse(c) == [components |-> c, workflow |-> Materialize(c)]

\* GET /workflows/:tag and /workflows/:tag/versions/:seq of a tag that points
\* at a.
GetWorkflow(a) == WorkflowResponse(GetWorkflowComponents(a))

GetWorkflowVersion(a, seq) == WorkflowResponse(GetWorkflowComponentsAtVersion(a, seq))

-----------------------------------------------------------------------------

NoWorkflow == CHOOSE w \in Workflow : TRUE

\* version_hash is the hash of the content, so a workflow stands for both.
\* compacted_from, and the number of patches that were compacted
\* (meta.original_patches), are 0 for a DAG that was posted or frozen.
DAGVersion(w, from, patches) ==
    [kind |-> "dag_version", workflow |-> w, ops |-> <<>>, base |-> 0, depth |-> 0,
     compacted_from |-> from, original_patches |-> patches, on |-> 0, checked |-> 0]

\* on, checked (not columns): the version the patch was put on, and the
\* version it had been validated against.
PatchSet(r) ==
    [kind |-> "patch_set", workflow |-> NoWorkflow, ops |-> r.ops, base |-> r.base,
     depth |-> r.depth, compacted_from |-> 0, original_patches |-> 0,
     on |-> r.target, checked |-> r.checked]

\* target 0: no such row.  row (not a column) tells apart the rows a name has
\* had; version restarts at 1 with each.
NoTag == [target |-> 0, version |-> 0, row |-> 0]

(* Statements on table tag. *)

ExistsTag(t) == tag[t].target # 0

\* UPDATE ... SET target_id, version = version + 1: whatever the tag points at
\* by now, and nothing if there is no row.
UpdateTag(t, a) ==
    LET moved == [target |-> a, version |-> tag[t].version + 1, row |-> tag[t].row]
    IN  tag' = IF ExistsTag(t) THEN [tag EXCEPT ![t] = moved] ELSE tag

InsertTag(t, a) ==
    /\ tag' = [tag EXCEPT ![t] = [target |-> a, version |-> 1, row |-> born + 1]]
    /\ born' = born + 1

RemoveTag(t) == tag' = [tag EXCEPT ![t] = NoTag]

\* GET /workflows.
ListWorkflows == {t \in Tag : ExistsTag(t)}

\* The next statement of a request.
Pc == {"idle", "lookup", "artifact", "resolve", "resolve_run", "validate", "reresolve", "patch",
       "chain", "member", "exists", "move", "create", "materialize", "freeze", "run",
       "readchain", "compact", "migrate"}

\* pc: next statement; tag, workflow, ops: what was asked for; target, row,
\* version: the tag as the request last resolved it; checked: the version the
\* operations were validated against; base, depth: of the new patch; members:
\* the chain that was read; art: the new artifact.
NoRequest ==
    [pc |-> "idle", tag |-> "", workflow |-> NoWorkflow, ops |-> <<>>, target |-> 0, row |-> 0,
     version |-> 0, checked |-> 0, base |-> 0, depth |-> 0, members |-> <<>>, art |-> 0]

\* One workflow has been created and has not been patched yet.
Init ==
    /\ \E t \in Tag, w \in Workflow :
          /\ artifact = <<DAGVersion(w, 0, 0)>>
          /\ tag = [u \in Tag |-> IF u = t THEN [target |-> 1, version |-> 1, row |-> 1]
                                  ELSE NoTag]
    /\ chain = << <<>> >>
    /\ runs = <<>>
    /\ req = [s \in Slot |-> NoRequest]
    /\ started = 0
    /\ born = 1

Start(s, r) ==
    /\ req[s].pc = "idle"
    /\ started < MaxRequests
    /\ started' = started + 1
    /\ req' = [req EXCEPT ![s] = r]
    /\ UNCHANGED <<tag, artifact, chain, runs, born>>

At(s, pc) == req[s].pc = pc

Continue(s, r) == req' = [req EXCEPT ![s] = r] /\ UNCHANGED started

Finish(s) == Continue(s, NoRequest)

\* INSERT INTO artifact; the new row has no members yet.
Create(a) == artifact' = Append(artifact, a) /\ chain' = Append(chain, <<>>)

NewArtifact == Len(artifact) + 1

-----------------------------------------------------------------------------
(* CreateOrMoveTag, the last statements of a POST and of a PATCH. *)

CreateOrMoveTag(s) ==
    /\ At(s, "exists")
    /\ Continue(s, [req[s] EXCEPT !.pc = IF ExistsTag(req[s].tag) THEN "move" ELSE "create"])
    /\ UNCHANGED <<tag, artifact, chain, runs, born>>

\* Mutant: the version is left as it is.
MoveTagSameVersion(s) ==
    /\ At(s, "move")
    /\ tag' = IF ExistsTag(req[s].tag) THEN [tag EXCEPT ![req[s].tag].target = req[s].art] ELSE tag
    /\ Finish(s)
    /\ UNCHANGED <<artifact, chain, runs, born>>

\* No row is an error.
MoveTag(s) ==
    /\ At(s, "move")
    /\ UpdateTag(req[s].tag, req[s].art)
    /\ Finish(s)
    /\ UNCHANGED <<artifact, chain, runs, born>>

\* A row that has come up since is an error, whether the second Exists or the
\* primary key finds it.
CreateTag(s) ==
    /\ At(s, "create")
    /\ \/ ~ExistsTag(req[s].tag) /\ InsertTag(req[s].tag, req[s].art)
       \/ ExistsTag(req[s].tag) /\ UNCHANGED <<tag, born>>
    /\ Finish(s)
    /\ UNCHANGED <<artifact, chain, runs>>

-----------------------------------------------------------------------------
(* POST /workflows. *)

CreateWorkflow(s, t, w) ==
    Start(s, [NoRequest EXCEPT !.pc = "lookup", !.tag = t, !.workflow = w])

\* Any DAG with the same hash is taken, one frozen for a run included.  A lookup
\* that fails is taken for no row.
GetByVersionHash(s) ==
    /\ At(s, "lookup")
    /\ LET same == {a \in DOMAIN artifact : IsDAGVersion(a) /\ artifact[a].workflow = req[s].workflow}
       IN  \/ \E a \in same : Continue(s, [req[s] EXCEPT !.pc = "exists", !.art = a])
           \/ Continue(s, [req[s] EXCEPT !.pc = "artifact"])
    /\ UNCHANGED <<tag, artifact, chain, runs, born>>

CreateDAGVersion(s) ==
    /\ At(s, "artifact")
    /\ Create(DAGVersion(req[s].workflow, 0, 0))
    /\ Continue(s, [req[s] EXCEPT !.pc = "exists", !.art = NewArtifact])
    /\ UNCHANGED <<tag, runs, born>>

-----------------------------------------------------------------------------
(* PATCH /workflows/:tag/patch.  The operations are validated against one   *)
(* read of the tag and stored on top of another.                            *)

\* An empty list is a 400.
PatchWorkflow(s, t, ops) ==
    /\ ops # <<>>
    /\ Start(s, [NoRequest EXCEPT !.pc = "resolve", !.tag = t, !.ops = ops])

Resolved(s) ==
    LET t == tag[req[s].tag]
    IN  [req[s] EXCEPT !.target = t.target, !.row = t.row, !.version = t.version]

\* resolveTagToArtifact: 404 without a row.
ResolveTag(s, pc, next) ==
    /\ At(s, pc)
    /\ IF ExistsTag(req[s].tag) THEN Continue(s, [Resolved(s) EXCEPT !.pc = next]) ELSE Finish(s)
    /\ UNCHANGED <<tag, artifact, chain, runs, born>>

\* The current workflow is materialised and the operations are tried on it.
ValidatePatch(s) ==
    /\ At(s, "validate")
    /\ LET current == Materialize(GetWorkflowComponents(req[s].target))
       IN  IF current.ok /\ ApplyJSONPatchToWorkflow(current.workflow, req[s].ops).ok
           THEN Continue(s, [req[s] EXCEPT !.pc = "reresolve", !.checked = req[s].target])
           ELSE Finish(s)
    /\ UNCHANGED <<tag, artifact, chain, runs, born>>

\* CreatePatch's artifact: on top of the DAG, or of the patch set the tag
\* points at.
CreatePatchArtifact(s) ==
    /\ At(s, "patch")
    /\ LET a == req[s].target
           r == [req[s] EXCEPT !.base = IF IsDAGVersion(a) THEN a ELSE artifact[a].base,
                               !.depth = IF IsDAGVersion(a) THEN 1 ELSE artifact[a].depth + 1]
       IN  /\ Create(PatchSet(r))
           /\ Continue(s, [r EXCEPT !.pc = "chain", !.art = NewArtifact])
    /\ UNCHANGED <<tag, runs, born>>

\* The members of the previous head and the new patch itself.
GetPreviousChain(s) ==
    /\ At(s, "chain")
    /\ LET before == IF IsDAGVersion(req[s].target) THEN <<>> ELSE GetPatchChain(req[s].target)
       IN  Continue(s, [req[s] EXCEPT !.pc = "member", !.members = Append(before, req[s].art)])
    /\ UNCHANGED <<tag, artifact, chain, runs, born>>

\* Mutant: the tag is moved after the first member.
InsertFirstMember(s) ==
    /\ At(s, "member")
    /\ chain' = [chain EXCEPT ![req[s].art] = Append(@, req[s].members[Len(@) + 1])]
    /\ Continue(s, [req[s] EXCEPT !.pc = "exists"])
    /\ UNCHANGED <<tag, artifact, runs, born>>

\* InsertPatchChain: one INSERT per member, in order.
InsertPatchChain(s) ==
    /\ At(s, "member")
    /\ chain' = [chain EXCEPT ![req[s].art] = Append(@, req[s].members[Len(@) + 1])]
    /\ Continue(s, [req[s] EXCEPT !.pc = IF Len(chain[req[s].art]) + 1 = Len(req[s].members)
                                         THEN "exists" ELSE "member"])
    /\ UNCHANGED <<tag, artifact, runs, born>>

-----------------------------------------------------------------------------
(* DELETE /workflows/:tag: the artifacts stay. *)

DeleteWorkflow(t) ==
    /\ started < MaxRequests
    /\ started' = started + 1
    /\ ExistsTag(t)
    /\ RemoveTag(t)
    /\ UNCHANGED <<artifact, chain, runs, req, born>>

-----------------------------------------------------------------------------
(* POST /workflows/:tag/execute, up to the run row; RunLifecycle goes on     *)
(* from there.                                                              *)

CreateRun(s, t) == Start(s, [NoRequest EXCEPT !.pc = "resolve_run", !.tag = t])

\* Mutant: the base is frozen without its patches.
MaterializeBaseForRun(s) ==
    /\ At(s, "materialize")
    /\ LET current == Result(GetWorkflowComponents(req[s].target).base)
       IN  \/ current.ok /\ Continue(s, [req[s] EXCEPT !.pc = "freeze", !.workflow = current.workflow])
           \/ Finish(s)
    /\ UNCHANGED <<tag, artifact, chain, runs, born>>

\* The workflow is materialised; the rate limiter may refuse it.
MaterializeForRun(s) ==
    /\ At(s, "materialize")
    /\ LET current == Materialize(GetWorkflowComponents(req[s].target))
       IN  \/ current.ok /\ Continue(s, [req[s] EXCEPT !.pc = "freeze", !.workflow = current.workflow])
           \/ Finish(s)
    /\ UNCHANGED <<tag, artifact, chain, runs, born>>

\* A new dag_version, even if there is one with the same hash.
FreezeForRun(s) ==
    /\ At(s, "freeze")
    /\ Create(DAGVersion(req[s].workflow, 0, 0))
    /\ Continue(s, [req[s] EXCEPT !.pc = "run", !.art = NewArtifact])
    /\ UNCHANGED <<tag, runs, born>>

\* base_ref; of (not a column): the version that was asked for.
InsertRun(s) ==
    /\ At(s, "run")
    /\ runs' = Append(runs, [base_ref |-> req[s].art, of |-> req[s].target])
    /\ Finish(s)
    /\ UNCHANGED <<tag, artifact, chain, born>>

-----------------------------------------------------------------------------
(* Compaction of a patch set, and the move of a tag to the new base.         *)

\* GetCompactionCandidates lists every patch_set that is deep enough, the
\* heads whose members are still being inserted included.
GetCompactionCandidates == {a \in DOMAIN artifact : IsPatchSet(a) /\ artifact[a].depth >= CompactDepth}

CompactWorkflow(s, t, a) ==
    /\ a \in GetCompactionCandidates
    /\ Start(s, [NoRequest EXCEPT !.pc = "readchain", !.tag = t, !.target = a])

\* The bulk read returns one entry per hash.
GetContentBulk(patches) == {patches[i] : i \in DOMAIN patches}

\* Steps 1 to 6.  A chain with the same operations twice has fewer entries than
\* patches and is refused.
MaterializeChain(s) ==
    /\ At(s, "readchain")
    /\ LET members == GetPatchChain(req[s].target)
           c == loadPatchSetComponents(req[s].target, members)
           result == Materialize(c)
       IN  IF members # <<>> /\ Cardinality(GetContentBulk(c.patches)) = Len(members) /\ result.ok
           THEN Continue(s, [req[s] EXCEPT !.pc = "compact", !.members = members,
                                           !.workflow = result.workflow])
           ELSE Finish(s)
    /\ UNCHANGED <<tag, artifact, chain, runs, born>>

\* Mutant: the base as it was.
CreateSameBase(s) ==
    /\ At(s, "compact")
    /\ Create(DAGVersion(artifact[artifact[req[s].target].base].workflow, req[s].target,
                         Len(req[s].members)))
    /\ Continue(s, [req[s] EXCEPT !.pc = "migrate", !.art = NewArtifact])
    /\ UNCHANGED <<tag, runs, born>>

\* Steps 7 to 9.
CreateCompactedBase(s) ==
    /\ At(s, "compact")
    /\ Create(DAGVersion(req[s].workflow, req[s].target, Len(req[s].members)))
    /\ Continue(s, [req[s] EXCEPT !.pc = "migrate", !.art = NewArtifact])
    /\ UNCHANGED <<tag, runs, born>>

\* MigrateTagToCompactedBase: reads the tag and only needs it to be there;
\* the UPDATE moves it from wherever it is by then.
MigrateTagToCompactedBase(s) ==
    /\ At(s, "migrate")
    /\ IF ExistsTag(req[s].tag) THEN Continue(s, [req[s] EXCEPT !.pc = "move"]) ELSE Finish(s)
    /\ UNCHANGED <<tag, artifact, chain, runs, born>>

-----------------------------------------------------------------------------

\* A statement fails, the client goes away or the process dies: what the
\* request has written so far stays.
Abort(s) ==
    /\ req[s].pc # "idle"
    /\ Finish(s)
    /\ UNCHANGED <<tag, artifact, chain, runs, born>>

Next ==
    \/ \E s \in Slot :
          \/ \E t \in Tag : CreateRun(s, t) \/ \E w \in Workflow : CreateWorkflow(s, t, w)
          \/ \E t \in Tag, ops \in Patch : PatchWorkflow(s, t, ops)
          \/ \E t \in Tag, a \in DOMAIN artifact : CompactWorkflow(s, t, a)
          \/ GetByVersionHash(s)
          \/ CreateDAGVersion(s)
          \/ ResolveTag(s, "resolve", "validate")
          \/ ValidatePatch(s)
          \/ ResolveTag(s, "reresolve", "patch")
          \/ CreatePatchArtifact(s)
          \/ GetPreviousChain(s)
          \/ InsertPatchChain(s)
          \/ CreateOrMoveTag(s)
          \/ MoveTag(s)
          \/ CreateTag(s)
          \/ ResolveTag(s, "resolve_run", "materialize")
          \/ MaterializeForRun(s)
          \/ FreezeForRun(s)
          \/ InsertRun(s)
          \/ MaterializeChain(s)
          \/ CreateCompactedBase(s)
          \/ MigrateTagToCompactedBase(s)
          \/ Abort(s)
    \/ \E t \in Tag : DeleteWorkflow(t)

Spec == Init /\ [][Next]_vars

-----------------------------------------------------------------------------

\* A version whose chain is all there: as long as its depth, ending with
\* itself, every member a patch of the same DAG at its own depth.
Complete(a) ==
    \/ IsDAGVersion(a)
    \/ /\ Len(chain[a]) = artifact[a].depth
       /\ chain[a][artifact[a].depth] = a
       /\ IsDAGVersion(artifact[a].base)
       /\ \A i \in 1..artifact[a].depth :
             LET m == chain[a][i]
             IN  IsPatchSet(m) /\ artifact[m].depth = i /\ artifact[m].base = artifact[a].base

\* A tag never points at a version whose chain is not all there, nor does a
\* request work on one: whatever stops a PATCH between two of its inserts.
TagsComplete ==
    /\ \A t \in ListWorkflows : Complete(tag[t].target)
    /\ \A s \in Slot : req[s].pc \in {"validate", "patch", "chain", "materialize"} =>
          Complete(req[s].target)

\* Version k of a workflow is what its tag showed right after the k-th patch,
\* however many patches, on whatever tag, came after.
VersionsStable ==
    \A a \in DOMAIN artifact : IsPatchSet(a) /\ Complete(a) =>
        \A k \in 1..artifact[a].depth :
            /\ VersionExists(a, k)
            /\ GetWorkflowVersion(a, k) = GetWorkflow(chain[a][k])

Rooted(ops) == \A i \in DOMAIN ops : ops[i].rooted

\* A version can be materialised if its last patch was validated against the
\* version it was put on, its paths are JSON pointers and the DAG has both arrays:
\* there the handler's patcher and the JSON patch library agree, and elsewhere
\* they may not.  Nothing is asked of the patches before it: a version that cannot
\* be materialised is never patched.
ReadableIfValidated ==
    \A a \in DOMAIN artifact :
        /\ IsPatchSet(a) /\ Complete(a)
        /\ artifact[a].on = artifact[a].checked
        /\ Rooted(artifact[a].ops)
        /\ artifact[artifact[a].base].workflow.nodes.has
        /\ artifact[artifact[a].base].workflow.edges.has
        => GetWorkflow(a).workflow.ok

MaterializesTo(a, w) ==
    LET result == GetWorkflow(a).workflow IN result.ok /\ result.workflow = w

\* A compacted base is the workflow its patch set stood for, if all of the
\* chain was there to be compacted, which its meta tells.
CompactedIsSame ==
    \A b \in DOMAIN artifact :
        LET p == artifact[b].compacted_from
        IN  p # 0 /\ artifact[b].original_patches = artifact[p].depth =>
                Complete(p) /\ MaterializesTo(p, artifact[b].workflow)

\* The workflow a run starts from is a version the tag pointed at during the
\* request, whole, whatever happens to the tag and to the version later.
RunFrozen ==
    \A i \in DOMAIN runs :
        /\ IsDAGVersion(runs[i].base_ref)
        /\ MaterializesTo(runs[i].of, artifact[runs[i].base_ref].workflow)

\* A patch is lost only to another move of the tag: if the row and version the
\* PATCH resolved are still the tag's when it moves it, the new version is the
\* tag's version and the patch.
MoveExtends ==
    [][\A s \in Slot :
          LET t == req[s].tag
              old == tag[t].target
              new == tag'[t].target
          IN  /\ req[s].pc = "move" /\ req[s].ops # <<>> /\ tag' # tag
              /\ tag'[t].target = req[s].art
              /\ req'[s].pc = "idle"
              /\ tag[t].row = req[s].row /\ tag[t].version = req[s].version
              => /\ chain[new] = Append(chain[old], new)
                 /\ artifact[new].base = IF IsDAGVersion(old) THEN old ELSE artifact[old].base
      ]_vars

=============================================================================
