----------------------------- MODULE RunPatches -----------------------------
(***************************************************************************)
(* The patches of one run.  Agents POST them to the orchestrator           *)
(* (agent-runner-py/workflow/patch_client.py, orchestrator/handlers/       *)
(* run_patch.go, service/run_patch.go); the coordinator lists them and     *)
(* compiles them into the run's IR (workflow-runner/coordinator/           *)
(* patch_loader.go through common/clients/orchestrator.go).                *)
(*                                                                         *)
(* A POST is five statements on three tables with no transaction around    *)
(* them, so POSTs interleave between any two.  The only thing that orders  *)
(* them is the unique index on (run_id, seq).                              *)
(***************************************************************************)
EXTENDS Integers, Sequences, FiniteSetsExt

CONSTANTS
    Poster,      \* POST requests, each with its client
    Reader,      \* coordinator goroutines that reload the IR
    Content,     \* the operation lists that are posted
    FaultKinds,  \* the kinds of fault that may happen
    MaxFaults    \* bound on their number

OpType == {"add", "remove", "replace"}
PathType == {"/nodes/-", "/edges/-", "other"}
Operation == [op: OpType, path: PathType]

ASSUME ContentAssumption == Content \subseteq Seq(Operation)

ASSUME PatchFaultsAssumption == FaultKinds \subseteq {"error", "timeout"} /\ MaxFaults \in Nat

VARIABLES
    cas,       \* table cas_blob: a content hash stands for its content
    artifact,  \* table artifact, the rows of this run's patches; the id is the position
    rows,      \* table run_patches, the rows of this run
    post,      \* the POST requests
    reload,    \* the coordinator's reloads
    ir,        \* key ir:<run>: the patches compiled into it, in order
    faults     \* faults so far

vars == <<cas, artifact, rows, post, reload, ir, faults>>

-----------------------------------------------------------------------------

\* pc: next statement of the request; seq, art: its local variables; failed:
\* the insert was applied but reported an error; reply: what the client got.
PostPc == {"idle", "seq", "store", "artifact", "insert", "stored", "refused"}
Post == [pc: PostPc, ops: Content \cup {<<>>}, seq: Nat, art: Nat, failed: BOOLEAN,
         reply: {"none", "ok", "error"}]

Row == [seq: Nat \ {0}, art: Nat \ {0}]

Artifact == [cas: Content, depth: Nat \ {0}]

\* acked: the posts whose clients had been answered "ok" when the reload began.
Reload == [pc: {"idle", "listed", "compiled"}, view: Seq(Content), acked: SUBSET Poster]

NoReload == [pc |-> "idle", view |-> <<>>, acked |-> {}]

Seqs == {r.seq : r \in rows}

\* SELECT ... JOIN artifact ... ORDER BY seq, and one GET per patch for its
\* operations.  Blobs and artifacts never change, so it does not matter when
\* the operations are read.
GetRunPatchesWithOperations ==
    [i \in Seqs |-> artifact[(CHOOSE r \in rows : r.seq = i).art].cas]

\* Every operation is one applyOperation knows how to apply: an append to the
\* nodes or to the edges.  The first other one fails the whole reload.
Applies(ops) ==
    \A i \in DOMAIN ops : ops[i].op = "add" /\ ops[i].path \in {"/nodes/-", "/edges/-"}

MaterializeWorkflowForRun(patches) == \A i \in DOMAIN patches : Applies(patches[i])

Fault(kind) == kind \in FaultKinds /\ faults < MaxFaults /\ faults' = faults + 1

NoFault == UNCHANGED faults

Init ==
    /\ cas = {}
    /\ artifact = <<>>
    /\ rows = {}
    /\ post = [p \in Poster |-> [pc |-> "idle", ops |-> <<>>, seq |-> 0, art |-> 0,
                                 failed |-> FALSE, reply |-> "none"]]
    /\ reload = [r \in Reader |-> NoReload]
    /\ ir = <<>>
    /\ faults = 0

-----------------------------------------------------------------------------
(* POST /runs/:run_id/patches. *)

\* The client sends its operations.  An empty list is a 400.
apply_run_patch(p, ops) ==
    /\ post[p].pc = "idle"
    /\ post' = [post EXCEPT ![p].ops = ops,
                            ![p].pc = IF ops = <<>> THEN "refused" ELSE "seq"]
    /\ UNCHANGED <<cas, artifact, rows, reload, ir, faults>>

\* SELECT COALESCE(MAX(seq), 0) + 1, after the run row has been found.
GetNextSeq(p) ==
    /\ post[p].pc = "seq"
    /\ post' = [post EXCEPT ![p].pc = "store", ![p].seq = Max(Seqs \cup {0}) + 1]
    /\ UNCHANGED <<cas, artifact, rows, reload, ir, faults>>

\* INSERT INTO cas_blob ... ON CONFLICT DO NOTHING.
StoreContent(p) ==
    /\ post[p].pc = "store"
    /\ cas' = cas \cup {post[p].ops}
    /\ post' = [post EXCEPT ![p].pc = "artifact"]
    /\ UNCHANGED <<artifact, rows, reload, ir, faults>>

NewArtifact(p) == [cas |-> post[p].ops, depth |-> post[p].seq]

CreateArtifact(p) ==
    /\ post[p].pc = "artifact"
    /\ artifact' = Append(artifact, NewArtifact(p))
    /\ post' = [post EXCEPT ![p].pc = "insert", ![p].art = Len(artifact) + 1]
    /\ UNCHANGED <<cas, rows, reload, ir, faults>>

NewRow(p) == [seq |-> post[p].seq, art |-> post[p].art]

\* Mutant: ON CONFLICT DO UPDATE.
InsertRowReplacing(p) ==
    /\ post[p].pc = "insert"
    /\ rows' = {r \in rows : r.seq # post[p].seq} \cup {NewRow(p)}
    /\ post' = [post EXCEPT ![p].pc = "stored"]
    /\ UNCHANGED <<cas, artifact, reload, ir, faults>>

\* INSERT INTO run_patches.  Another POST may have taken the number since it
\* was read: the unique index refuses the row, the artifact stays behind.
InsertRow(p) ==
    /\ post[p].pc = "insert"
    /\ \/ /\ post[p].seq \notin Seqs
          /\ rows' = rows \cup {NewRow(p)}
          /\ post' = [post EXCEPT ![p].pc = "stored"]
       \/ /\ post[p].seq \in Seqs
          /\ post' = [post EXCEPT ![p].pc = "refused"]
          /\ UNCHANGED rows
    /\ UNCHANGED <<cas, artifact, reload, ir, faults>>

\* A statement can fail: the database reports an error, or the client has
\* gone and its context is cancelled.  Its effect may have been applied.
StatementFails(p) ==
    /\ post[p].pc \in {"seq", "store", "artifact", "insert"}
    /\ \/ Fault("error")
       \/ post[p].reply = "error" /\ NoFault
    /\ \/ /\ post' = [post EXCEPT ![p].pc = "refused"]
          /\ UNCHANGED <<cas, artifact, rows>>
       \/ /\ post[p].pc = "store"
          /\ post' = [post EXCEPT ![p].pc = "refused"]
          /\ cas' = cas \cup {post[p].ops}
          /\ UNCHANGED <<artifact, rows>>
       \/ /\ post[p].pc = "artifact"
          /\ post' = [post EXCEPT ![p].pc = "refused"]
          /\ artifact' = Append(artifact, NewArtifact(p))
          /\ UNCHANGED <<cas, rows>>
       \/ /\ post[p].pc = "insert" /\ post[p].seq \notin Seqs
          /\ post' = [post EXCEPT ![p].pc = "stored", ![p].failed = TRUE]
          /\ rows' = rows \cup {NewRow(p)}
          /\ UNCHANGED <<cas, artifact>>
    /\ UNCHANGED <<reload, ir>>

\* 201 or an error.
Reply(p) ==
    /\ post[p].pc \in {"stored", "refused"}
    /\ post[p].reply = "none"
    /\ post' = [post EXCEPT ![p].reply =
                   IF post[p].pc = "stored" /\ ~post[p].failed THEN "ok" ELSE "error"]
    /\ UNCHANGED <<cas, artifact, rows, reload, ir, faults>>

\* The client waits 30 s and never sends the patch again.
ClientTimeout(p) ==
    /\ post[p].pc # "idle"
    /\ post[p].reply = "none"
    /\ Fault("timeout")
    /\ post' = [post EXCEPT ![p].reply = "error"]
    /\ UNCHANGED <<cas, artifact, rows, reload, ir>>

-----------------------------------------------------------------------------
(* reloadIRIfPatched, after an agent node has completed. *)

\* The first list only tells whether there is any patch; without one the IR
\* stays as it is.
ListPatches(r) ==
    /\ reload[r].pc = "idle"
    /\ rows # {}
    /\ reload' = [reload EXCEPT ![r] =
          [pc |-> "listed", view |-> GetRunPatchesWithOperations,
           acked |-> {p \in Poster : post[p].reply = "ok"}]]
    /\ UNCHANGED <<cas, artifact, rows, post, ir, faults>>

\* Mutant: the IR, once it has patches, is taken for the patched workflow.
MaterializeCached(r) ==
    /\ reload[r].pc = "listed"
    /\ LET view == IF ir # <<>> THEN ir ELSE GetRunPatchesWithOperations
       IN  /\ MaterializeWorkflowForRun(view)
           /\ reload' = [reload EXCEPT ![r].view = view, ![r].pc = "compiled"]
    /\ UNCHANGED <<cas, artifact, rows, post, ir, faults>>

\* The patches are listed again and applied to the run's base workflow, which
\* never changes; the compiler may still refuse the result.
Materialize(r) ==
    /\ reload[r].pc = "listed"
    /\ LET view == GetRunPatchesWithOperations
       IN  \/ /\ MaterializeWorkflowForRun(view)
              /\ reload' = [reload EXCEPT ![r].view = view, ![r].pc = "compiled"]
           \/ reload' = [reload EXCEPT ![r] = NoReload]
    /\ UNCHANGED <<cas, artifact, rows, post, ir, faults>>

\* The list, or one of the GETs before the SET, fails.
ReloadFails(r) ==
    /\ reload[r].pc # "idle"
    /\ Fault("error")
    /\ reload' = [reload EXCEPT ![r] = NoReload]
    /\ UNCHANGED <<cas, artifact, rows, post, ir>>

\* SET ir:<run>, whatever is there.
StoreIR(r) ==
    /\ reload[r].pc = "compiled"
    /\ ir' = reload[r].view
    /\ reload' = [reload EXCEPT ![r] = NoReload]
    /\ UNCHANGED <<cas, artifact, rows, post, faults>>

-----------------------------------------------------------------------------

Next ==
    \/ \E p \in Poster :
          \/ \E ops \in Content : apply_run_patch(p, ops)
          \/ GetNextSeq(p)
          \/ StoreContent(p)
          \/ CreateArtifact(p)
          \/ InsertRow(p)
          \/ Reply(p)
          \/ StatementFails(p)
          \/ ClientTimeout(p)
    \/ \E r \in Reader : ListPatches(r) \/ Materialize(r) \/ StoreIR(r) \/ ReloadFails(r)

Spec == Init /\ [][Next]_vars

-----------------------------------------------------------------------------

\* The tables, the requests in flight and the IR hold what their types say.
TypeOK ==
    /\ cas \subseteq Content
    /\ artifact \in Seq(Artifact)
    /\ rows \subseteq Row
    /\ IsFiniteSet(rows)
    /\ post \in [Poster -> Post]
    /\ reload \in [Reader -> Reload]
    /\ ir \in Seq(Content)
    /\ faults \in 0..MaxFaults

\* However POSTs interleave and fail, the n patches of a run are numbered
\* 1..n: no number is used twice and none is skipped, although it was read
\* four statements before it is used.
SeqsContiguous == Seqs = 1..Cardinality(rows)

\* A row can be read as soon as it is there: its artifact and the artifact's
\* blob are stored before it, whatever failed in between.
RowsReadable ==
    \A r \in rows :
        /\ r.art \in DOMAIN artifact
        /\ artifact[r.art].cas \in cas
        /\ artifact[r.art].depth = r.seq

\* A client that was answered 201 finds its operations at its number for ever.
AckedInLog ==
    \A p \in Poster : post[p].reply = "ok" =>
        /\ post[p].seq \in Seqs
        /\ GetRunPatchesWithOperations[post[p].seq] = post[p].ops

\* Without faults an error means that another POST got the same number: some
\* patch always gets through.
LoserSawWinner ==
    faults = 0 =>
        \A p \in Poster : (post[p].reply = "error" /\ post[p].ops # <<>>) =>
            \E q \in Poster \ {p} : post[q].pc = "stored" /\ post[q].seq = post[p].seq

\* The IR a reload is about to store has the patches of every agent that had
\* its answer when the reload began, each at its number.
ReloadCoversAcked ==
    \A r \in Reader : reload[r].pc = "compiled" =>
        \A p \in reload[r].acked :
            /\ post[p].seq \in DOMAIN reload[r].view
            /\ reload[r].view[post[p].seq] = post[p].ops

\* The IR is compiled from the first k patches of the run for some k, never
\* from a selection or a permutation of them, and only from appends.
IRIsPrefix ==
    /\ Len(ir) <= Cardinality(rows)
    /\ \A i \in DOMAIN ir : ir[i] = GetRunPatchesWithOperations[i] /\ Applies(ir[i])

\* The tables and requests implement the append-only log of module PatchLog.
LogClient(p) ==
    [pc |-> IF post[p].pc = "idle" THEN "idle" ELSE "sent", ops |-> post[p].ops,
     at |-> IF post[p].pc = "stored" THEN post[p].seq ELSE 0, reply |-> post[p].reply]

Log == INSTANCE PatchLog WITH
           log <- GetRunPatchesWithOperations,
           client <- [p \in Poster |-> LogClient(p)],
           view <- [r \in Reader |-> reload[r].view]

\* Every behaviour of the tables is a behaviour of the log: POSTs append, in
\* some order, and lists are snapshots.
ImplementsPatchLog == Log!Spec

=============================================================================
