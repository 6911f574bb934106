# A TLA+ model of the agentic orchestrator

The orchestrator executes workflows (graphs of HTTP calls, LLM agents, approvals,
branches and loops) by *choreography*: no process owns a run.  Tokens travel on Redis
streams, workers execute nodes and push completion signals, and a coordinator turns
each signal into the tokens of the next nodes.  A run is over when a counter of tokens
in flight is read as 0.  This directory holds TLA+ modules translated from that code,
the TLC configurations that check them and TLAPS proofs about them.

## The system

| Part | State | Operations | Interacts with |
|---|---|---|---|
| run service (`cmd/orchestrator/service/run.go`) | `runs`, stream `wf.run.requests` | CreateRun, run details, PatchRun | run starter, rate limiter |
| run starter (`cmd/workflow-runner/executor`) | `run:started`, `ir:<run>`, `counter:<run>` | take a request, compile, set the counter, send entry tokens | compiler, workers |
| compiler (`common/compiler/ir.go`) | none | schema to IR, validation | starter, patch loader |
| workers (`cmd/http-worker`, `cmd/agent-runner-py`, `cmd/hitl-worker`) | streams `wf.tasks.*`, `completion_signals`, approval keys | read a token, execute, signal, acknowledge | coordinator |
| coordinator (`cmd/workflow-runner/coordinator`) | one goroutine per signal | load the IR, consume, store the output, decide and route, emit, check | everything below |
| counter (`common/sdk`, `scripts/apply_delta.lua`) | `counter:<run>`, `applied:<run>` | idempotent +N and -1 | coordinator |
| control flow (`operators/control_flow.go`) | `loop:<run>:<node>` | branch, loop, dependents | coordinator |
| patch loader (`coordinator/patch_loader.go`) | `ir:<run>`, `run_patches` | fetch, materialise, compile, overwrite the IR | agents, orchestrator |
| lifecycle (`workflow_lifecycle`, `consumer`, `supervisor`) | `run:status:<run>`, `run.status.updates`, `runs` | check for 0, write the status, copy it to the database, detect hangs | coordinator |
| run patches (`service/run_patch.go`) | `run_patches`, artifacts, CAS blobs | POST a patch, list the patches | agents, patch loader |
| workflow versions (`cmd/orchestrator/service`) | artifacts, patch chains, CAS blobs, tags | create, patch, delete, freeze for a run, compact, materialise | run service |
| rate limiter (`common/ratelimit`) | window counters | admit or reject | run service |
| fanout (`cmd/fanout`) | hub, client buffers | register, broadcast, drop | events of the coordinator |

What is hard here: every completion signal is handled by a goroutine of its own, so
the steps of different nodes interleave between any two Redis commands; a token is
published before it is counted and consumed before its successors are; branches run in
further goroutines that nobody counts; agents rewrite the graph while it executes; the
list of signals is popped before it is handled, and messages a dead worker held are not
read again.  On the database side no request runs in a transaction: its statements
interleave with those of others, and it may stop after any of them.  `PROJECT.json` lists the hazards with the lines where they bite.

## Modules

**WorkflowIR** – compiled nodes (`common/sdk/types.go`): their type, dependencies and
dependents, branch and loop configuration, and the predicates the code branches on
(`IsAbsorber`, the types some worker serves, `findEntryNodes`).  A condition is
abstracted to "may hold or not": a branch is the set of node lists it can return.

**Compiler** – `CompileWorkflowSchema` as an operator, from nodes and edges to the IR.
The instances below are schemas compiled by it, so every IR that is checked is one the
compiler produces.

**Coordinator** – one run.  Redis keys are per run, so runs do not interact.

| Variable | In the code |
|---|---|
| `ir`, `patches` | `ir:<run>`, as the number of run patches compiled into it; the rows of `run_patches` |
| `job` | one visit of one node: token on a stream, handler goroutine, or absorber goroutine |
| `signals` | the list `completion_signals` |
| `failing` | goroutines handling a failed signal |
| `counter`, `consumed` | `counter:<run>` and the `consume:` keys in `applied:<run>` |
| `context`, `loopIter`, `runStatus` | `context:<run>`, `loop:<run>:<node>`, `run:status:<run>` |

A job's phase is the program counter of its goroutine.  The phases of a handler follow
`handleCompletion`: `popped` → (`reload` →) `ready` → `consumed` → `stored` → (`exitloop`
→) `routing` → (`check` → `completing` →) `done`.  An absorber starts at `absorb` and
joins at `stored`; a node without worker starts at `skip` and joins at `popped`.  Each
action is the code around one access to shared state.  `job[j].token` says that the
Emit of its parent counts the job, `job[j].counted` that this has happened.

Faults: `Crash` stops the workflow-runner and loses all goroutines; `HandlerError`,
`EmitFails`, `PublishEntryFails` and the failing branch of `processWorkerNode` are Redis
errors at each call, with what the code does about each (a failed DEL of a loop counter
is ignored, so the next visit counts on from there); `FailureHandlerError` is the
handler of a failed signal that cannot load the IR or write the status; `WorkerLose` is a
worker that dies with its message; `WorkerSignalsTwice` is a repeated RPUSH, or an agent that
reports failure after success.  `FaultKinds` and `MaxFaults` bound them.

**CoordinatorProofs** – the proofs.

**MCCoordinator** – the workflows the runs execute.

**Approvals** – the approvals of one run: the HITL worker's two goroutines and the
fanout service's `HandleApproval`.  Each action is the code around one Redis access; a
transaction (`OpenTx`, `CountDown`) is one action.

| Variable | In the code |
|---|---|
| `requests`, `responses`, `signals` | `wf.tasks.hitl`, `wf.tasks.hitl.responses`, pushes to `completion_signals` |
| `approval` | the status in `hitl:approval:<run>:<node>`; `"none"` when there is no key |
| `workflowPending`, `runPending` | the two `pending_approvals` counters |
| `nodeStatus`, `announced` | `run:<run>:node:<node>:status`; published `approval_required` events |
| `req`, `resp`, `post` | the request and response goroutine of each worker; HTTP calls in progress |
| `tokens`, `posts`, `faults` | bounded counts of what came from outside |

The response handler's retries of the GET are one action: a later GET is the same action
taken later.  `Eager` says whether a decision may be posted before the notification
is out; the API allows it, a person at the UI waits for the event.  Faults: `crash`,
`error`, `expiry` of the approval key, and `username`: an IR without username in its
metadata, for which the approval opens and nobody is notified.

**RunLifecycle** – one run from `CreateRun` to the status people see.  The workflow has
no edges, so every node is an entry node and terminal: what travels along edges belongs
to Coordinator, and here everything around it is precise.

| Variable | In the code |
|---|---|
| `api`, `row`, `requests` | the CreateRun call, the run's row, `wf.run.requests` |
| `started`, `ir`, `counter` | `run:started:<run>`, `ir:<run>`, `counter:<run>` |
| `exec` | the run starter of each workflow-runner |
| `tokens`, `signals`, `handler` | worker streams, `completion_signals`, the coordinator's goroutines |
| `consumed`, `output`, `failure` | `applied:<run>` and the fields of `context:<run>` |
| `statusKey`, `updates`, `updater` | `run:status:<run>`, `run.status.updates`, its consumers |
| `sent` | history: entry tokens ever sent |

`DisplayStatus` is what `GetRunDetails` answers, computed from the row and the outputs.
Faults: `apicrash` stops CreateRun between its steps, `crash` stops any workflow-runners
with what they hold, `duplicate` puts the request on the stream twice, `error` fails one
call, applied or not, `workflow` is one that does not compile, `task` an agent node
without a task, whose job the agent runner drops.  `output` holds the status an agent's
result carries: a tool may answer `error` and the node is completed all the same.

**ApprovalsProofs**, **RunLifecycleProofs** – their theorems; **MCApprovals**,
**MCRunLifecycle** – their instances.

**PatchLog** – what the run-patch API promises: an append-only log.  A patch is appended
at most once, "ok" is said only of a patch in the log, an error says nothing, and a list
is the whole log at one instant.

**RunPatches** – how the code keeps that promise.  `CreateRunPatch` reads the next
number, stores the blob, the artifact and the row, one statement each; the coordinator
lists, materialises, compiles and stores.

| Variable | In the code |
|---|---|
| `cas`, `artifact`, `rows` | tables `cas_blob`, `artifact`, `run_patches`, as far as this run is concerned |
| `post` | each POST: its next statement, its number, and what its client was told |
| `reload` | each `reloadIRIfPatched` in progress and the patches it has listed |
| `ir` | `ir:<run>`: the patches compiled into it |

Faults: a statement fails, with or without effect; the client gives up after 30 s, after
which its cancelled context may fail the next statement.  `Log` is the refinement
mapping: the log is the list ordered by number, a poster's position is its row.

**WorkflowVersions** – the versions of workflows.  A tag names an artifact, which is a
DAG or the head of a chain of patches on a DAG.

| Variable | In the code |
|---|---|
| `tag`, `artifact`, `chain`, `runs` | tables `tag`, `artifact` (with its blob), `patch_chain_member`, `run` |
| `req` | the request in each slot: its next statement and what it has read |
| `born` | history: tells apart the rows a tag name has had |

Reads are operators: `Materialize` applies a chain with the rules of the JSON patch
library (`LibraryAccepts`), the PATCH handler validates with those of its own patcher
(`PatcherAccepts`), and the two differ: on a missing array, and on a path without its
leading slash, which the patcher takes in a removal or replacement (`rooted`).  A workflow
is two arrays of items, either of which may be missing from the JSON.  The depth in the
answer of `GetWorkflowVersion` is the head's, and is left out.  `Abort` stops a request after any statement.

**CycleCheck** – the depth-first search at the end of the compiler's `validate`, one
action per iteration, for any order of the roots (a Go map) and of the dependents.

**RunEditing** – how the IR of a run comes about and is edited: the starter compiles the
frozen workflow, `PatchRun` turns the IR back into a workflow (`irToWorkflowSchema`), adds
to it and compiles again, reloads overwrite.  It uses Compiler for the conversion, adds
its errors and `validate`, and runs CycleCheck step by step for each compilation of the
starter and of PatchRun.  In a reload the check is one step, with the verdict that
CycleCheck shows possible.  `SetIRFails` is an edit whose last write fails.  Metadata is
left out; PatchRun loses it.  `UnknownType` are node types the compiler does not know, which
a workflow or an operation may still name.

**Fanout** – subscriber, hub and connections of the event service.

| Variable | In the code |
|---|---|
| `published`, `broadcast` | events from Redis; the channel `hub.broadcast` |
| `connections` | `hub.connections`: the clients of each user |
| `client` | the send channel, the websocket and the two pumps of a connection |
| `panicked` | the process has died of a send on, or a close of, a closed channel |
| `sent`, `from` | history: the events handled for a user, and how many when a client came |

The reader of a dead connection unregisters it and closes the websocket in two steps
(`unregisterClient`, `CloseConn`), between which the other pump may still write.  A write may fail at any time, a read fails when the peer is gone or for reasons of its
own, and a peer may go at any time.

**RunPatchesProofs**, **WorkflowVersionsProofs**, **RunEditingProofs** (with those of
CycleCheck), **FanoutProofs** – their theorems; **MCRunPatches**, **MCWorkflowVersions**, **MCRunEditing**, **MCFanout** –
the instances.

## Runs

| Run | Checks | Instance |
|---|---|---|
| `coordinator_faults` | `CounterAccounting`, `ZeroMeansDone`, `ZeroIsFinal` | 7 workflows, among them a short loop; one crash, error, loss or duplicated signal |
| `coordinator_routing` | `OutputBeforeToken`, `AgentSeesOwnPatch`, `LoopBackBound`, `ComesToRest`, `Drains` | 10 workflows, among them joins, nested branches, a loop, an approval, two agents in a row |
| `join_leaks` | `RestMeansZero` violated | diamond |
| `early_completion` | `CompletedMeansDone` violated | two branches of different length |
| `approvals_faults` | `NoLostDecision`, `DecisionStands` | one worker, two nodes, early decisions, one crash, error, expiry or missing username |
| `approvals_fair` | `SignalledOnce`, `PendingAccounting`, `NodeStatusSettles`, `EveryNodeAsked`, `EveryPostDecides` | one worker, two nodes, no fault |
| `lifecycle_faults` | `StartedOnce`, `CompletedMeansAll` | two starters, an HTTP and an agent node, three faults of any kind |
| `lifecycle_fair` | `AcceptedRunEnds`, `RowFollowsKey`, `CompletedIsShown`, `StatusIsFinal` | two starters, two updaters, the request possibly twice |
| `run_patches` | `ReloadCoversAcked`, `ImplementsPatchLog` | three POSTs, one reload at a time, one error or timeout |
| `versions` | `TagsComplete`, `VersionsStable`, `ReadableIfValidated`, `CompactedIsSame`, `RunFrozen`, `MoveExtends` | three requests, two at a time, on one tag; 2 workflows, 5 patches |
| `run_editing` | `TypeOK`, `RefusedHasCycle`, `IRWellFormed`, `EditKeeps`, `CompilationEnds` | 518 workflows, 5 edits, up to three edits and reloads |
| `fanout` | `TypeOK`, `Gapless`, `BurstBacked`, `PanicsAfterOverflow`, `GoneIsUnregistered`, `QueuedIsWritten` | two connections of one user, four events, send buffers of 2 |

A property that is proved for every instance is repeated by a run where it is one a
reader looks for first; the others (types, `SeqsContiguous`, `RowsReadable`, `AckedInLog`,
`LoserSawWinner`, `IRIsPrefix`, `CounterCovers`, `ResponseFindsApproval`,
`AcceptedCyclesLoop`) are left to the theorems.

What they show.  The counter is always exactly the tokens counted minus the op keys
applied; no fault corrupts it (`CounterAccounting`).  If no token is uncounted and no
signal was handled twice, 0 does mean that nothing is left to consume and that no node
was visited twice (`ZeroMeansDone`), and once no handler is between its Consume and its
Emit that 0 is final (`ZeroIsFinal`).  The premises are what the code does not
guarantee at the moment it reads the counter, and these violations are what follows:

- `join_leaks`: the op key of Consume names the node and not the token, so the second
  token of a join is never taken off the counter, which rests at 1 (so does that of an
  absorber behind an absorber, which an Emit counts and nobody consumes);
- `early_completion`: a terminal handler reads 0 while another handler is between its
  Consume and its Emit, and marks the run COMPLETED with work still to do.

Approvals.  A decision is recorded only after its signal, so none is ever lost behind a
status that refuses further decisions (`NoLostDecision`); the price is that a crash
between the two lets it be signalled again.  One worker serialises its responses, which
is what makes a recorded decision stand and an approval be signalled once.

Two premises of `approvals_fair` are needed.  With `Eager = TRUE`, `NodeStatusSettles`
fails: the request goroutine sets `waiting_for_approval` after the key can be answered,
and may overwrite the response goroutine's `completed`.  With a crash,
`EveryNodeAsked` fails: the messages a dead worker held are not read again.  It promises
one notification per node: a second token for the node finds the key of the first and is
acknowledged without anything else.

Lifecycle.  The SETNX guard makes the start at-most-once under every combination of
duplicates and crashes (`StartedOnce`), because it comes before anything else; for the
same reason a crash after it, or a workflow that does not compile, leaves the run QUEUED
for good, and an agent without a task never signals, which is why `AcceptedRunEnds` is
checked without them.  The counter is set before the first token
and is never too small (`CounterCovers`), so COMPLETED is never premature in a workflow
without edges (`CompletedMeansAll`).  A failed node's token is never consumed; that, and
no guard in `UpdateRunStatus`, is why FAILED and COMPLETED exclude each other
(`StatusIsFinal`).  With Redis errors they do not: an agent runner whose `publish_result`
fails has signalled both outcomes.  With a crash `RowFollowsKey` fails too, because an
update read by a runner that dies never reaches the row; the reconciliation that
RUN_LIFECYCLE_ARCHITECTURE.md describes is not in the code.  A run whose row is COMPLETED
is shown as such from then on, unless an agent's result has the status `error`: then
`GetRunDetails` shows FAILED over the row, for good (`CompletedIsShown`).

Run patches.  The number of a patch is read four statements before it is used, and yet
the numbers are 1..n (`SeqsContiguous`): the unique index refuses a number that is taken,
and one that is free is the next one, because rows never go away.  A POST that loses the
race gets an error and leaves a blob and an artifact behind; without faults some other POST
got the number (`LoserSawWinner`), so one of them always gets through.  The client does not
send again.  A reload compiles at least what its agent was told is stored
(`ReloadCoversAcked`), and what is stored in the IR is always the front of the log
(`IRIsPrefix`), though not always a longer front than before.  One patch that is not an
append fails every later reload of the run.

Versions.  The tag is moved last, which is what makes `TagsComplete` hold whatever stops a
PATCH halfway, and heads are never changed afterwards, which gives `VersionsStable` and
`RunFrozen`.  Three premises are needed where the code has no guard.  `MoveExtends` asks
that the tag was not moved since the PATCH read it, which excludes the case the design
speaks of: "Decision 3: Optimistic Locking on Tags" (`cmd/orchestrator/docs/schema/DESIGN.md:162-176`)
has an UPDATE that ends in "`AND target_id = :expected_old_id  -- Compare`", "`AND version =
:expected_version;   -- And Swap`".  The UPDATE in the code compares neither, so of two
concurrent PATCHes the first is lost.  `ReadableIfValidated` asks that the last patch was
validated against the version it was put on, that its paths start with a slash, and that
the DAG has both arrays: an append to a missing array, and the removal of `nodes/0`, pass
the handler's patcher and fail in the library, and then the tag cannot be read, patched or
executed any more.  Nothing is asked of the patches below, since a version that cannot be
read cannot be patched.  `CompactedIsSame` asks that the whole chain
was there.

Editing.  The stored IR is well-formed (`IRWellFormed`), by whatever sequence of edits and
reloads it came about: it has entry and terminal nodes, dependents, branch targets and
loop_back_tos exist, dependencies match dependents, cycles go through loops.  Break and
timeout paths are not part of it, because `validate` does not look at them: a target that
does not exist is skipped by the router but counted by the Emit of the loop
(`node_router.go:306`), and the counter rests above 0.  The cycle check accepts no cycle without a loop node and
refuses nothing that has no cycle; a cycle *with* a loop node is accepted or refused depending on
where the search enters it.  `EditKeeps` says what survives PatchRun: dependents, rules,
the targets of the default.  The type of a branching node does not (it becomes a
conditional), the default gains the targets of the rules, and a workflow with a loop or a
parallel node that has been compiled cannot be edited at all.  The metadata does not
survive either: after an edit the IR has no username, and later approvals are not announced.

Fanout.  A peer gets its user's events without gaps from its registration on (`Gapless`):
the hub never skips an event, it closes the channel of a slow peer.  Of
"WebSockets can drop messages due to [...] Message buffer overflows"
(`cmd/fanout/docs/REALTIME_UPDATES.md:13-17`) that is the form it takes here: a peer whose
buffer overflows is cut off, and loses what comes after, never something in between.  It leaves that client
in its list, so the next event for it, or its unregistration, panics and ends the
process; `PanicsAfterOverflow` says that nothing else does.

Known divergences that no run checks.  Behaviours of these modules that a
reader of the code should know, since the properties above have premises that exclude them:

- a token may be consumed, and the counter checked, before the Emit that counts it; then
  nobody checks again and the run rests without a status (`node_router.go:62`);
- two agents that patch at once are reloaded by two handlers, and the one with the shorter
  list may store its IR last (`patch_loader.go:209`);
- two HITL workers may both pass the status test and both signal (`hitl_worker.go:402`);
- the failure of an agent is stored as `<node>:failure:output` and looked for as
  `<node>:failure`, so a FAILED run is shown as RUNNING or QUEUED (`failure_handler.go:70`).

Bounds.  Each workflow has one to four nodes: every kind of node and every shape that
the router tells apart (fan-out, join, branch, nested branch, loop, skipped node,
entry without worker, missing node, patching agents) occurs in some run, and all
interleavings of its handlers are explored.  The loop has a limit of 3, so it goes back,
breaks and times out.  One fault suffices for each of the code's error paths; two would
only combine them.  The fault run has a loop of limit 2; joins, the longer loop and nested
branches are run without faults, since a duplicated signal in them has millions of states;
what the fault run checks is proved for them too.  Deadlock is not checked, because a run ends.  In Approvals two tokens
per node and two decisions give every pair of racing handlers (`MaxTokens`,
`MaxPosts`); in RunLifecycle two nodes, one of each kind, let one fail while the other
completes, and three faults cover a duplicate, a crash and an error in one behaviour.
In RunPatches three POSTs let one lose twice over, to a row and to a failure, and the
contents are a patch that applies, one that does not and an empty one.  In
WorkflowVersions three requests (`MaxRequests`) are a patch, another on top of it and
anything beside them; the candidates for compaction start at depth 1 (`CompactDepth`).
In RunEditing the workflows are all graphs on three nodes, one of which may have an edge
to itself and two of which may be loops, and six with branches, approvals and errors; `MaxChanges` lets an edit follow an edit or a reload.
In Fanout a buffer of two overflows with the third event and the fourth is sent on the
closed channel (`SendCap`, `QueueCap`, `MaxEvents`).

Fairness.  `FairSpec` assumes weak fairness of the starter, of BLPOP, of each handler
and of the workers other than approvals: goroutines are scheduled and Redis answers.
It assumes nothing about people, about agents making patches or about faults.
`ComesToRest` says no run goes on for ever, loops included; `Drains` says the counter
comes to 0 for good if nothing failed, no token leaks and no approval stays open.  In
Approvals the two goroutines of a worker loop for ever and an HTTP call finishes, but
nobody has to post a decision.  In RunLifecycle CreateRun finishes, the consumers loop, handlers finish and a
worker answers each token, all of them for-loops or timeouts in the code.  In RunEditing
a compilation is straight-line code; nobody has to edit.  In Fanout the hub's select takes
every case that stays ready, the pumps go on until they end, and reads of a closed
connection fail; nobody has to publish, connect or leave.

## Proofs

For every set of workflows that satisfies `WorkflowsAssumption` (finite IRs over known
node ids) and every bound on faults, TLAPS proves

- `TypeCorrectness`: `Spec => []TypeOK`,
- `CounterAccountingHolds`: `Spec => []CounterAccounting`,
- `ZeroMeansDoneHolds`: `Spec => []ZeroMeansDone`,
- `ZeroIsFinalHolds`: `Spec => ZeroIsFinal`,
- `OutputBeforeTokenHolds`: `Spec => []OutputBeforeToken`.

They rest on one inductive invariant, `IInv`.  Accounting
alone is not inductive: Consume needs the applied set to be finite, Emit needs a counted
job to be a token (else it could be counted twice) and the jobs to be a sequence.  What
a 0 means needs in addition that every applied op key was put there by a job which is
past its Consume (`ConsumedByJob`) and that no absorber ever gets a signal
(`WorkersSignal`).

`CoordinatorProofs` states once what a step that leaves the counter alone does to the
jobs (`Evolves`, `SameCounted`) and that such a step keeps `IInv`, and has
a lemma per action or group of actions that says the step is of that kind, then the
three that move the counter (StartRun, Consume, Emit).  The argument for a 0: each op key is the node of some token past its
Consume, so there are at most as many op keys as nodes of tokens, and at most as many of
those as tokens.  A counter of 0 makes the numbers equal, so the map from tokens to
nodes is one-to-one and onto the op keys: no node was visited twice, and the token that
put the op key there is the only one of its node.  The outputs need an invariant of their
own (`OutputInv`): a job past `stored` has its output in the context, which never loses one.
`Advances` is what a step without fault may do to it, and again there is a lemma per group
of actions.

ApprovalsProofs, for any nodes, workers and bounds: `TypeCorrectness` and
`NoLostDecisionHolds` under any faults; `ResponseFindsApprovalHolds` if keys do not
expire; `DecisionStandsHolds` for one worker, under any faults;
`SignalledOnceHolds` and `PendingAccountingHolds` for one worker without faults;
`NodeStatusSettlesHolds` for any workers, without faults and without decisions posted
before the notification.  What has to be added to
`NoLostDecision` is that a goroutine about to record has pushed its own decision; with
one worker, that the approval stays undecided from the test to the record.  The pending
counters need the arithmetic of one worker's two goroutines (`CounterSteps`): each write
of a counter goes with one move in or out of the three sets it is the balance of.

RunLifecycleProofs, for any nodes, runners, updaters and faults: `TypeCorrectness`,
`StartedOnceHolds`, `CounterCoversHolds` and `CompletedMeansAllHolds`, and, unless an
agent can report both outcomes, `StatusIsFinalHolds`.  They come from one invariant
`IInv`: at most one starter is past the claim and its `todo` has not been sent
(`StartInv`); a token is in at most one place (`TokenInv`); handlers run the code of
their signal's status (`HandlerInv`); once set, the counter is the number of nodes not
consumed (`CountInv`); a COMPLETED on its way was decided with all consumed (`VerdictInv`).
Finality adds `OutcomeInv`: a failed signal, and every FAILED that comes of it, goes with
a node whose token is lost to Consume for good, so the counter never reads 0 again and no
COMPLETED can follow.

RunPatchesProofs, for any POSTs, reloads, contents and faults: the invariants of the
tables (`PatchTypes`, `PatchesContiguous`, `PatchesReadable`, `AnswersInLog`,
`ReloadsCoverAnswers`, `IRFromPrefix`, `LosersSawWinners`) and the refinement
`TablesImplementLog`: `Spec => Log!Spec`.  The invariant `IInv` adds that numbers are not
used twice (`UniqueSeqs`), that a request's number is at most one past the last and what
it has written is there (`PostOK`), and that a reload's view is a front of the list
(`ReloadOK`).  The key step is `InsertAppends`: a row whose number is free has the number
n+1, so inserting it appends to the list.  For the refinement each statement maps to a
step of the log or to a stutter; only the INSERT of the row is an append.

RunEditingProofs, about the cycle check, for every graph, every set of loop nodes and
every order: `AcceptanceSound` and `RefusalSound`.  The invariant says what a finished call leaves
behind: a dependent that is not a loop node is finished or is the next call on the stack
(`LookedAt`), so no finished node lies on a cycle without loop nodes
(`FinishedOffCycles`).

And about the IR of a run, for any finite set of node ids and of conditions, any workflows
and operation lists of the right types (`EditingAssumption`) and any number of edits and
reloads: `ImplementsCheck` (`Spec => CheckSpec`), `TypeCorrect`, `RefusedOnlyCyclic`,
`AlwaysWellFormed` and `EditsKeep`.  `IRWellFormed` is not inductive: a PatchRun starts from the
IR, so the invariant `EditInv` has to say in addition what makes an IR come back as a
workflow (`IROK`: rules and defaults lead to dependents, only branches have them, no branch
is a loop), that the IR being compiled is well-formed but for cycles, that the graph being
searched is its graph, and which IR and operations it was compiled from (`JobOK`).  It
needs the search's invariant to store an IR, and the search needs it to be handed a graph,
so the two are proved together (`EditInvariant`).  Four facts about the data carry it:
- `CompiledOK`: a workflow whose nodes convert, whose edges exist and which `validate`
  accepts compiles to a well-formed IR with `IROK`;
- `CompilesChecked`: that is what a workflow with operations is when it compiles, although
  only the last of several nodes with the same id stays;
- `BackSchema`, `BackLeads`: `irToWorkflowSchema` makes a workflow of an `IROK` IR with the
  same nodes, whose edges lead exactly where the IR leads, with the same conditions;
- `PatchKeeps`: compiling that workflow with operations keeps what they do not define.

They rest on what filtering and joining lists does for lists of every length (`OnlyFacts`,
`ConcatFacts`, `ListFacts`).  For them the model filters with `Only` and joins with
`Concat`, recursive functions, instead of the library's operators.

WorkflowVersionsProofs, for any requests, tags, workflows, patches and stops:
`TagsAreComplete`, `VersionsAreStable`, `RunsAreFrozen`, `CompactionIsSame`,
`MovesExtend` and `ReadableHolds`.  A chain grows until its head is whole and never changes afterwards; every
member of a chain is itself a whole head, whose chain is the front of it; what a request
has read of a tag is still what the row's version says (`SeenOK`, for `MovesExtend`).  This
invariant says nothing of workflows and operations themselves, so it holds for any of them.

`ReadableHolds` is about what materialising computes.  On a workflow with both arrays the
library accepts every operation whose path starts with a slash and which the handler's
patcher accepts, with the same result
(`PatcherIsSafe`), so by induction over its operations a patch that was validated applies
(`ValidatedApplies`), and leaves both arrays there (`ArraysStay`).  A head materialises to
its own patch applied to what the version below it materialises to (`MaterializeAppend`,
`HeadComponents`).  The invariant `ReadInv` adds to `IInv` what a request carries from one
statement to the next: which version its patch was validated against, and that the members
of its head so far are those of the version it is put on.  That version could be read when
the patch was validated and has not changed since, so with the two versions equal the head
can be read.

**Recursion** has what these inductions need, for sets of naturals and for functions
instead of operators, so that the provers can use it: a least member (`Least`), induction
up to a bound (`InductTo`), the values a recursive function goes through (`Recursion`) and
that two functions that start and go on alike are the same (`SameValues`).

FanoutProofs, for any users, connections, events and capacities: `TypeCorrect`,
`GaplessHolds`, `BurstBackedHolds`, `PanicsAfterOverflowHolds`.  A list has a client at
most once and only of its own user (`ListInv`); a client that was never registered has
nothing (`FreshInv`); a channel that was closed while its client stays in the list has
overflowed (`ClosedInv`); what a peer has got and what is queued follow, in the user's
events, the position at which the client came (`StreamInv`).

Only model-checked: `AgentSeesOwnPatch` and `LoopBackBound`, which are not true of every
workflow (two agents that patch at once, and a loop inside a loop, are counterexamples) and
are therefore statements about the workflows of the run; and the liveness properties
(`CompilationEnds` in RunEditing among them), which are beyond the prover (they need
fairness and ENABLED).

## Not modelled

Data is abstracted: outputs, configs, conditions, CEL evaluation, the text of events.
Key expiry (24 hours for the IR of a new run, the start guard and the status) is left
out, and so is real time altogether: the rate limiter, whose only state is a counter that
expires, is a free choice of WorkflowVersions.

- *Code nothing calls*: the supervisors (main.go does not start them), the compiler's
  legacy entry point, the patch validator, `CompareAndSwap` of tags, the table `tag_move`,
  the workflow optimiser.  Compaction is called by a test script only and is modelled.
- *Stateless code*: the config resolver, the API gateway, the command line, the
  infrastructure packages; the browser UI.
- *External*: Redis streams, lists and pub/sub, Postgres and the JSON patch library are
  modelled from how the code uses them.  That go-redis drops events for a subscriber that
  is too slow is left out of Fanout.
- *Compositions*: Approvals, RunLifecycle and WorkflowVersions meet Coordinator only in
  what they pass on (signals, the counter, the frozen workflow).  An approval node visited
  twice, and the status shown for a run with branches not taken, would need their product,
  which is beyond TLC with all interleavings.
- PatchRun calls one at a time: two of them race like a PatchRun and a reload do.
