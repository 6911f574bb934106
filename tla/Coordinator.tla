---------------------------- MODULE Coordinator ----------------------------
(***************************************************************************)
(* One workflow run: the run starter (cmd/workflow-runner/executor) puts   *)
(* the entry tokens on the workers' streams, the workers execute nodes and *)
(* push completion signals, and the coordinator (cmd/workflow-runner/      *)
(* coordinator) pops each signal, consumes the token, decides the next     *)
(* nodes and publishes their tokens, until a terminal node reads the       *)
(* run's counter as 0.  All Redis keys are per run, so runs are            *)
(* independent and one is enough.                                          *)
(*                                                                         *)
(* A job is one visit of one node, from its creation to the end of the     *)
(* goroutine that handles its completion.  Every popped signal is handled  *)
(* by its own goroutine.  An action below is the code around one access to *)
(* the state the goroutines share in Redis; a few accesses in a row that   *)
(* no other step can tell apart are one action (handleFailedNode's writes, *)
(* the load of the IR and the fetch of the patches).                       *)
(***************************************************************************)
EXTENDS WorkflowIR, Integers, FiniteSets, Functions

CONSTANTS
    Workflows,   \* name -> <<IR, IR after 1 run patch, IR after 2, ...>>
    FaultKinds,  \* the kinds of fault that may happen
    MaxFaults    \* bound on their number

ASSUME WorkflowsAssumption ==
    \A w \in DOMAIN Workflows :
        /\ Len(Workflows[w]) \in Nat \ {0}
        /\ DOMAIN Workflows[w] = 1..Len(Workflows[w])
        /\ \A v \in DOMAIN Workflows[w] :
              /\ DOMAIN Workflows[w][v] \subseteq Node
              /\ IsFiniteSet(DOMAIN Workflows[w][v])
              /\ \A n \in DOMAIN Workflows[w][v] : Workflows[w][v][n] \in NodeDef

ASSUME FaultsAssumption ==
    FaultKinds \subseteq {"crash", "duplicate", "error", "loss"} /\ MaxFaults \in Nat

VARIABLES
    wf,         \* which workflow the run executes
    ir,         \* key ir:<run>, as the number of run patches compiled into it
    patches,    \* rows of run_patches for the run
    job,        \* the jobs, in creation order
    signals,    \* list completion_signals
    failing,    \* handleCompletion goroutines of failed signals, by job
    counter,    \* key counter:<run>
    consumed,   \* consume:<run>:<node> members of the set applied:<run>
    context,    \* nodes with an output in context:<run>
    loopIter,   \* loop:<run>:<node>, field current_iteration; 0 is no key
    runStatus,  \* key run:status:<run>
    faults      \* faults so far

vars == <<wf, ir, patches, job, signals, failing, counter, consumed, context,
          loopIter, runStatus, faults>>

-----------------------------------------------------------------------------

IRAt(v) == Workflows[wf][v + 1]

MaxPatches == Len(Workflows[wf]) - 1

\* Phases held in the memory of the workflow-runner process.
Volatile == {"unsent", "popped", "reload", "ready", "skip", "absorb", "consumed",
             "stored", "exitloop", "routing", "check", "completing"}

Final == {"done", "failed", "lost", "stranded"}

Phase == {"queued", "signalled"} \cup Volatile \cup Final

\* token: the Emit of the parent counts it; counted: that +1 (or the initial
\* counter) has been applied; irv: IR version held; need: version holding the
\* patches this agent made; todo: next nodes still to be routed.
Job == [node: Node, parent: Nat, phase: Phase, token: BOOLEAN, counted: BOOLEAN,
        absorber: BOOLEAN, irv: Nat, need: Nat, todo: Seq(Node)]

NewJob(n, parent, phase, token, absorber, irv) ==
    [node |-> n, parent |-> parent, phase |-> phase, token |-> token,
     counted |-> FALSE, absorber |-> absorber, irv |-> irv, need |-> 0, todo |-> <<>>]

Jobs == DOMAIN job

\* The compiled node of job j in the IR it holds.
Def(j) == IRAt(job[j].irv)[job[j].node]

Goto(j, phase) == job' = [job EXCEPT ![j].phase = phase]

Fault(kind) == kind \in FaultKinds /\ faults < MaxFaults /\ faults' = faults + 1

NoFault == UNCHANGED faults

Init ==
    /\ wf \in DOMAIN Workflows
    /\ ir = 0
    /\ patches = 0
    /\ job = <<>>
    /\ signals = <<>>
    /\ failing = {}
    /\ counter = 0
    /\ consumed = {}
    /\ context = {}
    /\ loopIter = [n \in Node |-> 0]
    /\ runStatus = "none"
    /\ faults = 0

-----------------------------------------------------------------------------
(* The run starter. *)

\* A set as a list; its order comes from the iteration over a Go map.
Listed(S) == CHOOSE f \in Bijection(1..Cardinality(S), S) : TRUE

\* Mutant: the counter starts at 1 however many entry nodes there are.
StartRunAtOne ==
    /\ job = <<>>
    /\ LET entry == Listed(findEntryNodes(IRAt(0)))
       IN  job' = [i \in DOMAIN entry |->
                     [NewJob(entry[i], 0, "unsent", TRUE, FALSE, 0) EXCEPT !.counted = TRUE]]
    /\ counter' = 1
    /\ ir' = 0
    /\ UNCHANGED <<wf, patches, signals, failing, consumed, context, loopIter, runStatus, faults>>

\* SETNX run:started, store the IR, set the counter to the number of entry
\* nodes.  Entry tokens are counted before any of them is published.
StartRun ==
    /\ job = <<>>
    /\ LET entry == Listed(findEntryNodes(IRAt(0)))
       IN  /\ job' = [i \in DOMAIN entry |->
                        [NewJob(entry[i], 0, "unsent", TRUE, FALSE, 0) EXCEPT !.counted = TRUE]]
           /\ counter' = Len(entry)
    /\ ir' = 0
    /\ UNCHANGED <<wf, patches, signals, failing, consumed, context, loopIter, runStatus, faults>>

\* XADD of one entry token.  A type without a worker goes to the stream
\* wf.tasks.function, which nothing consumes.
PublishEntry(j) ==
    /\ job[j].phase = "unsent"
    /\ Goto(j, IF Def(j).type \in SupportedType THEN "queued" ELSE "stranded")
    /\ UNCHANGED <<wf, ir, patches, signals, failing, counter, consumed, context,
                   loopIter, runStatus, faults>>

\* A failed XADD ends handleMessage: the remaining entry tokens are never sent.
PublishEntryFails ==
    /\ \E j \in Jobs : job[j].phase = "unsent"
    /\ Fault("error")
    /\ job' = [j \in Jobs |-> IF job[j].phase = "unsent"
                              THEN [job[j] EXCEPT !.phase = "lost"] ELSE job[j]]
    /\ UNCHANGED <<wf, ir, patches, signals, failing, counter, consumed, context,
                   loopIter, runStatus>>

-----------------------------------------------------------------------------
(* The workers, as the coordinator sees them. *)

IsAgent(n) == IRAt(patches)[n].type = "agent"

Signal(j, status) == [job |-> j, status |-> status]

\* An agent adds a run patch while it executes.
AgentPatch(j) ==
    /\ job[j].phase = "queued"
    /\ IsAgent(job[j].node)
    /\ patches < MaxPatches
    /\ patches' = patches + 1
    /\ job' = [job EXCEPT ![j].need = patches + 1]
    /\ UNCHANGED <<wf, ir, signals, failing, counter, consumed, context, loopIter,
                   runStatus, faults>>

WorkerComplete(j) ==
    /\ job[j].phase = "queued"
    /\ Goto(j, "signalled")
    /\ signals' = Append(signals, Signal(j, "completed"))
    /\ UNCHANGED <<wf, ir, patches, failing, counter, consumed, context, loopIter,
                   runStatus, faults>>

\* RPUSH is sent again after a lost reply, so the signal is in the list twice;
\* or an agent worker fails after its completed signal and reports failed too.
WorkerSignalsTwice(j) ==
    /\ job[j].phase = "queued"
    /\ Fault("duplicate")
    /\ Goto(j, "signalled")
    /\ \E second \in {"completed"} \cup (IF IsAgent(job[j].node) THEN {"failed"} ELSE {}) :
          signals' = signals \o <<Signal(j, "completed"), Signal(j, second)>>
    /\ UNCHANGED <<wf, ir, patches, failing, counter, consumed, context, loopIter, runStatus>>

WorkerFail(j) ==
    /\ job[j].phase = "queued"
    /\ Goto(j, "failed")
    /\ signals' = Append(signals, Signal(j, "failed"))
    /\ UNCHANGED <<wf, ir, patches, failing, counter, consumed, context, loopIter,
                   runStatus, faults>>

\* The worker dies with the message pending: only new messages are ever read.
WorkerLose(j) ==
    /\ job[j].phase = "queued"
    /\ Fault("loss")
    /\ Goto(j, "lost")
    /\ UNCHANGED <<wf, ir, patches, signals, failing, counter, consumed, context,
                   loopIter, runStatus>>

-----------------------------------------------------------------------------
(* The coordinator: handleCompletion. *)

\* BLPOP and go handleCompletion.  A second completed signal for a job gets a
\* goroutine of its own, which no Emit counts.
PopSignal ==
    /\ signals # <<>>
    /\ signals' = Tail(signals)
    /\ LET j == Head(signals).job
       IN  \/ /\ Head(signals).status = "failed"
              /\ failing' = failing \cup {j}
              /\ UNCHANGED job
           \/ /\ Head(signals).status = "completed"
              /\ job[j].phase = "signalled"
              /\ Goto(j, "popped")
              /\ UNCHANGED failing
           \/ /\ Head(signals).status = "completed"
              /\ job[j].phase # "signalled"
              /\ job' = Append(job, NewJob(job[j].node, job[j].parent, "popped", FALSE, FALSE, 0))
              /\ UNCHANGED failing
    /\ UNCHANGED <<wf, ir, patches, counter, consumed, context, loopIter, runStatus, faults>>

\* Mutant: a failed node gives its token back.
handleFailedNodeConsuming(j) ==
    /\ j \in failing
    /\ failing' = failing \ {j}
    /\ runStatus' = "FAILED"
    /\ counter' = counter - 1
    /\ UNCHANGED <<wf, ir, patches, job, signals, consumed, context, loopIter, faults>>

\* Failed signal: store the result that came with it, if any, as the node's
\* output and mark the run FAILED.  The token is not consumed.
handleFailedNode(j) ==
    /\ j \in failing
    /\ failing' = failing \ {j}
    /\ IF job[j].node \in DOMAIN IRAt(ir)
       THEN context' \in {context, context \cup {job[j].node}} /\ runStatus' = "FAILED"
       ELSE UNCHANGED <<context, runStatus>>
    /\ UNCHANGED <<wf, ir, patches, job, signals, counter, consumed, loopIter, faults>>

\* Mutant: the run patches of an agent are not looked for.
LoadIRUnpatched(j) ==
    /\ job[j].phase = "popped"
    /\ Goto(j, IF job[j].node \in DOMAIN IRAt(ir) THEN "ready" ELSE "lost")
    /\ UNCHANGED <<wf, ir, patches, signals, failing, counter, consumed, context,
                   loopIter, runStatus, faults>>

\* Load the IR; for an agent with run patches, fetch them and compile.
LoadIR(j) ==
    /\ job[j].phase = "popped"
    /\ LET n == job[j].node
       IN  \/ n \notin DOMAIN IRAt(ir) /\ Goto(j, "lost")
           \/ /\ n \in DOMAIN IRAt(ir)
              /\ IRAt(ir)[n].type = "agent" /\ patches > 0
              /\ job' = [job EXCEPT ![j].phase = "reload", ![j].irv = patches]
           \/ /\ n \in DOMAIN IRAt(ir)
              /\ IRAt(ir)[n].type # "agent" \/ patches = 0
              /\ Goto(j, "ready")
    /\ UNCHANGED <<wf, ir, patches, signals, failing, counter, consumed, context,
                   loopIter, runStatus, faults>>

\* SET ir with the IR compiled from the patches fetched.
reloadIRIfPatched(j) ==
    /\ job[j].phase = "reload"
    /\ ir' = job[j].irv
    /\ Goto(j, "ready")
    /\ UNCHANGED <<wf, patches, signals, failing, counter, consumed, context,
                   loopIter, runStatus, faults>>

\* Mutant: the op key is recorded but not looked up.
ConsumeAlways(j) ==
    /\ job[j].phase = "ready"
    /\ counter' = counter - 1
    /\ consumed' = consumed \cup {job[j].node}
    /\ Goto(j, "consumed")
    /\ UNCHANGED <<wf, ir, patches, signals, failing, context, loopIter, runStatus, faults>>

\* apply_delta.lua with -1, once per op key: the key holds the node, not the job.
Consume(j) ==
    /\ job[j].phase = "ready"
    /\ counter' = IF job[j].node \in consumed THEN counter ELSE counter - 1
    /\ consumed' = consumed \cup {job[j].node}
    /\ Goto(j, "consumed")
    /\ UNCHANGED <<wf, ir, patches, signals, failing, context, loopIter, runStatus, faults>>

\* Mutant: an absorber stores no output.
StoreOutputOfWorkers(j) ==
    /\ job[j].phase \in {"consumed", "absorb"}
    /\ context' = IF job[j].absorber THEN context ELSE context \cup {job[j].node}
    /\ Goto(j, "stored")
    /\ UNCHANGED <<wf, ir, patches, signals, failing, counter, consumed, loopIter,
                   runStatus, faults>>

\* The output goes to CAS and its reference to the run's context.
StoreOutput(j) ==
    /\ job[j].phase \in {"consumed", "absorb"}
    /\ context' = context \cup {job[j].node}
    /\ Goto(j, "stored")
    /\ UNCHANGED <<wf, ir, patches, signals, failing, counter, consumed, loopIter,
                   runStatus, faults>>

\* A node without a worker gets a warning as its output and completes at once.
handleSkippedNode(j) ==
    /\ job[j].phase = "skip"
    /\ context' = context \cup {job[j].node}
    /\ Goto(j, "popped")
    /\ UNCHANGED <<wf, ir, patches, signals, failing, counter, consumed, loopIter,
                   runStatus, faults>>

\* Mutant: the limit is passed, not reached.
HandleLoopOneMore(j, v, d) ==
    LET n    == job[j].node
        iter == loopIter[n] + 1
        Route(phase, todo) == job' = [job EXCEPT ![j].phase = phase, ![j].todo = todo, ![j].irv = v]
    IN  /\ loopIter' = [loopIter EXCEPT ![n] = iter]
        /\ \/ iter > d.loop.max /\ Route("exitloop", d.loop.timeout)
           \/ iter <= d.loop.max /\ Route("routing", <<d.loop.back>>)

\* HINCRBY, then the timeout path at the limit, else loop back or, on the
\* condition, break.  Leaving the loop deletes the key in a later step.
HandleLoop(j, v, d) ==
    LET n    == job[j].node
        iter == loopIter[n] + 1
        Route(phase, todo) == job' = [job EXCEPT ![j].phase = phase, ![j].todo = todo, ![j].irv = v]
    IN  /\ loopIter' = [loopIter EXCEPT ![n] = iter]
        /\ \/ iter >= d.loop.max /\ Route("exitloop", d.loop.timeout)
           \/ iter < d.loop.max /\ Route("routing", <<d.loop.back>>)
           \/ iter < d.loop.max /\ d.loop.condition /\ Route("exitloop", d.loop.break)

HandleBranch(d) == d.branch

\* A handler reads the IR afresh; an absorber keeps its parent's.
DetermineNextNodes(j) ==
    /\ job[j].phase = "stored"
    /\ LET v == IF job[j].absorber THEN job[j].irv ELSE ir
           d == IRAt(v)[job[j].node]
       IN  IF job[j].node \notin DOMAIN IRAt(v)
           THEN Goto(j, "lost") /\ UNCHANGED loopIter
           ELSE \/ HasLoop(d) /\ HandleLoop(j, v, d)
                \/ /\ ~HasLoop(d)
                   /\ \E next \in IF HasBranch(d) THEN HandleBranch(d) ELSE {d.dependents} :
                        job' = [job EXCEPT ![j].phase = "routing", ![j].todo = next, ![j].irv = v]
                   /\ UNCHANGED loopIter
    /\ UNCHANGED <<wf, ir, patches, signals, failing, counter, consumed, context,
                   runStatus, faults>>

ExitLoop(j) ==
    /\ job[j].phase = "exitloop"
    /\ loopIter' = [loopIter EXCEPT ![job[j].node] = 0]
    /\ Goto(j, "routing")
    /\ UNCHANGED <<wf, ir, patches, signals, failing, counter, consumed, context,
                   runStatus, faults>>

\* The next node of j, off its list, gets a job.
Spawn(j, phase, token, absorber) ==
    job' = Append([job EXCEPT ![j].todo = Tail(@)],
                  NewJob(Head(job[j].todo), j, phase, token, absorber, job[j].irv))

\* Publish the token, or skip the node; j counts it even if its config could
\* not be loaded or the XADD failed.
processWorkerNode(j, d) ==
    \/ d.type \notin SupportedType /\ Spawn(j, "skip", TRUE, FALSE) /\ NoFault
    \/ d.type \in SupportedType /\ Spawn(j, "queued", TRUE, FALSE) /\ NoFault
    \/ d.type \in SupportedType /\ Spawn(j, "lost", TRUE, FALSE) /\ Fault("error")

\* One iteration of the loop over the next nodes.  A node missing from the IR
\* is skipped, but an absorber's Emit counts it all the same; an absorber runs
\* in a goroutine of its own, counted only if its parent is an absorber.
RouteNext(j) ==
    /\ job[j].phase = "routing" /\ job[j].todo # <<>>
    /\ LET n == Head(job[j].todo)
           d == IRAt(job[j].irv)[n]
       IN  IF n \notin DOMAIN IRAt(job[j].irv)
           THEN /\ IF job[j].absorber THEN Spawn(j, "lost", TRUE, FALSE)
                                      ELSE job' = [job EXCEPT ![j].todo = Tail(@)]
                /\ NoFault
           ELSE \/ IsAbsorber(d) /\ Spawn(j, "absorb", job[j].absorber, TRUE) /\ NoFault
                \/ ~IsAbsorber(d) /\ processWorkerNode(j, d)
    /\ UNCHANGED <<wf, ir, patches, signals, failing, counter, consumed, context,
                   loopIter, runStatus>>

\* Only a handler of a terminal node looks at the counter afterwards.
AfterRouting(j) == IF ~job[j].absorber /\ Def(j).isTerminal THEN "check" ELSE "done"

\* Mutant: absorbers are counted too.
EmittedWithAbsorbers(j) == {k \in Jobs : job[k].parent = j /\ ~job[k].counted}

\* The children the Emit of j adds to the counter.
EmittedBy(j) == {k \in Jobs : job[k].parent = j /\ job[k].token /\ ~job[k].counted}

\* Mutant: a handler with nothing to emit returns before its last steps.
EmitSomething(j) ==
    /\ job[j].phase = "routing" /\ job[j].todo = <<>> /\ EmittedBy(j) # {}
    /\ counter' = counter + Cardinality(EmittedBy(j))
    /\ job' = [k \in Jobs |-> [job[k] EXCEPT
                 !.counted = @ \/ k \in EmittedBy(j),
                 !.phase = IF k = j THEN AfterRouting(j) ELSE @]]
    /\ UNCHANGED <<wf, ir, patches, signals, failing, consumed, context, loopIter,
                   runStatus, faults>>

\* apply_delta.lua with +N under a fresh op key, after the tokens are published.
Emit(j) ==
    /\ job[j].phase = "routing" /\ job[j].todo = <<>>
    /\ counter' = counter + Cardinality(EmittedBy(j))
    /\ job' = [k \in Jobs |-> [job[k] EXCEPT
                 !.counted = @ \/ k \in EmittedBy(j),
                 !.phase = IF k = j THEN AfterRouting(j) ELSE @]]
    /\ UNCHANGED <<wf, ir, patches, signals, failing, consumed, context, loopIter,
                   runStatus, faults>>

\* A failed Emit is logged and the handler goes on.
EmitFails(j) ==
    /\ job[j].phase = "routing" /\ job[j].todo = <<>> /\ EmittedBy(j) # {}
    /\ Fault("error")
    /\ Goto(j, AfterRouting(j))
    /\ UNCHANGED <<wf, ir, patches, signals, failing, counter, consumed, context,
                   loopIter, runStatus>>

CheckCompletion(j) ==
    /\ job[j].phase = "check"
    /\ Goto(j, IF counter = 0 THEN "completing" ELSE "done")
    /\ UNCHANGED <<wf, ir, patches, signals, failing, counter, consumed, context,
                   loopIter, runStatus, faults>>

\* The status key is overwritten whatever it holds.
UpdateRunStatus(j) ==
    /\ job[j].phase = "completing"
    /\ runStatus' = "COMPLETED"
    /\ Goto(j, "done")
    /\ UNCHANGED <<wf, ir, patches, signals, failing, counter, consumed, context,
                   loopIter, faults>>

-----------------------------------------------------------------------------
(* Faults of the coordinator. *)

\* A Redis error: the handler returns, except that it goes on without the
\* patches or without the output if those could not be stored, and leaves a loop
\* without looking whether its key was deleted.
HandlerError(j) ==
    /\ Fault("error")
    /\ \/ job[j].phase \in {"popped", "ready", "stored", "check", "completing"} /\ Goto(j, "lost")
       \/ job[j].phase = "reload" /\ Goto(j, "ready")
       \/ job[j].phase = "skip" /\ Goto(j, "popped")
       \/ job[j].phase \in {"consumed", "absorb"} /\ Goto(j, "stored")
       \/ job[j].phase = "exitloop" /\ Goto(j, "routing")
    /\ UNCHANGED <<wf, ir, patches, signals, failing, counter, consumed, context,
                   loopIter, runStatus>>

\* The handler of a failed signal cannot load the IR, or cannot write the status:
\* the run is not marked FAILED.
FailureHandlerError(j) ==
    /\ j \in failing
    /\ Fault("error")
    /\ failing' = failing \ {j}
    /\ \/ UNCHANGED context
       \/ job[j].node \in DOMAIN IRAt(ir) /\ context' = context \cup {job[j].node}
    /\ UNCHANGED <<wf, ir, patches, job, signals, counter, consumed, loopIter, runStatus>>

\* The workflow-runner process stops and is started again.
Crash ==
    /\ job # <<>>
    /\ Fault("crash")
    /\ job' = [j \in Jobs |-> IF job[j].phase \in Volatile
                              THEN [job[j] EXCEPT !.phase = "lost"] ELSE job[j]]
    /\ failing' = {}
    /\ UNCHANGED <<wf, ir, patches, signals, counter, consumed, context, loopIter, runStatus>>

-----------------------------------------------------------------------------

Worker(j) == AgentPatch(j) \/ WorkerComplete(j) \/ WorkerFail(j)

Handler(j) ==
    \/ PublishEntry(j) \/ handleFailedNode(j) \/ LoadIR(j) \/ reloadIRIfPatched(j)
    \/ Consume(j) \/ StoreOutput(j) \/ handleSkippedNode(j) \/ DetermineNextNodes(j)
    \/ ExitLoop(j) \/ RouteNext(j) \/ Emit(j) \/ CheckCompletion(j) \/ UpdateRunStatus(j)

Faulty(j) ==
    \/ WorkerSignalsTwice(j) \/ WorkerLose(j) \/ EmitFails(j)
    \/ HandlerError(j) \/ FailureHandlerError(j)

Next ==
    \/ StartRun \/ PublishEntryFails \/ PopSignal \/ Crash
    \/ \E j \in Jobs : Worker(j) \/ Handler(j) \/ Faulty(j)

Spec == Init /\ [][Next]_vars

\* Goroutines are scheduled and workers answer.  A human need not answer, an
\* agent need not patch, and faults need not happen.
Progress ==
    \/ StartRun \/ PopSignal
    \/ \E j \in Jobs : \/ Handler(j)
                       \/ /\ job[j].phase = "queued" /\ Def(j).type # "hitl"
                          /\ WorkerComplete(j) \/ WorkerFail(j)

FairSpec == Spec /\ WF_vars(Progress)

-----------------------------------------------------------------------------
(* Properties. *)

TypeOK ==
    /\ wf \in DOMAIN Workflows
    /\ ir \in 0..MaxPatches
    /\ patches \in 0..MaxPatches
    /\ job \in Seq(Job)
    /\ \A j \in Jobs : /\ job[j].parent < j
                      /\ job[j].irv <= MaxPatches /\ job[j].need <= MaxPatches
    /\ signals \in Seq([job: Jobs, status: {"completed", "failed"}])
    /\ failing \subseteq Jobs
    /\ counter \in Int
    /\ consumed \subseteq Node
    /\ context \subseteq Node
    /\ loopIter \in [Node -> Nat]
    /\ runStatus \in {"none", "FAILED", "COMPLETED"}
    /\ faults \in 0..MaxFaults

Counted == {j \in Jobs : job[j].counted}

\* A completed signal handled a second time has a job that is no token.
NoDuplicates == \A j \in Jobs : job[j].token \/ job[j].absorber

AllCounted == \A j \in Jobs : job[j].token => job[j].counted

\* Phases of a token before its Consume, and those that never reach it.
Unconsumed == {"unsent", "queued", "signalled", "popped", "reload", "ready", "skip",
               "absorb", "failed", "stranded"}

\* Phases from which a job may still create other jobs on its own.
Routing == {"absorb", "consumed", "stored", "exitloop", "routing"}

Quiescent ==
    /\ job # <<>> /\ signals = <<>> /\ failing = {}
    /\ \A j \in Jobs : job[j].phase \in Final

Undisturbed == faults = 0 /\ \A j \in Jobs : job[j].phase # "failed"

\* The counter is the number of tokens counted so far minus the number of
\* nodes consumed so far: in every state, whatever is lost, duplicated or
\* crashes, apply_delta.lua applies each op key once (sdk Consume and Emit).
CounterAccounting == counter = Cardinality(Counted) - Cardinality(consumed)

\* What a counter of 0 means in this code.  If every published token has been
\* counted and no signal was handled twice, then no token waits for a worker
\* or for its Consume, none failed or was stranded, and no node was visited
\* twice: a workflow that revisits a node never reads 0 again.
ZeroMeansDone ==
    job # <<>> /\ counter = 0 /\ AllCounted /\ NoDuplicates
        => /\ \A j \in Jobs : job[j].token => job[j].phase \notin Unconsumed
           /\ \A j, k \in Jobs :
                 job[j].token /\ job[k].token /\ job[j].node = job[k].node => j = k

\* A token reaches a worker only after the output of the node it comes from is
\* in the run's context, where the next node's config is resolved from
\* (storeResultInCAS and handleAbsorberNode before publishToken).
OutputBeforeToken ==
    faults = 0 => \A j \in Jobs : job[j].parent > 0 => job[job[j].parent].node \in context

\* Once an agent's completion has been routed, it was routed with an IR that
\* holds the patches this agent made (reloadIRIfPatched before the second load).
AgentSeesOwnPatch ==
    faults = 0 =>
        \A j \in Jobs : job[j].phase \in {"exitloop", "routing", "check", "completing", "done"}
                         => job[j].irv >= job[j].need

\* A loop entered by one token goes back fewer times than max_iterations.
LoopBackBound ==
    NoDuplicates =>
        \A n \in DOMAIN IRAt(0) :
            LET d == IRAt(0)[n]
            IN  HasLoop(d) =>
                  Cardinality({j \in Jobs : /\ job[j].node = d.loop.back /\ job[j].parent > 0
                                            /\ job[job[j].parent].node = n}) < d.loop.max

Settled ==
    /\ job # <<>> /\ AllCounted /\ NoDuplicates
    /\ \A i \in DOMAIN signals : signals[i].status = "failed"
    /\ \A j \in Jobs : job[j].phase \notin Routing

\* A counter of 0 is final once no handler is between its Consume and its Emit
\* and no absorber runs: no later step creates a job or moves the counter.
ZeroIsFinal == [][Settled /\ counter = 0 => Len(job') = Len(job) /\ counter' = 0]_vars

AwaitsHuman == \E j \in Jobs : job[j].phase = "queued" /\ Def(j).type = "hitl"

\* A token that no Consume will take off the counter: of a node visited before,
\* of an absorber behind an absorber, or of a node that is not in the IR.
Leaks ==
    \E j \in Jobs :
        /\ job[j].token
        /\ \/ job[j].absorber
           \/ job[j].phase = "lost"
           \/ \E k \in Jobs \ {j} : job[k].token /\ job[k].node = job[j].node

\* A run with no failure, no fault and no token that leaks drains: the counter
\* comes to 0 for good, unless an approval is never answered.
Drains == <>[](counter = 0 \/ AwaitsHuman) \/ <>~Undisturbed \/ <>Leaks

\* No goroutine waits for ever: when every worker answers, the run comes to
\* rest, with every token handled, unless an approval is never answered.
ComesToRest == <>[](Quiescent \/ AwaitsHuman)

-----------------------------------------------------------------------------
(* What the documents and comments of the repository say of a run. *)

\* "Counter = Number of active tokens in flight": a run at rest, in which
\* nothing failed, has none.
RestMeansZero == Quiescent /\ Undisturbed => counter = 0

\* "counter == 0 means all tokens consumed, workflow complete!": a run marked
\* COMPLETED has no token anywhere.
CompletedMeansDone ==
    runStatus = "COMPLETED" => \A j \in Jobs : job[j].phase \in Final \cup {"check", "completing"}

=============================================================================
