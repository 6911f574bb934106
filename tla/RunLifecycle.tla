---------------------------- MODULE RunLifecycle ----------------------------
(***************************************************************************)
(* A run from the request that creates it to the status people see: the    *)
(* run service (cmd/orchestrator/service/run.go) records the run and puts  *)
(* a request on wf.run.requests; a run starter (cmd/workflow-runner/       *)
(* executor) claims it and sends the entry tokens; the handlers of the     *)
(* coordinator report COMPLETED or FAILED to Redis and to the stream       *)
(* run.status.updates (workflow_lifecycle); a consumer copies the stream   *)
(* into the database (consumer); and GetRunDetails shows a status computed *)
(* from the row and from the nodes' outputs.                               *)
(*                                                                         *)
(* Every key and message is of one run.  The workflow has no edges, so     *)
(* every node is an entry node and terminal: how tokens travel along edges *)
(* is the subject of Coordinator, and approvals that of Approvals.  Each   *)
(* action is the code around one access to Redis or to the database.       *)
(***************************************************************************)
EXTENDS Integers, Sequences, FiniteSets

CONSTANTS
    Entry,      \* the nodes of the workflow
    Agents,     \* those of type agent; the others are of type http
    Executors,  \* goroutines of RunRequestConsumer, one per workflow-runner
    Updaters,   \* goroutines of StatusUpdateConsumer, one per workflow-runner
    FaultKinds, \* what may go wrong: see below
    MaxFaults   \* bound on how often

\* The processes and Redis: a process stops, a message comes twice, a call fails.
\* The workflow: it does not compile, an agent node has no task.
FaultKind == {"apicrash", "crash", "duplicate", "error", "workflow", "task"}

ASSUME LifecycleAssumption ==
    /\ IsFiniteSet(Entry) /\ Agents \subseteq Entry
    /\ FaultKinds \subseteq FaultKind
    /\ MaxFaults \in Nat

VARIABLES
    api,        \* program counter of CreateRun
    row,        \* status column of the run's row; "none" is no row
    requests,   \* messages for the run on wf.run.requests
    started,    \* key run:started:<run> exists
    exec,       \* the executors
    ir,         \* key ir:<run> exists
    counter,    \* key counter:<run>
    tokens,     \* tokens of each node on the worker streams
    sent,       \* history: entry tokens ever added to the streams
    signals,    \* completion_signals, by node and status
    handler,    \* the goroutines that handle them
    consumed,   \* nodes with a consume: entry in applied:<run>
    output,     \* status of the output that <node>:output refers to
    failure,    \* nodes with a field <node>:failure:output in context:<run>
    statusKey,  \* key run:status:<run>
    updates,    \* stream run.status.updates
    updater,    \* the status updaters
    faults      \* faults so far

execution == <<counter, tokens, sent, signals, handler, consumed, output, failure>>
status    == <<statusKey, updates, updater>>
vars      == <<api, row, requests, started, exec, ir, execution, status, faults>>

-----------------------------------------------------------------------------

Terminal == {"COMPLETED", "FAILED"}

Idle == [pc |-> "idle"]

Signals == Entry \X {"completed", "failed"}

Starting == [pc: {"claim", "fetch", "store", "count", "emit"}, todo: SUBSET Entry]

HandlerState ==
    {Idle} \cup [pc: {"consume", "context", "check", "output", "fail"}]
           \cup [pc: {"set", "add"}, verdict: Terminal]

Updating == [pc: {"update"}, status: Terminal]

Fault(kind) == kind \in FaultKinds /\ faults < MaxFaults /\ faults' = faults + 1

NoFault == UNCHANGED faults

\* A call that fails: it may have been applied all the same.
MayApply(effect, unchanged) == Fault("error") /\ (effect \/ unchanged)

\* A call whose failure is logged before the caller goes on.
Logged(effect, unchanged) ==
    \/ effect /\ NoFault
    \/ MayApply(effect, unchanged)

Init ==
    /\ api = "idle" /\ row = "none" /\ requests = 0 /\ started = FALSE
    /\ exec = [e \in Executors |-> Idle]
    /\ ir = FALSE /\ counter = 0
    /\ tokens = [n \in Entry |-> 0] /\ sent = tokens
    /\ signals = [c \in Signals |-> 0]
    /\ handler = [c \in Signals |-> Idle]
    /\ consumed = {} /\ failure = {}
    /\ output = [n \in Entry |-> "none"]
    /\ statusKey = "none" /\ updates = <<>>
    /\ updater = [u \in Updaters |-> Idle]
    /\ faults = 0

-----------------------------------------------------------------------------
(* CreateRun, in the run service *)

ApiOnly == UNCHANGED <<started, exec, ir, execution, status>>

\* Load and materialise the workflow, check the rate limit, store the artifact.
\* Any failure or a refusal by the rate limiter ends the call with no run.
StoreArtifact ==
    /\ api = "idle"
    /\ api' \in {"row", "refused"}
    /\ ApiOnly /\ UNCHANGED <<row, requests, faults>>

InsertRow ==
    /\ api = "row"
    /\ \/ row' = "QUEUED" /\ api' = "publish" /\ NoFault
       \/ MayApply(row' = "QUEUED", UNCHANGED row) /\ api' = "failed"
    /\ ApiOnly /\ UNCHANGED requests

PublishRequest ==
    /\ api = "publish"
    /\ \/ requests' = requests + 1 /\ api' = "done" /\ NoFault
       \/ MayApply(requests' = requests + 1, UNCHANGED requests) /\ api' = "failed"
       \/ requests' = requests + 2 /\ api' = "done" /\ Fault("duplicate")
    /\ ApiOnly /\ UNCHANGED row

ApiCrash ==
    /\ api \in {"row", "publish"}
    /\ api' = "failed" /\ Fault("apicrash")
    /\ ApiOnly /\ UNCHANGED <<row, requests>>

-----------------------------------------------------------------------------
(* RunRequestConsumer *)

ExecGoto(e, pc) == exec' = [exec EXCEPT ![e].pc = pc]

ExecReturns(e) == exec' = [exec EXCEPT ![e] = Idle]

ExecOnly == UNCHANGED <<api, row, signals, handler, consumed, output, failure, status>>

\* XREADGROUP ">"; the message is acknowledged whatever handleMessage returns.
ReadRequest(e) ==
    /\ exec[e] = Idle /\ requests > 0
    /\ requests' = requests - 1
    /\ exec' = [exec EXCEPT ![e] = [pc |-> "claim", todo |-> Entry]]
    /\ ExecOnly /\ UNCHANGED <<started, ir, counter, tokens, sent, faults>>

\* Mutant: the answer of SETNX is not looked at.
ClaimRunAlways(e) ==
    /\ exec[e].pc = "claim"
    /\ started' = TRUE /\ ExecGoto(e, "fetch")
    /\ ExecOnly /\ UNCHANGED <<requests, ir, counter, tokens, sent, faults>>

\* SETNX run:started.
ClaimRun(e) ==
    /\ exec[e].pc = "claim"
    /\ \/ ~started /\ started' = TRUE /\ ExecGoto(e, "fetch") /\ NoFault
       \/ started /\ ExecReturns(e) /\ UNCHANGED started /\ NoFault
       \/ MayApply(started' = TRUE, UNCHANGED started) /\ ExecReturns(e)
    /\ ExecOnly /\ UNCHANGED <<requests, ir, counter, tokens, sent>>

\* Fetch the artifact and compile it.  Either failure ends the handler: the row
\* stays QUEUED and the request is not read again.
FetchWorkflow(e) ==
    /\ exec[e].pc = "fetch"
    /\ \/ ExecGoto(e, "store") /\ NoFault
       \/ ExecReturns(e) /\ (Fault("error") \/ Fault("workflow"))
    /\ ExecOnly /\ UNCHANGED <<requests, started, ir, counter, tokens, sent>>

\* SET ir:<run>; a workflow without entry nodes goes no further.
StoreIR(e) ==
    /\ exec[e].pc = "store"
    /\ \/ /\ ir' = TRUE /\ NoFault
          /\ IF Entry = {} THEN ExecReturns(e) ELSE ExecGoto(e, "count")
       \/ MayApply(ir' = TRUE, UNCHANGED ir) /\ ExecReturns(e)
    /\ ExecOnly /\ UNCHANGED <<requests, started, counter, tokens, sent>>

\* Mutant: the counter starts one too high.
InitializeCounterOneMore(e) ==
    /\ exec[e].pc = "count"
    /\ counter' = Cardinality(Entry) + 1 /\ ExecGoto(e, "emit")
    /\ ExecOnly /\ UNCHANGED <<requests, started, ir, tokens, sent, faults>>

\* SET counter:<run>, to the number of entry nodes.
InitializeCounter(e) ==
    /\ exec[e].pc = "count"
    /\ \/ counter' = Cardinality(Entry) /\ ExecGoto(e, "emit") /\ NoFault
       \/ MayApply(counter' = Cardinality(Entry), UNCHANGED counter) /\ ExecReturns(e)
    /\ ExecOnly /\ UNCHANGED <<requests, started, ir, tokens, sent>>

\* XADD of the next entry token, in the order of a Go map; the first failure
\* ends the handler.
EmitEntryToken(e) ==
    /\ exec[e].pc = "emit"
    /\ \E n \in exec[e].todo :
          LET Add == /\ tokens' = [tokens EXCEPT ![n] = @ + 1]
                     /\ sent' = [sent EXCEPT ![n] = @ + 1]
          IN  \/ /\ Add /\ NoFault
                 /\ IF exec[e].todo = {n}
                    THEN ExecReturns(e)
                    ELSE exec' = [exec EXCEPT ![e].todo = @ \ {n}]
              \/ MayApply(Add, UNCHANGED <<tokens, sent>>) /\ ExecReturns(e)
    /\ ExecOnly /\ UNCHANGED <<requests, started, ir, counter>>

-----------------------------------------------------------------------------
(* The workers *)

Send(n, statuses) ==
    signals' = [c \in Signals |->
                   signals[c] + (IF c[1] = n /\ c[2] \in statuses THEN 1 ELSE 0)]

\* A worker takes the token and signals the outcome.  The RPUSH may fail.  An
\* agent runner that fails after its completed signal sends a failed one too; one
\* that is given no task drops the job without any signal.
Execute(n) ==
    /\ tokens[n] > 0
    /\ tokens' = [tokens EXCEPT ![n] = @ - 1]
    /\ \/ (\E s \in {"completed", "failed"} : Send(n, {s})) /\ NoFault
       \/ n \in Agents /\ Send(n, {"completed", "failed"}) /\ Fault("error")
       \/ UNCHANGED signals /\ Fault("error")
       \/ n \in Agents /\ UNCHANGED signals /\ Fault("task")
    /\ UNCHANGED <<api, row, requests, started, exec, ir, counter, sent, handler, consumed,
                   output, failure, status>>

-----------------------------------------------------------------------------
(* The handler of a completion signal c = <<node, status>>, in the coordinator *)

HandlerGoto(c, pc) == handler' = [handler EXCEPT ![c] = [pc |-> pc]]

HandlerReturns(c) == handler' = [handler EXCEPT ![c] = Idle]

HandlerWrites(c, v) == handler' = [handler EXCEPT ![c] = [pc |-> "set", verdict |-> v]]

HandlerOnly ==
    UNCHANGED <<api, row, requests, started, exec, ir, tokens, sent, updater>>

\* BLPOP, then loadIR in a goroutine, which returns if that fails.
PopSignal(c) ==
    /\ handler[c] = Idle /\ signals[c] > 0
    /\ signals' = [signals EXCEPT ![c] = @ - 1]
    /\ \/ c[2] = "completed" /\ HandlerGoto(c, "consume") /\ NoFault
       \/ c[2] = "failed" /\ HandlerGoto(c, "output") /\ NoFault
       \/ UNCHANGED handler /\ Fault("error")
    /\ HandlerOnly /\ UNCHANGED <<counter, consumed, output, failure, statusKey, updates>>

\* apply_delta.lua, -1 once per node; on an error the handler returns.
Consume(c) ==
    /\ handler[c].pc = "consume"
    /\ LET Apply == /\ counter' = IF c[1] \in consumed THEN counter ELSE counter - 1
                    /\ consumed' = consumed \cup {c[1]}
       IN  \/ Apply /\ HandlerGoto(c, "context") /\ NoFault
           \/ MayApply(Apply, UNCHANGED <<counter, consumed>>) /\ HandlerReturns(c)
    /\ HandlerOnly /\ UNCHANGED <<signals, output, failure, statusKey, updates>>

\* The status in the result of a completed signal.  An agent whose patch is
\* rejected by its own validation signals completed with a result of status error.
ResultStatus(n) == IF n \in Agents THEN {"completed", "error"} ELSE {"completed"}

\* storeResultInCAS; failures are logged.
StoreOutput(c) ==
    /\ handler[c].pc = "context"
    /\ \E s \in ResultStatus(c[1]) :
          Logged(output' = [output EXCEPT ![c[1]] = s], UNCHANGED output)
    /\ HandlerGoto(c, "check")
    /\ HandlerOnly /\ UNCHANGED <<signals, counter, consumed, failure, statusKey, updates>>

\* Mutant: the run is complete once one token is left.
CheckCompletionEarly(c) ==
    /\ handler[c].pc = "check"
    /\ \/ counter <= 1 /\ HandlerWrites(c, "COMPLETED")
       \/ counter > 1 /\ HandlerReturns(c)
    /\ HandlerOnly
    /\ UNCHANGED <<signals, counter, consumed, output, failure, statusKey, updates, faults>>

\* The second loadIR and GetCounter may fail; then the handler returns.
CheckCompletion(c) ==
    /\ handler[c].pc = "check"
    /\ \/ counter = 0 /\ HandlerWrites(c, "COMPLETED") /\ NoFault
       \/ counter # 0 /\ HandlerReturns(c) /\ NoFault
       \/ HandlerReturns(c) /\ Fault("error")
    /\ HandlerOnly /\ UNCHANGED <<signals, counter, consumed, output, failure, statusKey, updates>>

\* handleFailedNode, first part: the result data, which the http worker sends
\* and the agent runner does not.
StoreFailureOutput(c) ==
    /\ handler[c].pc = "output"
    /\ IF c[1] \in Agents
       THEN UNCHANGED <<output, faults>>
       ELSE Logged(output' = [output EXCEPT ![c[1]] = "failed"], UNCHANGED output)
    /\ HandlerGoto(c, "fail")
    /\ HandlerOnly /\ UNCHANGED <<signals, counter, consumed, failure, statusKey, updates>>

\* Mutant: a failed node's token is consumed as well.
handleFailedNodeConsuming(c) ==
    /\ handler[c].pc = "fail"
    /\ failure' = failure \cup {c[1]}
    /\ counter' = IF c[1] \in consumed THEN counter ELSE counter - 1
    /\ consumed' = consumed \cup {c[1]}
    /\ HandlerWrites(c, "FAILED")
    /\ HandlerOnly /\ UNCHANGED <<signals, output, statusKey, updates, faults>>

\* handleFailedNode, second part: StoreContext of <node>:failure, which adds
\* :output to the field's name.  The token is not consumed.
handleFailedNode(c) ==
    /\ handler[c].pc = "fail"
    /\ Logged(failure' = failure \cup {c[1]}, UNCHANGED failure)
    /\ HandlerWrites(c, "FAILED")
    /\ HandlerOnly /\ UNCHANGED <<signals, counter, consumed, output, statusKey, updates>>

\* UpdateRunStatus: SET and XADD travel in one pipeline, which is not a
\* transaction, so other commands may come between them.  Exec fails as a whole
\* or after the SET.
SetStatusKey(c) ==
    /\ handler[c].pc = "set"
    /\ \/ /\ statusKey' = handler[c].verdict /\ NoFault
          /\ handler' = [handler EXCEPT ![c].pc = "add"]
       \/ UNCHANGED statusKey /\ HandlerReturns(c) /\ Fault("error")
    /\ HandlerOnly /\ UNCHANGED <<signals, counter, consumed, output, failure, updates>>

QueueUpdate(c) ==
    /\ handler[c].pc = "add"
    /\ Logged(updates' = Append(updates, handler[c].verdict), UNCHANGED updates)
    /\ HandlerReturns(c)
    /\ HandlerOnly /\ UNCHANGED <<signals, counter, consumed, output, failure, statusKey>>

-----------------------------------------------------------------------------
(* StatusUpdateConsumer *)

ReadUpdate(u) ==
    /\ updater[u] = Idle /\ updates # <<>>
    /\ updater' = [updater EXCEPT ![u] = [pc |-> "update", status |-> Head(updates)]]
    /\ updates' = Tail(updates)
    /\ UNCHANGED <<api, row, requests, started, exec, ir, execution, statusKey, faults>>

\* Mutant: the update is skipped unless the run is RUNNING.
UpdateRowIfRunning(u) ==
    /\ updater[u].pc = "update"
    /\ row' = IF row = "RUNNING" THEN updater[u].status ELSE row
    /\ updater' = [updater EXCEPT ![u] = Idle]
    /\ UNCHANGED <<api, requests, started, exec, ir, execution, statusKey, updates, faults>>

\* UPDATE run SET status; a failure is logged and the message acknowledged.
UpdateRow(u) ==
    /\ updater[u].pc = "update"
    /\ Logged(row' = updater[u].status, UNCHANGED row)
    /\ updater' = [updater EXCEPT ![u] = Idle]
    /\ UNCHANGED <<api, requests, started, exec, ir, execution, statusKey, updates>>

\* Some workflow-runners stop; nothing they had read is read again.
Crash ==
    /\ Fault("crash")
    /\ \E E \in SUBSET Executors, H \in SUBSET Signals, U \in SUBSET Updaters :
          /\ exec' = [e \in Executors |-> IF e \in E THEN Idle ELSE exec[e]]
          /\ handler' = [c \in Signals |-> IF c \in H THEN Idle ELSE handler[c]]
          /\ updater' = [u \in Updaters |-> IF u \in U THEN Idle ELSE updater[u]]
    /\ UNCHANGED <<api, row, requests, started, ir, counter, tokens, sent, signals, consumed,
                   output, failure, statusKey, updates>>

CreateRun == StoreArtifact \/ InsertRow \/ PublishRequest

HandleMessage(e) ==
    \/ ReadRequest(e) \/ ClaimRun(e) \/ FetchWorkflow(e) \/ StoreIR(e)
    \/ InitializeCounter(e) \/ EmitEntryToken(e)

HandleCompletion(c) ==
    \/ PopSignal(c) \/ Consume(c) \/ StoreOutput(c) \/ CheckCompletion(c)
    \/ StoreFailureOutput(c) \/ handleFailedNode(c) \/ SetStatusKey(c) \/ QueueUpdate(c)

HandleUpdate(u) == ReadUpdate(u) \/ UpdateRow(u)

Next ==
    \/ CreateRun \/ ApiCrash \/ Crash
    \/ \E e \in Executors : HandleMessage(e)
    \/ \E n \in Entry : Execute(n)
    \/ \E c \in Signals : HandleCompletion(c)
    \/ \E u \in Updaters : HandleUpdate(u)

Spec == Init /\ [][Next]_vars

\* The consumers loop forever, a handler runs to its end, and workers answer
\* every token.
FairSpec ==
    /\ Spec
    /\ WF_vars(CreateRun)
    /\ \A e \in Executors : WF_vars(HandleMessage(e))
    /\ \A n \in Entry : WF_vars(Execute(n))
    /\ \A c \in Signals : WF_vars(HandleCompletion(c))
    /\ \A u \in Updaters : WF_vars(HandleUpdate(u))

-----------------------------------------------------------------------------
(* What GetRunDetails shows. *)

\* buildNodeExecutions: the status in the node's output, whatever it is (success,
\* which stands for completed, is completed here).  A field whose name ends
\* in :failure would win, but no code writes one.
NodeShown(n) == IF output[n] = "none" THEN "not_executed" ELSE output[n]

\* Mutant: RUNNING is tried before COMPLETED.
DisplayStatusRunningFirst ==
    LET shown(s) == {n \in Entry : NodeShown(n) = s}
    IN  IF ~ir THEN row
        ELSE IF shown("failed") \cup shown("error") # {} THEN "FAILED"
        ELSE IF shown("completed") # {} THEN "RUNNING"
        ELSE row

\* The status shown: without an IR the row's, otherwise from the nodes.
DisplayStatus ==
    LET shown(s) == {n \in Entry : NodeShown(n) = s}
    IN  IF ~ir THEN row
        ELSE IF shown("failed") \cup shown("error") # {} THEN "FAILED"
        ELSE IF Entry # {} /\ shown("completed") = Entry THEN "COMPLETED"
        ELSE IF shown("completed") # {} THEN "RUNNING"
        ELSE row

-----------------------------------------------------------------------------
(* Properties *)

\* Every goroutine, key, row and message holds a value of its kind.
TypeOK ==
    /\ api \in {"idle", "row", "publish", "done", "failed", "refused"}
    /\ row \in {"none", "QUEUED"} \cup Terminal
    /\ requests \in Nat /\ started \in BOOLEAN /\ ir \in BOOLEAN /\ counter \in Int
    /\ exec \in [Executors -> {Idle} \cup Starting]
    /\ tokens \in [Entry -> Nat] /\ sent \in [Entry -> Nat]
    /\ signals \in [Signals -> Nat]
    /\ handler \in [Signals -> HandlerState]
    /\ consumed \subseteq Entry /\ failure \subseteq Entry
    /\ output \in [Entry -> {"none", "completed", "error", "failed"}]
    /\ statusKey \in {"none"} \cup Terminal
    /\ updates \in Seq(Terminal)
    /\ updater \in [Updaters -> {Idle} \cup Updating]
    /\ faults \in Nat

\* A token on its way to its Consume: still to be sent, on a stream, signalled as
\* completed, or held by a handler.
InFlight(n) ==
    \/ tokens[n] > 0
    \/ signals[<<n, "completed">>] > 0
    \/ handler[<<n, "completed">>].pc = "consume"
    \/ \E e \in Executors : exec[e].pc = "emit" /\ n \in exec[e].todo

\* Each entry token is sent at most once, however often the request is on the
\* stream, to how many executors it goes and wherever they fail.
StartedOnce == \A n \in Entry : sent[n] <= 1

\* The counter covers the tokens on their way: it is set before the first entry
\* token is sent, and no failure or lost signal makes it too small.
CounterCovers == Cardinality({n \in Entry : InFlight(n)}) <= counter

\* COMPLETED, in Redis, on the stream, with an updater or in the row, means that
\* the token of every node has been consumed.
CompletedMeansAll ==
    (\/ statusKey = "COMPLETED" \/ row = "COMPLETED"
     \/ \E i \in DOMAIN updates : updates[i] = "COMPLETED"
     \/ \E u \in Updaters : updater[u] # Idle /\ updater[u].status = "COMPLETED")
    => consumed = Entry

\* COMPLETED and FAILED are final in Redis and in the database, although
\* UpdateRunStatus and UpdateStatus overwrite whatever is there.
StatusIsFinal ==
    [][/\ statusKey \in Terminal => statusKey' = statusKey
       /\ row \in Terminal => row' = row]_vars

\* A run that CreateRun accepted reaches a final status in the database, if its
\* workflow compiles and each of its agents has a task.
AcceptedRunEnds == api = "done" ~> row \in Terminal

\* A final status in Redis reaches the database through run.status.updates.
RowFollowsKey == \A s \in Terminal : statusKey = s ~> row = s

\* The status people see and the one in the database come to agree for good on a
\* COMPLETED run, unless an agent's result has status error: then GetRunDetails
\* shows FAILED for good, and the row stays COMPLETED.
CompletedIsShown ==
    row = "COMPLETED" ~>
        [](DisplayStatus = IF \E n \in Entry : output[n] = "error" THEN "FAILED" ELSE "COMPLETED")
=============================================================================
