----------------------------- MODULE Approvals -----------------------------
(***************************************************************************)
(* Approvals of one run: the HITL worker (cmd/hitl-worker) opens an        *)
(* approval for each token on wf.tasks.hitl, a person decides through the  *)
(* fanout service's POST handler (cmd/fanout/server.go), and the worker's  *)
(* second goroutine turns the decision into a completion signal.           *)
(*                                                                         *)
(* A worker process runs two goroutines, one per stream, each handling one *)
(* message at a time.  Messages are read with ">" and acknowledged         *)
(* whatever the handler returned, so none is ever read again.  An action   *)
(* is the code around one access to Redis.                                 *)
(***************************************************************************)
EXTENDS Integers, Sequences, FiniteSets

CONSTANTS
    Nodes,       \* the run's approval nodes
    Workers,     \* HITL worker processes
    Approvers,   \* HTTP requests the fanout service handles at a time
    MaxTokens,   \* bound on the tokens sent to one node
    MaxPosts,    \* bound on the decisions posted
    Eager,       \* decisions may be posted before the notification is out
    FaultKinds,  \* the kinds of fault that may happen
    MaxFaults    \* bound on their number

ASSUME ApprovalsAssumption ==
    /\ IsFiniteSet(Nodes)
    /\ MaxTokens \in Nat /\ MaxPosts \in Nat /\ MaxFaults \in Nat
    /\ Eager \in BOOLEAN
    /\ FaultKinds \subseteq {"crash", "error", "expiry", "username"}

VARIABLES
    tokens,           \* tokens the coordinator has sent to each node
    requests,         \* stream wf.tasks.hitl
    responses,        \* stream wf.tasks.hitl.responses
    approval,         \* status in hitl:approval:<run>:<node>; "none" is no key
    workflowPending,  \* workflow:<user>:<tag>:pending_approvals, this run's share
    runPending,       \* run:<run>:pending_approvals
    nodeStatus,       \* run:<run>:node:<node>:status
    announced,        \* nodes whose approval_required event was published
    signals,          \* completion signals pushed, in order
    req,              \* request goroutine of each worker
    resp,             \* response goroutine of each worker
    post,             \* HandleApproval calls in progress
    posts,            \* how many there have been
    faults            \* faults so far

streams == <<tokens, requests, responses>>
keys    == <<approval, workflowPending, runPending, nodeStatus>>
vars    == <<streams, keys, announced, signals, req, resp, post, posts, faults>>

-----------------------------------------------------------------------------

Decision == [node: Nodes, approved: BOOLEAN]

Decided == {"approved", "rejected"}

Verdict(approved) == IF approved THEN "approved" ELSE "rejected"

Idle == [pc |-> "idle"]

Opening == [pc: {"load", "open", "undoWorkflow", "undoRun", "status", "announce"}, node: Nodes]

Answering == [pc: {"check", "count", "signal", "record", "settle"}, node: Nodes, approved: BOOLEAN]

Posting == [pc: {"publish"}, node: Nodes, approved: BOOLEAN]

Fault(kind) == kind \in FaultKinds /\ faults < MaxFaults /\ faults' = faults + 1

NoFault == UNCHANGED faults

\* A Redis call that fails: the command may have been applied all the same.
MayApply(effect, unchanged) == Fault("error") /\ (effect \/ unchanged)

\* A Redis call whose failure the handler logs before it goes on.
Logged(effect, unchanged) ==
    \/ effect /\ NoFault
    \/ MayApply(effect, unchanged)

Init ==
    /\ tokens = [n \in Nodes |-> 0]
    /\ requests = <<>> /\ responses = <<>>
    /\ approval = [n \in Nodes |-> "none"]
    /\ workflowPending = 0 /\ runPending = 0
    /\ nodeStatus = [n \in Nodes |-> "none"]
    /\ announced = {} /\ signals = <<>>
    /\ req = [w \in Workers |-> Idle]
    /\ resp = [w \in Workers |-> Idle]
    /\ post = [a \in Approvers |-> Idle]
    /\ posts = 0 /\ faults = 0

-----------------------------------------------------------------------------
(* The coordinator. *)

\* A token for an approval node; joins and loops send more than one.
PublishToken(n) ==
    /\ tokens[n] < MaxTokens
    /\ tokens' = [tokens EXCEPT ![n] = @ + 1]
    /\ requests' = Append(requests, n)
    /\ UNCHANGED <<responses, keys, announced, signals, req, resp, post, posts, faults>>

-----------------------------------------------------------------------------
(* handleApprovalRequest *)

ReqGoto(w, pc) == req' = [req EXCEPT ![w].pc = pc]

ReqReturns(w) == req' = [req EXCEPT ![w] = Idle]

ReqOnly == UNCHANGED <<resp, post, posts, responses, tokens, signals>>

processNextRequest(w) ==
    /\ req[w] = Idle /\ requests # <<>>
    /\ req' = [req EXCEPT ![w] = [pc |-> "load", node |-> Head(requests)]]
    /\ requests' = Tail(requests)
    /\ ReqOnly /\ UNCHANGED <<keys, announced, faults>>

\* Mutant: an IR without a tag is an error instead of the tag "unknown".
LoadIRStrict(w) ==
    /\ req[w].pc = "load"
    /\ ReqGoto(w, "open") \/ ReqReturns(w)
    /\ ReqOnly /\ UNCHANGED <<requests, keys, announced, faults>>

\* GET ir:<run>; without it the handler returns and the request is gone.
LoadIR(w) ==
    /\ req[w].pc = "load"
    /\ \/ ReqGoto(w, "open") /\ NoFault
       \/ ReqReturns(w) /\ Fault("error")
    /\ ReqOnly /\ UNCHANGED <<requests, keys, announced>>

\* The transaction SETNX, INCR, INCR.
OpenTx(n) ==
    /\ approval' = [approval EXCEPT ![n] = IF @ = "none" THEN "pending" ELSE @]
    /\ workflowPending' = workflowPending + 1
    /\ runPending' = runPending + 1
    /\ UNCHANGED nodeStatus

\* Mutant: the notification goes out before the node's status is set.
OpenApprovalAnnounced(w) ==
    /\ req[w].pc = "open"
    /\ OpenTx(req[w].node)
    /\ ReqGoto(w, IF approval[req[w].node] = "none" THEN "status" ELSE "undoWorkflow")
    /\ announced' = announced \cup {req[w].node}
    /\ ReqOnly /\ UNCHANGED <<requests, faults>>

\* wasCreated decides between the notification and the way back.
OpenApproval(w) ==
    /\ req[w].pc = "open"
    /\ \/ /\ OpenTx(req[w].node) /\ NoFault
          /\ ReqGoto(w, IF approval[req[w].node] = "none" THEN "status" ELSE "undoWorkflow")
       \/ MayApply(OpenTx(req[w].node), UNCHANGED keys) /\ ReqReturns(w)
    /\ ReqOnly /\ UNCHANGED <<requests, announced>>

\* The approval existed already: two single DECRs take the INCRs back.
UndoWorkflow(w) ==
    /\ req[w].pc = "undoWorkflow"
    /\ Logged(workflowPending' = workflowPending - 1,
              UNCHANGED workflowPending)
    /\ ReqGoto(w, "undoRun")
    /\ ReqOnly /\ UNCHANGED <<requests, approval, runPending, nodeStatus, announced>>

\* Mutant: only the workflow's counter is taken back.
UndoRunForgotten(w) ==
    /\ req[w].pc = "undoRun"
    /\ ReqReturns(w)
    /\ ReqOnly /\ UNCHANGED <<requests, keys, announced, faults>>

UndoRun(w) ==
    /\ req[w].pc = "undoRun"
    /\ Logged(runPending' = runPending - 1,
              UNCHANGED runPending)
    /\ ReqReturns(w)
    /\ ReqOnly /\ UNCHANGED <<requests, approval, workflowPending, nodeStatus, announced>>

\* Node and run status; nothing reads run:<run>:status.
SetWaiting(w) ==
    /\ req[w].pc = "status"
    /\ Logged(nodeStatus' = [nodeStatus EXCEPT ![req[w].node] = "waiting_for_approval"],
              UNCHANGED nodeStatus)
    /\ ReqGoto(w, "announce")
    /\ ReqOnly /\ UNCHANGED <<requests, approval, workflowPending, runPending, announced>>

\* Nobody is notified if the IR has no username, as after an edit with PatchRun,
\* which loses the metadata of the IR.
publishApprovalRequest(w) ==
    /\ req[w].pc = "announce"
    /\ \/ Logged(announced' = announced \cup {req[w].node}, UNCHANGED announced)
       \/ Fault("username") /\ UNCHANGED announced
    /\ ReqReturns(w)
    /\ ReqOnly /\ UNCHANGED <<requests, keys>>

-----------------------------------------------------------------------------
(* HandleApproval, in the fanout service *)

PostOnly == UNCHANGED <<tokens, requests, keys, announced, signals, req, resp>>

\* A person posts a decision on an approval that is still pending; otherwise
\* the answer is 404 or 409 and nothing changes.
CheckPending(a, n, approved) ==
    /\ post[a] = Idle /\ posts < MaxPosts
    /\ Eager \/ n \in announced
    /\ approval[n] = "pending"
    /\ post' = [post EXCEPT ![a] = [pc |-> "publish", node |-> n, approved |-> approved]]
    /\ posts' = posts + 1
    /\ PostOnly /\ UNCHANGED <<responses, faults>>

PublishDecision(a) ==
    /\ post[a].pc = "publish"
    /\ Logged(responses' = Append(responses, [node |-> post[a].node, approved |-> post[a].approved]),
              UNCHANGED responses)
    /\ post' = [post EXCEPT ![a] = Idle]
    /\ PostOnly /\ UNCHANGED posts

-----------------------------------------------------------------------------
(* handleApprovalResponse *)

RespGoto(w, pc) == resp' = [resp EXCEPT ![w].pc = pc]

RespReturns(w) == resp' = [resp EXCEPT ![w] = Idle]

RespOnly == UNCHANGED <<req, post, posts, requests, tokens, announced>>

processNextResponse(w) ==
    /\ resp[w] = Idle /\ responses # <<>>
    /\ resp' = [resp EXCEPT ![w] = [pc |-> "check", node |-> Head(responses).node,
                                    approved |-> Head(responses).approved]]
    /\ responses' = Tail(responses)
    /\ RespOnly /\ UNCHANGED <<keys, signals, faults>>

\* Mutant: the status of the approval is not looked at.
CheckStatusNot(w) ==
    /\ resp[w].pc = "check"
    /\ IF approval[resp[w].node] # "none" THEN RespGoto(w, "count") ELSE RespReturns(w)
    /\ RespOnly /\ UNCHANGED <<responses, keys, signals, faults>>

\* GET the approval, up to four times; go on only if it is pending.
CheckStatus(w) ==
    /\ resp[w].pc = "check"
    /\ \/ /\ IF approval[resp[w].node] = "pending" THEN RespGoto(w, "count") ELSE RespReturns(w)
          /\ NoFault
       \/ RespReturns(w) /\ Fault("error")
    /\ RespOnly /\ UNCHANGED <<responses, keys, signals>>

\* The transaction DECR, DECR; a failure is logged.
CountDown(w) ==
    /\ resp[w].pc = "count"
    /\ Logged(workflowPending' = workflowPending - 1 /\ runPending' = runPending - 1,
              UNCHANGED <<workflowPending, runPending>>)
    /\ RespGoto(w, "signal")
    /\ RespOnly /\ UNCHANGED <<responses, approval, nodeStatus, signals>>

\* Mutant: a failed RPUSH is only logged.
SignalCompletionLogged(w) ==
    /\ resp[w].pc = "signal"
    /\ Logged(signals' = Append(signals, [node |-> resp[w].node, approved |-> resp[w].approved]),
              UNCHANGED signals)
    /\ RespGoto(w, "record")
    /\ RespOnly /\ UNCHANGED <<responses, keys>>

\* Mutant: the handler returns once the signal is sent.
SignalCompletionLast(w) ==
    /\ resp[w].pc = "signal"
    /\ signals' = Append(signals, [node |-> resp[w].node, approved |-> resp[w].approved])
    /\ RespReturns(w)
    /\ RespOnly /\ UNCHANGED <<responses, keys, faults>>

\* RPUSH completion_signals; on failure the handler returns.
SignalCompletion(w) ==
    /\ resp[w].pc = "signal"
    /\ LET Push == signals' = Append(signals, [node |-> resp[w].node, approved |-> resp[w].approved])
       IN  \/ Push /\ NoFault /\ RespGoto(w, "record")
           \/ MayApply(Push, UNCHANGED signals) /\ RespReturns(w)
    /\ RespOnly /\ UNCHANGED <<responses, keys>>

RecordDecision(w) ==
    /\ resp[w].pc = "record"
    /\ Logged(approval' = [approval EXCEPT ![resp[w].node] = Verdict(resp[w].approved)],
              UNCHANGED approval)
    /\ RespGoto(w, "settle")
    /\ RespOnly /\ UNCHANGED <<responses, workflowPending, runPending, nodeStatus, signals>>

SetCompleted(w) ==
    /\ resp[w].pc = "settle"
    /\ Logged(nodeStatus' = [nodeStatus EXCEPT ![resp[w].node] = "completed"],
              UNCHANGED nodeStatus)
    /\ RespReturns(w)
    /\ RespOnly /\ UNCHANGED <<responses, approval, workflowPending, runPending, signals>>

-----------------------------------------------------------------------------
(* Faults *)

\* The process stops with both goroutines; what it had read is not read again.
Crash(w) ==
    /\ Fault("crash")
    /\ req[w] # Idle \/ resp[w] # Idle
    /\ req' = [req EXCEPT ![w] = Idle]
    /\ resp' = [resp EXCEPT ![w] = Idle]
    /\ UNCHANGED <<streams, keys, announced, signals, post, posts>>

\* The approval key lives for 24 hours; the two counters have no expiry.
Expire(n) ==
    /\ Fault("expiry")
    /\ approval[n] # "none"
    /\ approval' = [approval EXCEPT ![n] = "none"]
    /\ UNCHANGED <<streams, workflowPending, runPending, nodeStatus, announced, signals,
                   req, resp, post, posts>>

HandleRequest(w) ==
    \/ processNextRequest(w) \/ LoadIR(w) \/ OpenApproval(w) \/ UndoWorkflow(w)
    \/ UndoRun(w) \/ SetWaiting(w) \/ publishApprovalRequest(w)

HandleResponse(w) ==
    \/ processNextResponse(w) \/ CheckStatus(w) \/ CountDown(w) \/ SignalCompletion(w)
    \/ RecordDecision(w) \/ SetCompleted(w)

Next ==
    \/ \E n \in Nodes : PublishToken(n) \/ Expire(n)
    \/ \E a \in Approvers : \/ \E n \in Nodes, d \in BOOLEAN : CheckPending(a, n, d)
                            \/ PublishDecision(a)
    \/ \E w \in Workers : HandleRequest(w) \/ HandleResponse(w) \/ Crash(w)

Spec == Init /\ [][Next]_vars

\* Both goroutines of a worker loop forever, and an HTTP handler runs to its
\* end.  Nobody has to decide.
FairSpec ==
    /\ Spec
    /\ \A w \in Workers : WF_vars(HandleRequest(w)) /\ WF_vars(HandleResponse(w))
    /\ \A a \in Approvers : WF_vars(PublishDecision(a))

-----------------------------------------------------------------------------
(* Properties *)

\* Every goroutine, key and stream holds a value of its kind.
TypeOK ==
    /\ tokens \in [Nodes -> Nat]
    /\ requests \in Seq(Nodes) /\ responses \in Seq(Decision) /\ signals \in Seq(Decision)
    /\ approval \in [Nodes -> {"none", "pending"} \cup Decided]
    /\ workflowPending \in Int /\ runPending \in Int
    /\ nodeStatus \in [Nodes -> {"none", "waiting_for_approval", "completed"}]
    /\ announced \subseteq Nodes
    /\ req \in [Workers -> {Idle} \cup Opening]
    /\ resp \in [Workers -> {Idle} \cup Answering]
    /\ post \in [Approvers -> {Idle} \cup Posting]
    /\ posts \in Nat /\ faults \in Nat

SignalsOf(n) == {i \in DOMAIN signals : signals[i].node = n}

\* An approval recorded as decided has had its completion signal pushed, with
\* that decision: handleApprovalResponse records after a successful RPUSH, so
\* neither a crash nor a Redis error leaves a run waiting for an answer that
\* the fanout service would refuse as already processed.
NoLostDecision ==
    \A n \in Nodes : approval[n] \in Decided =>
        \E i \in SignalsOf(n) : Verdict(signals[i].approved) = approval[n]

\* While a decision is under way its approval exists: HandleApproval publishes
\* only what it found pending, so the response handler's retries for "approval
\* might not exist yet" never give up unless the key has expired.
ResponseFindsApproval ==
    /\ \A i \in DOMAIN responses : approval[responses[i].node] # "none"
    /\ \A w \in Workers : resp[w] # Idle => approval[resp[w].node] # "none"

\* A decision, once recorded, is never replaced by another, whatever was posted
\* meanwhile: the status test of handleApprovalResponse and its later SET are
\* not atomic, but a single worker handles one response at a time.  It can only
\* expire.
DecisionStands ==
    [][\A n \in Nodes : approval[n] \in Decided => approval'[n] \in {approval[n], "none"}]_vars

\* An approval is signalled once, however often people decide and tokens arrive.
SignalledOnce == \A n \in Nodes : Cardinality(SignalsOf(n)) <= 1

\* The counters are the approvals pending, plus the INCRs of requests found to
\* be duplicates and not yet taken back, minus the responses that have counted
\* down and not yet recorded their decision.
PendingAccounting ==
    LET pending   == Cardinality({n \in Nodes : approval[n] = "pending"})
        answering == Cardinality({w \in Workers : resp[w].pc \in {"signal", "record"}})
        undo(pcs) == Cardinality({w \in Workers : req[w].pc \in pcs})
    IN  /\ workflowPending = pending + undo({"undoWorkflow"}) - answering
        /\ runPending = pending + undo({"undoWorkflow", "undoRun"}) - answering

\* The node of a decided approval is shown as completed, not as waiting, as soon
\* as the response handler is through: the request handler, which runs in another
\* goroutine, does not set waiting_for_approval after it.
NodeStatusSettles ==
    \A n \in Nodes :
        approval[n] \in Decided /\ (\A w \in Workers : resp[w].pc # "settle")
            => nodeStatus[n] = "completed"

\* A node that a token was sent to has its approval announced to people in the
\* end.  It is one announcement per node: a further token finds the approval, is
\* acknowledged and opens nothing.
EveryNodeAsked ==
    \A n \in Nodes : tokens[n] > 0 ~> n \in announced

\* Every decision that HandleApproval accepts leads to a decided approval.
EveryPostDecides ==
    \A n \in Nodes :
        (\E a \in Approvers : post[a].pc = "publish" /\ post[a].node = n) ~> approval[n] \in Decided

=============================================================================
