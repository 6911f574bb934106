-------------------------- MODULE ApprovalsProofs --------------------------
(***************************************************************************)
(* Proofs about the approvals, for any nodes, workers, approvers and       *)
(* bounds.                                                                 *)
(***************************************************************************)
EXTENDS Approvals, FiniteSetTheorems, TLAPS

\* A message added to a stream or list keeps it a sequence of its kind.
LEMMA AppendType ==
    ASSUME NEW S, NEW s \in Seq(S), NEW x \in S
    PROVE  Append(s, x) \in Seq(S)
OBVIOUS

\* Typing of the goroutines that handle requests (handleApprovalRequest).
LEMMA RequestTypes ==
    ASSUME TypeOK, NEW w \in Workers, HandleRequest(w)
    PROVE  TypeOK'
<1> USE DEF TypeOK, ReqOnly, keys
<1>1. CASE processNextRequest(w)
  <2>1. Head(requests) \in Nodes /\ Tail(requests) \in Seq(Nodes)
    BY <1>1 DEF processNextRequest
  <2>2. [pc |-> "load", node |-> Head(requests)] \in Opening
    BY <2>1 DEF Opening
  <2> QED BY <1>1, <2>1, <2>2, Zenon DEF processNextRequest
<1>2. ASSUME req[w].pc # "idle"
      PROVE  /\ req[w] \in Opening
             /\ req[w].node \in Nodes
             /\ \A pc \in {"open", "undoWorkflow", "undoRun", "status", "announce"} :
                   [req EXCEPT ![w].pc = pc] \in [Workers -> {Idle} \cup Opening]
             /\ [req EXCEPT ![w] = Idle] \in [Workers -> {Idle} \cup Opening]
  <2>1. req[w] \in Opening
    BY <1>2 DEF Idle
  <2> QED BY <2>1, Zenon DEF Opening
<1>3. faults' \in Nat
  BY DEF HandleRequest, processNextRequest, LoadIR, OpenApproval, UndoWorkflow, UndoRun,
         SetWaiting, publishApprovalRequest, Fault, NoFault, MayApply, Logged
<1>4. CASE LoadIR(w)
  BY <1>2, <1>3, <1>4, Zenon DEF LoadIR, ReqGoto, ReqReturns
<1>5. CASE OpenApproval(w)
  <2>1. OpenTx(req[w].node) \/ UNCHANGED keys
    BY <1>5 DEF OpenApproval, MayApply
  <2>2. req' \in [Workers -> {Idle} \cup Opening]
    BY <1>2, <1>5, Zenon DEF OpenApproval, MayApply, ReqGoto, ReqReturns
  <2>3. /\ approval' \in [Nodes -> {"none", "pending"} \cup Decided]
        /\ workflowPending' \in Int /\ runPending' \in Int
        /\ nodeStatus' = nodeStatus
    BY <2>1 DEF OpenTx
  <2> QED BY <1>3, <1>5, <2>2, <2>3 DEF OpenApproval
<1>6. CASE UndoWorkflow(w)
  BY <1>2, <1>3, <1>6 DEF UndoWorkflow, ReqGoto, MayApply, Logged
<1>7. CASE UndoRun(w)
  BY <1>2, <1>3, <1>7 DEF UndoRun, ReqReturns, MayApply, Logged
<1>8. CASE SetWaiting(w)
  BY <1>2, <1>3, <1>8, Zenon DEF SetWaiting, ReqGoto, MayApply, Logged
<1>9. CASE publishApprovalRequest(w)
  BY <1>2, <1>3, <1>9, Zenon DEF publishApprovalRequest, ReqReturns, MayApply, Logged
<1> QED BY <1>1, <1>4, <1>5, <1>6, <1>7, <1>8, <1>9, Zenon DEF HandleRequest

\* Typing of the goroutines that handle responses (handleApprovalResponse).
LEMMA ResponseTypes ==
    ASSUME TypeOK, NEW w \in Workers, HandleResponse(w)
    PROVE  TypeOK'
<1> USE DEF TypeOK, RespOnly, keys
<1>1. CASE processNextResponse(w)
  <2>1. Head(responses) \in Decision /\ Tail(responses) \in Seq(Decision)
    BY <1>1 DEF processNextResponse
  <2>2. [pc |-> "check", node |-> Head(responses).node,
         approved |-> Head(responses).approved] \in Answering
    BY <2>1, Zenon DEF Answering, Decision
  <2> QED BY <1>1, <2>1, <2>2, Zenon DEF processNextResponse
<1>2. ASSUME resp[w].pc # "idle"
      PROVE  /\ [node |-> resp[w].node, approved |-> resp[w].approved] \in Decision
             /\ \A pc \in {"count", "signal", "record", "settle"} :
                   [resp EXCEPT ![w].pc = pc] \in [Workers -> {Idle} \cup Answering]
             /\ [resp EXCEPT ![w] = Idle] \in [Workers -> {Idle} \cup Answering]
  <2>1. resp[w] \in Answering
    BY <1>2 DEF Idle
  <2> QED BY <2>1, Zenon DEF Answering, Decision
<1>3. faults' \in Nat
  BY DEF HandleResponse, processNextResponse, CheckStatus, CountDown, SignalCompletion,
         RecordDecision, SetCompleted, Fault, NoFault, MayApply, Logged
<1>4. CASE CheckStatus(w)
  BY <1>2, <1>3, <1>4, Zenon DEF CheckStatus, RespGoto, RespReturns
<1>5. CASE CountDown(w)
  BY <1>2, <1>3, <1>5 DEF CountDown, RespGoto, MayApply, Logged
<1>6. CASE SignalCompletion(w)
  <2> DEFINE d == [node |-> resp[w].node, approved |-> resp[w].approved]
  <2>1. d \in Decision
    BY <1>2, <1>6 DEF SignalCompletion
  <2>2. signals' \in Seq(Decision)
    <3>1. signals' = Append(signals, d) \/ signals' = signals
      BY <1>6 DEF SignalCompletion, MayApply
    <3>2. signals \in Seq(Decision)
      OBVIOUS
    <3> HIDE DEF d, TypeOK
    <3> QED BY <2>1, <3>1, <3>2, AppendType
  <2>3. resp' \in [Workers -> {Idle} \cup Answering]
    BY <1>2, <1>6, Zenon DEF SignalCompletion, RespGoto, RespReturns
  <2> QED BY <1>3, <1>6, <2>2, <2>3, Zenon DEF SignalCompletion
<1>7. CASE RecordDecision(w)
  <2>1. Verdict(resp[w].approved) \in Decided
    BY DEF Verdict, Decided
  <2> QED BY <1>2, <1>3, <1>7, <2>1, Zenon DEF RecordDecision, RespGoto, MayApply, Logged
<1>8. CASE SetCompleted(w)
  BY <1>2, <1>3, <1>8, Zenon DEF SetCompleted, RespReturns, MayApply, Logged
<1> QED BY <1>1, <1>4, <1>5, <1>6, <1>7, <1>8, Zenon DEF HandleResponse

\* Typing of a step of any actor.
LEMMA NextTypes ==
    ASSUME TypeOK, [Next]_vars
    PROVE  TypeOK'
<1> USE DEF TypeOK, keys, streams
<1>1. ASSUME NEW n \in Nodes, PublishToken(n) PROVE TypeOK'
  BY <1>1 DEF PublishToken
<1>2. ASSUME NEW n \in Nodes, Expire(n) PROVE TypeOK'
  BY <1>2 DEF Expire, Fault
<1>3. ASSUME NEW a \in Approvers, NEW n \in Nodes, NEW d \in BOOLEAN, CheckPending(a, n, d)
      PROVE  TypeOK'
  <2>1. [pc |-> "publish", node |-> n, approved |-> d] \in Posting
    BY DEF Posting
  <2> QED BY <1>3, <2>1 DEF CheckPending, PostOnly
<1>4. ASSUME NEW a \in Approvers, PublishDecision(a) PROVE TypeOK'
  <2>1. post[a] \in Posting
    BY <1>4 DEF PublishDecision, Idle
  <2>2. [node |-> post[a].node, approved |-> post[a].approved] \in Decision
    BY <2>1 DEF Posting, Decision
  <2>3. responses' \in Seq(Decision)
    <3> DEFINE d == [node |-> post[a].node, approved |-> post[a].approved]
    <3>1. responses' = Append(responses, d) \/ responses' = responses
      BY <1>4 DEF PublishDecision, Logged, MayApply
    <3>2. d \in Decision /\ responses \in Seq(Decision)
      BY <2>2
    <3> HIDE DEF d, TypeOK
    <3> QED BY <3>1, <3>2, AppendType
  <2>4. faults' \in Nat
    BY <1>4 DEF PublishDecision, Logged, MayApply, Fault, NoFault
  <2> QED BY <1>4, <2>3, <2>4, Zenon DEF PublishDecision, PostOnly
<1>5. ASSUME NEW w \in Workers, Crash(w) PROVE TypeOK'
  BY <1>5 DEF Crash, Fault
<1>6. CASE UNCHANGED vars
  BY <1>6 DEF vars
<1> QED BY <1>1, <1>2, <1>3, <1>4, <1>5, <1>6, RequestTypes, ResponseTypes, Zenon DEF Next

\* Every goroutine, key and stream holds a value of its kind.
THEOREM TypeCorrectness == Spec => []TypeOK
<1>1. Init => TypeOK
  BY ApprovalsAssumption DEF Init, TypeOK
<1> QED BY <1>1, NextTypes, PTL DEF Spec

-----------------------------------------------------------------------------
(* No decision is lost. *)

\* The list s of signals holds one for node n with decision d.
Signalled(s, n, d) == \E i \in DOMAIN s : s[i] = [node |-> n, approved |-> d]

\* What handleApprovalResponse knows when it comes to record the decision.
DecisionInv ==
    /\ \A w \in Workers : resp[w].pc = "record" => Signalled(signals, resp[w].node, resp[w].approved)
    /\ \A n \in Nodes : approval[n] \in Decided =>
          \E d \in BOOLEAN : Signalled(signals, n, d) /\ Verdict(d) = approval[n]

\* completion_signals only grows (the coordinator's pops are not part of it).
LEMMA SignalsGrow ==
    ASSUME TypeOK, [Next]_vars
    PROVE  \A n, d : Signalled(signals, n, d) => Signalled(signals', n, d)
<1>1. signals' = signals \/ \E x : signals' = Append(signals, x)
  <2>1. ASSUME NEW w \in Workers, HandleRequest(w) PROVE signals' = signals
    BY <2>1, Zenon DEF HandleRequest, processNextRequest, LoadIR, OpenApproval, UndoWorkflow,
                UndoRun, SetWaiting, publishApprovalRequest, ReqOnly
  <2>2. ASSUME NEW w \in Workers, HandleResponse(w)
        PROVE  signals' = signals \/ \E x : signals' = Append(signals, x)
    BY <2>2, Zenon DEF HandleResponse, processNextResponse, CheckStatus, CountDown,
                SignalCompletion, RecordDecision, SetCompleted, MayApply
  <2> QED BY <2>1, <2>2, Zenon DEF Next, vars, PublishToken, Expire, CheckPending, PublishDecision,
                            PostOnly, Crash
<1>2. CASE signals' = signals
  BY <1>2 DEF Signalled
<1>3. ASSUME NEW x, signals' = Append(signals, x)
      PROVE  \A n, d : Signalled(signals, n, d) => Signalled(signals', n, d)
  <2>1. signals \in Seq(Decision)
    BY DEF TypeOK
  <2>2. \A i \in DOMAIN signals : i \in DOMAIN signals' /\ signals'[i] = signals[i]
    BY <1>3, <2>1
  <2> QED BY <2>2 DEF Signalled
<1> QED BY <1>1, <1>2, <1>3

\* A handler comes to "record" only by pushing its signal.
LEMMA RecordAfterSignal ==
    ASSUME TypeOK, [Next]_vars, NEW w \in Workers, resp'[w].pc = "record"
    PROVE  \/ resp'[w] = resp[w]
           \/ /\ Signalled(signals', resp[w].node, resp[w].approved)
              /\ resp'[w].node = resp[w].node /\ resp'[w].approved = resp[w].approved
<1>1. CASE SignalCompletion(w)
  <2> DEFINE x == [node |-> resp[w].node, approved |-> resp[w].approved]
  <2>1. resp[w] \in Answering /\ resp \in [Workers -> {Idle} \cup Answering]
    BY <1>1 DEF SignalCompletion, TypeOK, Idle
  <2>2. signals' = Append(signals, x) /\ resp' = [resp EXCEPT ![w].pc = "record"]
    BY <1>1, <2>1 DEF SignalCompletion, RespGoto, RespReturns, Idle
  <2>3. signals \in Seq(Decision)
    BY DEF TypeOK
  <2>4. Len(signals) + 1 \in DOMAIN signals' /\ signals'[Len(signals) + 1] = x
    BY <2>2, <2>3
  <2>5. Signalled(signals', resp[w].node, resp[w].approved)
    BY <2>1, <2>2, <2>4 DEF Signalled, Answering
  <2> QED BY <2>1, <2>2, <2>5 DEF Answering
<1>2. CASE ~SignalCompletion(w)
  <2>1. ASSUME NEW v \in Workers, v # w, HandleResponse(v) PROVE resp'[w] = resp[w]
    BY <2>1, Zenon DEF HandleResponse, processNextResponse, CheckStatus, CountDown, SignalCompletion,
                RecordDecision, SetCompleted, RespGoto, RespReturns, TypeOK
  <2>2. ASSUME HandleResponse(w) PROVE FALSE
    <3>1. ASSUME NEW pc, RespGoto(w, pc), resp[w].pc # "idle" PROVE resp'[w].pc = pc
      <4>1. resp[w] \in Answering /\ resp \in [Workers -> {Idle} \cup Answering]
        BY <3>1 DEF TypeOK, Idle
      <4> QED BY <3>1, <4>1 DEF RespGoto, Answering
    <3>2. ASSUME RespReturns(w) PROVE FALSE
      BY <3>2 DEF RespReturns, TypeOK, Idle
    <3>3. CASE processNextResponse(w)
      BY <3>3 DEF processNextResponse, TypeOK
    <3>4. CASE CheckStatus(w) \/ SetCompleted(w)
      BY <3>1, <3>2, <3>4 DEF CheckStatus, SetCompleted
    <3>5. CASE CountDown(w) \/ RecordDecision(w)
      BY <3>1, <3>5, Zenon DEF CountDown, RecordDecision
    <3> QED BY <1>2, <2>2, <3>3, <3>4, <3>5 DEF HandleResponse
  <2>3. ASSUME NEW v \in Workers, HandleRequest(v) PROVE resp'[w] = resp[w]
    BY <2>3, Zenon DEF HandleRequest, processNextRequest, LoadIR, OpenApproval, UndoWorkflow,
                UndoRun, SetWaiting, publishApprovalRequest, ReqOnly
  <2>4. ASSUME NEW v \in Workers, Crash(v) PROVE resp'[w] = resp[w]
    BY <2>4 DEF Crash, Idle, TypeOK
  <2> QED BY <2>1, <2>2, <2>3, <2>4, Zenon DEF Next, vars, PublishToken, Expire, CheckPending,
                            PublishDecision, PostOnly
<1> QED BY <1>1, <1>2

\* An approval becomes decided only by a handler at "record".
LEMMA DecidedByRecord ==
    ASSUME TypeOK, [Next]_vars, NEW n \in Nodes, approval'[n] \in Decided,
           approval'[n] # approval[n]
    PROVE  \E w \in Workers : /\ RecordDecision(w)
                              /\ resp[w].pc = "record" /\ resp[w].node = n
                              /\ approval'[n] = Verdict(resp[w].approved)
<1>1. ASSUME NEW w \in Workers, HandleRequest(w) PROVE FALSE
  <2>1. approval' = approval \/ OpenTx(req[w].node)
    BY <1>1, Zenon DEF HandleRequest, processNextRequest, LoadIR, OpenApproval, UndoWorkflow,
                UndoRun, SetWaiting, publishApprovalRequest, keys, MayApply
  <2> QED BY <2>1, Zenon DEF OpenTx, Decided, TypeOK
<1>2. ASSUME NEW w \in Workers, HandleResponse(w) PROVE RecordDecision(w)
  BY <1>2, Zenon DEF HandleResponse, processNextResponse, CheckStatus, CountDown, SignalCompletion,
              SetCompleted, keys
<1>3. ASSUME NEW w \in Workers, RecordDecision(w)
      PROVE  /\ resp[w].pc = "record" /\ resp[w].node = n
             /\ approval'[n] = Verdict(resp[w].approved)
  BY <1>3, Zenon DEF RecordDecision, Logged, MayApply, TypeOK
<1>4. ASSUME NEW m \in Nodes, Expire(m) PROVE FALSE
  BY <1>4 DEF Expire, TypeOK, Decided
<1> QED BY <1>1, <1>2, <1>3, <1>4, Zenon DEF Next, vars, PublishToken, CheckPending, PublishDecision,
                            PostOnly, Crash, keys

\* An approval recorded as decided has had its completion signal pushed, with
\* that decision, whatever crashes, Redis errors and expiries there were and
\* however many workers run.
THEOREM NoLostDecisionHolds == Spec => []NoLostDecision
<1>1. Init => DecisionInv
  BY DEF Init, DecisionInv, Idle, Decided
<1>2. TypeOK /\ DecisionInv /\ [Next]_vars => DecisionInv'
  <2> SUFFICES ASSUME TypeOK, DecisionInv, [Next]_vars PROVE DecisionInv'
    OBVIOUS
  <2>1. ASSUME NEW w \in Workers, resp'[w].pc = "record"
        PROVE  Signalled(signals', resp[w].node, resp[w].approved) /\ resp'[w].node = resp[w].node
               /\ resp'[w].approved = resp[w].approved
    <3>1. CASE resp'[w] = resp[w]
      <4>1. Signalled(signals, resp[w].node, resp[w].approved)
        BY <2>1, <3>1 DEF DecisionInv
      <4> QED BY <3>1, <4>1, SignalsGrow
    <3> QED BY <2>1, <3>1, RecordAfterSignal
  <2>2. ASSUME NEW n \in Nodes, approval'[n] \in Decided
        PROVE  \E d \in BOOLEAN : Signalled(signals', n, d) /\ Verdict(d) = approval'[n]
    <3>1. CASE approval'[n] = approval[n]
      BY <2>2, <3>1, SignalsGrow DEF DecisionInv
    <3>2. CASE approval'[n] # approval[n]
      <4>1. PICK w \in Workers : /\ resp[w].pc = "record" /\ resp[w].node = n
                                 /\ approval'[n] = Verdict(resp[w].approved)
        BY <2>2, <3>2, DecidedByRecord
      <4>2. resp[w] \in Answering
        BY <4>1 DEF TypeOK, Idle
      <4>3. resp[w].approved \in BOOLEAN
        BY <4>2 DEF Answering
      <4>4. Signalled(signals, n, resp[w].approved)
        BY <4>1 DEF DecisionInv
      <4>5. Signalled(signals', n, resp[w].approved)
        BY <4>4, SignalsGrow
      <4> QED BY <4>1, <4>3, <4>5
    <3> QED BY <3>1, <3>2
  <2> QED BY <2>1, <2>2 DEF DecisionInv
<1>3. DecisionInv => NoLostDecision
  BY DEF DecisionInv, NoLostDecision, Signalled, SignalsOf
<1> QED BY <1>1, <1>2, <1>3, TypeCorrectness, PTL DEF Spec

-----------------------------------------------------------------------------
(* Decisions and their approvals, as long as no approval key expires. *)

\* Only a transaction that opens an approval, a handler at "record" and expiry
\* change it.
LEMMA ApprovalChanges ==
    ASSUME TypeOK, [Next]_vars, NEW n \in Nodes, approval'[n] # approval[n]
    PROVE  \/ approval[n] = "none" /\ approval'[n] = "pending" /\ UNCHANGED <<resp, signals>>
           \/ "expiry" \in FaultKinds /\ approval'[n] = "none" /\ UNCHANGED <<resp, signals>>
           \/ \E w \in Workers : /\ RecordDecision(w)
                                 /\ resp[w].pc = "record" /\ resp[w].node = n
                                 /\ approval'[n] \in Decided
<1>1. ASSUME NEW w \in Workers, HandleRequest(w)
      PROVE  approval[n] = "none" /\ approval'[n] = "pending" /\ UNCHANGED <<resp, signals>>
  <2>1. approval' = approval \/ OpenTx(req[w].node)
    BY <1>1, Zenon DEF HandleRequest, processNextRequest, LoadIR, OpenApproval, UndoWorkflow,
                UndoRun, SetWaiting, publishApprovalRequest, keys, MayApply
  <2>2. UNCHANGED <<resp, signals>>
    BY <1>1, Zenon DEF HandleRequest, processNextRequest, LoadIR, OpenApproval, UndoWorkflow,
                UndoRun, SetWaiting, publishApprovalRequest, ReqOnly
  <2> QED BY <2>1, <2>2, Zenon DEF OpenTx, TypeOK
<1>2. ASSUME NEW w \in Workers, HandleResponse(w) PROVE RecordDecision(w)
  BY <1>2, Zenon DEF HandleResponse, processNextResponse, CheckStatus, CountDown, SignalCompletion,
              SetCompleted, keys
<1>3. ASSUME NEW w \in Workers, RecordDecision(w)
      PROVE  resp[w].pc = "record" /\ resp[w].node = n /\ approval'[n] \in Decided
  BY <1>3, Zenon DEF RecordDecision, Logged, MayApply, TypeOK, Verdict, Decided
<1>4. ASSUME NEW m \in Nodes, Expire(m)
      PROVE  "expiry" \in FaultKinds /\ approval'[n] = "none" /\ UNCHANGED <<resp, signals>>
  BY <1>4 DEF Expire, Fault, TypeOK
<1> QED BY <1>1, <1>2, <1>3, <1>4, Zenon DEF Next, vars, PublishToken, CheckPending, PublishDecision,
                            PostOnly, Crash, keys

\* What a step does to the response goroutine of one worker.
LEMMA ResponseSteps ==
    ASSUME TypeOK, [Next]_vars, NEW w \in Workers, resp'[w] # resp[w]
    PROVE  \/ resp'[w] = Idle
           \/ processNextResponse(w) /\ resp'[w].pc = "check"
           \/ CheckStatus(w) /\ resp'[w].pc = "count" /\ resp'[w].node = resp[w].node
               /\ approval[resp[w].node] = "pending"
           \/ CountDown(w) /\ resp'[w].pc = "signal" /\ resp'[w].node = resp[w].node
           \/ SignalCompletion(w) /\ resp'[w].pc = "record" /\ resp'[w].node = resp[w].node
           \/ RecordDecision(w) /\ resp'[w].pc = "settle" /\ resp'[w].node = resp[w].node
<1>1. ASSUME NEW v \in Workers, HandleRequest(v) PROVE FALSE
  BY <1>1, Zenon DEF HandleRequest, processNextRequest, LoadIR, OpenApproval, UndoWorkflow,
              UndoRun, SetWaiting, publishApprovalRequest, ReqOnly
<1>2. ASSUME NEW v \in Workers, HandleResponse(v) PROVE v = w
  BY <1>2, Zenon DEF HandleResponse, processNextResponse, CheckStatus, CountDown, SignalCompletion,
              RecordDecision, SetCompleted, RespGoto, RespReturns, TypeOK
<1>3. ASSUME NEW v \in Workers, Crash(v) PROVE resp'[w] = Idle
  BY <1>3 DEF Crash, TypeOK
<1>4. ASSUME NEW pc, RespGoto(w, pc), resp[w].pc # "idle"
      PROVE  resp'[w].pc = pc /\ resp'[w].node = resp[w].node
  <2>1. resp[w] \in Answering /\ resp \in [Workers -> {Idle} \cup Answering]
    BY <1>4 DEF TypeOK, Idle
  <2> QED BY <1>4, <2>1 DEF RespGoto, Answering
<1>5. ASSUME RespReturns(w) PROVE resp'[w] = Idle
  BY <1>5 DEF RespReturns, TypeOK
<1>6. ASSUME processNextResponse(w) PROVE resp'[w].pc = "check"
  BY <1>6 DEF processNextResponse, TypeOK
<1>7. HandleResponse(w) \/ resp'[w] = Idle
  BY <1>1, <1>2, <1>3, Zenon DEF Next, vars, PublishToken, Expire, CheckPending, PublishDecision, PostOnly
<1>8. CASE CheckStatus(w)
  BY <1>4, <1>5, <1>8, Zenon DEF CheckStatus
<1>9. CASE SignalCompletion(w)
  BY <1>4, <1>5, <1>9, Zenon DEF SignalCompletion
<1>10. CASE CountDown(w) \/ RecordDecision(w) \/ SetCompleted(w)
  BY <1>4, <1>5, <1>10, Zenon DEF CountDown, RecordDecision, SetCompleted
<1> QED BY <1>6, <1>7, <1>8, <1>9, <1>10, Zenon DEF HandleResponse

\* From the status test of handleApprovalResponse to its SET the approval is
\* undecided.
HeldInv ==
    \A w \in Workers : resp[w].pc \in {"count", "signal", "record"} =>
        approval[resp[w].node] \notin Decided

\* With one worker, the test still holds when its result is used.
LEMMA HeldStep ==
    ASSUME TypeOK, HeldInv, [Next]_vars, \A v, w \in Workers : v = w
    PROVE  HeldInv'
<1> SUFFICES ASSUME NEW w \in Workers, resp'[w].pc \in {"count", "signal", "record"}
             PROVE  approval'[resp'[w].node] \notin Decided
  BY DEF HeldInv
<1>1. /\ resp[w].pc \in {"check", "count", "signal", "record"}
      /\ resp'[w].node = resp[w].node
      /\ approval[resp[w].node] \notin Decided
      /\ ~RecordDecision(w)
  <2>1. CASE resp'[w] = resp[w]
    <3>1. resp[w] \in Answering /\ resp \in [Workers -> {Idle} \cup Answering]
      BY <2>1 DEF TypeOK, Idle
    <3>2. ~RecordDecision(w)
      BY <2>1, <3>1 DEF RecordDecision, RespGoto, Answering
    <3> QED BY <2>1, <3>2 DEF HeldInv
  <2>2. CASE resp'[w] # resp[w]
    <3>1. resp'[w].pc # "idle" /\ resp'[w] # Idle
      BY DEF Idle
    <3> QED BY <2>2, <3>1, ResponseSteps, Zenon DEF HeldInv, Decided, CheckStatus, CountDown,
                             SignalCompletion, RecordDecision
  <2> QED BY <2>1, <2>2, Zenon
<1>2. resp[w].node \in Nodes
  BY <1>1 DEF TypeOK, Idle, Answering
<1>3. CASE approval'[resp[w].node] # approval[resp[w].node]
  BY <1>1, <1>2, <1>3, ApprovalChanges, Zenon DEF Decided
<1> QED BY <1>1, <1>3, Zenon

\* With one HITL worker a recorded decision is never replaced by another, whatever
\* was posted and whatever failed or expired.
THEOREM DecisionStandsHolds ==
    ASSUME \A v, w \in Workers : v = w
    PROVE  Spec => DecisionStands
<1>1. Init => HeldInv
  BY DEF Init, HeldInv, Idle
<1>2. TypeOK /\ HeldInv /\ [Next]_vars => HeldInv'
  BY HeldStep
<1>3. TypeOK /\ HeldInv /\ [Next]_vars
      => [\A n \in Nodes : approval[n] \in Decided => approval'[n] \in {approval[n], "none"}]_vars
  <2> SUFFICES ASSUME TypeOK, HeldInv, [Next]_vars, NEW n \in Nodes, approval[n] \in Decided,
                      approval'[n] # approval[n]
               PROVE  approval'[n] = "none"
    OBVIOUS
  <2> QED BY ApprovalChanges, Zenon DEF HeldInv, Decided
<1> QED BY <1>1, <1>2, <1>3, TypeCorrectness, PTL DEF Spec, DecisionStands

\* Every decision that is being published, waits in the stream or is being
\* handled is about an approval that exists.
FoundInv ==
    /\ ResponseFindsApproval
    /\ \A a \in Approvers : post[a].pc = "publish" => approval[post[a].node] # "none"

\* The decisions that are under way after a step were under way before it, or
\* HandleApproval has just accepted one: a set S that holds the nodes of all of
\* them still does.
LEMMA DecisionsStay ==
    ASSUME TypeOK, [Next]_vars, NEW S,
           \A k \in DOMAIN responses : responses[k].node \in S,
           \A w \in Workers : resp[w] # Idle => resp[w].node \in S,
           \A a \in Approvers : post[a].pc = "publish" => post[a].node \in S,
           \A a \in Approvers, n \in Nodes, d \in BOOLEAN : CheckPending(a, n, d) => n \in S
    PROVE  /\ \A k \in DOMAIN responses' : responses'[k].node \in S
           /\ \A w \in Workers : resp'[w] # Idle => resp'[w].node \in S
           /\ \A a \in Approvers : post'[a].pc = "publish" => post'[a].node \in S
<1>1. responses \in Seq(Decision)
  BY DEF TypeOK
<1>2. ASSUME NEW w \in Workers, processNextResponse(w)
      PROVE  /\ \A k \in DOMAIN responses' : responses'[k].node \in S
             /\ resp'[w].node \in S
  <2>1. /\ responses # <<>> /\ responses' = Tail(responses)
        /\ resp'[w].node = Head(responses).node
    BY <1>2, Zenon DEF processNextResponse, TypeOK
  <2>2. /\ \A k \in DOMAIN responses' : k + 1 \in DOMAIN responses /\ responses'[k] = responses[k + 1]
        /\ 1 \in DOMAIN responses /\ Head(responses) = responses[1]
    BY <1>1, <2>1
  <2> QED BY <2>1, <2>2, Zenon
<1>3. ASSUME NEW a \in Approvers, PublishDecision(a)
      PROVE  \A k \in DOMAIN responses' : responses'[k].node \in S
  <2> DEFINE d == [node |-> post[a].node, approved |-> post[a].approved]
  <2>1. responses' = responses \/ responses' = Append(responses, d)
    BY <1>3, Zenon DEF PublishDecision, Logged, MayApply
  <2>2. d.node \in S
    BY <1>3 DEF PublishDecision
  <2> HIDE DEF d
  <2>3. \A k \in DOMAIN responses' : (k \in DOMAIN responses /\ responses'[k] = responses[k]) \/ responses'[k] = d
    BY <1>1, <2>1
  <2> QED BY <2>2, <2>3, Zenon
<1>4. ASSUME NEW w \in Workers, HandleRequest(w) PROVE UNCHANGED <<responses, resp, post>>
  BY <1>4, Zenon DEF HandleRequest, processNextRequest, LoadIR, OpenApproval, UndoWorkflow,
              UndoRun, SetWaiting, publishApprovalRequest, ReqOnly
<1>5. ASSUME NEW w \in Workers, HandleResponse(w)
      PROVE  (responses' = responses \/ processNextResponse(w)) /\ post' = post
  BY <1>5, Zenon DEF HandleResponse, processNextResponse, CheckStatus, CountDown, SignalCompletion,
              RecordDecision, SetCompleted, RespOnly
<1>6. \A k \in DOMAIN responses' : responses'[k].node \in S
  BY <1>2, <1>3, <1>4, <1>5, Zenon DEF Next, vars, streams, PublishToken, Expire, CheckPending, Crash
<1>7. ASSUME NEW w \in Workers, resp'[w] # Idle PROVE resp'[w].node \in S
  <2>1. CASE ~processNextResponse(w)
    <3>1. CASE resp'[w] = resp[w]
      BY <1>7, <3>1, Zenon
    <3>2. CASE resp'[w] # resp[w]
      <4>1. resp'[w].node = resp[w].node /\ resp[w].pc \in {"check", "count", "signal", "record"}
        BY <1>7, <2>1, <3>2, ResponseSteps, Zenon DEF CheckStatus, CountDown, SignalCompletion,
                              RecordDecision
      <4>2. resp[w] # Idle
        BY <4>1 DEF Idle
      <4> QED BY <4>1, <4>2, Zenon
    <3> QED BY <3>1, <3>2, Zenon
  <2> QED BY <1>2, <2>1, Zenon
<1>8. ASSUME NEW a \in Approvers, post'[a].pc = "publish" PROVE post'[a].node \in S
  <2>1. ASSUME NEW b \in Approvers, NEW n \in Nodes, NEW d \in BOOLEAN, CheckPending(b, n, d)
        PROVE  post'[a] = post[a] \/ (post'[a].node = n /\ n \in S)
    BY <2>1, Zenon DEF CheckPending, TypeOK
  <2>2. ASSUME NEW b \in Approvers, PublishDecision(b) PROVE post'[a] = post[a]
    BY <1>8, <2>2, Zenon DEF PublishDecision, TypeOK, Idle
  <2> QED BY <1>4, <1>5, <1>8, <2>1, <2>2, Zenon DEF Next, vars, PublishToken, Expire, Crash
<1> QED BY <1>6, <1>7, <1>8, Zenon

\* A step keeps FoundInv as long as approvals do not expire.
LEMMA FoundStep ==
    ASSUME TypeOK, FoundInv, [Next]_vars, "expiry" \notin FaultKinds
    PROVE  FoundInv'
<1>1. \A n \in Nodes : approval[n] # "none" => approval'[n] # "none"
  BY ApprovalChanges DEF Decided
<1>2. PICK S : S = {n \in Nodes : approval[n] # "none"}
  BY Zenon
<1>3. /\ \A k \in DOMAIN responses : responses[k].node \in S
      /\ \A w \in Workers : resp[w] # Idle => resp[w].node \in S
      /\ \A a \in Approvers : post[a].pc = "publish" => post[a].node \in S
  <2>1. ASSUME NEW k \in DOMAIN responses PROVE responses[k].node \in Nodes
    <3>1. responses[k] \in Decision
      BY DEF TypeOK
    <3> QED BY <3>1 DEF Decision
  <2>2. ASSUME NEW w \in Workers, resp[w] # Idle PROVE resp[w].node \in Nodes
    BY <2>2 DEF TypeOK, Answering
  <2>3. ASSUME NEW a \in Approvers, post[a].pc = "publish" PROVE post[a].node \in Nodes
    BY <2>3 DEF TypeOK, Posting, Idle
  <2> QED BY <1>2, <2>1, <2>2, <2>3, Zenon DEF FoundInv, ResponseFindsApproval
<1>4. \A a \in Approvers, n \in Nodes, d \in BOOLEAN : CheckPending(a, n, d) => n \in S
  BY <1>2 DEF CheckPending
<1>5. /\ \A k \in DOMAIN responses' : responses'[k].node \in S
      /\ \A w \in Workers : resp'[w] # Idle => resp'[w].node \in S
      /\ \A a \in Approvers : post'[a].pc = "publish" => post'[a].node \in S
  BY <1>3, <1>4, DecisionsStay, Zenon
<1>6. \A n \in S : approval'[n] # "none"
  BY <1>1, <1>2, Zenon
<1> QED BY <1>5, <1>6, Zenon DEF FoundInv, ResponseFindsApproval

\* As long as approvals do not expire, every response that is read finds its
\* approval, for any number of workers and whatever crashes or fails.
THEOREM ResponseFindsApprovalHolds ==
    ASSUME "expiry" \notin FaultKinds
    PROVE  Spec => []ResponseFindsApproval
<1>1. Init => FoundInv
  BY DEF Init, FoundInv, ResponseFindsApproval, Idle
<1>2. TypeOK /\ FoundInv /\ [Next]_vars => FoundInv'
  BY FoundStep
<1> QED BY <1>1, <1>2, TypeCorrectness, PTL DEF Spec, FoundInv

-----------------------------------------------------------------------------
(* One worker and no faults. *)

\* An approval with a signal is decided or about to be, and has only one.
OnceInv ==
    \A n \in Nodes :
        /\ \A i, j \in SignalsOf(n) : i = j
        /\ SignalsOf(n) # {} => \/ approval[n] \in Decided
                                \/ \E w \in Workers : resp[w].pc = "record" /\ resp[w].node = n

\* A single handler that signals found the approval pending, so unsignalled.
LEMMA OnceStep ==
    ASSUME TypeOK, HeldInv, OnceInv, [Next]_vars, FaultKinds = {}, \A v, w \in Workers : v = w
    PROVE  OnceInv'
<1> SUFFICES ASSUME NEW n \in Nodes
             PROVE  /\ \A i, j \in SignalsOf(n)' : i = j
                    /\ SignalsOf(n)' # {} =>
                          \/ approval'[n] \in Decided
                          \/ \E w \in Workers : resp'[w].pc = "record" /\ resp'[w].node = n
  BY DEF OnceInv
<1>1. \A w \in Workers : ~Crash(w)
  BY DEF Crash, Fault
<1>2. approval[n] \in Decided => approval'[n] \in Decided
  BY ApprovalChanges, Zenon DEF HeldInv, Decided
<1>3. ASSUME NEW w \in Workers, SignalCompletion(w), resp[w].node = n
      PROVE  /\ \A i, j \in SignalsOf(n)' : i = j
             /\ resp'[w].pc = "record" /\ resp'[w].node = n
  <2> DEFINE x == [node |-> resp[w].node, approved |-> resp[w].approved]
  <2>1. resp[w] \in Answering /\ resp \in [Workers -> {Idle} \cup Answering]
    BY <1>3 DEF SignalCompletion, TypeOK, Idle
  <2>2. signals' = Append(signals, x) /\ resp' = [resp EXCEPT ![w].pc = "record"]
    BY <1>3, <2>1 DEF SignalCompletion, RespGoto, MayApply, Fault
  <2>3. SignalsOf(n) = {}
    BY <1>3 DEF OnceInv, HeldInv, SignalCompletion, Decided
  <2>4. \A i \in SignalsOf(n)' : i = Len(signals) + 1
    <3>1. signals \in Seq(Decision)
      BY DEF TypeOK
    <3> HIDE DEF x
    <3>2. ASSUME NEW i \in DOMAIN signals', i # Len(signals) + 1
          PROVE  i \in DOMAIN signals /\ signals'[i] = signals[i]
      BY <2>2, <3>1, <3>2
    <3> QED BY <2>3, <3>2 DEF SignalsOf
  <2> QED BY <1>3, <2>1, <2>2, <2>4 DEF Answering
<1>4. ASSUME NEW w \in Workers, SignalCompletion(w), resp[w].node # n
      PROVE  SignalsOf(n)' = SignalsOf(n) /\ resp[w].pc = "signal"
  <2> DEFINE x == [node |-> resp[w].node, approved |-> resp[w].approved]
  <2>1. signals' = Append(signals, x) /\ signals \in Seq(Decision)
    BY <1>4, Zenon DEF SignalCompletion, MayApply, Fault, TypeOK
  <2>2. x.node # n
    BY <1>4
  <2> HIDE DEF x
  <2>3. /\ DOMAIN signals' = DOMAIN signals \cup {Len(signals) + 1}
        /\ signals'[Len(signals) + 1] = x
        /\ \A i \in DOMAIN signals : signals'[i] = signals[i]
    BY <2>1
  <2>4. resp[w].pc = "signal"
    BY <1>4, Zenon DEF SignalCompletion
  <2> QED BY <2>2, <2>3, <2>4 DEF SignalsOf
<1>5. CASE \A w \in Workers : ~SignalCompletion(w)
  <2>1. signals' = signals
    <3>1. ASSUME NEW w \in Workers, HandleRequest(w) PROVE signals' = signals
      BY <3>1, Zenon DEF HandleRequest, processNextRequest, LoadIR, OpenApproval, UndoWorkflow,
                  UndoRun, SetWaiting, publishApprovalRequest, ReqOnly
    <3>2. ASSUME NEW w \in Workers, HandleResponse(w) PROVE signals' = signals
      BY <1>5, <3>2, Zenon DEF HandleResponse, processNextResponse, CheckStatus, CountDown,
                  RecordDecision, SetCompleted
    <3> QED BY <3>1, <3>2, Zenon DEF Next, vars, PublishToken, Expire, CheckPending, PublishDecision,
                              PostOnly, Crash
  <2>2. SignalsOf(n)' = SignalsOf(n)
    BY <2>1 DEF SignalsOf
  <2>3. ASSUME NEW w \in Workers, resp[w].pc = "record", resp[w].node = n
        PROVE  approval'[n] \in Decided \/ (resp'[w].pc = "record" /\ resp'[w].node = n)
    <3>1. CASE RecordDecision(w)
      <4>1. approval' = [approval EXCEPT ![n] = Verdict(resp[w].approved)]
        BY <2>3, <3>1, Zenon DEF RecordDecision, Logged, MayApply, Fault
      <4>2. Verdict(resp[w].approved) \in Decided
        BY DEF Verdict, Decided
      <4>3. approval \in [Nodes -> {"none", "pending"} \cup Decided]
        BY DEF TypeOK
      <4>4. approval'[n] = Verdict(resp[w].approved)
        BY <4>1, <4>3
      <4> QED BY <4>2, <4>4, Zenon
    <3>2. CASE ~RecordDecision(w)
      <4>1. ASSUME NEW v \in Workers, HandleResponse(v) PROVE FALSE
        <5>1. v = w
          OBVIOUS
        <5>2. resp[w] # Idle
          BY <2>3 DEF Idle
        <5> QED BY <2>3, <3>2, <4>1, <5>1, <5>2, Zenon DEF HandleResponse, processNextResponse,
                  CheckStatus, CountDown, SignalCompletion, SetCompleted
      <4>2. ASSUME NEW v \in Workers, HandleRequest(v) PROVE resp' = resp
        BY <4>2, Zenon DEF HandleRequest, processNextRequest, LoadIR, OpenApproval, UndoWorkflow,
                    UndoRun, SetWaiting, publishApprovalRequest, ReqOnly
      <4>3. resp' = resp
        BY <1>1, <4>1, <4>2, Zenon DEF Next, vars, PublishToken, Expire, CheckPending,
                                PublishDecision, PostOnly
      <4> QED BY <2>3, <4>3
    <3> QED BY <3>1, <3>2, Zenon
  <2> QED BY <1>2, <2>2, <2>3, ZenonT(60) DEF OnceInv
<1>6. ASSUME NEW w \in Workers, SignalCompletion(w), resp[w].node # n,
             NEW v \in Workers, resp[v].pc = "record"
      PROVE  FALSE
  <2>1. v = w
    OBVIOUS
  <2> QED BY <1>4, <1>6, <2>1, Zenon
<1> QED BY <1>2, <1>3, <1>4, <1>5, <1>6, Zenon DEF OnceInv

\* With one HITL worker and no faults an approval is signalled once, however
\* many people decide and however many tokens arrive.
THEOREM SignalledOnceHolds ==
    ASSUME FaultKinds = {}, \A v, w \in Workers : v = w
    PROVE  Spec => []SignalledOnce
<1>1. Init => HeldInv /\ OnceInv
  BY DEF Init, HeldInv, OnceInv, SignalsOf, Idle
<1>2. TypeOK /\ HeldInv /\ OnceInv /\ [Next]_vars => HeldInv' /\ OnceInv'
  BY HeldStep, OnceStep
<1>3. OnceInv => SignalledOnce
  <2> SUFFICES ASSUME OnceInv, NEW n \in Nodes PROVE Cardinality(SignalsOf(n)) <= 1
    BY DEF SignalledOnce
  <2>1. CASE SignalsOf(n) = {}
    BY <2>1, FS_EmptySet
  <2>2. ASSUME NEW i \in SignalsOf(n) PROVE Cardinality(SignalsOf(n)) <= 1
    <3>1. SignalsOf(n) = {i}
      BY <2>2, Zenon DEF OnceInv
    <3> QED BY <3>1, FS_Singleton
  <2> QED BY <2>1, <2>2
<1> QED BY <1>1, <1>2, <1>3, TypeCorrectness, PTL DEF Spec

-----------------------------------------------------------------------------
(* The pending counters, with one worker and no faults. *)

\* The approvals the counters count.
Pending == {n \in Nodes : approval[n] = "pending"}

\* The responses that have counted down and not yet recorded their decision.
CountedDown == {w \in Workers : resp[w].pc \in {"signal", "record"}}

\* The requests that found a duplicate and are at one of the pcs given.
Undoing(pcs) == {w \in Workers : req[w].pc \in pcs}

\* One worker is counted or not.
LEMMA CountOfOne ==
    ASSUME \A v, w \in Workers : v = w, NEW w \in Workers, NEW S, S \subseteq Workers
    PROVE  Cardinality(S) = IF w \in S THEN 1 ELSE 0
<1>1. CASE w \in S
  <2>1. S = {w}
    BY <1>1, Zenon
  <2> QED BY <1>1, <2>1, FS_Singleton, Zenon
<1>2. CASE w \notin S
  <2>1. S = {}
    BY <1>2, Zenon
  <2> QED BY <1>2, <2>1, FS_EmptySet
<1> QED BY <1>1, <1>2

\* A step of a request goroutine, in terms of where it goes.
LEMMA RequestGoes ==
    ASSUME TypeOK, NEW w \in Workers, req[w].pc # "idle"
    PROVE  /\ \A pc : ReqGoto(w, pc) => req'[w].pc = pc
           /\ ReqReturns(w) => req'[w].pc = "idle"
<1>1. req[w] \in Opening /\ req \in [Workers -> {Idle} \cup Opening]
  BY DEF TypeOK, Idle
<1>2. ASSUME NEW pc, ReqGoto(w, pc) PROVE req'[w].pc = pc
  BY <1>1, <1>2 DEF ReqGoto, Opening
<1>3. ASSUME ReqReturns(w) PROVE req'[w].pc = "idle"
  BY <1>1, <1>3 DEF ReqReturns, Idle
<1> QED BY <1>2, <1>3, Zenon

\* A step of a response goroutine, in terms of where it goes.
LEMMA ResponseGoes ==
    ASSUME TypeOK, NEW w \in Workers, resp[w].pc # "idle"
    PROVE  /\ \A pc : RespGoto(w, pc) => resp'[w].pc = pc /\ resp'[w].node = resp[w].node
           /\ RespReturns(w) => resp'[w].pc = "idle"
<1>1. resp[w] \in Answering /\ resp \in [Workers -> {Idle} \cup Answering]
  BY DEF TypeOK, Idle
<1>2. ASSUME NEW pc, RespGoto(w, pc) PROVE resp'[w].pc = pc /\ resp'[w].node = resp[w].node
  BY <1>1, <1>2 DEF RespGoto, Answering
<1>3. ASSUME RespReturns(w) PROVE resp'[w].pc = "idle"
  BY <1>1, <1>3 DEF RespReturns, Idle
<1> QED BY <1>2, <1>3, Zenon

\* What an action does to the counters, the approvals and the two goroutines of
\* the one worker: d is added to both counters, unless the two DECRs of a
\* duplicate are under way.
LEMMA CounterSteps ==
    ASSUME TypeOK, HeldInv, FoundInv, [Next]_vars, FaultKinds = {},
           \A v, u \in Workers : v = u, NEW w \in Workers
    PROVE  \/ /\ UNCHANGED <<workflowPending, runPending, approval>>
              /\ req'[w].pc = req[w].pc \/ {req[w].pc, req'[w].pc} \cap {"undoWorkflow", "undoRun"} = {}
              /\ resp'[w].pc = resp[w].pc \/ {resp[w].pc, resp'[w].pc} \cap {"signal", "record"} = {}
                 \/ {resp[w].pc, resp'[w].pc} \subseteq {"signal", "record"}
           \/ /\ workflowPending' = workflowPending + 1 /\ runPending' = runPending + 1
              /\ resp' = resp /\ req[w].pc = "open"
              /\ \/ /\ approval[req[w].node] = "none" /\ req[w].node \in Nodes
                    /\ approval' = [approval EXCEPT ![req[w].node] = "pending"]
                    /\ req'[w].pc = "status"
                 \/ approval' = approval /\ req'[w].pc = "undoWorkflow"
           \/ /\ workflowPending' = workflowPending - 1
              /\ UNCHANGED <<runPending, approval, resp>>
              /\ req[w].pc = "undoWorkflow" /\ req'[w].pc = "undoRun"
           \/ /\ runPending' = runPending - 1
              /\ UNCHANGED <<workflowPending, approval, resp>>
              /\ req[w].pc = "undoRun" /\ req'[w].pc = "idle"
           \/ /\ workflowPending' = workflowPending - 1 /\ runPending' = runPending - 1
              /\ UNCHANGED <<approval, req>>
              /\ resp[w].pc = "count" /\ resp'[w].pc = "signal"
           \/ /\ UNCHANGED <<workflowPending, runPending, req>>
              /\ resp[w].pc = "record" /\ resp'[w].pc = "settle"
              /\ approval[resp[w].node] = "pending" /\ resp[w].node \in Nodes
              /\ approval' = [approval EXCEPT ![resp[w].node] = Verdict(resp[w].approved)]
<1> DEFINE Still == /\ UNCHANGED <<workflowPending, runPending, approval>>
                    /\ UNCHANGED <<req, resp>>
<1>0. \A k : ~Fault(k)
  BY DEF Fault
<1>1. CASE HandleRequest(w)
  <2>1. CASE processNextRequest(w)
    <3>1. req[w].pc = "idle" /\ req'[w].pc = "load"
      BY <2>1 DEF processNextRequest, TypeOK, Idle
    <3> QED BY <2>1, <3>1, Zenon DEF processNextRequest, ReqOnly, keys
  <2>2. CASE LoadIR(w)
    <3>1. req[w].pc = "load" /\ req'[w].pc = "open"
      BY <1>0, <2>2, RequestGoes, Zenon DEF LoadIR
    <3> QED BY <2>2, <3>1, Zenon DEF LoadIR, ReqOnly, keys
  <2>3. CASE OpenApproval(w)
    <3>1. /\ req[w].pc = "open" /\ OpenTx(req[w].node) /\ resp' = resp
          /\ req'[w].pc = IF approval[req[w].node] = "none" THEN "status" ELSE "undoWorkflow"
      BY <1>0, <2>3, RequestGoes, Zenon DEF OpenApproval, MayApply, ReqOnly
    <3>2. req[w].node \in Nodes
      BY <3>1 DEF TypeOK, Idle, Opening
    <3>3. CASE approval[req[w].node] = "none"
      <4>1. approval' = [approval EXCEPT ![req[w].node] = "pending"]
        BY <3>1, <3>3 DEF OpenTx
      <4> QED BY <3>1, <3>2, <3>3, <4>1, Zenon DEF OpenTx
    <3>4. CASE approval[req[w].node] # "none"
      <4>1. approval' = approval
        BY <3>1, <3>4 DEF OpenTx, TypeOK
      <4> QED BY <3>1, <3>2, <3>4, <4>1, Zenon DEF OpenTx
    <3> QED BY <3>3, <3>4, Zenon
  <2>4. CASE UndoWorkflow(w)
    <3>1. req[w].pc = "undoWorkflow" /\ req'[w].pc = "undoRun"
      BY <2>4, RequestGoes, Zenon DEF UndoWorkflow
    <3> QED BY <1>0, <2>4, <3>1, Zenon DEF UndoWorkflow, Logged, MayApply, ReqOnly
  <2>5. CASE UndoRun(w)
    <3>1. req[w].pc = "undoRun" /\ req'[w].pc = "idle"
      BY <2>5, RequestGoes, Zenon DEF UndoRun
    <3> QED BY <1>0, <2>5, <3>1, Zenon DEF UndoRun, Logged, MayApply, ReqOnly
  <2>6. CASE SetWaiting(w)
    <3>1. req[w].pc = "status" /\ req'[w].pc = "announce"
      BY <2>6, RequestGoes, Zenon DEF SetWaiting
    <3> QED BY <2>6, <3>1, Zenon DEF SetWaiting, ReqOnly
  <2>7. CASE publishApprovalRequest(w)
    <3>1. req[w].pc = "announce" /\ req'[w].pc = "idle"
      BY <2>7, RequestGoes, Zenon DEF publishApprovalRequest
    <3> QED BY <2>7, <3>1, Zenon DEF publishApprovalRequest, ReqOnly, keys
  <2> QED BY <1>1, <2>1, <2>2, <2>3, <2>4, <2>5, <2>6, <2>7, Zenon DEF HandleRequest
<1>2. CASE HandleResponse(w)
  <2>1. CASE processNextResponse(w)
    <3>1. resp[w].pc = "idle" /\ resp'[w].pc = "check"
      BY <2>1 DEF processNextResponse, TypeOK, Idle
    <3> QED BY <2>1, <3>1, Zenon DEF processNextResponse, RespOnly, keys
  <2>2. CASE CheckStatus(w)
    <3>1. resp[w].pc = "check" /\ resp'[w].pc \in {"count", "idle"}
      BY <2>2, ResponseGoes, Zenon DEF CheckStatus
    <3> QED BY <2>2, <3>1, Zenon DEF CheckStatus, RespOnly, keys
  <2>3. CASE CountDown(w)
    <3>1. resp[w].pc = "count" /\ resp'[w].pc = "signal"
      BY <2>3, ResponseGoes, Zenon DEF CountDown
    <3> QED BY <1>0, <2>3, <3>1, Zenon DEF CountDown, Logged, MayApply, RespOnly
  <2>4. CASE SignalCompletion(w)
    <3>1. resp[w].pc = "signal" /\ resp'[w].pc = "record"
      BY <1>0, <2>4, ResponseGoes, Zenon DEF SignalCompletion, MayApply
    <3> QED BY <2>4, <3>1, Zenon DEF SignalCompletion, RespOnly, keys
  <2>5. CASE RecordDecision(w)
    <3>1. resp[w].pc = "record" /\ resp'[w].pc = "settle"
      BY <2>5, ResponseGoes, Zenon DEF RecordDecision
    <3>2. resp[w] # Idle /\ resp[w].node \in Nodes
      BY <3>1 DEF TypeOK, Idle, Answering
    <3>3. approval[resp[w].node] \notin Decided /\ approval[resp[w].node] # "none"
      BY <3>1, <3>2, Zenon DEF HeldInv, FoundInv, ResponseFindsApproval
    <3>4. approval[resp[w].node] = "pending"
      BY <3>2, <3>3 DEF TypeOK
    <3> QED BY <1>0, <2>5, <3>1, <3>2, <3>4, Zenon DEF RecordDecision, Logged, MayApply, RespOnly
  <2>6. CASE SetCompleted(w)
    <3>1. resp[w].pc = "settle" /\ resp'[w].pc = "idle"
      BY <2>6, ResponseGoes, Zenon DEF SetCompleted
    <3> QED BY <2>6, <3>1, Zenon DEF SetCompleted, RespOnly
  <2> QED BY <1>2, <2>1, <2>2, <2>3, <2>4, <2>5, <2>6, Zenon DEF HandleResponse
<1>3. ASSUME ~HandleRequest(w), ~HandleResponse(w) PROVE Still
  <2>1. \A v \in Workers : ~HandleRequest(v) /\ ~HandleResponse(v) /\ ~Crash(v)
    BY <1>0, <1>3, Zenon DEF Crash
  <2>2. \A n \in Nodes : ~Expire(n)
    BY <1>0, Zenon DEF Expire
  <2> QED BY <2>1, <2>2, Zenon DEF Next, vars, keys, PublishToken, CheckPending, PublishDecision, PostOnly
<1> QED BY <1>1, <1>2, <1>3, Zenon

\* The counters as PendingAccounting has them, from the sets above.
LEMMA AccountingIs ==
    PendingAccounting <=>
        /\ workflowPending = Cardinality(Pending) + Cardinality(Undoing({"undoWorkflow"}))
                               - Cardinality(CountedDown)
        /\ runPending = Cardinality(Pending) + Cardinality(Undoing({"undoWorkflow", "undoRun"}))
                          - Cardinality(CountedDown)
BY Zenon DEF PendingAccounting, Pending, Undoing, CountedDown

\* Opening one more approval, or deciding one, counts for one.
LEMMA PendingCount ==
    ASSUME TypeOK
    PROVE  /\ IsFiniteSet(Pending) /\ Cardinality(Pending) \in Nat
           /\ \A n \in Nodes : approval[n] = "none" /\ approval' = [approval EXCEPT ![n] = "pending"]
                 => Cardinality(Pending') = Cardinality(Pending) + 1
           /\ \A n \in Nodes, d \in Decided :
                 approval[n] = "pending" /\ approval' = [approval EXCEPT ![n] = d]
                 => Cardinality(Pending') = Cardinality(Pending) - 1
<1>1. IsFiniteSet(Pending) /\ Cardinality(Pending) \in Nat
  <2>1. Pending \subseteq Nodes
    BY DEF Pending
  <2> QED BY <2>1, ApprovalsAssumption, FS_Subset, FS_CardinalityType
<1>2. ASSUME NEW n \in Nodes, approval[n] = "none", approval' = [approval EXCEPT ![n] = "pending"]
      PROVE  Cardinality(Pending') = Cardinality(Pending) + 1
  <2>1. n \notin Pending /\ Pending' = Pending \cup {n}
    BY <1>2 DEF Pending, TypeOK
  <2> QED BY <1>1, <2>1, FS_AddElement, Zenon
<1>3. ASSUME NEW n \in Nodes, NEW d \in Decided, approval[n] = "pending",
             approval' = [approval EXCEPT ![n] = d]
      PROVE  Cardinality(Pending') = Cardinality(Pending) - 1
  <2>1. n \in Pending /\ Pending' = Pending \ {n}
    BY <1>3 DEF Pending, TypeOK, Decided
  <2> QED BY <1>1, <2>1, FS_RemoveElement, Zenon
<1> QED BY <1>1, <1>2, <1>3, Zenon

\* The counters stay what PendingAccounting says: the INCRs and DECRs of the two
\* handlers cancel out along every path through them.
LEMMA AccountingStep ==
    ASSUME TypeOK, HeldInv, FoundInv, PendingAccounting, [Next]_vars, FaultKinds = {},
           \A v, w \in Workers : v = w
    PROVE  PendingAccounting'
<1>0. \A k : ~Fault(k)
  BY DEF Fault
<1>1. CASE Workers = {}
  <2>1. UNCHANGED <<workflowPending, runPending, approval, req, resp>>
    BY <1>0, <1>1, Zenon DEF Next, vars, keys, PublishToken, CheckPending, PublishDecision, PostOnly,
                         Expire
  <2> QED BY <2>1, Zenon DEF PendingAccounting
<1>2. ASSUME NEW w \in Workers PROVE PendingAccounting'
  <2> DEFINE one == {"undoWorkflow"}
             two == {"undoWorkflow", "undoRun"}
             three == {"signal", "record"}
  <2>1. /\ Cardinality(CountedDown) = IF resp[w].pc \in three THEN 1 ELSE 0
        /\ Cardinality(CountedDown') = IF resp'[w].pc \in three THEN 1 ELSE 0
    <3>1. CountedDown \subseteq Workers /\ CountedDown' \subseteq Workers
      BY Zenon DEF CountedDown
    <3>2. /\ w \in CountedDown <=> resp[w].pc \in three
          /\ w \in CountedDown' <=> resp'[w].pc \in three
      BY Zenon DEF CountedDown
    <3> HIDE DEF three
    <3> QED BY <3>1, <3>2, CountOfOne, Zenon
  <2>2. ASSUME NEW pcs
        PROVE  /\ Cardinality(Undoing(pcs)) = IF req[w].pc \in pcs THEN 1 ELSE 0
               /\ Cardinality(Undoing(pcs)') = IF req'[w].pc \in pcs THEN 1 ELSE 0
    <3>1. Undoing(pcs) \subseteq Workers /\ Undoing(pcs)' \subseteq Workers
      BY Zenon DEF Undoing
    <3>2. /\ w \in Undoing(pcs) <=> req[w].pc \in pcs
          /\ w \in Undoing(pcs)' <=> req'[w].pc \in pcs
      BY Zenon DEF Undoing
    <3> QED BY <3>1, <3>2, CountOfOne, Zenon
  <2>3. Cardinality(Pending) \in Nat /\ (approval' = approval => Pending' = Pending)
    BY PendingCount, Zenon DEF Pending
  <2>4. PICK c, c2, a, a2, u, u2, t, t2 :
          /\ c = Cardinality(Pending) /\ c2 = Cardinality(Pending')
          /\ a = Cardinality(CountedDown) /\ a2 = Cardinality(CountedDown')
          /\ u = Cardinality(Undoing(one)) /\ u2 = Cardinality(Undoing(one)')
          /\ t = Cardinality(Undoing(two)) /\ t2 = Cardinality(Undoing(two)')
    BY Zenon
  <2>5. /\ workflowPending = c + u - a /\ runPending = c + t - a
        /\ workflowPending \in Int /\ runPending \in Int /\ c \in Nat
    BY <2>3, <2>4, AccountingIs, Zenon DEF TypeOK
  <2>6. /\ workflowPending' = c2 + u2 - a2 /\ runPending' = c2 + t2 - a2
        => PendingAccounting'
    BY <2>4, Zenon DEF PendingAccounting, Pending, Undoing, CountedDown
  <2>7. /\ a = (IF resp[w].pc \in three THEN 1 ELSE 0)
        /\ a2 = (IF resp'[w].pc \in three THEN 1 ELSE 0)
        /\ u = (IF req[w].pc \in one THEN 1 ELSE 0)
        /\ u2 = (IF req'[w].pc \in one THEN 1 ELSE 0)
        /\ t = (IF req[w].pc \in two THEN 1 ELSE 0)
        /\ t2 = (IF req'[w].pc \in two THEN 1 ELSE 0)
    <3> HIDE DEF one, two, three
    <3> QED BY <2>1, <2>2, <2>4, Zenon
  <2>8. PICK p, p2, q, q2 : p = req[w].pc /\ p2 = req'[w].pc /\ q = resp[w].pc /\ q2 = resp'[w].pc
    BY Zenon
  <2>9. \/ /\ UNCHANGED <<workflowPending, runPending>> /\ c2 = c
           /\ p2 = p \/ {p, p2} \cap {"undoWorkflow", "undoRun"} = {}
           /\ q2 = q \/ {q, q2} \cap {"signal", "record"} = {} \/ {q, q2} \subseteq {"signal", "record"}
        \/ /\ workflowPending' = workflowPending + 1 /\ runPending' = runPending + 1
           /\ q2 = q /\ p = "open"
           /\ (c2 = c + 1 /\ p2 = "status") \/ (c2 = c /\ p2 = "undoWorkflow")
        \/ /\ workflowPending' = workflowPending - 1 /\ runPending' = runPending
           /\ c2 = c /\ q2 = q /\ p = "undoWorkflow" /\ p2 = "undoRun"
        \/ /\ runPending' = runPending - 1 /\ workflowPending' = workflowPending
           /\ c2 = c /\ q2 = q /\ p = "undoRun" /\ p2 = "idle"
        \/ /\ workflowPending' = workflowPending - 1 /\ runPending' = runPending - 1
           /\ c2 = c /\ p2 = p /\ q = "count" /\ q2 = "signal"
        \/ /\ UNCHANGED <<workflowPending, runPending>>
           /\ c2 = c - 1 /\ p2 = p /\ q = "record" /\ q2 = "settle"
    <3>1. Verdict(resp[w].approved) \in Decided
      BY DEF Verdict, Decided
    <3>2. /\ \A n \in Nodes : approval[n] = "none" /\ approval' = [approval EXCEPT ![n] = "pending"]
                 => c2 = c + 1
          /\ \A n \in Nodes, d \in Decided :
                 approval[n] = "pending" /\ approval' = [approval EXCEPT ![n] = d] => c2 = c - 1
          /\ approval' = approval => c2 = c
      BY <2>3, <2>4, PendingCount, Zenon
    <3> QED BY <2>8, <3>1, <3>2, CounterSteps, ZenonT(60)
  <2>10. /\ a = (IF q \in three THEN 1 ELSE 0) /\ a2 = (IF q2 \in three THEN 1 ELSE 0)
         /\ u = (IF p \in one THEN 1 ELSE 0) /\ u2 = (IF p2 \in one THEN 1 ELSE 0)
         /\ t = (IF p \in two THEN 1 ELSE 0) /\ t2 = (IF p2 \in two THEN 1 ELSE 0)
    BY <2>7, <2>8, Zenon
  <2>11. workflowPending' = c2 + u2 - a2 /\ runPending' = c2 + t2 - a2
    <3>1. /\ a \in {0, 1} /\ a2 \in {0, 1} /\ u \in {0, 1} /\ u2 \in {0, 1}
          /\ t \in {0, 1} /\ t2 \in {0, 1}
      BY <2>10, Zenon
    <3>2. \/ /\ UNCHANGED <<workflowPending, runPending>> /\ c2 = c
             /\ u2 = u /\ t2 = t /\ a2 = a
          \/ /\ workflowPending' = workflowPending + 1 /\ runPending' = runPending + 1
             /\ a2 = a /\ u = 0 /\ t = 0
             /\ (c2 = c + 1 /\ u2 = 0 /\ t2 = 0) \/ (c2 = c /\ u2 = 1 /\ t2 = 1)
          \/ /\ workflowPending' = workflowPending - 1 /\ runPending' = runPending
             /\ c2 = c /\ a2 = a /\ u = 1 /\ t = 1 /\ u2 = 0 /\ t2 = 1
          \/ /\ runPending' = runPending - 1 /\ workflowPending' = workflowPending
             /\ c2 = c /\ a2 = a /\ u = 0 /\ t = 1 /\ u2 = 0 /\ t2 = 0
          \/ /\ workflowPending' = workflowPending - 1 /\ runPending' = runPending - 1
             /\ c2 = c /\ u2 = u /\ t2 = t /\ a = 0 /\ a2 = 1
          \/ /\ UNCHANGED <<workflowPending, runPending>>
             /\ c2 = c - 1 /\ u2 = u /\ t2 = t /\ a = 1 /\ a2 = 0
      BY <2>9, <2>10, Zenon
    <3> QED BY <2>5, <3>1, <3>2
  <2> QED BY <2>6, <2>11, Zenon
<1> QED BY <1>1, <1>2, Zenon

\* With one HITL worker and no faults both counters are the approvals pending,
\* corrected for what the two handlers have under way, for any nodes, tokens and
\* decisions: no interleaving of a duplicate request with a decision makes them
\* drift.
THEOREM PendingAccountingHolds ==
    ASSUME FaultKinds = {}, \A v, w \in Workers : v = w
    PROVE  Spec => []PendingAccounting
<1>1. Init => HeldInv /\ FoundInv /\ PendingAccounting
  <2> SUFFICES ASSUME Init PROVE HeldInv /\ FoundInv /\ PendingAccounting
    OBVIOUS
  <2>1. HeldInv /\ FoundInv
    BY DEF Init, HeldInv, FoundInv, ResponseFindsApproval, Idle
  <2>2. /\ Pending = {} /\ CountedDown = {} /\ Undoing({"undoWorkflow"}) = {}
        /\ Undoing({"undoWorkflow", "undoRun"}) = {}
    BY DEF Init, Pending, CountedDown, Undoing, Idle
  <2>3. workflowPending = 0 /\ runPending = 0
    BY DEF Init
  <2> QED BY <2>1, <2>2, <2>3, FS_EmptySet, AccountingIs
<1>2. TypeOK /\ HeldInv /\ FoundInv /\ PendingAccounting /\ [Next]_vars
      => HeldInv' /\ FoundInv' /\ PendingAccounting'
  BY HeldStep, FoundStep, AccountingStep, Zenon
<1> QED BY <1>1, <1>2, TypeCorrectness, PTL DEF Spec

-----------------------------------------------------------------------------
(* The status of a decided node, for any number of workers. *)

\* A request goroutine that has created an approval and not yet announced it.
Announcing(w) == req[w].pc \in {"status", "announce"}

\* SETNX lets one request of a node through, and until its notification is out
\* nobody decides; a decided node is completed, or its handler is about to say so.
SettleInv ==
    /\ \A n \in announced : approval[n] # "none"
    /\ \A w \in Workers : Announcing(w) =>
          approval[req[w].node] # "none" /\ req[w].node \notin announced
    /\ \A v, w \in Workers : Announcing(v) /\ Announcing(w) /\ req[v].node = req[w].node => v = w
    /\ \A k \in DOMAIN responses : responses[k].node \in announced
    /\ \A w \in Workers : resp[w] # Idle => resp[w].node \in announced
    /\ \A a \in Approvers : post[a].pc = "publish" => post[a].node \in announced
    /\ \A n \in Nodes : approval[n] \in Decided =>
          /\ n \in announced
          /\ \/ nodeStatus[n] = "completed"
             \/ \E w \in Workers : resp[w].pc = "settle" /\ resp[w].node = n

\* Where a goroutine that is announcing comes from.
LEMMA AnnouncingSteps ==
    ASSUME TypeOK, [Next]_vars, FaultKinds = {}, NEW w \in Workers,
           req'[w].pc \in {"status", "announce"}
    PROVE  \/ req'[w] = req[w]
           \/ /\ req'[w].node = req[w].node /\ req[w].pc = "status"
              /\ announced' = announced
              /\ \A v \in Workers \ {w} : req'[v] = req[v]
           \/ /\ req'[w].node = req[w].node /\ req[w].node \in Nodes
              /\ approval[req[w].node] = "none" /\ approval'[req[w].node] = "pending"
              /\ announced' = announced
              /\ \A v \in Workers \ {w} : req'[v] = req[v]
<1>0. \A k : ~Fault(k)
  BY DEF Fault
<1>1. ASSUME NEW v \in Workers, HandleResponse(v) PROVE req' = req
  BY <1>1, Zenon DEF HandleResponse, processNextResponse, CheckStatus, CountDown, SignalCompletion,
              RecordDecision, SetCompleted, RespOnly
<1>2. ASSUME NEW v \in Workers, HandleRequest(v)
      PROVE  /\ \A u \in Workers \ {v} : req'[u] = req[u]
             /\ req'[v].pc \in {"status", "announce"} => OpenApproval(v) \/ SetWaiting(v)
  <2>1. \A u \in Workers \ {v} : req'[u] = req[u]
    BY <1>2, Zenon DEF HandleRequest, processNextRequest, LoadIR, OpenApproval, UndoWorkflow,
                UndoRun, SetWaiting, publishApprovalRequest, ReqGoto, ReqReturns, TypeOK
  <2>2. processNextRequest(v) => req'[v].pc = "load"
    BY DEF processNextRequest, TypeOK
  <2>3. LoadIR(v) => req'[v].pc = "open"
    BY <1>0, RequestGoes, Zenon DEF LoadIR
  <2>4. UndoWorkflow(v) => req'[v].pc = "undoRun"
    BY RequestGoes, Zenon DEF UndoWorkflow
  <2>5. UndoRun(v) \/ publishApprovalRequest(v) => req'[v].pc = "idle"
    BY RequestGoes, Zenon DEF UndoRun, publishApprovalRequest
  <2> QED BY <1>2, <2>1, <2>2, <2>3, <2>4, <2>5, Zenon DEF HandleRequest
<1>3. ASSUME NEW pc, ReqGoto(w, pc), req[w].pc # "idle" PROVE req'[w].node = req[w].node
  <2>1. req[w] \in Opening /\ req \in [Workers -> {Idle} \cup Opening]
    BY <1>3 DEF TypeOK, Idle
  <2> QED BY <1>3, <2>1 DEF ReqGoto, Opening
<1>4. CASE OpenApproval(w)
  <2>1. /\ req[w].pc = "open" /\ OpenTx(req[w].node) /\ announced' = announced
        /\ req'[w].pc = IF approval[req[w].node] = "none" THEN "status" ELSE "undoWorkflow"
        /\ req'[w].node = req[w].node
    BY <1>0, <1>3, <1>4, RequestGoes, Zenon DEF OpenApproval, MayApply
  <2>2. req[w].node \in Nodes
    BY <2>1 DEF TypeOK, Idle, Opening
  <2>3. approval[req[w].node] = "none"
    BY <2>1
  <2>4. approval'[req[w].node] = "pending"
    BY <2>1, <2>2, <2>3 DEF OpenTx, TypeOK
  <2>5. HandleRequest(w)
    BY <1>4 DEF HandleRequest
  <2> QED BY <1>2, <2>1, <2>2, <2>3, <2>4, <2>5, Zenon
<1>5. CASE SetWaiting(w)
  <2>1. HandleRequest(w)
    BY <1>5 DEF HandleRequest
  <2> QED BY <1>2, <1>3, <1>5, <2>1, Zenon DEF SetWaiting
<1>6. CASE ~HandleRequest(w)
  <2>1. \A v \in Workers : ~Crash(v)
    BY <1>0, Zenon DEF Crash
  <2> QED BY <1>1, <1>2, <1>6, <2>1, Zenon DEF Next, vars, PublishToken, Expire, CheckPending,
                            PublishDecision, PostOnly
<1> QED BY <1>2, <1>4, <1>5, <1>6, Zenon

\* Only the notification of a goroutine that stops announcing adds to announced.
LEMMA AnnouncedGrows ==
    ASSUME TypeOK, [Next]_vars, NEW n \in announced', n \notin announced
    PROVE  \E w \in Workers : req[w].pc = "announce" /\ req[w].node = n /\ req'[w].pc = "idle"
<1>1. ASSUME NEW w \in Workers, publishApprovalRequest(w)
      PROVE  req[w].pc = "announce" /\ req[w].node = n /\ req'[w].pc = "idle"
  BY <1>1, RequestGoes, Zenon DEF publishApprovalRequest, Logged, MayApply
<1>2. ASSUME NEW w \in Workers, HandleRequest(w) PROVE publishApprovalRequest(w)
  BY <1>2, Zenon DEF HandleRequest, processNextRequest, LoadIR, OpenApproval, UndoWorkflow,
              UndoRun, SetWaiting
<1>3. ASSUME NEW w \in Workers, HandleResponse(w) PROVE FALSE
  BY <1>3, Zenon DEF HandleResponse, processNextResponse, CheckStatus, CountDown, SignalCompletion,
              RecordDecision, SetCompleted, RespOnly
<1> QED BY <1>1, <1>2, <1>3, Zenon DEF Next, vars, PublishToken, Expire, CheckPending,
                            PublishDecision, PostOnly, Crash

\* announced only grows.
LEMMA AnnouncedStays ==
    ASSUME [Next]_vars
    PROVE  announced \subseteq announced'
<1>1. ASSUME NEW w \in Workers, HandleRequest(w) PROVE announced \subseteq announced'
  BY <1>1, Zenon DEF HandleRequest, processNextRequest, LoadIR, OpenApproval, UndoWorkflow,
              UndoRun, SetWaiting, publishApprovalRequest, Logged, MayApply
<1>2. ASSUME NEW w \in Workers, HandleResponse(w) PROVE announced' = announced
  BY <1>2, Zenon DEF HandleResponse, processNextResponse, CheckStatus, CountDown, SignalCompletion,
              RecordDecision, SetCompleted, RespOnly
<1> QED BY <1>1, <1>2, Zenon DEF Next, vars, PublishToken, Expire, CheckPending,
                            PublishDecision, PostOnly, Crash

\* The two writers of a node's status.
LEMMA StatusChanges ==
    ASSUME TypeOK, [Next]_vars, NEW n \in Nodes, nodeStatus'[n] # nodeStatus[n]
    PROVE  \/ \E w \in Workers : req[w].pc = "status" /\ req[w].node = n
           \/ nodeStatus'[n] = "completed"
<1>1. ASSUME NEW w \in Workers, HandleRequest(w) PROVE req[w].pc = "status" /\ req[w].node = n
  <2>1. SetWaiting(w)
    BY <1>1, Zenon DEF HandleRequest, processNextRequest, LoadIR, OpenApproval, UndoWorkflow,
                UndoRun, publishApprovalRequest, keys, OpenTx, MayApply
  <2> QED BY <2>1, Zenon DEF SetWaiting, Logged, MayApply, TypeOK
<1>2. ASSUME NEW w \in Workers, HandleResponse(w) PROVE nodeStatus'[n] = "completed"
  <2>1. SetCompleted(w)
    BY <1>2, Zenon DEF HandleResponse, processNextResponse, CheckStatus, CountDown, SignalCompletion,
                RecordDecision, keys
  <2> QED BY <2>1, Zenon DEF SetCompleted, Logged, MayApply, TypeOK
<1> QED BY <1>1, <1>2, Zenon DEF Next, vars, keys, PublishToken, Expire, CheckPending,
                            PublishDecision, PostOnly, Crash

\* A handler that leaves "settle" has set the status.
LEMMA SettlesAll ==
    ASSUME TypeOK, [Next]_vars, FaultKinds = {}, NEW w \in Workers, resp[w].pc = "settle"
    PROVE  resp'[w] = resp[w] \/ nodeStatus'[resp[w].node] = "completed"
<1>0. (\A k : ~Fault(k)) /\ resp[w] # Idle
  BY DEF Fault, Idle
<1>1. ASSUME HandleResponse(w) PROVE nodeStatus'[resp[w].node] = "completed"
  <2>1. SetCompleted(w)
    BY <1>0, <1>1, Zenon DEF HandleResponse, processNextResponse, CheckStatus, CountDown,
                SignalCompletion, RecordDecision
  <2>2. nodeStatus' = [nodeStatus EXCEPT ![resp[w].node] = "completed"]
    BY <1>0, <2>1, Zenon DEF SetCompleted, Logged, MayApply
  <2>3. resp[w].node \in Nodes
    BY <1>0 DEF TypeOK, Answering
  <2> QED BY <2>2, <2>3 DEF TypeOK
<1>2. ASSUME NEW v \in Workers, v # w, HandleResponse(v) PROVE resp'[w] = resp[w]
  BY <1>2, Zenon DEF HandleResponse, processNextResponse, CheckStatus, CountDown, SignalCompletion,
              RecordDecision, SetCompleted, RespGoto, RespReturns, TypeOK
<1>3. ASSUME NEW v \in Workers, HandleRequest(v) PROVE resp' = resp
  BY <1>3, Zenon DEF HandleRequest, processNextRequest, LoadIR, OpenApproval, UndoWorkflow,
              UndoRun, SetWaiting, publishApprovalRequest, ReqOnly
<1>4. \A v \in Workers : ~Crash(v)
  BY <1>0, Zenon DEF Crash
<1> QED BY <1>1, <1>2, <1>3, <1>4, Zenon DEF Next, vars, PublishToken, Expire, CheckPending,
                            PublishDecision, PostOnly

\* A step keeps SettleInv: whoever creates the approval sets waiting_for_approval
\* before it announces, and decisions come only after that.
LEMMA SettleStep ==
    ASSUME TypeOK, SettleInv, [Next]_vars, FaultKinds = {}, ~Eager
    PROVE  SettleInv'
<1>1. \A n \in Nodes : approval[n] # "none" => approval'[n] # "none"
  BY ApprovalChanges DEF Decided
<1>2. announced \subseteq Nodes /\ announced \subseteq announced'
  BY AnnouncedStays DEF TypeOK
<1>3. ASSUME NEW w \in Workers, req[w].pc \in {"status", "announce"}
      PROVE  /\ req[w].node \in Nodes /\ approval[req[w].node] # "none"
             /\ req[w].node \notin announced
  BY <1>3 DEF SettleInv, Announcing, TypeOK, Idle, Opening
<1>4. ASSUME NEW n \in announced' PROVE approval'[n] # "none"
  <2>1. CASE n \in announced
    BY <1>1, <1>2, <2>1, Zenon DEF SettleInv
  <2>2. CASE n \notin announced
    <3>1. PICK w \in Workers : req[w].pc = "announce" /\ req[w].node = n
      BY <2>2, AnnouncedGrows, Zenon
    <3> QED BY <1>1, <1>3, <3>1, Zenon
  <2> QED BY <2>1, <2>2, Zenon
<1>5. ASSUME NEW w \in Workers, req'[w].pc \in {"status", "announce"}
      PROVE  approval'[req'[w].node] # "none" /\ req'[w].node \notin announced'
  <2>1. CASE req'[w] = req[w]
    <3>1. ASSUME req[w].node \in announced' PROVE FALSE
      <4>1. PICK v \in Workers : req[v].pc = "announce" /\ req[v].node = req[w].node
                                 /\ req'[v].pc = "idle"
        BY <1>3, <1>5, <2>1, <3>1, AnnouncedGrows, Zenon
      <4>2. v = w
        BY <1>5, <2>1, <4>1, Zenon DEF SettleInv, Announcing
      <4> QED BY <1>5, <4>1, <4>2
    <3> QED BY <1>1, <1>3, <1>5, <2>1, <3>1, Zenon
  <2>2. CASE /\ req'[w].node = req[w].node /\ req[w].pc = "status"
             /\ announced' = announced
    BY <1>1, <1>3, <2>2, Zenon
  <2>3. CASE /\ req'[w].node = req[w].node
             /\ approval[req[w].node] = "none" /\ approval'[req[w].node] = "pending"
             /\ announced' = announced
    <3>1. req[w].node \notin announced
      BY <2>3, Zenon DEF SettleInv
    <3> QED BY <2>3, <3>1
  <2> QED BY <1>5, <2>1, <2>2, <2>3, AnnouncingSteps, Zenon
<1>6. ASSUME NEW v \in Workers, NEW w \in Workers, v # w,
             req'[v].pc \in {"status", "announce"}, req'[w].pc \in {"status", "announce"},
             req'[v].node = req'[w].node
      PROVE  FALSE
  <2>1. ASSUME NEW x \in Workers, NEW y \in Workers, x # y,
               req'[x].pc \in {"status", "announce"}, req'[x].node = req'[y].node,
               req'[y].node = req[y].node, approval[req[y].node] = "none",
               \A u \in Workers \ {y} : req'[u] = req[u]
        PROVE  FALSE
    <3>1. req'[x] = req[x]
      BY <2>1, Zenon
    <3> QED BY <1>3, <2>1, <3>1, Zenon
  <2>2. /\ req[v].pc \in {"status", "announce"} /\ req'[v].node = req[v].node
        /\ req[w].pc \in {"status", "announce"} /\ req'[w].node = req[w].node
    BY <1>6, <2>1, AnnouncingSteps, ZenonT(60)
  <2> QED BY <1>6, <2>2, Zenon DEF SettleInv, Announcing
<1>7. /\ \A k \in DOMAIN responses' : responses'[k].node \in announced'
      /\ \A w \in Workers : resp'[w] # Idle => resp'[w].node \in announced'
      /\ \A a \in Approvers : post'[a].pc = "publish" => post'[a].node \in announced'
  <2>1. PICK S : S = announced
    BY Zenon
  <2>2. \A a \in Approvers, n \in Nodes, d \in BOOLEAN : CheckPending(a, n, d) => n \in S
    BY <2>1, Zenon DEF CheckPending
  <2>3. /\ \A k \in DOMAIN responses : responses[k].node \in S
        /\ \A w \in Workers : resp[w] # Idle => resp[w].node \in S
        /\ \A a \in Approvers : post[a].pc = "publish" => post[a].node \in S
    BY <2>1, Zenon DEF SettleInv
  <2>4. /\ \A k \in DOMAIN responses' : responses'[k].node \in S
        /\ \A w \in Workers : resp'[w] # Idle => resp'[w].node \in S
        /\ \A a \in Approvers : post'[a].pc = "publish" => post'[a].node \in S
    BY <2>2, <2>3, DecisionsStay, Zenon
  <2> QED BY <1>2, <2>1, <2>4, Zenon
<1>8. ASSUME NEW n \in Nodes, approval'[n] \in Decided
      PROVE  /\ n \in announced'
             /\ \/ nodeStatus'[n] = "completed"
                \/ \E w \in Workers : resp'[w].pc = "settle" /\ resp'[w].node = n
  <2>1. CASE approval'[n] = approval[n]
    <3>1. n \in announced
      BY <1>8, <2>1, Zenon DEF SettleInv
    <3>2. CASE nodeStatus[n] = "completed"
      <4>1. ~\E w \in Workers : req[w].pc = "status" /\ req[w].node = n
        BY <1>3, <3>1, Zenon
      <4> QED BY <1>2, <3>1, <3>2, <4>1, StatusChanges, Zenon
    <3>3. CASE \E w \in Workers : resp[w].pc = "settle" /\ resp[w].node = n
      BY <1>2, <3>1, <3>3, SettlesAll, Zenon
    <3> QED BY <1>8, <2>1, <3>2, <3>3, Zenon DEF SettleInv
  <2>2. CASE approval'[n] # approval[n]
    <3>1. PICK w \in Workers : RecordDecision(w) /\ resp[w].pc = "record" /\ resp[w].node = n
      BY <1>8, <2>2, ApprovalChanges, Zenon DEF Decided
    <3>2. resp'[w].pc = "settle" /\ resp'[w].node = n
      BY <3>1, ResponseGoes, Zenon DEF RecordDecision
    <3>3. resp[w] # Idle
      BY <3>1 DEF Idle
    <3> QED BY <1>2, <3>1, <3>2, <3>3, Zenon DEF SettleInv
  <2> QED BY <2>1, <2>2, Zenon
<1> QED BY <1>4, <1>5, <1>6, <1>7, <1>8, ZenonT(60) DEF SettleInv, Announcing

\* Without faults, and with decisions posted only once the notification is out,
\* the node of a decided approval is shown as completed as soon as the response
\* handlers are through, for any number of workers: no request handler sets
\* waiting_for_approval after that.
THEOREM NodeStatusSettlesHolds ==
    ASSUME FaultKinds = {}, ~Eager
    PROVE  Spec => []NodeStatusSettles
<1>1. Init => SettleInv
  BY DEF Init, SettleInv, Announcing, Idle, Decided
<1>2. TypeOK /\ SettleInv /\ [Next]_vars => SettleInv'
  BY SettleStep
<1>3. SettleInv => NodeStatusSettles
  BY Zenon DEF SettleInv, NodeStatusSettles
<1> QED BY <1>1, <1>2, <1>3, TypeCorrectness, PTL DEF Spec
=============================================================================
