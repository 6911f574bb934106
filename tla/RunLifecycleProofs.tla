------------------------- MODULE RunLifecycleProofs -------------------------
(***************************************************************************)
(* Proofs about RunLifecycle, for any number of nodes, executors, updaters *)
(* and faults of any kind.                                                 *)
(*                                                                         *)
(* StartInv: one executor at most is past the claim, and it has not yet    *)
(* sent the tokens it is still to send.  TokenInv: a node's token is in    *)
(* one place at most, or consumed.  CountInv: once tokens may be sent, the *)
(* counter is the number of nodes not consumed.  VerdictInv: COMPLETED is  *)
(* only written when that number is 0.  OutcomeInv and BeginInv, for the   *)
(* finality of a run's status: a run with a failed node always has a token *)
(* that no Consume will take, so its counter never reads 0 again.          *)
(***************************************************************************)
EXTENDS RunLifecycle, FiniteSetTheorems, TLAPS

Claimed(e) == exec[e].pc \in {"fetch", "store", "count", "emit"}

StartInv ==
    /\ \A e \in Executors : Claimed(e) => started
    /\ \A e, f \in Executors : Claimed(e) /\ Claimed(f) => e = f
    /\ ~started => \A n \in Entry : sent[n] = 0
    /\ \A e \in Executors : exec[e].pc \in {"fetch", "store", "count"} =>
          \A n \in Entry : sent[n] = 0
    /\ \A e \in Executors : exec[e].pc = "emit" => \A n \in exec[e].todo : sent[n] = 0
    /\ \A n \in Entry : sent[n] <= 1

One(P) == IF P THEN 1 ELSE 0

TokenInv ==
    \A n \in Entry :
        tokens[n] + signals[<<n, "completed">>]
            + One(handler[<<n, "completed">>].pc = "consume") + One(n \in consumed) <= sent[n]

HandlerInv ==
    \A c \in Signals :
        /\ handler[c].pc = "consume" => c[2] = "completed"
        /\ handler[c].pc \in {"context", "check"} => c[1] \in consumed

Counted == (\E n \in Entry : sent[n] > 0) \/ (\E e \in Executors : exec[e].pc = "emit")

CountInv ==
    /\ Counted => counter = Cardinality(Entry \ consumed)
    /\ ~Counted => counter >= 0

Completed(v) == v = "COMPLETED" => consumed = Entry

VerdictInv ==
    /\ Completed(statusKey) /\ Completed(row)
    /\ \A i \in DOMAIN updates : Completed(updates[i])
    /\ \A u \in Updaters : updater[u] # Idle => Completed(updater[u].status)
    /\ \A c \in Signals : handler[c].pc \in {"set", "add"} => Completed(handler[c].verdict)

IInv == TypeOK /\ StartInv /\ TokenInv /\ HandlerInv /\ CountInv /\ VerdictInv

-----------------------------------------------------------------------------

\* An update added to run.status.updates keeps it a sequence of final statuses.
LEMMA AppendType ==
    ASSUME NEW S, NEW s \in Seq(S), NEW x \in S
    PROVE  Append(s, x) \in Seq(S)
OBVIOUS

\* A signal is a pair of a node and a status.
LEMMA SignalPair ==
    ASSUME NEW c \in Signals
    PROVE  /\ c[1] \in Entry /\ c[2] \in {"completed", "failed"}
           /\ c = <<c[1], c[2]>>
BY DEF Signals

\* Typing of CreateRun, in the run service.
LEMMA ApiTypes ==
    ASSUME TypeOK, CreateRun \/ ApiCrash
    PROVE  TypeOK'
BY DEF TypeOK, CreateRun, StoreArtifact, InsertRow, PublishRequest, ApiCrash, ApiOnly,
       Fault, NoFault, MayApply, execution, status

\* Typing of the executors (RunRequestConsumer.handleMessage).
LEMMA ExecTypes ==
    ASSUME TypeOK, NEW e \in Executors, HandleMessage(e)
    PROVE  TypeOK'
<1> USE DEF TypeOK, ExecOnly, status
<1>1. Cardinality(Entry) \in Nat
  BY LifecycleAssumption, FS_CardinalityType
<1>2. faults' \in Nat
  BY DEF HandleMessage, ReadRequest, ClaimRun, FetchWorkflow, StoreIR, InitializeCounter,
         EmitEntryToken, Fault, NoFault, MayApply
<1>3. CASE ReadRequest(e)
  <2>1. [pc |-> "claim", todo |-> Entry] \in Starting
    BY DEF Starting
  <2> QED BY <1>2, <1>3, <2>1 DEF ReadRequest
<1>4. ASSUME exec[e].pc # "idle"
      PROVE  /\ exec[e] \in Starting
             /\ \A pc \in {"fetch", "store", "count", "emit"} :
                   [exec EXCEPT ![e].pc = pc] \in [Executors -> {Idle} \cup Starting]
             /\ [exec EXCEPT ![e] = Idle] \in [Executors -> {Idle} \cup Starting]
             /\ \A n : [exec EXCEPT ![e].todo = @ \ {n}] \in [Executors -> {Idle} \cup Starting]
  <2>1. exec[e] \in Starting
    BY <1>4 DEF Idle
  <2> QED BY <2>1 DEF Starting
<1>5. CASE ClaimRun(e)
  BY <1>2, <1>4, <1>5, Zenon DEF ClaimRun, ExecGoto, ExecReturns, MayApply
<1>6. CASE FetchWorkflow(e)
  BY <1>2, <1>4, <1>6, Zenon DEF FetchWorkflow, ExecGoto, ExecReturns
<1>7. CASE StoreIR(e)
  BY <1>2, <1>4, <1>7, Zenon DEF StoreIR, ExecGoto, ExecReturns, MayApply
<1>8. CASE InitializeCounter(e)
  <2>1. exec' \in [Executors -> {Idle} \cup Starting]
    BY <1>4, <1>8, Zenon DEF InitializeCounter, ExecGoto, ExecReturns
  <2>2. counter' \in Int
    BY <1>1, <1>8 DEF InitializeCounter, MayApply
  <2> QED BY <1>2, <1>8, <2>1, <2>2 DEF InitializeCounter
<1>9. CASE EmitEntryToken(e)
  <2>1. PICK n \in exec[e].todo :
          /\ \/ /\ tokens' = [tokens EXCEPT ![n] = @ + 1]
                /\ sent' = [sent EXCEPT ![n] = @ + 1]
             \/ UNCHANGED <<tokens, sent>>
          /\ \/ exec' = [exec EXCEPT ![e] = Idle]
             \/ exec' = [exec EXCEPT ![e].todo = @ \ {n}]
    BY <1>9, Zenon DEF EmitEntryToken, ExecReturns, MayApply
  <2>2. exec' \in [Executors -> {Idle} \cup Starting]
    <3>1. exec[e].pc # "idle"
      BY <1>9 DEF EmitEntryToken
    <3> HIDE DEF TypeOK
    <3> QED BY <1>4, <2>1, <3>1
  <2>3. n \in Entry
    BY <1>4, <1>9, Zenon DEF EmitEntryToken, Starting
  <2>4. tokens' \in [Entry -> Nat] /\ sent' \in [Entry -> Nat]
    <3>1. tokens \in [Entry -> Nat] /\ sent \in [Entry -> Nat]
      OBVIOUS
    <3> HIDE DEF TypeOK
    <3>2. CASE UNCHANGED <<tokens, sent>>
      BY <3>1, <3>2, Zenon
    <3>3. CASE /\ tokens' = [tokens EXCEPT ![n] = @ + 1]
               /\ sent' = [sent EXCEPT ![n] = @ + 1]
      BY <2>3, <3>1, <3>3
    <3> QED BY <2>1, <3>2, <3>3, Zenon
  <2> QED BY <1>2, <1>9, <2>2, <2>4, Zenon DEF EmitEntryToken
<1> QED BY <1>3, <1>5, <1>6, <1>7, <1>8, <1>9, Zenon DEF HandleMessage

\* Typing of the workers.
LEMMA WorkerTypes ==
    ASSUME TypeOK, NEW n \in Entry, Execute(n)
    PROVE  TypeOK'
<1>1. signals' \in [Signals -> Nat]
  <2>1. signals \in [Signals -> Nat]
    BY DEF TypeOK
  <2>2. \A S : Send(n, S) => signals' \in [Signals -> Nat]
    BY <2>1 DEF Send
  <2> QED BY <2>1, <2>2 DEF Execute
<1>2. faults' \in Nat
  BY DEF TypeOK, Execute, Fault, NoFault
<1>3. tokens' \in [Entry -> Nat]
  BY DEF TypeOK, Execute
<1> QED BY <1>1, <1>2, <1>3, Zenon DEF TypeOK, Execute, status

\* Typing of the completion handlers (Coordinator.handleCompletion).
LEMMA HandlerTypes ==
    ASSUME TypeOK, NEW c \in Signals, HandleCompletion(c)
    PROVE  TypeOK'
<1> USE DEF TypeOK, HandlerOnly
<1>1. faults' \in Nat
  BY DEF HandleCompletion, PopSignal, Consume, StoreOutput, CheckCompletion, StoreFailureOutput,
         handleFailedNode, SetStatusKey, QueueUpdate, Fault, NoFault, MayApply, Logged
<1>2. c[1] \in Entry
  BY SignalPair
<1>3. /\ \A pc \in {"consume", "context", "check", "output", "fail"} :
            [handler EXCEPT ![c] = [pc |-> pc]] \in [Signals -> HandlerState]
      /\ \A v \in Terminal : [handler EXCEPT ![c] = [pc |-> "set", verdict |-> v]]
                                \in [Signals -> HandlerState]
      /\ [handler EXCEPT ![c] = Idle] \in [Signals -> HandlerState]
  BY DEF HandlerState
<1>4. ASSUME handler[c].pc \in {"set", "add"}
      PROVE  handler[c] \in [pc: {"set", "add"}, verdict: Terminal]
  <2>1. handler[c] \in HandlerState
    OBVIOUS
  <2> HIDE DEF TypeOK
  <2>2. handler[c] \in [pc: {"consume", "context", "check", "output", "fail"}] =>
          handler[c].pc \notin {"set", "add"}
    OBVIOUS
  <2>3. handler[c] = Idle => handler[c].pc \notin {"set", "add"}
    BY DEF Idle
  <2> QED BY <1>4, <2>1, <2>2, <2>3 DEF HandlerState
<1>5. CASE PopSignal(c)
  <2>1. handler' \in [Signals -> HandlerState]
    BY <1>3, <1>5, Zenon DEF PopSignal, HandlerGoto
  <2>2. signals' \in [Signals -> Nat]
    BY <1>5 DEF PopSignal
  <2> QED BY <1>1, <1>5, <2>1, <2>2, Zenon DEF PopSignal
<1>6. CASE Consume(c)
  <2>1. handler' \in [Signals -> HandlerState]
    BY <1>3, <1>6, Zenon DEF Consume, HandlerGoto, HandlerReturns
  <2>2. counter' \in Int /\ consumed' \subseteq Entry
    BY <1>2, <1>6 DEF Consume, MayApply
  <2> QED BY <1>1, <1>6, <2>1, <2>2 DEF Consume
<1>7. CASE StoreOutput(c)
  <2>1. ResultStatus(c[1]) \subseteq {"completed", "error"}
    BY DEF ResultStatus
  <2>2. PICK s \in {"completed", "error"} :
          output' = [output EXCEPT ![c[1]] = s] \/ UNCHANGED output
    BY <1>7, <2>1, Zenon DEF StoreOutput, Logged, MayApply
  <2>3. output' \in [Entry -> {"none", "completed", "error", "failed"}]
    BY <1>2, <2>2
  <2> QED BY <1>1, <1>3, <1>7, <2>3, Zenon DEF StoreOutput, HandlerGoto
<1>8. CASE CheckCompletion(c)
  BY <1>1, <1>3, <1>8, Zenon DEF CheckCompletion, HandlerWrites, HandlerReturns, Terminal
<1>9. CASE StoreFailureOutput(c)
  BY <1>1, <1>2, <1>3, <1>9, Zenon DEF StoreFailureOutput, HandlerGoto, Logged, MayApply
<1>10. CASE handleFailedNode(c)
  BY <1>1, <1>2, <1>3, <1>10, Zenon DEF handleFailedNode, HandlerWrites, Logged, MayApply, Terminal
<1>11. CASE SetStatusKey(c)
  <2>1. handler[c] \in [pc: {"set", "add"}, verdict: Terminal]
    BY <1>4, <1>11 DEF SetStatusKey
  <2>2. handler' \in [Signals -> HandlerState]
    <3>1. [handler[c] EXCEPT !.pc = "add"] \in HandlerState
      BY <2>1, Zenon DEF HandlerState
    <3>2. \/ handler' = [handler EXCEPT ![c] = [handler[c] EXCEPT !.pc = "add"]]
          \/ handler' = [handler EXCEPT ![c] = Idle]
      BY <1>11 DEF SetStatusKey, HandlerReturns
    <3> QED BY <1>3, <3>1, <3>2, Zenon
  <2> QED BY <1>1, <1>11, <2>1, <2>2, Zenon DEF SetStatusKey
<1>12. CASE QueueUpdate(c)
  <2>1. handler[c].verdict \in Terminal
    BY <1>4, <1>12 DEF QueueUpdate
  <2>2. updates' \in Seq(Terminal)
    <3>1. updates' = Append(updates, handler[c].verdict) \/ updates' = updates
      BY <1>12 DEF QueueUpdate, Logged, MayApply
    <3>2. updates \in Seq(Terminal)
      OBVIOUS
    <3> HIDE DEF TypeOK
    <3> QED BY <2>1, <3>1, <3>2, AppendType
  <2> QED BY <1>1, <1>3, <1>12, <2>2, Zenon DEF QueueUpdate, HandlerReturns
<1> QED BY <1>5, <1>6, <1>7, <1>8, <1>9, <1>10, <1>11, <1>12, Zenon DEF HandleCompletion

\* Typing of the updaters (StatusUpdateConsumer) and of crashes.
LEMMA UpdaterTypes ==
    ASSUME TypeOK, (\E u \in Updaters : HandleUpdate(u)) \/ Crash
    PROVE  TypeOK'
<1>1. ASSUME NEW u \in Updaters, ReadUpdate(u) PROVE TypeOK'
  <2>1. Head(updates) \in Terminal /\ Tail(updates) \in Seq(Terminal)
    BY <1>1 DEF TypeOK, ReadUpdate
  <2>2. [pc |-> "update", status |-> Head(updates)] \in Updating
    BY <2>1 DEF Updating
  <2> QED BY <1>1, <2>1, <2>2, Zenon DEF TypeOK, ReadUpdate, execution
<1>2. ASSUME NEW u \in Updaters, UpdateRow(u) PROVE TypeOK'
  <2>1. updater[u].status \in Terminal
    BY <1>2 DEF TypeOK, UpdateRow, Updating, Idle
  <2>2. faults' \in Nat
    BY <1>2 DEF TypeOK, UpdateRow, Logged, MayApply, Fault, NoFault
  <2> QED BY <1>2, <2>1, <2>2, Zenon DEF TypeOK, UpdateRow, Logged, MayApply, execution
<1>3. CASE Crash
  <2>1. PICK E \in SUBSET Executors, H \in SUBSET Signals, U \in SUBSET Updaters :
          /\ exec' = [e \in Executors |-> IF e \in E THEN Idle ELSE exec[e]]
          /\ handler' = [c \in Signals |-> IF c \in H THEN Idle ELSE handler[c]]
          /\ updater' = [u \in Updaters |-> IF u \in U THEN Idle ELSE updater[u]]
    BY <1>3, Zenon DEF Crash
  <2>2. /\ exec' \in [Executors -> {Idle} \cup Starting]
        /\ handler' \in [Signals -> HandlerState]
        /\ updater' \in [Updaters -> {Idle} \cup Updating]
    BY <2>1 DEF TypeOK, HandlerState
  <2> QED BY <1>3, <2>2 DEF TypeOK, Crash, Fault
<1> QED BY <1>1, <1>2, <1>3 DEF HandleUpdate

\* Typing of a step of any actor.
LEMMA NextTypes ==
    ASSUME TypeOK, [Next]_vars
    PROVE  TypeOK'
<1>1. CASE UNCHANGED vars
  BY <1>1 DEF TypeOK, vars, execution, status
<1> QED BY <1>1, ApiTypes, ExecTypes, WorkerTypes, HandlerTypes, UpdaterTypes DEF Next

-----------------------------------------------------------------------------

\* What the steps of the other actors leave alone.
LEMMA Frames ==
    ASSUME [Next]_vars
    PROVE  /\ \/ \E e \in Executors : HandleMessage(e)
              \/ Crash
              \/ UNCHANGED <<exec, started>>
           /\ (\E e \in Executors : EmitEntryToken(e)) \/ UNCHANGED sent
           /\ \/ \E e \in Executors : EmitEntryToken(e)
              \/ \E n \in Entry : Execute(n)
              \/ \E c \in Signals : HandleCompletion(c)
              \/ Crash
              \/ UNCHANGED <<tokens, signals, handler, consumed>>
           /\ (\E c \in Signals : HandleCompletion(c)) \/ UNCHANGED consumed
<1>1. CASE CreateRun \/ ApiCrash
  BY <1>1 DEF CreateRun, StoreArtifact, InsertRow, PublishRequest, ApiCrash, ApiOnly, execution
<1>2. ASSUME NEW e \in Executors, HandleMessage(e)
      PROVE  /\ EmitEntryToken(e) \/ UNCHANGED <<tokens, sent>>
             /\ UNCHANGED <<signals, handler, consumed>>
  BY <1>2, Zenon DEF HandleMessage, ReadRequest, ClaimRun, FetchWorkflow, StoreIR, InitializeCounter,
              EmitEntryToken, ExecOnly
<1>3. ASSUME NEW n \in Entry, Execute(n)
      PROVE  UNCHANGED <<exec, started, sent, consumed>>
  BY <1>3 DEF Execute
<1>4. ASSUME NEW c \in Signals, HandleCompletion(c)
      PROVE  UNCHANGED <<exec, started, sent>>
  BY <1>4, Zenon DEF HandleCompletion, PopSignal, Consume, StoreOutput, CheckCompletion,
              StoreFailureOutput, handleFailedNode, SetStatusKey, QueueUpdate, HandlerOnly
<1>5. ASSUME NEW u \in Updaters, HandleUpdate(u)
      PROVE  UNCHANGED <<exec, started, sent, tokens, signals, handler, consumed>>
  BY <1>5 DEF HandleUpdate, ReadUpdate, UpdateRow, execution
<1>6. ASSUME Crash PROVE UNCHANGED <<sent, consumed>>
  BY <1>6 DEF Crash
<1>7. CASE UNCHANGED vars
  BY <1>7 DEF vars, execution
<1> QED BY <1>1, <1>2, <1>3, <1>4, <1>5, <1>6, <1>7 DEF Next

\* A crash returns executors and handlers to their loops and does nothing else to
\* them.
LEMMA CrashEffect ==
    ASSUME TypeOK, Crash
    PROVE  /\ \A e \in Executors : exec'[e] = exec[e] \/ exec'[e] = Idle
           /\ \A c \in Signals : handler'[c] = handler[c] \/ handler'[c] = Idle
           /\ \A u \in Updaters : updater'[u] = updater[u] \/ updater'[u] = Idle
           /\ UNCHANGED <<started, sent, tokens, signals, consumed, counter, row, statusKey,
                          updates>>
<1>1. PICK E \in SUBSET Executors, H \in SUBSET Signals, U \in SUBSET Updaters :
        /\ exec' = [e \in Executors |-> IF e \in E THEN Idle ELSE exec[e]]
        /\ handler' = [c \in Signals |-> IF c \in H THEN Idle ELSE handler[c]]
        /\ updater' = [u \in Updaters |-> IF u \in U THEN Idle ELSE updater[u]]
  BY DEF Crash
<1> QED BY <1>1 DEF Crash

\* The SETNX of ClaimRun lets one executor through, which sends each token once.
LEMMA StartStep ==
    ASSUME TypeOK, StartInv, [Next]_vars
    PROVE  StartInv'
<1> USE DEF StartInv, Claimed
<1>1. ASSUME NEW e \in Executors, HandleMessage(e) PROVE StartInv'
  <2>1. exec \in [Executors -> {Idle} \cup Starting] /\ sent \in [Entry -> Nat]
    BY DEF TypeOK
  <2>2. exec[e].pc # "idle" => exec[e] \in Starting
    BY <2>1 DEF Idle
  <2>3. CASE ReadRequest(e)
    BY <2>1, <2>3 DEF ReadRequest, ExecOnly
  <2>4. CASE ClaimRun(e)
    <3>1. exec[e] \in Starting /\ UNCHANGED sent
      BY <2>2, <2>4, Zenon DEF ClaimRun
    <3>2. \/ ~started /\ started' /\ exec' = [exec EXCEPT ![e] = [exec[e] EXCEPT !.pc = "fetch"]]
          \/ (started => started') /\ exec' = [exec EXCEPT ![e] = Idle]
      BY <2>4 DEF ClaimRun, ExecGoto, ExecReturns, MayApply
    <3>3. [exec[e] EXCEPT !.pc = "fetch"].pc = "fetch"
      BY <3>1 DEF Starting
    <3>4. \A f \in Executors : f # e => exec'[f] = exec[f]
      BY <2>1, <3>2
    <3>5. \/ ~started /\ started' /\ exec'[e].pc = "fetch"
          \/ (started => started') /\ exec'[e].pc = "idle"
      <4> DEFINE x == [exec[e] EXCEPT !.pc = "fetch"]
      <4>1. (~started /\ started' /\ exec'[e] = x) \/ ((started => started') /\ exec'[e] = Idle)
        BY <2>1, <3>2
      <4>2. x.pc = "fetch" /\ Idle.pc = "idle"
        BY <3>3 DEF Idle
      <4> HIDE DEF x
      <4> QED BY <4>1, <4>2, Zenon
    <3>6. started' \in BOOLEAN /\ started \in BOOLEAN
      BY <2>4, Zenon DEF TypeOK, ClaimRun, MayApply
    <3>7. (\A f \in Executors : Claimed(f) => started)'
      BY <3>4, <3>5, <3>6
    <3>8. (\A f, g \in Executors : Claimed(f) /\ Claimed(g) => f = g)'
      BY <3>4, <3>5, Zenon
    <3>9. (~started => \A n \in Entry : sent[n] = 0)'
      BY <3>1, <3>5, Zenon
    <3>10. (\A f \in Executors : exec[f].pc \in {"fetch", "store", "count"} =>
              \A n \in Entry : sent[n] = 0)'
      BY <3>1, <3>4, <3>5
    <3>11. (\A f \in Executors : exec[f].pc = "emit" => \A n \in exec[f].todo : sent[n] = 0)'
      BY <3>1, <3>4, <3>5
    <3> QED BY <3>1, <3>7, <3>8, <3>9, <3>10, <3>11, Zenon
  <2>5. CASE FetchWorkflow(e) \/ StoreIR(e)
    <3>1. exec[e] \in Starting /\ exec[e].pc \in {"fetch", "store"} /\ UNCHANGED <<sent, started>>
      BY <2>2, <2>5, Zenon DEF FetchWorkflow, StoreIR
    <3>2. \/ \E pc \in {"store", "count"} :
                exec' = [exec EXCEPT ![e] = [exec[e] EXCEPT !.pc = pc]]
          \/ exec' = [exec EXCEPT ![e] = Idle]
      BY <2>5 DEF FetchWorkflow, StoreIR, ExecGoto, ExecReturns
    <3>3. \A pc \in {"store", "count"} : [exec[e] EXCEPT !.pc = pc].pc = pc
      BY <3>1 DEF Starting
    <3>4. \A f \in Executors : f # e => exec'[f] = exec[f]
      BY <2>1, <3>2
    <3>5. exec'[e].pc \in {"store", "count", "idle"}
      <4> DEFINE x(pc) == [exec[e] EXCEPT !.pc = pc]
      <4>1. exec'[e] = x("store") \/ exec'[e] = x("count") \/ exec'[e] = Idle
        BY <2>1, <3>2
      <4>2. x("store").pc = "store" /\ x("count").pc = "count" /\ Idle.pc = "idle"
        BY <3>3 DEF Idle
      <4> HIDE DEF x
      <4> QED BY <4>1, <4>2, Zenon
    <3>6. (\A f \in Executors : Claimed(f) => started)'
      BY <3>1, <3>4, <3>5
    <3>7. (\A f, g \in Executors : Claimed(f) /\ Claimed(g) => f = g)'
      BY <3>1, <3>4, <3>5
    <3>8. (\A f \in Executors : exec[f].pc \in {"fetch", "store", "count"} =>
              \A n \in Entry : sent[n] = 0)'
      BY <3>1, <3>4, <3>5, Zenon
    <3>9. (\A f \in Executors : exec[f].pc = "emit" => \A n \in exec[f].todo : sent[n] = 0)'
      BY <3>1, <3>4, <3>5
    <3> QED BY <3>1, <3>6, <3>7, <3>8, <3>9, Zenon
  <2>6. CASE InitializeCounter(e)
    <3>1. exec[e] \in Starting /\ exec[e].pc = "count" /\ UNCHANGED <<sent, started>>
      BY <2>2, <2>6, Zenon DEF InitializeCounter
    <3>2. \/ exec' = [exec EXCEPT ![e] = [exec[e] EXCEPT !.pc = "emit"]]
          \/ exec' = [exec EXCEPT ![e] = Idle]
      BY <2>6 DEF InitializeCounter, ExecGoto, ExecReturns
    <3>3. /\ [exec[e] EXCEPT !.pc = "emit"].pc = "emit"
          /\ [exec[e] EXCEPT !.pc = "emit"].todo \subseteq Entry
      BY <3>1 DEF Starting
    <3>4. \A f \in Executors : f # e => exec'[f] = exec[f]
      BY <2>1, <3>2
    <3>5. exec'[e].pc = "idle" \/ (exec'[e].pc = "emit" /\ exec'[e].todo \subseteq Entry)
      <4> DEFINE x == [exec[e] EXCEPT !.pc = "emit"]
      <4>1. exec'[e] = x \/ exec'[e] = Idle
        BY <2>1, <3>2
      <4>2. x.pc = "emit" /\ x.todo \subseteq Entry /\ Idle.pc = "idle"
        BY <3>3 DEF Idle
      <4> HIDE DEF x
      <4> QED BY <4>1, <4>2
    <3>6. (\A f \in Executors : Claimed(f) => started)'
      BY <3>1, <3>4, <3>5
    <3>7. (\A f, g \in Executors : Claimed(f) /\ Claimed(g) => f = g)'
      BY <3>1, <3>4, <3>5
    <3>8. (\A f \in Executors : exec[f].pc \in {"fetch", "store", "count"} =>
              \A n \in Entry : sent[n] = 0)'
      BY <3>1, <3>4, <3>5
    <3>9. (\A f \in Executors : exec[f].pc = "emit" => \A n \in exec[f].todo : sent[n] = 0)'
      BY <3>1, <3>4, <3>5
    <3> QED BY <3>1, <3>6, <3>7, <3>8, <3>9, Zenon
  <2>7. CASE EmitEntryToken(e)
    <3>1. exec[e] \in Starting /\ exec[e].pc = "emit" /\ UNCHANGED started
      BY <2>2, <2>7 DEF EmitEntryToken
    <3>2. PICK n \in exec[e].todo :
            \/ /\ sent' = [sent EXCEPT ![n] = @ + 1]
               /\ \/ exec' = [exec EXCEPT ![e] = Idle]
                  \/ exec' = [exec EXCEPT ![e] = [exec[e] EXCEPT !.todo = @ \ {n}]]
            \/ UNCHANGED sent /\ exec' = [exec EXCEPT ![e] = Idle]
      BY <2>7 DEF EmitEntryToken, ExecReturns, MayApply
    <3>3. n \in Entry /\ sent[n] = 0 /\ exec[e].todo \subseteq Entry
      BY <3>1, Zenon DEF Starting
    <3>4. /\ [exec[e] EXCEPT !.todo = @ \ {n}].pc = "emit"
          /\ [exec[e] EXCEPT !.todo = @ \ {n}].todo = exec[e].todo \ {n}
      BY <3>1 DEF Starting
    <3>5. started /\ (\A f \in Executors : f # e => ~Claimed(f))
      BY <3>1
    <3>6. \A m \in Entry : sent'[m] <= 1 /\ (m # n => sent'[m] = sent[m])
      BY <2>1, <3>2, <3>3
    <3>7. \A f \in Executors : f # e => exec'[f] = exec[f]
      BY <2>1, <3>2
    <3>8. exec'[e] = Idle \/ exec'[e] = [exec[e] EXCEPT !.todo = @ \ {n}]
      BY <2>1, <3>2, Zenon
    <3>9. \A m \in exec[e].todo \ {n} : sent'[m] = 0
      BY <3>1, <3>3, <3>6, Zenon
    <3>10. exec'[e].pc = "idle" \/ (exec'[e].pc = "emit" /\ exec'[e].todo = exec[e].todo \ {n})
      <4> DEFINE x == [exec[e] EXCEPT !.todo = @ \ {n}]
      <4>1. exec'[e] = x \/ exec'[e] = Idle
        BY <3>8
      <4>2. x.pc = "emit" /\ x.todo = exec[e].todo \ {n} /\ Idle.pc = "idle"
        BY <3>4 DEF Idle
      <4> HIDE DEF x
      <4> QED BY <4>1, <4>2
    <3>11. (\A f \in Executors : Claimed(f) => started)'
      BY <3>1, <3>5
    <3>12. (\A f, g \in Executors : Claimed(f) /\ Claimed(g) => f = g)'
      BY <3>5, <3>7, Zenon
    <3>13. (\A f \in Executors : exec[f].pc \in {"fetch", "store", "count"} =>
              \A m \in Entry : sent[m] = 0)'
      BY <3>5, <3>7, <3>10, Zenon
    <3>14. (\A f \in Executors : exec[f].pc = "emit" => \A m \in exec[f].todo : sent[m] = 0)'
      BY <3>5, <3>7, <3>9, <3>10, Zenon
    <3> QED BY <3>1, <3>5, <3>6, <3>11, <3>12, <3>13, <3>14, Zenon
  <2> QED BY <1>1, <2>3, <2>4, <2>5, <2>6, <2>7, Zenon DEF HandleMessage
<1>2. CASE Crash
  BY <1>2, CrashEffect DEF Idle
<1>3. CASE UNCHANGED <<exec, started, sent>>
  BY <1>3, Zenon
<1>4. ASSUME NEW e \in Executors, EmitEntryToken(e) PROVE HandleMessage(e)
  BY <1>4, Zenon DEF HandleMessage
<1> QED BY <1>1, <1>2, <1>3, <1>4, Frames, Zenon

\* A handler's steps, as far as tokens go: it takes a signal, consumes its node's
\* token, or does neither.
LEMMA HandlerEffect ==
    ASSUME TypeOK, HandlerInv, NEW c \in Signals, HandleCompletion(c)
    PROVE  /\ UNCHANGED <<tokens, sent, exec>>
           /\ \A d \in Signals : d # c => handler'[d] = handler[d] /\ signals'[d] = signals[d]
           /\ \/ /\ handler[c].pc = "idle" /\ signals[c] > 0 /\ signals'[c] = signals[c] - 1
                 /\ handler'[c].pc \in {"consume", "output", "idle"}
                 /\ handler'[c].pc = "consume" => c[2] = "completed"
                 /\ UNCHANGED <<counter, consumed>>
              \/ /\ handler[c].pc = "consume" /\ handler'[c].pc \in {"context", "idle"}
                 /\ consumed' = consumed \cup {c[1]} /\ signals'[c] = signals[c]
                 /\ counter' = IF c[1] \in consumed THEN counter ELSE counter - 1
              \/ /\ handler[c].pc = "context" /\ handler'[c].pc = "check"
                 /\ UNCHANGED <<counter, consumed>> /\ signals'[c] = signals[c]
              \/ /\ handler'[c].pc \in {"set", "fail", "add", "idle"}
                 /\ UNCHANGED <<counter, consumed>> /\ signals'[c] = signals[c]
<1>1. handler \in [Signals -> HandlerState] /\ signals \in [Signals -> Nat]
  BY DEF TypeOK
<1>2. CASE PopSignal(c)
  BY <1>1, <1>2 DEF PopSignal, HandlerGoto, HandlerOnly, Idle
<1>3. CASE Consume(c)
  BY <1>1, <1>3 DEF Consume, HandlerGoto, HandlerReturns, HandlerOnly, Idle, MayApply
<1>4. CASE StoreOutput(c)
  BY <1>1, <1>4, Zenon DEF StoreOutput, HandlerGoto, HandlerOnly
<1>5. CASE CheckCompletion(c)
  BY <1>1, <1>5 DEF CheckCompletion, HandlerWrites, HandlerReturns, HandlerOnly, Idle
<1>6. CASE StoreFailureOutput(c)
  BY <1>1, <1>6, Zenon DEF StoreFailureOutput, HandlerGoto, HandlerOnly
<1>7. CASE handleFailedNode(c)
  BY <1>1, <1>7, Zenon DEF handleFailedNode, HandlerWrites, HandlerOnly
<1>8. CASE SetStatusKey(c)
  <2>1. handler[c] \in [pc: {"set", "add"}, verdict: Terminal]
    BY <1>1, <1>8 DEF SetStatusKey, HandlerState, Idle
  <2> QED BY <1>1, <1>8, <2>1 DEF SetStatusKey, HandlerReturns, HandlerOnly, Idle
<1>9. CASE QueueUpdate(c)
  BY <1>1, <1>9, Zenon DEF QueueUpdate, HandlerReturns, HandlerOnly, Idle
<1> QED BY <1>2, <1>3, <1>4, <1>5, <1>6, <1>7, <1>8, <1>9, Zenon DEF HandleCompletion

\* handleFailedNode and storeResultInCAS leave the handlers' phases in order.
LEMMA HandlerStep ==
    ASSUME TypeOK, HandlerInv, [Next]_vars
    PROVE  HandlerInv'
<1>1. ASSUME NEW c \in Signals, HandleCompletion(c) PROVE HandlerInv'
  BY <1>1, HandlerEffect, ZenonT(60) DEF HandlerInv
<1>2. CASE Crash
  BY <1>2, CrashEffect DEF HandlerInv, Idle
<1>3. CASE UNCHANGED <<handler, consumed>>
  BY <1>3 DEF HandlerInv
<1>4. ASSUME NEW e \in Executors, EmitEntryToken(e) PROVE UNCHANGED <<handler, consumed>>
  BY <1>4 DEF EmitEntryToken, ExecOnly
<1>5. ASSUME NEW n \in Entry, Execute(n) PROVE UNCHANGED <<handler, consumed>>
  BY <1>5 DEF Execute
<1> QED BY <1>1, <1>2, <1>3, <1>4, <1>5, Frames, Zenon

\* A token moves from its stream to a signal to a handler to its Consume, or is
\* lost; it is never in two of these places.
LEMMA TokenStep ==
    ASSUME TypeOK, HandlerInv, TokenInv, [Next]_vars
    PROVE  TokenInv'
<1> USE DEF TokenInv, One
<1>1. /\ tokens \in [Entry -> Nat] /\ sent \in [Entry -> Nat]
      /\ signals \in [Signals -> Nat]
      /\ \A n \in Entry : <<n, "completed">> \in Signals
  BY DEF TypeOK, Signals
<1>2. ASSUME NEW e \in Executors, EmitEntryToken(e) PROVE TokenInv'
  <2> SUFFICES ASSUME NEW m \in Entry
               PROVE  tokens'[m] + signals'[<<m, "completed">>]
                        + One(handler'[<<m, "completed">>].pc = "consume")
                        + One(m \in consumed') <= sent'[m]
    BY Zenon
  <2> DEFINE d == <<m, "completed">>
  <2>10. /\ d \in Signals /\ tokens[m] \in Nat /\ sent[m] \in Nat /\ signals[d] \in Nat
         /\ tokens[m] + signals[d] + One(handler[d].pc = "consume") + One(m \in consumed) <= sent[m]
    BY <1>1, Zenon
  <2>1. exec[e].todo \subseteq Entry
    <3>1. exec[e] \in {Idle} \cup Starting /\ exec[e].pc = "emit"
      BY <1>2 DEF TypeOK, EmitEntryToken
    <3> QED BY <3>1 DEF Starting, Idle
  <2>2. UNCHANGED <<signals, handler, consumed>>
    BY <1>2 DEF EmitEntryToken, ExecOnly
  <2>3. PICK n \in Entry : \/ /\ tokens' = [tokens EXCEPT ![n] = @ + 1]
                              /\ sent' = [sent EXCEPT ![n] = @ + 1]
                           \/ UNCHANGED <<tokens, sent>>
    BY <1>2, <2>1 DEF EmitEntryToken, MayApply
  <2>4. \/ tokens'[m] = tokens[m] + 1 /\ sent'[m] = sent[m] + 1
        \/ tokens'[m] = tokens[m] /\ sent'[m] = sent[m]
    BY <1>1, <2>3, Zenon
  <2> HIDE DEF d
  <2> QED BY <2>2, <2>4, <2>10 DEF d
<1>3. ASSUME NEW n \in Entry, Execute(n) PROVE TokenInv'
  <2> SUFFICES ASSUME NEW m \in Entry
               PROVE  tokens'[m] + signals'[<<m, "completed">>]
                        + One(handler'[<<m, "completed">>].pc = "consume")
                        + One(m \in consumed') <= sent'[m]
    BY Zenon
  <2> DEFINE d == <<m, "completed">>
  <2>10. /\ d \in Signals /\ tokens[m] \in Nat /\ sent[m] \in Nat /\ signals[d] \in Nat
         /\ tokens[m] + signals[d] + One(handler[d].pc = "consume") + One(m \in consumed) <= sent[m]
    BY <1>1, Zenon
  <2>1. /\ tokens[n] > 0 /\ tokens' = [tokens EXCEPT ![n] = @ - 1]
        /\ UNCHANGED <<sent, handler, consumed>>
    BY <1>3, Zenon DEF Execute
  <2>2. tokens'[m] = IF m = n THEN tokens[m] - 1 ELSE tokens[m]
    BY <1>1, <2>1, Zenon
  <2>3. \/ signals'[d] = signals[d]
        \/ m = n /\ signals'[d] = signals[d] + 1
    <3>1. ASSUME NEW S, Send(n, S)
          PROVE  signals'[d] = signals[d] + (IF m = n /\ "completed" \in S THEN 1 ELSE 0)
      BY <2>10, <3>1, Zenon DEF Send
    <3>2. (\E S : Send(n, S)) \/ signals' = signals
      BY <1>3, Zenon DEF Execute
    <3>3. \A x \in Nat : x + 0 = x
      OBVIOUS
    <3> HIDE DEF d
    <3> QED BY <2>10, <3>1, <3>2, <3>3, Zenon
  <2> HIDE DEF d
  <2> QED BY <2>1, <2>2, <2>3, <2>10 DEF d
<1>4. ASSUME NEW c \in Signals, HandleCompletion(c) PROVE TokenInv'
  <2> SUFFICES ASSUME NEW n \in Entry
               PROVE  tokens'[n] + signals'[<<n, "completed">>]
                        + One(handler'[<<n, "completed">>].pc = "consume")
                        + One(n \in consumed') <= sent'[n]
    BY Zenon
  <2> DEFINE d == <<n, "completed">>
  <2>1. d \in Signals /\ d[1] = n
    BY <1>1
  <2>2. /\ tokens[n] \in Nat /\ sent[n] \in Nat /\ signals[d] \in Nat
        /\ tokens[n] + signals[d] + One(handler[d].pc = "consume") + One(n \in consumed) <= sent[n]
    BY <1>1
  <2>3. /\ UNCHANGED <<tokens, sent>>
        /\ d # c => handler'[d] = handler[d] /\ signals'[d] = signals[d]
    BY <1>4, <2>1, HandlerEffect, Zenon
  <2>4. d # c => (n \in consumed' <=> n \in consumed)
    <3>1. ASSUME d # c, c[1] = n, handler[c].pc = "consume" PROVE FALSE
      BY <3>1, SignalPair DEF HandlerInv
    <3> HIDE DEF d
    <3> QED BY <1>4, <3>1, HandlerEffect
  <2>5. CASE d # c
    <3> HIDE DEF d
    <3> QED BY <2>2, <2>3, <2>4, <2>5, Zenon DEF d
  <2>6. CASE d = c
    <3> HIDE DEF d
    <3>1. \/ /\ handler[d].pc = "idle" /\ signals[d] > 0 /\ signals'[d] = signals[d] - 1
             /\ consumed' = consumed
          \/ /\ handler[d].pc = "consume" /\ handler'[d].pc # "consume"
             /\ consumed' = consumed \cup {n} /\ signals'[d] = signals[d]
          \/ /\ handler'[d].pc # "consume"
             /\ consumed' = consumed /\ signals'[d] = signals[d]
      BY <1>4, <2>1, <2>6, HandlerEffect, Zenon
    <3> QED BY <2>2, <2>3, <3>1 DEF d
  <2> QED BY <2>5, <2>6, Zenon
<1>5. ASSUME Crash PROVE TokenInv'
  <2> SUFFICES ASSUME NEW m \in Entry
               PROVE  tokens'[m] + signals'[<<m, "completed">>]
                        + One(handler'[<<m, "completed">>].pc = "consume")
                        + One(m \in consumed') <= sent'[m]
    BY Zenon
  <2> DEFINE d == <<m, "completed">>
  <2>10. /\ d \in Signals /\ tokens[m] \in Nat /\ sent[m] \in Nat /\ signals[d] \in Nat
         /\ tokens[m] + signals[d] + One(handler[d].pc = "consume") + One(m \in consumed) <= sent[m]
    BY <1>1, Zenon
  <2>1. /\ tokens' = tokens /\ signals' = signals /\ consumed' = consumed /\ sent' = sent
        /\ handler'[d].pc = "consume" => handler[d].pc = "consume"
    BY <1>5, <2>10, CrashEffect DEF Idle
  <2> HIDE DEF d
  <2> QED BY <2>1, <2>10 DEF d
<1>6. CASE UNCHANGED <<tokens, signals, handler, consumed, sent>>
  BY <1>6, Zenon
<1> QED BY <1>2, <1>3, <1>4, <1>5, <1>6, Frames, Zenon

\* The nodes not yet consumed are finitely many.
LEMMA Remaining ==
    ASSUME NEW S \in SUBSET Entry
    PROVE  IsFiniteSet(S) /\ Cardinality(S) \in Nat
BY LifecycleAssumption, FS_Subset, FS_CardinalityType

\* The counter is set before the first token is sent and goes down with each
\* node that is consumed.
LEMMA CountStep ==
    ASSUME TypeOK, StartInv, HandlerInv, TokenInv, CountInv, [Next]_vars
    PROVE  CountInv'
<1>1. /\ tokens \in [Entry -> Nat] /\ sent \in [Entry -> Nat] /\ signals \in [Signals -> Nat]
      /\ counter \in Int /\ consumed \subseteq Entry
      /\ exec \in [Executors -> {Idle} \cup Starting]
      /\ \A n \in Entry : <<n, "completed">> \in Signals
  BY DEF TypeOK, Signals
<1>2. Cardinality(Entry \ consumed) \in Nat
  BY Remaining
<1>3. counter >= 0
  BY <1>2 DEF CountInv
<1>4. ASSUME UNCHANGED <<counter, consumed>>, Counted' => Counted PROVE CountInv'
  BY <1>3, <1>4 DEF CountInv
<1>5. ASSUME NEW e \in Executors, HandleMessage(e) PROVE CountInv'
  <2>1. consumed' = consumed
    BY <1>5, Zenon DEF HandleMessage, ReadRequest, ClaimRun, FetchWorkflow, StoreIR, InitializeCounter,
                EmitEntryToken, ExecOnly
  <2>2. \A f \in Executors : f # e => exec'[f] = exec[f]
    BY <1>1, <1>5, Zenon DEF HandleMessage, ReadRequest, ClaimRun, FetchWorkflow, StoreIR,
                      InitializeCounter, EmitEntryToken, ExecGoto, ExecReturns
  <2>3. CASE ReadRequest(e) \/ ClaimRun(e) \/ FetchWorkflow(e) \/ StoreIR(e)
    <3>1. UNCHANGED <<counter, sent>>
      BY <2>3, Zenon DEF ReadRequest, ClaimRun, FetchWorkflow, StoreIR
    <3>2. exec'[e].pc # "emit"
      <4>1. exec[e].pc # "idle" => exec[e] \in Starting
        BY <1>1 DEF Idle
      <4>2. CASE ReadRequest(e)
        BY <1>1, <4>2, Zenon DEF ReadRequest
      <4>3. CASE ClaimRun(e) \/ FetchWorkflow(e) \/ StoreIR(e)
        <5> DEFINE x(pc) == [exec[e] EXCEPT !.pc = pc]
        <5>1. \/ exec'[e] = x("fetch") \/ exec'[e] = x("store") \/ exec'[e] = x("count")
              \/ exec'[e] = Idle
          BY <1>1, <4>3 DEF ClaimRun, FetchWorkflow, StoreIR, ExecGoto, ExecReturns
        <5>2. /\ x("fetch").pc = "fetch" /\ x("store").pc = "store" /\ x("count").pc = "count"
              /\ Idle.pc = "idle"
          BY <4>1, <4>3 DEF ClaimRun, FetchWorkflow, StoreIR, Starting, Idle
        <5> HIDE DEF x
        <5> QED BY <5>1, <5>2
      <4> QED BY <2>3, <4>2, <4>3, Zenon
    <3>3. Counted' => Counted
      BY <2>2, <3>1, <3>2, Zenon DEF Counted
    <3> QED BY <1>4, <2>1, <3>1, <3>3
  <2>4. CASE InitializeCounter(e)
    <3>1. \A n \in Entry : sent[n] = 0
      BY <2>4, Zenon DEF InitializeCounter, StartInv
    <3>2. consumed = {}
      <4> SUFFICES ASSUME NEW n \in Entry, n \in consumed PROVE FALSE
        BY <1>1
      <4> DEFINE d == <<n, "completed">>
      <4>1. /\ tokens[n] \in Nat /\ signals[d] \in Nat /\ sent[n] = 0
            /\ tokens[n] + signals[d] + One(handler[d].pc = "consume") + One(n \in consumed) <= sent[n]
        BY <1>1, <3>1, Zenon DEF TokenInv
      <4> HIDE DEF d
      <4> QED BY <4>1 DEF One
    <3>3. CASE counter' = Cardinality(Entry)
      <4>1. Entry \ consumed' = Entry
        BY <2>1, <3>2
      <4> QED BY <3>3, <4>1, Remaining DEF CountInv
    <3>4. CASE counter' = counter /\ exec' = [exec EXCEPT ![e] = Idle] /\ sent' = sent
      <4>1. Counted' => Counted
        BY <1>1, <3>4, Zenon DEF Counted, Idle
      <4> QED BY <1>4, <2>1, <3>4, <4>1
    <3> QED BY <2>4, <3>3, <3>4 DEF InitializeCounter, ExecReturns, MayApply
  <2>5. CASE EmitEntryToken(e)
    <3>1. Counted /\ counter' = counter
      BY <2>5 DEF EmitEntryToken, Counted
    <3> QED BY <1>4, <2>1, <3>1
  <2> QED BY <1>5, <2>3, <2>4, <2>5 DEF HandleMessage
<1>6. ASSUME NEW c \in Signals, HandleCompletion(c) PROVE CountInv'
  <2>1. UNCHANGED <<sent, exec>>
    BY <1>6, HandlerEffect, Zenon
  <2>2. Counted' <=> Counted
    BY <2>1 DEF Counted
  <2>3. CASE UNCHANGED <<counter, consumed>>
    BY <1>4, <2>2, <2>3
  <2>4. CASE /\ handler[c].pc = "consume" /\ consumed' = consumed \cup {c[1]}
             /\ counter' = IF c[1] \in consumed THEN counter ELSE counter - 1
    <3>1. c[1] \in Entry /\ c = <<c[1], "completed">>
      BY <2>4, SignalPair DEF HandlerInv
    <3>2. c[1] \notin consumed /\ sent[c[1]] > 0
      BY <1>1, <2>4, <3>1 DEF TokenInv, One, StartInv
    <3>3. counter = Cardinality(Entry \ consumed)
      BY <3>1, <3>2 DEF CountInv, Counted
    <3>4. Entry \ consumed' = (Entry \ consumed) \ {c[1]}
      BY <2>4
    <3>5. Cardinality((Entry \ consumed) \ {c[1]}) = Cardinality(Entry \ consumed) - 1
      BY <3>1, <3>2, Remaining, FS_RemoveElement, Zenon
    <3>6. counter' = Cardinality(Entry \ consumed')
      BY <2>4, <3>2, <3>3, <3>4, <3>5, Zenon
    <3> QED BY <2>2, <3>1, <3>2, <3>6, Zenon DEF CountInv, Counted
  <2> QED BY <1>6, <2>3, <2>4, HandlerEffect, Zenon
<1>7. CASE Crash
  <2>1. Counted' => Counted
    BY <1>7, CrashEffect DEF Counted, Idle
  <2> QED BY <1>4, <1>7, <2>1, CrashEffect, Zenon
<1>8. CASE UNCHANGED <<counter, consumed, sent, exec>>
  BY <1>8, Zenon DEF CountInv, Counted
<1>9. ASSUME CreateRun \/ ApiCrash \/ (\E n \in Entry : Execute(n))
               \/ (\E u \in Updaters : HandleUpdate(u)) \/ UNCHANGED vars
      PROVE  UNCHANGED <<counter, consumed, sent, exec>>
  BY <1>9, Zenon DEF CreateRun, StoreArtifact, InsertRow, PublishRequest, ApiCrash, ApiOnly, Execute,
              HandleUpdate, ReadUpdate, UpdateRow, vars, execution
<1> QED BY <1>5, <1>6, <1>7, <1>8, <1>9 DEF Next

\* CheckCompletion writes COMPLETED only when every node is consumed, and the
\* status is handed on as it is to Redis, the stream, the updater and the row.
LEMMA VerdictStep ==
    ASSUME TypeOK, HandlerInv, TokenInv, CountInv, VerdictInv, [Next]_vars
    PROVE  VerdictInv'
<1>1. /\ handler \in [Signals -> HandlerState] /\ updates \in Seq(Terminal)
      /\ updater \in [Updaters -> {Idle} \cup Updating] /\ consumed \subseteq Entry
  BY DEF TypeOK
<1>2. ASSUME consumed' = consumed, NEW v, Completed(v) PROVE v = "COMPLETED" => consumed' = Entry
  BY <1>2 DEF Completed
<1>3. ASSUME NEW c \in Signals, HandleCompletion(c) PROVE VerdictInv'
  <2>1. consumed = Entry => consumed' = Entry
    BY <1>1, <1>3, HandlerEffect, SignalPair, Zenon
  <2>2. UNCHANGED <<row, updater>>
    BY <1>3, Zenon DEF HandleCompletion, PopSignal, Consume, StoreOutput, CheckCompletion,
                StoreFailureOutput, handleFailedNode, SetStatusKey, QueueUpdate, HandlerOnly
  <2>3. \A d \in Signals : d # c => handler'[d] = handler[d]
    BY <1>3, HandlerEffect, Zenon
  <2>4. ASSUME UNCHANGED <<statusKey, updates>>,
               handler'[c].pc \in {"set", "add"} => Completed(handler[c].verdict)'
        PROVE  VerdictInv'
    BY <2>1, <2>2, <2>3, <2>4, Zenon DEF VerdictInv, Completed
  <2>5. CASE PopSignal(c) \/ Consume(c) \/ StoreOutput(c) \/ StoreFailureOutput(c)
    <3>1. UNCHANGED <<statusKey, updates>> /\ handler'[c].pc \notin {"set", "add"}
      <4>1. UNCHANGED <<statusKey, updates>>
        BY <2>5, Zenon DEF PopSignal, Consume, StoreOutput, StoreFailureOutput
      <4>2. \/ handler'[c] = handler[c] /\ handler[c] = Idle
            \/ handler'[c] = Idle
            \/ \E pc \in {"consume", "output", "context", "check", "fail"} :
                  handler'[c] = [pc |-> pc]
        BY <1>1, <2>5, Zenon DEF PopSignal, Consume, StoreOutput, StoreFailureOutput, HandlerGoto,
                          HandlerReturns
      <4>3. handler'[c].pc \notin {"set", "add"}
        BY <4>2 DEF Idle
      <4> QED BY <4>1, <4>3
    <3> QED BY <2>4, <3>1, Zenon
  <2>6. CASE handleFailedNode(c)
    <3>1. UNCHANGED <<statusKey, updates>> /\ handler'[c].verdict = "FAILED"
      BY <1>1, <2>6, Zenon DEF handleFailedNode, HandlerWrites
    <3> QED BY <2>4, <3>1, Zenon DEF Completed
  <2>7. CASE CheckCompletion(c)
    <3>1. UNCHANGED <<statusKey, updates, consumed>>
      BY <2>7, Zenon DEF CheckCompletion
    <3>2. handler'[c] = Idle \/ counter = 0
      BY <1>1, <2>7, Zenon DEF CheckCompletion, HandlerReturns
    <3>3. c[1] \in Entry /\ c[1] \in consumed
      BY <2>7, SignalPair, Zenon DEF CheckCompletion, HandlerInv
    <3>4. sent[c[1]] > 0
      <4> DEFINE n == c[1]  d == <<n, "completed">>
      <4>1. d \in Signals
        BY <3>3 DEF Signals
      <4>2. /\ tokens[n] \in Nat /\ signals[d] \in Nat /\ sent[n] \in Nat
            /\ tokens[n] + signals[d] + One(handler[d].pc = "consume") + One(n \in consumed) <= sent[n]
        BY <3>3, <4>1, Zenon DEF TypeOK, TokenInv
      <4>3. n \in consumed
        BY <3>3
      <4> HIDE DEF d, n
      <4>4. sent[n] > 0
        BY <4>2, <4>3 DEF One
      <4> QED BY <4>4 DEF n
    <3>5. counter = Cardinality(Entry \ consumed)
      BY <3>3, <3>4, Zenon DEF CountInv, Counted
    <3>6. counter = 0 => consumed = Entry
      <4>1. IsFiniteSet(Entry \ consumed)
        BY Remaining
      <4>2. Cardinality(Entry \ consumed) = 0 => Entry \ consumed = {}
        BY <4>1, FS_EmptySet
      <4> QED BY <1>1, <3>5, <4>2, Zenon
    <3>7. handler'[c].pc \in {"set", "add"} => Completed(handler[c].verdict)'
      BY <3>1, <3>2, <3>6 DEF Completed, Idle
    <3> QED BY <2>4, <3>1, <3>7, Zenon
  <2>8. CASE SetStatusKey(c)
    <3>1. handler[c] \in [pc: {"set", "add"}, verdict: Terminal]
      BY <1>1, <2>8 DEF SetStatusKey, HandlerState, Idle
    <3>2. Completed(handler[c].verdict)
      BY <2>8 DEF SetStatusKey, VerdictInv
    <3>3. UNCHANGED <<updates, consumed>>
      BY <2>8 DEF SetStatusKey
    <3>4. statusKey' = handler[c].verdict \/ statusKey' = statusKey
      BY <2>8 DEF SetStatusKey
    <3>5. handler'[c].pc \in {"set", "add"} => handler'[c].verdict = handler[c].verdict
      <4> DEFINE x == [handler[c] EXCEPT !.pc = "add"]
      <4>1. handler'[c] = x \/ handler'[c] = Idle
        BY <1>1, <2>8 DEF SetStatusKey, HandlerReturns
      <4>2. x.verdict = handler[c].verdict /\ Idle.pc = "idle"
        BY <3>1 DEF Idle
      <4> HIDE DEF x
      <4> QED BY <4>1, <4>2, Zenon
    <3> QED BY <2>2, <2>3, <3>2, <3>3, <3>4, <3>5, Zenon DEF VerdictInv, Completed
  <2>9. CASE QueueUpdate(c)
    <3>1. Completed(handler[c].verdict) /\ UNCHANGED <<statusKey, consumed>>
      BY <2>9, Zenon DEF QueueUpdate, VerdictInv
    <3>2. handler'[c].pc = "idle"
      BY <1>1, <2>9, Zenon DEF QueueUpdate, HandlerReturns, Idle
    <3>3. \A i \in DOMAIN updates' : (\E j \in DOMAIN updates : updates'[i] = updates[j])
                                       \/ updates'[i] = handler[c].verdict
      <4> DEFINE v == handler[c].verdict
      <4>1. updates' = Append(updates, v) \/ updates' = updates
        BY <2>9, Zenon DEF QueueUpdate, Logged, MayApply
      <4> HIDE DEF v
      <4>2. \A i \in DOMAIN updates' : (\E j \in DOMAIN updates : updates'[i] = updates[j])
                                         \/ updates'[i] = v
        BY <1>1, <4>1
      <4> QED BY <4>2, Zenon DEF v
    <3> QED BY <2>2, <2>3, <3>1, <3>2, <3>3, Zenon DEF VerdictInv, Completed
  <2> QED BY <1>3, <2>5, <2>6, <2>7, <2>8, <2>9, Zenon DEF HandleCompletion
<1>4. ASSUME NEW u \in Updaters, ReadUpdate(u) PROVE VerdictInv'
  <2>1. /\ updates # <<>> /\ updates' = Tail(updates)
        /\ updater' = [updater EXCEPT ![u] = [pc |-> "update", status |-> Head(updates)]]
        /\ UNCHANGED <<row, statusKey, consumed, handler>>
    BY <1>4, Zenon DEF ReadUpdate, execution
  <2>2. Completed(Head(updates))
    BY <1>1, <2>1 DEF VerdictInv
  <2>3. \A i \in DOMAIN updates' : \E j \in DOMAIN updates : updates'[i] = updates[j]
    BY <1>1, <2>1
  <2>4. \A t \in Updaters : updater'[t] # Idle =>
          updater'[t] = updater[t] \/ updater'[t].status = Head(updates)
    BY <1>1, <2>1, Zenon
  <2> QED BY <2>1, <2>2, <2>3, <2>4, Zenon DEF VerdictInv, Completed
<1>5. ASSUME NEW u \in Updaters, UpdateRow(u) PROVE VerdictInv'
  <2>1. /\ row' = updater[u].status \/ row' = row
        /\ updater' = [updater EXCEPT ![u] = Idle]
        /\ UNCHANGED <<updates, statusKey, consumed, handler>>
    BY <1>5, Zenon DEF UpdateRow, Logged, MayApply, execution
  <2>2. updater[u] # Idle
    BY <1>5 DEF UpdateRow, Idle
  <2> QED BY <1>1, <2>1, <2>2, Zenon DEF VerdictInv, Completed
<1>6. CASE Crash
  BY <1>6, CrashEffect DEF VerdictInv, Completed, Idle
<1>7. CASE CreateRun \/ ApiCrash
  <2>1. UNCHANGED <<statusKey, updates, updater, handler, consumed>>
    BY <1>7, Zenon DEF CreateRun, StoreArtifact, InsertRow, PublishRequest, ApiCrash, ApiOnly,
                execution, status
  <2>2. row' = row \/ row' = "QUEUED"
    BY <1>7, Zenon DEF CreateRun, StoreArtifact, InsertRow, PublishRequest, ApiCrash, MayApply
  <2> QED BY <2>1, <2>2, Zenon DEF VerdictInv, Completed
<1>8. CASE (\E e \in Executors : HandleMessage(e)) \/ (\E n \in Entry : Execute(n)) \/ UNCHANGED vars
  <2>1. UNCHANGED <<statusKey, row, updates, updater, handler, consumed>>
    BY <1>8, Zenon DEF HandleMessage, ReadRequest, ClaimRun, FetchWorkflow, StoreIR, InitializeCounter,
                EmitEntryToken, ExecOnly, Execute, vars, execution, status
  <2> QED BY <2>1, Zenon DEF VerdictInv, Completed
<1> QED BY <1>3, <1>4, <1>5, <1>6, <1>7, <1>8 DEF Next, HandleUpdate

-----------------------------------------------------------------------------

\* The initial state, before CreateRun.
LEMMA InitInv == Init => IInv
<1> SUFFICES ASSUME Init PROVE IInv
  OBVIOUS
<1>1. TypeOK
  <2>1. updates \in Seq(Terminal)
    BY DEF Init
  <2>2. /\ exec \in [Executors -> {Idle} \cup Starting]
        /\ updater \in [Updaters -> {Idle} \cup Updating]
        /\ handler \in [Signals -> HandlerState]
    BY DEF Init, HandlerState
  <2>3. /\ tokens \in [Entry -> Nat] /\ sent \in [Entry -> Nat] /\ signals \in [Signals -> Nat]
        /\ output \in [Entry -> {"none", "completed", "error", "failed"}]
    BY DEF Init
  <2>4. started \in BOOLEAN /\ ir \in BOOLEAN
    BY Zenon DEF Init
  <2>5. /\ requests \in Nat /\ counter \in Int /\ faults \in Nat
        /\ consumed \subseteq Entry /\ failure \subseteq Entry
    BY DEF Init
  <2>6. /\ api \in {"idle", "row", "publish", "done", "failed", "refused"}
        /\ row \in {"none", "QUEUED"} \cup Terminal
        /\ statusKey \in {"none"} \cup Terminal
    BY DEF Init
  <2> QED BY <2>1, <2>2, <2>3, <2>4, <2>5, <2>6, Zenon DEF TypeOK
<1>2. \A c \in Signals : handler[c].pc = "idle"
  BY DEF Init, Idle
<1>3. \A e \in Executors : exec[e].pc = "idle"
  BY DEF Init, Idle
<1>4. \A n \in Entry : sent[n] = 0
  BY DEF Init
<1>5. consumed = {} /\ counter = 0
  BY DEF Init
<1>6. StartInv
  <2>1. \A n \in Entry : sent[n] <= 1
    BY <1>4
  <2> QED BY <1>3, <1>4, <2>1, Zenon DEF StartInv, Claimed
<1>7. TokenInv
  <2> SUFFICES ASSUME NEW n \in Entry
               PROVE  tokens[n] + signals[<<n, "completed">>]
                        + One(handler[<<n, "completed">>].pc = "consume")
                        + One(n \in consumed) <= sent[n]
    BY DEF TokenInv
  <2> DEFINE d == <<n, "completed">>
  <2>1. d \in Signals
    BY DEF Signals
  <2> HIDE DEF d
  <2>2. tokens[n] = 0 /\ sent[n] = 0 /\ signals[d] = 0
    BY <2>1, Zenon DEF Init
  <2>3. One(handler[d].pc = "consume") = 0 /\ One(n \in consumed) = 0
    BY <1>2, <1>5, <2>1, Zenon DEF One
  <2> QED BY <2>2, <2>3 DEF d
<1>8. HandlerInv
  BY <1>2 DEF HandlerInv
<1>9. CountInv
  <2>1. ~Counted
    BY <1>3, <1>4 DEF Counted
  <2> QED BY <1>5, <2>1 DEF CountInv
<1>10. VerdictInv
  BY <1>2 DEF Init, VerdictInv, Completed
<1> QED BY <1>1, <1>6, <1>7, <1>8, <1>9, <1>10 DEF IInv

\* IInv is an inductive invariant of the run's life, from CreateRun to its row.
THEOREM Invariance == Spec => []IInv
<1>1. IInv /\ [Next]_vars => IInv'
  BY NextTypes, StartStep, TokenStep, HandlerStep, CountStep, VerdictStep DEF IInv
<1> QED BY <1>1, InitInv, PTL DEF Spec

\* The keys, messages and goroutines of a run keep their types.
THEOREM TypeCorrectness == Spec => []TypeOK
<1>1. IInv => TypeOK
  BY DEF IInv
<1> QED BY <1>1, Invariance, PTL

\* No entry token is sent twice, for any number of executors, of copies of the
\* request and of faults: the SETNX on run:started suffices.
THEOREM StartedOnceHolds == Spec => []StartedOnce
<1>1. IInv => StartedOnce
  BY DEF IInv, StartInv, StartedOnce
<1> QED BY <1>1, Invariance, PTL

\* The counter is never smaller than the number of tokens on their way to
\* handleCompletion's Consume.
THEOREM CounterCoversHolds == Spec => []CounterCovers
<1>1. IInv => CounterCovers
  <2> SUFFICES ASSUME IInv PROVE CounterCovers
    OBVIOUS
  <2> DEFINE F == {n \in Entry : InFlight(n)}
  <2>1. ASSUME NEW n \in Entry, InFlight(n) PROVE Counted /\ n \notin consumed
    <3> DEFINE d == <<n, "completed">>
    <3>1. /\ d \in Signals /\ tokens[n] \in Nat /\ signals[d] \in Nat /\ sent[n] \in Nat
          /\ sent[n] <= 1
          /\ tokens[n] + signals[d] + One(handler[d].pc = "consume") + One(n \in consumed) <= sent[n]
      BY DEF IInv, TypeOK, TokenInv, StartInv, Signals
    <3>2. CASE tokens[n] > 0 \/ signals[d] > 0 \/ handler[d].pc = "consume"
      <4> HIDE DEF d
      <4>1. sent[n] > 0 /\ n \notin consumed
        BY <3>1, <3>2 DEF One
      <4> QED BY <4>1 DEF Counted
    <3>3. CASE \E e \in Executors : exec[e].pc = "emit" /\ n \in exec[e].todo
      <4>1. sent[n] = 0 /\ Counted
        BY <3>3, Zenon DEF IInv, StartInv, Counted
      <4> HIDE DEF d
      <4>2. n \notin consumed
        BY <3>1, <4>1 DEF One
      <4> QED BY <4>1, <4>2
    <3> QED BY <2>1, <3>2, <3>3, Zenon DEF InFlight
  <2>2. CASE F = {}
    <3>1. Cardinality(F) = 0
      BY <2>2, FS_EmptySet
    <3>2. Cardinality(Entry \ consumed) \in Nat
      BY Remaining
    <3>3. counter >= 0
      BY <3>2 DEF IInv, CountInv
    <3> QED BY <3>1, <3>3 DEF CounterCovers
  <2>3. CASE F # {}
    <3>1. Counted /\ F \subseteq Entry \ consumed
      BY <2>1, <2>3
    <3>2. Cardinality(F) <= Cardinality(Entry \ consumed)
      BY <3>1, Remaining, FS_Subset
    <3> QED BY <3>1, <3>2 DEF IInv, CountInv, CounterCovers
  <2> QED BY <2>2, <2>3
<1> QED BY <1>1, Invariance, PTL

\* A run is COMPLETED, in Redis or in the database, only when each of its nodes
\* has been consumed, whatever faults happen.
THEOREM CompletedMeansAllHolds == Spec => []CompletedMeansAll
<1>1. IInv => CompletedMeansAll
  BY DEF IInv, VerdictInv, Completed, CompletedMeansAll
<1> QED BY <1>1, Invariance, PTL

-----------------------------------------------------------------------------
(* A final status is final, as long as a worker sends one signal per token. *)

\* The token of node n was taken and will not be consumed.
Lost(n) ==
    /\ sent[n] = 1 /\ tokens[n] = 0 /\ signals[<<n, "completed">>] = 0
    /\ handler[<<n, "completed">>].pc # "consume" /\ n \notin consumed

\* A worker answers with one signal per token, so a failed signal, and whatever
\* FAILED comes of it, means that some token is lost.
OutcomeInv ==
    /\ \A c \in Signals :
          /\ handler[c].pc \in {"output", "fail"} => c[2] = "failed"
          /\ handler[c].pc \in {"consume", "context", "check"} => c[2] = "completed"
          /\ handler[c].pc \in {"set", "add"} =>
                handler[c].verdict = IF c[2] = "failed" THEN "FAILED" ELSE "COMPLETED"
    /\ \A n \in Entry :
          signals[<<n, "failed">>] > 0 \/ handler[<<n, "failed">>].pc # "idle" => Lost(n)
    /\ (\/ statusKey = "FAILED" \/ row = "FAILED"
        \/ \E i \in DOMAIN updates : updates[i] = "FAILED"
        \/ \E u \in Updaters : updater[u] # Idle /\ updater[u].status = "FAILED")
       => \E n \in Entry : Lost(n)

\* Until CreateRun has inserted the row nothing is going on.
BeginInv ==
    api \in {"idle", "row"} =>
        /\ row = "none" /\ requests = 0 /\ updates = <<>>
        /\ \A e \in Executors : exec[e] = Idle
        /\ \A n \in Entry : tokens[n] = 0
        /\ \A c \in Signals : signals[c] = 0 /\ handler[c] = Idle
        /\ \A u \in Updaters : updater[u] = Idle

\* A lost token stays lost: its node was sent one token and gets no other.
LEMMA LostStays ==
    ASSUME IInv, [Next]_vars, NEW n \in Entry, Lost(n)
    PROVE  Lost(n)'
<1> DEFINE d == <<n, "completed">>
<1>1. d \in Signals /\ tokens \in [Entry -> Nat] /\ signals \in [Signals -> Nat]
      /\ sent \in [Entry -> Nat] /\ handler \in [Signals -> HandlerState]
  BY DEF IInv, TypeOK, Signals
<1>2. TypeOK /\ HandlerInv /\ StartInv
  BY DEF IInv
<1>3. /\ sent[n] = 1 /\ tokens[n] = 0 /\ signals[d] = 0 /\ handler[d].pc # "consume" /\ n \notin consumed
  BY DEF Lost
<1> HIDE DEF d
<1>4. SUFFICES /\ sent'[n] = 1 /\ tokens'[n] = 0 /\ signals'[d] = 0
               /\ handler'[d].pc # "consume" /\ n \notin consumed'
  BY DEF Lost, d
<1>5. ASSUME NEW e \in Executors, EmitEntryToken(e)
      PROVE  sent'[n] = 1 /\ tokens'[n] = 0 /\ UNCHANGED <<signals, handler, consumed>>
  <2>1. PICK m \in exec[e].todo : \/ /\ tokens' = [tokens EXCEPT ![m] = @ + 1]
                                     /\ sent' = [sent EXCEPT ![m] = @ + 1]
                                  \/ UNCHANGED <<tokens, sent>>
    BY <1>5, Zenon DEF EmitEntryToken, MayApply
  <2>2. sent[m] = 0 /\ UNCHANGED <<signals, handler, consumed>>
    BY <1>2, <1>5, Zenon DEF EmitEntryToken, ExecOnly, StartInv
  <2>3. m # n
    BY <1>3, <2>2
  <2> QED BY <1>1, <1>3, <2>1, <2>2, <2>3, Zenon
<1>6. ASSUME NEW m \in Entry, Execute(m)
      PROVE  sent'[n] = 1 /\ tokens'[n] = 0 /\ signals'[d] = 0 /\ UNCHANGED <<handler, consumed>>
  <2>1. tokens[m] > 0 /\ tokens' = [tokens EXCEPT ![m] = @ - 1] /\ UNCHANGED <<sent, handler, consumed>>
    BY <1>6, Zenon DEF Execute
  <2>2. m # n
    BY <1>3, <2>1
  <2>3. signals'[d] = signals[d]
    <3>1. d[1] = n
      BY DEF d
    <3>2. ASSUME NEW S, Send(m, S) PROVE signals'[d] = signals[d] + 0
      BY <1>1, <2>2, <3>1, <3>2, Zenon DEF Send
    <3>3. (\E S : Send(m, S)) \/ signals' = signals
      BY <1>6, Zenon DEF Execute
    <3> QED BY <1>3, <3>2, <3>3
  <2> QED BY <1>1, <1>3, <2>1, <2>2, <2>3, Zenon
<1>7. ASSUME NEW c \in Signals, HandleCompletion(c)
      PROVE  /\ UNCHANGED <<tokens, sent>> /\ signals'[d] = 0
             /\ handler'[d].pc # "consume" /\ n \notin consumed'
  <2>1. UNCHANGED <<tokens, sent>>
    BY <1>2, <1>7, HandlerEffect, Zenon
  <2>2. CASE c = d
    BY <1>2, <1>3, <1>7, <2>2, HandlerEffect
  <2>3. CASE c # d
    <3>1. signals'[d] = signals[d] /\ handler'[d] = handler[d]
      BY <1>1, <1>2, <1>7, <2>3, HandlerEffect, Zenon
    <3>2. ASSUME handler[c].pc = "consume", c[1] = n PROVE FALSE
      <4>1. c[2] = "completed"
        BY <1>2, <3>2, Zenon DEF HandlerInv
      <4>2. c = d
        BY <3>2, <4>1, SignalPair DEF d
      <4> QED BY <2>3, <4>2
    <3>3. n \notin consumed'
      BY <1>2, <1>3, <1>7, <3>2, HandlerEffect, ZenonT(60)
    <3> QED BY <1>3, <2>1, <3>1, <3>3, Zenon
  <2> QED BY <2>1, <2>2, <2>3, Zenon
<1>8. ASSUME Crash
      PROVE  UNCHANGED <<tokens, sent, signals, consumed>> /\ handler'[d].pc # "consume"
  BY <1>1, <1>2, <1>3, <1>8, CrashEffect DEF Idle
<1> QED BY <1>3, <1>5, <1>6, <1>7, <1>8, Frames, Zenon

\* What a handler's step does to the goroutine, the status key and the stream.
LEMMA VerdictSteps ==
    ASSUME TypeOK, OutcomeInv, NEW c \in Signals, HandleCompletion(c)
    PROVE  /\ UNCHANGED <<row, updater, api, requests, exec, tokens>>
           /\ \A d \in Signals : d # c => handler'[d] = handler[d] /\ signals'[d] = signals[d]
           /\ handler'[c].pc \in {"output", "fail"} => c[2] = "failed"
           /\ handler'[c].pc \in {"consume", "context", "check"} => c[2] = "completed"
           /\ handler'[c].pc \in {"set", "add"} =>
                 handler'[c].verdict = IF c[2] = "failed" THEN "FAILED" ELSE "COMPLETED"
           /\ signals[c] > 0 \/ handler[c].pc # "idle"
           /\ \/ statusKey' = statusKey
              \/ handler[c].pc = "set" /\ statusKey' = handler[c].verdict
           /\ \/ updates' = updates
              \/ handler[c].pc = "add" /\ updates' = Append(updates, handler[c].verdict)
<1>1. handler \in [Signals -> HandlerState] /\ signals \in [Signals -> Nat]
      /\ c[2] \in {"completed", "failed"}
  BY SignalPair DEF TypeOK
<1>2. UNCHANGED <<row, updater, api, requests, exec, tokens>>
  BY Zenon DEF HandleCompletion, PopSignal, Consume, StoreOutput, CheckCompletion, StoreFailureOutput,
               handleFailedNode, SetStatusKey, QueueUpdate, HandlerOnly
<1>3. \A d \in Signals : d # c => handler'[d] = handler[d] /\ signals'[d] = signals[d]
  BY <1>1, Zenon DEF HandleCompletion, PopSignal, Consume, StoreOutput, CheckCompletion,
               StoreFailureOutput, handleFailedNode, SetStatusKey, QueueUpdate, HandlerGoto,
               HandlerReturns, HandlerWrites
<1>4. signals[c] > 0 \/ handler[c].pc # "idle"
  BY Zenon DEF HandleCompletion, PopSignal, Consume, StoreOutput, CheckCompletion, StoreFailureOutput,
         handleFailedNode, SetStatusKey, QueueUpdate
<1>5. statusKey' = statusKey \/ (handler[c].pc = "set" /\ statusKey' = handler[c].verdict)
  BY Zenon DEF HandleCompletion, PopSignal, Consume, StoreOutput, CheckCompletion, StoreFailureOutput,
               handleFailedNode, SetStatusKey, QueueUpdate
<1>6. updates' = updates \/ (handler[c].pc = "add" /\ updates' = Append(updates, handler[c].verdict))
  BY Zenon DEF HandleCompletion, PopSignal, Consume, StoreOutput, CheckCompletion, StoreFailureOutput,
               handleFailedNode, SetStatusKey, QueueUpdate, Logged, MayApply
<1> DEFINE Right(h) ==
      /\ h.pc \in {"output", "fail"} => c[2] = "failed"
      /\ h.pc \in {"consume", "context", "check"} => c[2] = "completed"
      /\ h.pc \in {"set", "add"} => h.verdict = IF c[2] = "failed" THEN "FAILED" ELSE "COMPLETED"
<1>7. Right(handler[c]) /\ Right(Idle)
  BY Zenon DEF OutcomeInv, Idle
<1>8. /\ \A pc \in {"output", "fail"} : c[2] = "failed" => Right([pc |-> pc])
      /\ \A pc \in {"consume", "context", "check"} : c[2] = "completed" => Right([pc |-> pc])
      /\ c[2] = "failed" => Right([pc |-> "set", verdict |-> "FAILED"])
      /\ c[2] = "completed" => Right([pc |-> "set", verdict |-> "COMPLETED"])
  BY <1>1
<1>9. Right(handler'[c])
  <2>1. CASE PopSignal(c)
    <3>1. \/ handler'[c] = handler[c]
          \/ c[2] = "completed" /\ handler'[c] = [pc |-> "consume"]
          \/ c[2] = "failed" /\ handler'[c] = [pc |-> "output"]
      BY <1>1, <2>1, Zenon DEF PopSignal, HandlerGoto
    <3> HIDE DEF Right
    <3> QED BY <1>7, <1>8, <3>1, Zenon
  <2>2. CASE Consume(c)
    <3>1. handler[c].pc = "consume" /\ (handler'[c] = Idle \/ handler'[c] = [pc |-> "context"])
      BY <1>1, <2>2, Zenon DEF Consume, HandlerGoto, HandlerReturns
    <3>2. c[2] = "completed"
      BY <1>7, <3>1, Zenon
    <3> HIDE DEF Right
    <3> QED BY <1>7, <1>8, <3>1, <3>2, Zenon
  <2>3. CASE StoreOutput(c)
    <3>1. handler[c].pc = "context" /\ handler'[c] = [pc |-> "check"]
      BY <1>1, <2>3, Zenon DEF StoreOutput, HandlerGoto
    <3>2. c[2] = "completed"
      BY <1>7, <3>1, Zenon
    <3> HIDE DEF Right
    <3> QED BY <1>8, <3>1, <3>2, Zenon
  <2>4. CASE CheckCompletion(c)
    <3>1. /\ handler[c].pc = "check"
          /\ handler'[c] = Idle \/ handler'[c] = [pc |-> "set", verdict |-> "COMPLETED"]
      BY <1>1, <2>4, Zenon DEF CheckCompletion, HandlerReturns, HandlerWrites
    <3>2. c[2] = "completed"
      BY <1>7, <3>1, Zenon
    <3> HIDE DEF Right
    <3> QED BY <1>7, <1>8, <3>1, <3>2, Zenon
  <2>5. CASE StoreFailureOutput(c)
    <3>1. handler[c].pc = "output" /\ handler'[c] = [pc |-> "fail"]
      BY <1>1, <2>5, Zenon DEF StoreFailureOutput, HandlerGoto
    <3>2. c[2] = "failed"
      BY <1>7, <3>1, Zenon
    <3> HIDE DEF Right
    <3> QED BY <1>8, <3>1, <3>2, Zenon
  <2>6. CASE handleFailedNode(c)
    <3>1. handler[c].pc = "fail" /\ handler'[c] = [pc |-> "set", verdict |-> "FAILED"]
      BY <1>1, <2>6, Zenon DEF handleFailedNode, HandlerWrites
    <3>2. c[2] = "failed"
      BY <1>7, <3>1, Zenon
    <3> HIDE DEF Right
    <3> QED BY <1>8, <3>1, <3>2, Zenon
  <2>7. CASE SetStatusKey(c)
    <3>1. handler[c].pc = "set" /\ (handler'[c] = Idle \/ handler'[c] = [handler[c] EXCEPT !.pc = "add"])
      BY <1>1, <2>7 DEF SetStatusKey, HandlerReturns
    <3>2. handler[c] \in [pc: {"set", "add"}, verdict: Terminal]
      BY <1>1, <3>1 DEF HandlerState, Idle
    <3>3. PICK h : h = [handler[c] EXCEPT !.pc = "add"]
      BY Zenon
    <3>4. h.pc = "add" /\ h.verdict = handler[c].verdict
      BY <3>2, <3>3
    <3>5. Right(h)
      BY <1>7, <3>1, <3>4, Zenon
    <3> HIDE DEF Right
    <3> QED BY <1>7, <3>1, <3>3, <3>5, Zenon
  <2>8. CASE QueueUpdate(c)
    <3>1. handler'[c] = Idle
      BY <1>1, <2>8, Zenon DEF QueueUpdate, HandlerReturns
    <3> HIDE DEF Right
    <3> QED BY <1>7, <3>1, Zenon
  <2> QED BY <2>1, <2>2, <2>3, <2>4, <2>5, <2>6, <2>7, <2>8, Zenon DEF HandleCompletion
<1> QED BY <1>2, <1>3, <1>4, <1>5, <1>6, <1>9, Zenon

\* Where a FAILED has been written.
FailedSomewhere ==
    \/ statusKey = "FAILED" \/ row = "FAILED"
    \/ \E i \in DOMAIN updates : updates[i] = "FAILED"
    \/ \E u \in Updaters : updater[u] # Idle /\ updater[u].status = "FAILED"

\* Without an agent's second signal, a step keeps OutcomeInv.
LEMMA OutcomeStep ==
    ASSUME IInv, OutcomeInv, [Next]_vars, "error" \notin FaultKinds \/ Agents = {}
    PROVE  OutcomeInv'
<1>1. /\ TypeOK /\ handler \in [Signals -> HandlerState] /\ signals \in [Signals -> Nat]
      /\ updates \in Seq(Terminal) /\ updater \in [Updaters -> {Idle} \cup Updating]
      /\ \A n \in Entry : <<n, "failed">> \in Signals /\ <<n, "completed">> \in Signals
  BY DEF IInv, TypeOK, Signals
<1>2. /\ FailedSomewhere => \E n \in Entry : Lost(n)
      /\ \A n \in Entry : signals[<<n, "failed">>] > 0 \/ handler[<<n, "failed">>].pc # "idle" => Lost(n)
  BY Zenon DEF OutcomeInv, FailedSomewhere
<1>3. (\E n \in Entry : Lost(n)) => \E n \in Entry : Lost(n)'
  BY LostStays, Zenon
<1> DEFINE Kinds == \A c \in Signals :
          /\ handler'[c].pc \in {"output", "fail"} => c[2] = "failed"
          /\ handler'[c].pc \in {"consume", "context", "check"} => c[2] = "completed"
          /\ handler'[c].pc \in {"set", "add"} =>
                handler'[c].verdict = IF c[2] = "failed" THEN "FAILED" ELSE "COMPLETED"
     From == \A n \in Entry :
          signals'[<<n, "failed">>] > 0 \/ handler'[<<n, "failed">>].pc # "idle" => Lost(n)'
<1>4. SUFFICES Kinds /\ From /\ (FailedSomewhere' => \E n \in Entry : Lost(n)')
  BY Zenon DEF OutcomeInv, FailedSomewhere
<1>5. ASSUME handler' = handler, signals' = signals PROVE Kinds /\ From
  BY <1>2, <1>5, LostStays, Zenon DEF OutcomeInv
<1>6. ASSUME UNCHANGED <<statusKey, row, updates, updater>>
      PROVE  FailedSomewhere' => \E n \in Entry : Lost(n)'
  BY <1>2, <1>3, <1>6, Zenon DEF FailedSomewhere
<1>7. ASSUME NEW n \in Entry, Execute(n)
      PROVE  Kinds /\ From /\ UNCHANGED <<statusKey, row, updates, updater>>
  <2>1. /\ tokens[n] > 0 /\ tokens' = [tokens EXCEPT ![n] = @ - 1]
        /\ UNCHANGED <<sent, handler, consumed, statusKey, row, updates, updater>>
    BY <1>7, Zenon DEF Execute, status
  <2>2. (\E s \in {"completed", "failed"} : Send(n, {s})) \/ signals' = signals
    BY <1>7, Zenon DEF Execute, Fault
  <2>3. Kinds
    BY <2>1, Zenon DEF OutcomeInv
  <2>4. ASSUME signals'[<<n, "failed">>] # signals[<<n, "failed">>] PROVE Lost(n)'
    <3> DEFINE d == <<n, "completed">>  f == <<n, "failed">>
    <3>1. d \in Signals /\ f \in Signals /\ d[1] = n /\ d[2] = "completed" /\ f[1] = n /\ f[2] = "failed"
          /\ tokens \in [Entry -> Nat] /\ sent[n] \in Nat /\ signals[d] \in Nat /\ signals[f] \in Nat
      BY <1>1 DEF TypeOK
    <3>2. /\ tokens[n] + signals[d] + One(handler[d].pc = "consume") + One(n \in consumed) <= sent[n]
          /\ sent[n] <= 1
      BY Zenon DEF IInv, TokenInv, StartInv
    <3>3. signals'[f] # signals[f]
      BY <2>4
    <3> HIDE DEF d, f
    <3>4. /\ tokens[n] = 1 /\ signals[d] = 0 /\ handler[d].pc # "consume" /\ n \notin consumed
          /\ sent[n] = 1
      BY <2>1, <3>1, <3>2 DEF One
    <3>5. PICK s \in {"completed", "failed"} : Send(n, {s})
      BY <2>2, <3>3, Zenon
    <3>6. s = "failed"
      <4>1. s = "completed" => signals'[f] = signals[f] + 0
        BY <3>1, <3>5, Zenon DEF Send
      <4> QED BY <3>1, <3>3, <4>1
    <3>7. signals'[d] = signals[d] + 0
      BY <3>1, <3>5, <3>6, Zenon DEF Send
    <3>8. tokens'[n] = 0
      BY <2>1, <3>1, <3>4
    <3>9. signals'[d] = 0
      BY <3>4, <3>7
    <3> QED BY <2>1, <3>4, <3>8, <3>9, Zenon DEF Lost, d
  <2>5. ASSUME NEW m \in Entry, m # n PROVE signals'[<<m, "failed">>] = signals[<<m, "failed">>]
    <3> DEFINE f == <<m, "failed">>
    <3>1. f \in Signals /\ f[1] = m /\ signals[f] \in Nat
      <4>1. f[1] = m
        OBVIOUS
      <4> QED BY <1>1, <4>1, Zenon
    <3> HIDE DEF f
    <3>2. ASSUME NEW S, Send(n, S) PROVE signals'[f] = signals[f] + 0
      BY <2>5, <3>1, <3>2, Zenon DEF Send
    <3>3. signals'[f] = signals[f] + 0 \/ signals' = signals
      BY <2>2, <3>2, Zenon
    <3>4. signals'[f] = signals[f]
      BY <3>1, <3>3
    <3> QED BY <3>4, Zenon DEF f
  <2>6. From
    BY <1>2, <2>1, <2>4, <2>5, LostStays, Zenon
  <2> QED BY <2>1, <2>3, <2>6, Zenon
<1>8. ASSUME NEW c \in Signals, HandleCompletion(c)
      PROVE  Kinds /\ From /\ (FailedSomewhere' => \E n \in Entry : Lost(n)')
  <2>1. Kinds
    <3>1. \A d \in Signals : d # c => handler'[d] = handler[d]
      BY <1>1, <1>8, VerdictSteps, Zenon
    <3>2. /\ handler'[c].pc \in {"output", "fail"} => c[2] = "failed"
          /\ handler'[c].pc \in {"consume", "context", "check"} => c[2] = "completed"
          /\ handler'[c].pc \in {"set", "add"} =>
                handler'[c].verdict = IF c[2] = "failed" THEN "FAILED" ELSE "COMPLETED"
      BY <1>1, <1>8, VerdictSteps, Zenon
    <3> QED BY <3>1, <3>2, Zenon DEF OutcomeInv
  <2>2. ASSUME c[2] = "failed" PROVE c[1] \in Entry /\ c = <<c[1], "failed">> /\ Lost(c[1])
    <3>1. c[1] \in Entry /\ c = <<c[1], "failed">>
      BY <2>2, SignalPair
    <3>2. signals[c] > 0 \/ handler[c].pc # "idle"
      BY <1>1, <1>8, VerdictSteps, Zenon
    <3>3. signals[<<c[1], "failed">>] > 0 \/ handler[<<c[1], "failed">>].pc # "idle"
      BY <3>1, <3>2
    <3> QED BY <1>2, <3>1, <3>3, Zenon
  <2>3. From
    <3> SUFFICES ASSUME NEW n \in Entry,
                        signals'[<<n, "failed">>] > 0 \/ handler'[<<n, "failed">>].pc # "idle"
                 PROVE  Lost(n)
      BY LostStays, Zenon
    <3>1. CASE <<n, "failed">> = c
      BY <2>2, <3>1
    <3>2. CASE <<n, "failed">> # c
      BY <1>1, <1>2, <1>8, <3>2, VerdictSteps, Zenon
    <3> QED BY <3>1, <3>2, Zenon
  <2>4. ASSUME FailedSomewhere' PROVE \E n \in Entry : Lost(n)
    <3>1. CASE FailedSomewhere
      BY <1>2, <3>1, Zenon
    <3>2. ASSUME handler[c].pc \in {"set", "add"}, handler[c].verdict = "FAILED"
          PROVE  \E n \in Entry : Lost(n)
      <4>1. c[2] = "failed"
        BY <3>2 DEF OutcomeInv
      <4> QED BY <2>2, <4>1, Zenon
    <3>3. CASE statusKey' = "FAILED" \/ row' = "FAILED"
               \/ (\E u \in Updaters : updater'[u] # Idle /\ updater'[u].status = "FAILED")
      BY <1>1, <1>8, <3>1, <3>2, <3>3, VerdictSteps, Zenon DEF FailedSomewhere
    <3>4. ASSUME NEW i \in DOMAIN updates', updates'[i] = "FAILED" PROVE \E n \in Entry : Lost(n)
      <4>1. PICK v : v = handler[c].verdict
        BY Zenon
      <4>2. updates' = updates \/ (handler[c].pc = "add" /\ updates' = Append(updates, v))
        BY <1>1, <1>8, <4>1, VerdictSteps, Zenon
      <4>3. handler[c].pc = "add" => v \in Terminal
        BY <4>1 DEF OutcomeInv, Terminal
      <4>4. i \in DOMAIN updates' /\ updates \in Seq(Terminal)
        BY <1>1, <3>4
      <4>5. (i \in DOMAIN updates /\ updates'[i] = updates[i]) \/ (handler[c].pc = "add" /\ updates'[i] = v)
        <5>1. CASE updates' = updates
          BY <4>4, <5>1, Zenon
        <5>2. ASSUME NEW s \in Seq(Terminal), v \in Terminal, i \in DOMAIN Append(s, v)
              PROVE  (i \in DOMAIN s /\ Append(s, v)[i] = s[i]) \/ Append(s, v)[i] = v
          BY <5>2
        <5> QED BY <4>2, <4>3, <4>4, <5>1, <5>2, Zenon
      <4> QED BY <3>1, <3>2, <3>4, <4>1, <4>5, Zenon DEF FailedSomewhere
    <3> QED BY <2>4, <3>3, <3>4, Zenon DEF FailedSomewhere
  <2> QED BY <1>3, <2>1, <2>3, <2>4, Zenon
<1>9. ASSUME NEW u \in Updaters, HandleUpdate(u)
      PROVE  UNCHANGED <<handler, signals>> /\ (FailedSomewhere' => \E n \in Entry : Lost(n)')
  <2>1. UNCHANGED <<handler, signals, statusKey>>
    BY <1>9, Zenon DEF HandleUpdate, ReadUpdate, UpdateRow, execution
  <2>2. CASE ReadUpdate(u)
    <3>1. PICK v : v = Head(updates)
      BY Zenon
    <3>2. /\ updates # <<>> /\ updates' = Tail(updates) /\ row' = row
          /\ updater' = [updater EXCEPT ![u] = [pc |-> "update", status |-> v]]
      BY <2>2, <3>1, Zenon DEF ReadUpdate
    <3>3. /\ \A i \in DOMAIN updates' : i + 1 \in DOMAIN updates /\ updates'[i] = updates[i + 1]
          /\ 1 \in DOMAIN updates /\ updates[1] = v
      BY <1>1, <3>1, <3>2
    <3>4. \A w \in Updaters : updater'[w] = updater[w] \/ updater'[w].status = v
      BY <1>1, <3>2, Zenon
    <3>5. FailedSomewhere' => FailedSomewhere
      BY <2>1, <3>2, <3>3, <3>4, Zenon DEF FailedSomewhere
    <3> QED BY <1>2, <1>3, <2>1, <3>5, Zenon
  <2>3. CASE UpdateRow(u)
    <3>1. /\ updates' = updates /\ updater' = [updater EXCEPT ![u] = Idle]
          /\ row' = row \/ row' = updater[u].status
      BY <2>3, Zenon DEF UpdateRow, Logged, MayApply
    <3>2. updater[u] # Idle
      BY <2>3 DEF UpdateRow, Idle
    <3>3. FailedSomewhere' => FailedSomewhere
      BY <1>1, <2>1, <3>1, <3>2, Zenon DEF FailedSomewhere
    <3> QED BY <1>2, <1>3, <2>1, <3>3, Zenon
  <2> QED BY <1>9, <2>2, <2>3, <2>1, Zenon DEF HandleUpdate
<1>10. CASE Crash
  <2>1. /\ \A c \in Signals : handler'[c] = handler[c] \/ handler'[c].pc = "idle"
        /\ \A u \in Updaters : updater'[u] = updater[u] \/ updater'[u] = Idle
        /\ UNCHANGED <<signals, statusKey, row, updates>>
    BY <1>1, <1>10, CrashEffect DEF Idle
  <2>2. Kinds
    BY <2>1, Zenon DEF OutcomeInv
  <2>3. From
    BY <1>1, <1>2, <2>1, LostStays, Zenon
  <2>4. FailedSomewhere' => FailedSomewhere
    BY <2>1, Zenon DEF FailedSomewhere
  <2> QED BY <1>2, <1>3, <2>2, <2>3, <2>4, Zenon
<1>11. CASE CreateRun \/ ApiCrash
  <2>1. UNCHANGED <<statusKey, updates, updater, handler, signals>>
    BY <1>11, Zenon DEF CreateRun, StoreArtifact, InsertRow, PublishRequest, ApiCrash, ApiOnly,
                execution, status
  <2>2. row' = row \/ row' = "QUEUED"
    BY <1>11, Zenon DEF CreateRun, StoreArtifact, InsertRow, PublishRequest, ApiCrash, MayApply
  <2>3. FailedSomewhere' => FailedSomewhere
    BY <2>1, <2>2 DEF FailedSomewhere
  <2> QED BY <1>2, <1>3, <1>5, <2>1, <2>3, Zenon
<1>12. CASE (\E e \in Executors : HandleMessage(e)) \/ UNCHANGED vars
  <2>1. UNCHANGED <<statusKey, row, updates, updater, handler, signals>>
    BY <1>12, Zenon DEF HandleMessage, ReadRequest, ClaimRun, FetchWorkflow, StoreIR, InitializeCounter,
                EmitEntryToken, ExecOnly, vars, execution, status
  <2> QED BY <1>5, <1>6, <2>1, Zenon
<1> HIDE DEF Kinds, From
<1> QED BY <1>5, <1>6, <1>7, <1>8, <1>9, <1>10, <1>11, <1>12, Zenon DEF Next

\* A step keeps BeginInv: while api is idle or row only StoreArtifact can happen.
LEMMA BeginStep ==
    ASSUME IInv, BeginInv, [Next]_vars
    PROVE  BeginInv'
<1> SUFFICES ASSUME api' \in {"idle", "row"} PROVE BeginInv'
  BY Zenon DEF BeginInv
<1>1. CASE UNCHANGED vars
  BY <1>1, Zenon DEF BeginInv, vars, execution, status
<1>2. CASE CreateRun \/ ApiCrash
  <2>1. api \in {"idle", "row"} /\ row' = row /\ requests' = requests
    BY <1>2 DEF CreateRun, StoreArtifact, InsertRow, PublishRequest, ApiCrash, ApiOnly
  <2>2. UNCHANGED <<updates, exec, tokens, signals, handler, updater>>
    BY <1>2, Zenon DEF CreateRun, StoreArtifact, InsertRow, PublishRequest, ApiCrash, ApiOnly,
                execution, status
  <2> QED BY <2>1, <2>2, Zenon DEF BeginInv
<1>3. ASSUME api \in {"idle", "row"}
      PROVE  /\ row = "none" /\ ~(requests > 0) /\ requests = 0 /\ updates = <<>>
             /\ \A e \in Executors : exec[e] = Idle /\ exec[e].pc = "idle"
             /\ \A n \in Entry : tokens[n] = 0 /\ ~(tokens[n] > 0)
             /\ \A c \in Signals : signals[c] = 0 /\ ~(signals[c] > 0) /\ handler[c].pc = "idle"
                                   /\ handler[c] = Idle
             /\ \A u \in Updaters : updater[u] = Idle /\ updater[u].pc = "idle"
  BY <1>3 DEF BeginInv, Idle
<1>4. ASSUME NEW e \in Executors, HandleMessage(e) PROVE FALSE
  <2>1. api' = api
    BY <1>4, Zenon DEF HandleMessage, ReadRequest, ClaimRun, FetchWorkflow, StoreIR,
                InitializeCounter, EmitEntryToken, ExecOnly, status
  <2>2. requests > 0 \/ exec[e].pc \in {"claim", "fetch", "store", "count", "emit"}
    BY <1>4, ZenonT(60) DEF HandleMessage, ReadRequest, ClaimRun, FetchWorkflow, StoreIR, InitializeCounter,
                EmitEntryToken
  <2> QED BY <1>3, <2>1, <2>2
<1>5. ASSUME NEW n \in Entry, Execute(n) PROVE FALSE
  <2>1. api' = api /\ tokens[n] > 0
    BY <1>5, Zenon DEF Execute, status
  <2> QED BY <1>3, <2>1, Zenon
<1>6. ASSUME NEW c \in Signals, HandleCompletion(c) PROVE FALSE
  <2>1. api' = api
    BY <1>6, Zenon DEF HandleCompletion, PopSignal, Consume, StoreOutput, CheckCompletion,
                StoreFailureOutput, handleFailedNode, SetStatusKey, QueueUpdate, HandlerOnly
  <2>2. signals[c] > 0 \/ handler[c].pc \in
           {"consume", "context", "check", "output", "fail", "set", "add"}
    BY <1>6, ZenonT(60) DEF HandleCompletion, PopSignal, Consume, StoreOutput, CheckCompletion,
                StoreFailureOutput, handleFailedNode, SetStatusKey, QueueUpdate
  <2> QED BY <1>3, <2>1, <2>2
<1>7. ASSUME NEW u \in Updaters, HandleUpdate(u) PROVE FALSE
  <2>1. api' = api
    BY <1>7, Zenon DEF HandleUpdate, ReadUpdate, UpdateRow, execution
  <2>2. updates # <<>> \/ updater[u].pc = "update"
    BY <1>7, Zenon DEF HandleUpdate, ReadUpdate, UpdateRow
  <2> QED BY <1>3, <2>1, <2>2
<1>8. CASE Crash
  <2>1. api' = api /\ requests' = requests
    BY <1>8, Zenon DEF Crash
  <2>2. TypeOK
    BY Zenon DEF IInv
  <2> QED BY <1>3, <1>8, <2>1, <2>2, CrashEffect, Zenon DEF BeginInv
<1> QED BY <1>1, <1>2, <1>4, <1>5, <1>6, <1>7, <1>8, Zenon DEF Next

\* Both hold throughout.
LEMMA Outcomes ==
    ASSUME "error" \notin FaultKinds \/ Agents = {}
    PROVE  Spec => [](IInv /\ OutcomeInv /\ BeginInv)
<1>1. Init => OutcomeInv
  <2> SUFFICES ASSUME Init PROVE OutcomeInv
    OBVIOUS
  <2>1. /\ \A c \in Signals : handler[c].pc = "idle" /\ signals[c] = 0
        /\ statusKey = "none" /\ row = "none" /\ updates = <<>>
        /\ \A u \in Updaters : updater[u] = Idle
    BY DEF Init, Idle
  <2>2. \A n \in Entry : <<n, "failed">> \in Signals
    BY DEF Signals
  <2> QED BY <2>1, <2>2 DEF OutcomeInv
<1>2. Init => BeginInv
  BY DEF Init, BeginInv
<1>3. IInv /\ OutcomeInv /\ BeginInv /\ [Next]_vars => (OutcomeInv /\ BeginInv)'
  BY OutcomeStep, BeginStep, Zenon
<1> QED BY <1>1, <1>2, <1>3, Invariance, PTL DEF Spec

\* COMPLETED and FAILED are final in Redis and in the database, although
\* UpdateRunStatus and UpdateStatus overwrite whatever is there: a run whose
\* signals came of one answer per token has one verdict only.  The second answer
\* is the one an agent worker gives that fails after it has sent its result.
THEOREM StatusIsFinalHolds ==
    ASSUME "error" \notin FaultKinds \/ Agents = {}
    PROVE  Spec => StatusIsFinal
<1> DEFINE Final == /\ statusKey \in Terminal => statusKey' = statusKey
                    /\ row \in Terminal => row' = row
<1>1. IInv /\ OutcomeInv /\ BeginInv /\ [Next]_vars => [Final]_vars
  <2> SUFFICES ASSUME IInv, OutcomeInv, BeginInv, [Next]_vars PROVE [Final]_vars
    BY Zenon
  <2>1. ASSUME NEW s \in Terminal, NEW t \in Terminal,
               s = "FAILED" \/ t = "FAILED" => \E n \in Entry : Lost(n),
               s = "COMPLETED" \/ t = "COMPLETED" => consumed = Entry
        PROVE  t = s
    BY <2>1, Zenon DEF Terminal, Lost
  <2>2. \A x : (x = statusKey \/ x = row) =>
           /\ x = "FAILED" => \E n \in Entry : Lost(n)
           /\ x = "COMPLETED" => consumed = Entry
    BY Zenon DEF OutcomeInv, IInv, VerdictInv, Completed
  <2>3. ASSUME NEW c \in Signals, HandleCompletion(c) PROVE Final
    <3>1. row' = row /\ (statusKey' = statusKey \/
                         (handler[c].pc = "set" /\ statusKey' = handler[c].verdict))
      BY <2>3, VerdictSteps, Zenon DEF IInv
    <3>2. PICK v : v = handler[c].verdict
      BY Zenon
    <3>3. ASSUME handler[c].pc = "set"
          PROVE  /\ v \in Terminal
                 /\ v = "FAILED" => \E n \in Entry : Lost(n)
                 /\ v = "COMPLETED" => consumed = Entry
      <4>1. v = IF c[2] = "failed" THEN "FAILED" ELSE "COMPLETED"
        BY <3>2, <3>3 DEF OutcomeInv
      <4>2. v = "COMPLETED" => consumed = Entry
        BY <3>2, <3>3, Zenon DEF IInv, VerdictInv, Completed
      <4>3. c[1] \in Entry /\ c = <<c[1], c[2]>>
        BY SignalPair
      <4>4. ASSUME c[2] = "failed" PROVE \E n \in Entry : Lost(n)
        <5>1. handler[<<c[1], "failed">>].pc # "idle"
          BY <3>3, <4>3, <4>4
        <5> QED BY <4>3, <5>1, Zenon DEF OutcomeInv
      <4> QED BY <4>1, <4>2, <4>4 DEF Terminal
    <3> QED BY <2>1, <2>2, <3>1, <3>2, <3>3, Zenon
  <2>4. ASSUME NEW u \in Updaters, HandleUpdate(u) PROVE Final
    <3>1. statusKey' = statusKey
      BY <2>4, Zenon DEF HandleUpdate, ReadUpdate, UpdateRow
    <3>2. row' = row \/ (updater[u].pc = "update" /\ row' = updater[u].status)
      BY <2>4, Zenon DEF HandleUpdate, ReadUpdate, UpdateRow, Logged, MayApply
    <3>3. PICK v : v = updater[u].status
      BY Zenon
    <3>4. ASSUME updater[u].pc = "update"
          PROVE  /\ v \in Terminal
                 /\ v = "FAILED" => \E n \in Entry : Lost(n)
                 /\ v = "COMPLETED" => consumed = Entry
      <4>1. updater[u] # Idle
        BY <3>4 DEF Idle
      <4>2. v \in Terminal
        BY <3>3, <4>1 DEF IInv, TypeOK, Updating
      <4> QED BY <3>3, <4>1, <4>2, Zenon DEF OutcomeInv, IInv, VerdictInv, Completed
    <3> QED BY <2>1, <2>2, <3>1, <3>2, <3>3, <3>4, Zenon
  <2>5. CASE CreateRun \/ ApiCrash
    <3>1. statusKey' = statusKey /\ (row' = row \/ api = "row")
      BY <2>5, Zenon DEF CreateRun, StoreArtifact, InsertRow, PublishRequest, ApiCrash, ApiOnly, status
    <3>2. api = "row" => row = "none"
      BY DEF BeginInv
    <3> QED BY <3>1, <3>2 DEF Terminal
  <2>6. ASSUME NEW n \in Entry, Execute(n) PROVE Final
    BY <2>6, Zenon DEF Execute, status
  <2>7. ASSUME NEW e \in Executors, HandleMessage(e) PROVE Final
    BY <2>7, Zenon DEF HandleMessage, ReadRequest, ClaimRun, FetchWorkflow, StoreIR,
                InitializeCounter, EmitEntryToken, ExecOnly, status
  <2>8. CASE Crash
    BY <2>8, Zenon DEF Crash
  <2> HIDE DEF Final
  <2> QED BY <2>3, <2>4, <2>5, <2>6, <2>7, <2>8, Zenon DEF Next
<1> QED BY <1>1, Outcomes, PTL DEF Spec, StatusIsFinal
=============================================================================
