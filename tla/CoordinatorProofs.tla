------------------------- MODULE CoordinatorProofs --------------------------
(***************************************************************************)
(* Proofs about Coordinator, for every workflow and any number of faults:  *)
(* type correctness, the accounting of the run's counter, what a counter   *)
(* of 0 means, that a settled 0 is final, and that the output of a node is *)
(* stored before its tokens are sent.                                      *)
(***************************************************************************)
EXTENDS Coordinator, FiniteSetTheorems, SequenceTheorems, TLAPS

\* The phases an absorber goes through.
AbsorberPhase == {"absorb", "stored", "exitloop", "routing", "done", "lost"}

\* The phases a token is in once its node's op key has been applied.
PastConsume == {"consumed", "stored", "exitloop", "routing", "check", "completing", "done", "lost"}

\* A signal always names a worker's job; only an absorber is in phase absorb.
WorkersSignal ==
    /\ \A i \in DOMAIN signals : ~job[signals[i].job].absorber
    /\ \A j \in Jobs : job[j].absorber => job[j].phase \in AbsorberPhase

\* An op key in the applied set was put there by a job that is past its Consume.
ConsumedByJob ==
    \A n \in consumed : \E j \in Jobs : /\ job[j].node = n /\ ~job[j].absorber
                                        /\ job[j].phase \in PastConsume

CountedIsToken == \A j \in Jobs : job[j].counted => job[j].token

IInv == /\ TypeOK /\ CounterAccounting /\ WorkersSignal /\ ConsumedByJob /\ CountedIsToken
        /\ IsFiniteSet(consumed)

-----------------------------------------------------------------------------
(* Lemmas. *)

\* Every IR version a run can hold is a map from node ids to compiled nodes.
LEMMA IRTypes ==
    ASSUME wf \in DOMAIN Workflows
    PROVE  /\ MaxPatches \in Nat
           /\ \A v \in 0..MaxPatches :
                 /\ DOMAIN IRAt(v) \subseteq Node
                 /\ IsFiniteSet(DOMAIN IRAt(v))
                 /\ \A n \in DOMAIN IRAt(v) : IRAt(v)[n] \in NodeDef
<1>1. Len(Workflows[wf]) \in Nat \ {0} /\ DOMAIN Workflows[wf] = 1..Len(Workflows[wf])
  BY WorkflowsAssumption
<1>2. MaxPatches \in Nat
  BY <1>1 DEF MaxPatches
<1>3. ASSUME NEW v \in 0..MaxPatches
      PROVE  v + 1 \in DOMAIN Workflows[wf]
  BY <1>1, <1>3 DEF MaxPatches
<1> QED
  BY <1>2, <1>3, WorkflowsAssumption, Zenon DEF IRAt

\* A function on 1..n is a sequence of length n.
LEMMA SeqOfFunction ==
    ASSUME NEW S, NEW n \in Nat, NEW f \in [1..n -> S]
    PROVE  f \in Seq(S) /\ Len(f) = n /\ DOMAIN f = 1..n
  OBVIOUS

\* The step changes one job's phase and none of what identifies a job.
Moves(j, p) ==
    /\ job' \in Seq(Job) /\ Len(job') = Len(job) /\ Jobs' = Jobs
    /\ \A k \in Jobs :
          /\ job'[k].node = job[k].node /\ job'[k].parent = job[k].parent
          /\ job'[k].token = job[k].token /\ job'[k].counted = job[k].counted
          /\ job'[k].absorber = job[k].absorber
          /\ job'[k].irv <= MaxPatches /\ job'[k].need <= MaxPatches
          /\ job'[k].phase = IF k = j THEN p ELSE job[k].phase

\* Replacing a job's record by one with the same identity moves it.
LEMMA ReplaceMoves ==
    ASSUME TypeOK, NEW j \in Jobs, NEW r \in Job,
           r.node = job[j].node, r.parent = job[j].parent, r.token = job[j].token,
           r.counted = job[j].counted, r.absorber = job[j].absorber,
           r.irv <= MaxPatches, r.need <= MaxPatches,
           job' = [job EXCEPT ![j] = r]
    PROVE  Moves(j, r.phase)
<1>1. job \in [1..Len(job) -> Job] /\ Len(job) \in Nat /\ Jobs = 1..Len(job)
  BY DEF TypeOK, Jobs
<1>2. job' \in [1..Len(job) -> Job]
  BY <1>1
<1>3. job' \in Seq(Job) /\ Len(job') = Len(job) /\ Jobs' = Jobs
  BY <1>1, <1>2, SeqOfFunction, Zenon DEF Jobs
<1>4. \A k \in Jobs : job'[k] = IF k = j THEN r ELSE job[k]
  BY <1>1
<1> QED
  BY <1>3, <1>4 DEF Moves, TypeOK

\* A handler step from one phase to the next keeps what identifies its job.
LEMMA GotoMoves ==
    ASSUME TypeOK, NEW j \in Jobs, NEW p \in Phase, Goto(j, p)
    PROVE  Moves(j, p)
<1> DEFINE r == [job[j] EXCEPT !.phase = p]
<1>1. job[j] \in Job
  BY DEF TypeOK, Jobs
<1>2. /\ r \in Job /\ r.phase = p
      /\ r.node = job[j].node /\ r.parent = job[j].parent /\ r.token = job[j].token
      /\ r.counted = job[j].counted /\ r.absorber = job[j].absorber
      /\ r.irv = job[j].irv /\ r.need = job[j].need
  BY <1>1, Zenon DEF Job
<1>3. job' = [job EXCEPT ![j] = r]
  BY DEF Goto
<1>4. r.irv <= MaxPatches /\ r.need <= MaxPatches
  BY <1>2, Zenon DEF TypeOK
<1> HIDE DEF r
<1>5. Moves(j, r.phase)
  BY <1>2, <1>3, <1>4, ReplaceMoves, Zenon
<1> QED
  BY <1>2, <1>5

\* The conjuncts of TypeOK on what is neither a job nor the counter's state.
RestOK ==
    /\ ir \in 0..MaxPatches
    /\ patches \in 0..MaxPatches
    /\ signals \in Seq([job: Jobs, status: {"completed", "failed"}])
    /\ failing \subseteq Jobs
    /\ context \subseteq Node
    /\ loopIter \in [Node -> Nat]
    /\ runStatus \in {"none", "FAILED", "COMPLETED"}
    /\ faults \in 0..MaxFaults

\* What every step does to the jobs: they keep their identity, an absorber
\* stays one, a job past its Consume stays past it, and a new job comes after
\* its parent.
Evolves ==
    /\ job' \in Seq(Job) /\ Jobs \subseteq Jobs'
    /\ \A k \in Jobs :
          /\ job'[k].node = job[k].node /\ job'[k].absorber = job[k].absorber
          /\ job[k].phase \in PastConsume => job'[k].phase \in PastConsume
    /\ \A k \in Jobs' :
          /\ job'[k].parent < k /\ job'[k].irv <= MaxPatches /\ job'[k].need <= MaxPatches
          /\ job'[k].absorber => job'[k].phase \in AbsorberPhase
          /\ job'[k].counted => job'[k].token

SameCounted == \A k \in Jobs' : job'[k].counted <=> k \in Jobs /\ job[k].counted

\* The parts of the invariant that do not speak of the counter's value.
LEMMA EvolvesKeeps ==
    ASSUME IInv, Evolves, wf' = wf, RestOK', counter' \in Int, consumed' \subseteq Node,
           \A i \in DOMAIN signals' : ~job'[signals'[i].job].absorber
    PROVE  /\ TypeOK' /\ WorkersSignal' /\ CountedIsToken'
           /\ \A n \in consumed : \E j \in Jobs' : /\ job'[j].node = n /\ ~job'[j].absorber
                                                  /\ job'[j].phase \in PastConsume
<1>1. MaxPatches' = MaxPatches
  BY DEF MaxPatches
<1>2. TypeOK'
  BY <1>1, Zenon DEF TypeOK, RestOK, Evolves, IInv
<1>3. WorkersSignal' /\ CountedIsToken'
  BY DEF Evolves, WorkersSignal, CountedIsToken
<1>4. ASSUME NEW n \in consumed
      PROVE  \E j \in Jobs' : /\ job'[j].node = n /\ ~job'[j].absorber
                             /\ job'[j].phase \in PastConsume
  <2>1. PICK j \in Jobs : job[j].node = n /\ ~job[j].absorber /\ job[j].phase \in PastConsume
    BY <1>4 DEF IInv, ConsumedByJob
  <2> QED
    BY <2>1, Zenon DEF Evolves
<1> QED
  BY <1>2, <1>3, <1>4

\* A step that leaves the counter, the applied set and the counted jobs alone
\* keeps the whole invariant.
LEMMA UncountedKeeps ==
    ASSUME IInv, Evolves, SameCounted, RestOK', UNCHANGED <<wf, counter, consumed>>,
           \A i \in DOMAIN signals' : ~job'[signals'[i].job].absorber
    PROVE  IInv'
<1>1. /\ TypeOK' /\ WorkersSignal' /\ CountedIsToken'
      /\ \A n \in consumed : \E j \in Jobs' : /\ job'[j].node = n /\ ~job'[j].absorber
                                              /\ job'[j].phase \in PastConsume
  BY EvolvesKeeps, Zenon DEF IInv, TypeOK
<1>2. Counted' = Counted
  BY DEF Counted, SameCounted, Evolves
<1>3. CounterAccounting' /\ IsFiniteSet(consumed')
  BY <1>2, Zenon DEF CounterAccounting, IInv
<1> QED
  BY <1>1, <1>3 DEF IInv, ConsumedByJob

\* Moving one job is one of the ways the jobs evolve, and counts nothing.
LEMMA MovesEvolves ==
    ASSUME IInv, NEW j \in Jobs, NEW p \in Phase, Moves(j, p),
           job[j].absorber => p \in AbsorberPhase,
           job[j].phase \in PastConsume => p \in PastConsume
    PROVE  Evolves /\ SameCounted
  BY ZenonT(60) DEF IInv, TypeOK, Moves, Evolves, SameCounted, WorkersSignal, CountedIsToken

\* The same, for a step that adds no signal.
LEMMA QuietKeeps ==
    ASSUME IInv, Evolves, SameCounted, UNCHANGED <<wf, counter, consumed>>,
           signals' = signals \/ (signals # <<>> /\ signals' = Tail(signals)),
           ir' \in 0..MaxPatches, patches' \in 0..MaxPatches, failing' \subseteq Jobs',
           context' \subseteq Node, loopIter' \in [Node -> Nat],
           runStatus' \in {"none", "FAILED", "COMPLETED"}, faults' \in 0..MaxFaults
    PROVE  IInv'
<1> DEFINE S == [job: Jobs, status: {"completed", "failed"}]
           T == [job: Jobs', status: {"completed", "failed"}]
<1>1. signals \in Seq(S) /\ \A i \in DOMAIN signals : ~job[signals[i].job].absorber
  BY DEF IInv, TypeOK, WorkersSignal
<1>2. S \subseteq T
  BY DEF Evolves
<1>3. signals' \in Seq(S) /\ \A i \in DOMAIN signals' : ~job[signals'[i].job].absorber
  <2>1. CASE signals' = signals
    BY <1>1, <2>1
  <2>2. CASE signals # <<>> /\ signals' = Tail(signals)
    <3> HIDE DEF S
    <3>1. /\ Tail(signals) \in Seq(S) /\ Len(Tail(signals)) = Len(signals) - 1
          /\ \A i \in 1..Len(Tail(signals)) : Tail(signals)[i] = signals[i + 1]
      BY <1>1, <2>2, HeadTailProperties
    <3>2. Len(signals) \in Nat /\ DOMAIN signals = 1..Len(signals)
      BY <1>1
    <3>3. DOMAIN Tail(signals) = 1..Len(Tail(signals))
      BY <3>1
    <3>4. ASSUME NEW i \in DOMAIN Tail(signals)
          PROVE  i + 1 \in DOMAIN signals /\ Tail(signals)[i] = signals[i + 1]
      BY <3>1, <3>2, <3>3
    <3> QED
      BY <1>1, <2>2, <3>1, <3>4, Zenon
  <2> QED
    BY <2>1, <2>2
<1>4. signals' \in Seq(T)
  <2> HIDE DEF S, T
  <2> QED
    BY <1>2, <1>3, SeqMonotonic
<1>5. ASSUME NEW i \in DOMAIN signals'
      PROVE  signals'[i].job \in Jobs
  <2>1. signals'[i] \in S
    <3> HIDE DEF S
    <3> QED
      BY <1>3, <1>5, ElementOfSeq, LenProperties
  <2> QED
    BY <2>1
<1>6. \A i \in DOMAIN signals' : ~job'[signals'[i].job].absorber
  BY <1>3, <1>5, Zenon DEF Evolves
<1>7. RestOK'
  BY <1>4, Zenon DEF RestOK, MaxPatches
<1> QED
  BY <1>6, <1>7, UncountedKeeps, Zenon

\* The handler's steps that only move one job to another phase.
LEMMA GotoKeeps ==
    ASSUME IInv, NEW j \in Jobs, NEW p \in Phase, Goto(j, p),
           job[j].absorber => p \in AbsorberPhase,
           job[j].phase \in PastConsume => p \in PastConsume,
           UNCHANGED <<wf, patches, signals, failing, counter, consumed>>,
           ir' \in 0..MaxPatches, loopIter' \in [Node -> Nat],
           context' \subseteq Node, runStatus' \in {"none", "FAILED", "COMPLETED"},
           faults' \in 0..MaxFaults
    PROVE  IInv'
<1>1. Moves(j, p)
  BY GotoMoves, Zenon DEF IInv
<1>2. Evolves /\ SameCounted
  BY <1>1, MovesEvolves, Zenon
<1>3. Jobs' = Jobs
  BY <1>1, Zenon DEF Moves
<1> QED
  BY <1>2, <1>3, QuietKeeps, Zenon DEF IInv, TypeOK

\* The bound on the faults is respected.
LEMMA FaultType ==
    ASSUME faults \in 0..MaxFaults, NEW kind, Fault(kind)
    PROVE  faults' \in 0..MaxFaults
  BY FaultsAssumption DEF Fault

\* Steps that replace one job by a record of the same identity.
LEMMA ReplaceKeeps ==
    ASSUME IInv, NEW j \in Jobs, NEW r \in Job,
           r.node = job[j].node, r.parent = job[j].parent, r.token = job[j].token,
           r.counted = job[j].counted, r.absorber = job[j].absorber,
           r.irv <= MaxPatches, r.need <= MaxPatches,
           job' = [job EXCEPT ![j] = r],
           job[j].absorber => r.phase \in AbsorberPhase,
           job[j].phase \in PastConsume => r.phase \in PastConsume,
           UNCHANGED <<wf, ir, signals, failing, counter, consumed, context, runStatus, faults>>,
           patches' \in 0..MaxPatches, loopIter' \in [Node -> Nat]
    PROVE  IInv'
<1>1. Moves(j, r.phase)
  BY ReplaceMoves, Zenon DEF IInv
<1>2. Evolves /\ SameCounted
  BY <1>1, MovesEvolves, Zenon DEF Job
<1>3. Jobs' = Jobs
  BY <1>1, Zenon DEF Moves
<1> QED
  BY <1>2, <1>3, QuietKeeps, Zenon DEF IInv, TypeOK

-----------------------------------------------------------------------------
(* The actions that leave the counter alone keep the invariant: one lemma  *)
(* for each action, or for each group of actions of one shape.             *)

\* Steps that only move one job: publishing an entry token, a lost worker,
\* storing the output, skipping a node, leaving a loop, a failed Emit, reading
\* the counter, writing the status, a Redis error, the SET of the patched IR.
LEMMA MovingStepsKeep ==
    ASSUME IInv, NEW j \in Jobs,
           \/ PublishEntry(j) \/ WorkerLose(j) \/ StoreOutput(j) \/ ExitLoop(j)
           \/ EmitFails(j) \/ CheckCompletion(j) \/ UpdateRunStatus(j)
           \/ HandlerError(j) \/ reloadIRIfPatched(j) \/ handleSkippedNode(j)
    PROVE  IInv'
<1> USE DEF Phase, Volatile, Final, AbsorberPhase, PastConsume
<1>1. /\ TypeOK /\ job[j] \in Job
      /\ job[j].absorber => job[j].phase \in AbsorberPhase
  BY DEF IInv, TypeOK, WorkersSignal, Jobs
<1>2. CASE PublishEntry(j)
  <2>1. PICK p \in {"queued", "stranded"} : Goto(j, p)
    BY <1>2, Zenon DEF PublishEntry
  <2> QED
    BY <1>1, <1>2, <2>1, GotoKeeps, Zenon DEF PublishEntry, TypeOK
<1>3. CASE WorkerLose(j)
  BY <1>1, <1>3, GotoKeeps, FaultType, Zenon DEF WorkerLose, TypeOK
<1>4. CASE StoreOutput(j) \/ handleSkippedNode(j)
  <2>1. context' \subseteq Node
    BY <1>1, <1>4, Zenon DEF StoreOutput, handleSkippedNode, TypeOK, Job
  <2>2. PICK p \in {"popped", "stored"} : /\ Goto(j, p)
                                        /\ p = "popped" <=> job[j].phase = "skip"
    BY <1>4, Zenon DEF StoreOutput, handleSkippedNode
  <2>3. job[j].phase \in {"consumed", "absorb", "skip"}
    BY <1>4, Zenon DEF StoreOutput, handleSkippedNode
  <2> QED
    BY <1>1, <1>4, <2>1, <2>2, <2>3, GotoKeeps, Zenon DEF StoreOutput, handleSkippedNode, TypeOK
<1>5. CASE ExitLoop(j)
  <2>1. loopIter' \in [Node -> Nat]
    BY <1>1, <1>5, Zenon DEF ExitLoop, TypeOK
  <2> QED
    BY <1>1, <1>5, <2>1, GotoKeeps, Zenon DEF ExitLoop, TypeOK
<1>6. CASE EmitFails(j)
  <2>1. PICK p \in {"check", "done"} : Goto(j, p) /\ (p = "check" => ~job[j].absorber)
    BY <1>6, Zenon DEF EmitFails, AfterRouting
  <2> QED
    BY <1>1, <1>6, <2>1, GotoKeeps, FaultType, Zenon DEF EmitFails, TypeOK
<1>7. CASE CheckCompletion(j)
  <2>1. PICK p \in {"completing", "done"} : Goto(j, p)
    BY <1>7, Zenon DEF CheckCompletion
  <2> QED
    BY <1>1, <1>7, <2>1, GotoKeeps, Zenon DEF CheckCompletion, TypeOK
<1>8. CASE UpdateRunStatus(j)
  BY <1>1, <1>8, GotoKeeps, Zenon DEF UpdateRunStatus, TypeOK
<1>9. CASE HandlerError(j)
  <2>1. PICK p \in {"lost", "ready", "popped", "stored", "routing"} :
          /\ Goto(j, p)
          /\ job[j].absorber => p \in AbsorberPhase
          /\ job[j].phase \in PastConsume => p \in PastConsume
    BY <1>1, <1>9, Zenon DEF HandlerError
  <2> QED
    BY <1>1, <1>9, <2>1, GotoKeeps, FaultType, Zenon DEF HandlerError, TypeOK
<1>10. CASE reloadIRIfPatched(j)
  <2>1. ir' \in 0..MaxPatches
    BY <1>1, <1>10, IRTypes DEF reloadIRIfPatched, TypeOK, Job
  <2> QED
    BY <1>1, <1>10, <2>1, GotoKeeps, Zenon DEF reloadIRIfPatched, TypeOK
<1> QED
  BY <1>2, <1>3, <1>4, <1>5, <1>6, <1>7, <1>8, <1>9, <1>10, Zenon

\* What the invariant says of one job.
LEMMA JobAt ==
    ASSUME IInv, NEW j \in Jobs
    PROVE  /\ TypeOK /\ MaxPatches \in Nat
           /\ job[j] \in Job /\ job[j].node \in Node /\ job[j].phase \in Phase
           /\ job[j].irv \in 0..MaxPatches /\ job[j].need \in 0..MaxPatches
           /\ job[j].absorber => job[j].phase \in AbsorberPhase
<1>1. TypeOK /\ MaxPatches \in Nat
  BY IRTypes, Zenon DEF IInv, TypeOK
<1>2. job[j] \in Job
  BY <1>1 DEF TypeOK, Jobs
<1>3. /\ job[j].node \in Node /\ job[j].phase \in Phase
      /\ job[j].irv \in Nat /\ job[j].need \in Nat
  BY <1>2, Zenon DEF Job
<1>4. job[j].irv <= MaxPatches /\ job[j].need <= MaxPatches
  BY <1>1, Zenon DEF TypeOK
<1> QED
  BY <1>1, <1>2, <1>3, <1>4 DEF IInv, WorkersSignal

\* Loading the IR, and compiling the patches fetched, keeps the invariant.
LEMMA LoadIRKeeps ==
    ASSUME IInv, NEW j \in Jobs, LoadIR(j)
    PROVE  IInv'
<1>1. /\ TypeOK /\ job[j] \in Job /\ job[j].phase = "popped" /\ ~job[j].absorber
      /\ patches \in 0..MaxPatches /\ MaxPatches \in Nat
      /\ job[j].irv <= MaxPatches /\ job[j].need <= MaxPatches
  BY JobAt, Zenon DEF TypeOK, LoadIR, AbsorberPhase
<1>2. CASE Goto(j, "lost") \/ Goto(j, "ready")
  BY <1>1, <1>2, GotoKeeps, Zenon
  DEF LoadIR, TypeOK, Phase, Volatile, Final, AbsorberPhase, PastConsume
<1>3. CASE job' = [job EXCEPT ![j].phase = "reload", ![j].irv = patches]
  <2> DEFINE r == [job[j] EXCEPT !.phase = "reload", !.irv = patches]
  <2>1. /\ r \in Job /\ r.phase = "reload" /\ r.irv = patches /\ r.need = job[j].need
        /\ r.node = job[j].node /\ r.parent = job[j].parent /\ r.token = job[j].token
        /\ r.counted = job[j].counted /\ r.absorber = job[j].absorber
    <3>1. "reload" \in Phase /\ patches \in Nat
      BY <1>1 DEF Phase, Volatile
    <3> QED
      BY <1>1, <3>1, Zenon DEF Job
  <2>2. job' = [job EXCEPT ![j] = r]
    BY <1>3, Zenon
  <2> HIDE DEF r
  <2>3. /\ UNCHANGED <<wf, ir, patches, signals, failing, counter, consumed, context,
                       loopIter, runStatus, faults>>
        /\ loopIter \in [Node -> Nat]
    BY <1>1, Zenon DEF LoadIR, TypeOK
  <2>4. "popped" \notin PastConsume
    BY DEF PastConsume
  <2>5. r.irv <= MaxPatches /\ r.need <= MaxPatches /\ patches' \in 0..MaxPatches
    BY <1>1, <2>1, <2>3
  <2> QED
    BY <1>1, <2>1, <2>2, <2>3, <2>4, <2>5, ReplaceKeeps, Zenon
<1> QED
  BY <1>2, <1>3, Zenon DEF LoadIR

\* A run patch made by an agent keeps the invariant.
LEMMA AgentPatchKeeps ==
    ASSUME IInv, NEW j \in Jobs, AgentPatch(j)
    PROVE  IInv'
<1> DEFINE r == [job[j] EXCEPT !.need = patches + 1]
<1>1. /\ TypeOK /\ job[j] \in Job /\ job[j].phase = "queued" /\ ~job[j].absorber
      /\ MaxPatches \in Nat /\ job[j].irv <= MaxPatches
  BY JobAt DEF AgentPatch, AbsorberPhase
<1>2. patches + 1 \in 0..MaxPatches /\ patches' = patches + 1
  BY <1>1 DEF AgentPatch, TypeOK
<1>3. /\ r \in Job /\ r.phase = job[j].phase /\ r.irv = job[j].irv /\ r.need = patches + 1
      /\ r.node = job[j].node /\ r.parent = job[j].parent /\ r.token = job[j].token
      /\ r.counted = job[j].counted /\ r.absorber = job[j].absorber
  BY <1>1, <1>2 DEF Job
<1>4. job' = [job EXCEPT ![j] = r]
  BY DEF AgentPatch
<1>5. r.irv <= MaxPatches /\ r.need <= MaxPatches
  BY <1>1, <1>2, <1>3
<1> HIDE DEF r
<1> QED
  BY <1>1, <1>2, <1>3, <1>4, <1>5, ReplaceKeeps, ZenonT(60) DEF AgentPatch, TypeOK

\* The next nodes come from a compiled node, so they are node ids.
LEMMA DetermineKeeps ==
    ASSUME IInv, NEW j \in Jobs, DetermineNextNodes(j)
    PROVE  IInv'
<1> DEFINE v == IF job[j].absorber THEN job[j].irv ELSE ir
           d == IRAt(v)[job[j].node]
           r(p, todo) == [job[j] EXCEPT !.phase = p, !.todo = todo, !.irv = v]
<1>1. /\ TypeOK /\ job[j] \in Job /\ job[j].node \in Node /\ MaxPatches \in Nat
      /\ job[j].need <= MaxPatches
  BY JobAt
<1>2. v \in 0..MaxPatches
  BY JobAt, Zenon DEF TypeOK
<1>3. /\ job[j].phase = "stored"
      /\ UNCHANGED <<wf, ir, patches, signals, failing, counter, consumed, context,
                     runStatus, faults>>
  BY Zenon DEF DetermineNextNodes
<1>4. CASE job[j].node \notin DOMAIN IRAt(v)
  <2>1. Goto(j, "lost") /\ UNCHANGED loopIter
    BY <1>4, Zenon DEF DetermineNextNodes
  <2> QED
    BY <1>1, <1>3, <2>1, GotoKeeps, Zenon
    DEF TypeOK, Phase, Final, AbsorberPhase, PastConsume
<1>5. CASE job[j].node \in DOMAIN IRAt(v)
  <2>1. d \in NodeDef
    BY <1>1, <1>2, <1>5, IRTypes, Zenon DEF TypeOK
  <2>2. ASSUME NEW p \in {"routing", "exitloop"}, NEW todo \in Seq(Node),
               job' = [job EXCEPT ![j].phase = p, ![j].todo = todo, ![j].irv = v],
               loopIter' \in [Node -> Nat]
        PROVE  IInv'
    <3>1. job' = [job EXCEPT ![j] = r(p, todo)]
      BY <2>2, Zenon
    <3>2. p \in Phase /\ p \in AbsorberPhase /\ p \in PastConsume
      BY <2>2, Zenon DEF Phase, Volatile, AbsorberPhase, PastConsume
    <3> HIDE DEF v
    <3>3. /\ r(p, todo) \in Job /\ r(p, todo).phase = p /\ r(p, todo).irv = v
          /\ r(p, todo).need = job[j].need
          /\ r(p, todo).node = job[j].node /\ r(p, todo).parent = job[j].parent
          /\ r(p, todo).token = job[j].token /\ r(p, todo).counted = job[j].counted
          /\ r(p, todo).absorber = job[j].absorber
      <4>1. v \in Nat
        BY <1>1, <1>2
      <4> QED
        BY <1>1, <2>2, <3>2, <4>1, Zenon DEF Job
    <3> HIDE DEF r
    <3>4. r(p, todo).irv <= MaxPatches /\ r(p, todo).need <= MaxPatches
      BY <1>1, <1>2, <3>3
    <3>5. patches' \in 0..MaxPatches
      BY <1>1, <1>3, Zenon DEF TypeOK
    <3>6. /\ job[j].absorber => r(p, todo).phase \in AbsorberPhase
          /\ job[j].phase \in PastConsume => r(p, todo).phase \in PastConsume
      BY <3>2, <3>3, Zenon
    <3> QED
      BY <1>3, <2>2, <3>1, <3>3, <3>4, <3>5, <3>6, ReplaceKeeps, Zenon
  <2>3. CASE HasLoop(d) /\ HandleLoop(j, v, d)
    <3>1. loopIter' \in [Node -> Nat]
      <4>1. loopIter' = [loopIter EXCEPT ![job[j].node] = loopIter[job[j].node] + 1]
        BY <2>3, Zenon DEF HandleLoop
      <4> QED
        BY <1>1, <4>1 DEF TypeOK
    <3>2. d.loop.timeout \in Seq(Node) /\ <<d.loop.back>> \in Seq(Node) /\ d.loop.break \in Seq(Node)
      <4> HIDE DEF d
      <4> QED
        BY <2>1 DEF NodeDef, LoopConfig
    <3>3. PICK p \in {"routing", "exitloop"},
               todo \in {d.loop.timeout, <<d.loop.back>>, d.loop.break} :
                  job' = [job EXCEPT ![j].phase = p, ![j].todo = todo, ![j].irv = v]
      <4> HIDE DEF d, v
      <4> QED
        BY <2>3, Zenon DEF HandleLoop
    <3> QED
      BY <2>2, <3>1, <3>2, <3>3, Zenon
  <2>4. CASE ~HasLoop(d)
    <3>1. PICK todo \in IF HasBranch(d) THEN HandleBranch(d) ELSE {d.dependents} :
                /\ job' = [job EXCEPT ![j].phase = "routing", ![j].todo = todo, ![j].irv = v]
                /\ UNCHANGED loopIter
      BY <1>5, <2>4, Zenon DEF DetermineNextNodes
    <3>2. todo \in Seq(Node)
      <4> HIDE DEF d
      <4> QED
        BY <2>1, <3>1, Zenon DEF HandleBranch, NodeDef, BranchConfig
    <3> QED
      BY <1>1, <2>2, <3>1, <3>2, Zenon DEF TypeOK
  <2> QED
    BY <1>5, <2>3, <2>4, Zenon DEF DetermineNextNodes
<1> QED
  BY <1>4, <1>5, Zenon

\* Signals are added for one job, which is not an absorber.
LEMMA SignalsKeep ==
    ASSUME IInv, NEW j \in Jobs, NEW p \in {"signalled", "failed"}, Goto(j, p),
           job[j].phase = "queued", NEW more \in Seq([job: {j}, status: {"completed", "failed"}]),
           signals' = signals \o more, faults' \in 0..MaxFaults,
           UNCHANGED <<wf, ir, patches, failing, counter, consumed, context, loopIter, runStatus>>
    PROVE  IInv'
<1> DEFINE S == [job: Jobs, status: {"completed", "failed"}]
           M == [job: {j}, status: {"completed", "failed"}]
<1>1. /\ p \in Phase /\ "queued" \notin AbsorberPhase /\ "queued" \notin PastConsume
  BY DEF Phase, Final, AbsorberPhase, PastConsume
<1>2. TypeOK /\ ~job[j].absorber
  BY <1>1, JobAt, Zenon
<1>3. Moves(j, p)
  BY <1>1, <1>2, GotoMoves, Zenon
<1>4. Evolves /\ SameCounted /\ Jobs' = Jobs
  BY <1>1, <1>2, <1>3, MovesEvolves, ZenonT(60) DEF Moves
<1>5. signals \in Seq(S) /\ more \in Seq(M) /\ M \subseteq S
  BY <1>2, Zenon DEF TypeOK
<1>6. \A i \in DOMAIN signals : signals[i].job \in Jobs /\ ~job[signals[i].job].absorber
  <2>1. \A i \in DOMAIN signals : signals[i] \in S
    <3> HIDE DEF S
    <3> QED
      BY <1>5, ElementOfSeq, LenProperties
  <2> QED
    BY <2>1, Zenon DEF IInv, WorkersSignal
<1>7. \A i \in DOMAIN more : more[i].job = j
  <2>1. \A i \in DOMAIN more : more[i] \in M
    <3> HIDE DEF M
    <3> QED
      BY <1>5, ElementOfSeq, LenProperties, Zenon
  <2> QED
    BY <2>1, Zenon
<1>8. /\ signals' \in Seq(S)
      /\ \A i \in DOMAIN signals' : \/ i \in DOMAIN signals /\ signals'[i] = signals[i]
                                    \/ \E m \in DOMAIN more : signals'[i] = more[m]
  <2> HIDE DEF S, M
  <2>1. more \in Seq(S)
    BY <1>5, SeqMonotonic, Zenon
  <2>2. /\ signals' \in Seq(S) /\ Len(signals') = Len(signals) + Len(more)
        /\ Len(signals) \in Nat /\ Len(more) \in Nat
        /\ DOMAIN signals = 1..Len(signals) /\ DOMAIN more = 1..Len(more)
        /\ DOMAIN signals' = 1..Len(signals')
    BY <1>5, <2>1, ConcatProperties, LenProperties, ZenonT(60)
  <2>3. \A i \in 1..Len(signals') : signals'[i] = IF i <= Len(signals) THEN signals[i]
                                                   ELSE more[i - Len(signals)]
    BY <1>5, <2>1, <2>2, ConcatProperties, ZenonT(60)
  <2>4. ASSUME NEW i \in DOMAIN signals'
        PROVE  \/ i \in DOMAIN signals /\ signals'[i] = signals[i]
               \/ \E m \in DOMAIN more : signals'[i] = more[m]
    <3>1. CASE i <= Len(signals)
      BY <2>2, <2>3, <3>1
    <3>2. CASE ~(i <= Len(signals))
      <4>1. i - Len(signals) \in DOMAIN more
        BY <2>2, <3>2
      <4> QED
        BY <2>2, <2>3, <3>2, <4>1, Zenon
    <3> QED
      BY <3>1, <3>2, Zenon
  <2> QED
    BY <2>2, <2>4, Zenon
<1>9. ASSUME NEW i \in DOMAIN signals'
      PROVE  ~job'[signals'[i].job].absorber
  <2>1. signals'[i].job \in Jobs /\ ~job[signals'[i].job].absorber
    BY <1>2, <1>6, <1>7, <1>8, ZenonT(60)
  <2> QED
    BY <1>4, <2>1, Zenon DEF Evolves
<1>10. RestOK'
  <2>1. signals' \in Seq([job: Jobs', status: {"completed", "failed"}]) /\ failing' \subseteq Jobs'
    BY <1>2, <1>4, <1>8, Zenon DEF TypeOK
  <2> QED
    BY <1>2, <2>1, Zenon DEF RestOK, TypeOK, MaxPatches
<1> QED
  BY <1>4, <1>9, <1>10, UncountedKeeps, Zenon

\* A worker that signals completion, failure or both keeps the invariant.
LEMMA WorkersKeep ==
    ASSUME IInv, NEW j \in Jobs, WorkerComplete(j) \/ WorkerFail(j) \/ WorkerSignalsTwice(j)
    PROVE  IInv'
<1> DEFINE M == [job: {j}, status: {"completed", "failed"}]
<1>1. /\ Signal(j, "completed") \in M /\ Signal(j, "failed") \in M
      /\ faults \in 0..MaxFaults /\ job[j].phase = "queued"
  BY JobAt, Zenon DEF Signal, TypeOK, WorkerComplete, WorkerFail, WorkerSignalsTwice
<1>2. ASSUME NEW s \in M
      PROVE  <<s>> \in Seq(M) /\ Append(signals, s) = signals \o <<s>>
  <2>1. signals \in Seq([job: Jobs, status: {"completed", "failed"}])
    BY JobAt, Zenon DEF TypeOK
  <2> HIDE DEF M
  <2> QED
    BY <1>2, <2>1, AppendIsConcat
<1>3. CASE WorkerComplete(j)
  <2>1. signals' = signals \o <<Signal(j, "completed")>>
    BY <1>1, <1>2, <1>3, Zenon DEF WorkerComplete
  <2> QED
    BY <1>1, <1>2, <1>3, <2>1, SignalsKeep, Zenon DEF WorkerComplete
<1>4. CASE WorkerFail(j)
  <2>1. signals' = signals \o <<Signal(j, "failed")>>
    BY <1>1, <1>2, <1>4, Zenon DEF WorkerFail
  <2> QED
    BY <1>1, <1>2, <1>4, <2>1, SignalsKeep, Zenon DEF WorkerFail
<1>5. CASE WorkerSignalsTwice(j)
  <2>1. PICK t \in M : signals' = signals \o <<Signal(j, "completed"), t>>
    BY <1>1, <1>5, Zenon DEF WorkerSignalsTwice
  <2>2. <<Signal(j, "completed"), t>> \in Seq(M)
    BY <1>1
  <2>3. faults' \in 0..MaxFaults
    BY <1>1, <1>5, FaultType, Zenon DEF WorkerSignalsTwice
  <2> QED
    BY <1>1, <1>5, <2>1, <2>2, <2>3, SignalsKeep, Zenon DEF WorkerSignalsTwice
<1> QED
  BY <1>3, <1>4, <1>5, Zenon

\* A new job that nobody has counted is added after the others.
LEMMA AppendEvolves ==
    ASSUME IInv, NEW base \in Seq(Job), Len(base) = Len(job),
           \A k \in Jobs : /\ base[k].node = job[k].node /\ base[k].parent = job[k].parent
                           /\ base[k].phase = job[k].phase /\ base[k].token = job[k].token
                           /\ base[k].counted = job[k].counted
                           /\ base[k].absorber = job[k].absorber
                           /\ base[k].irv = job[k].irv /\ base[k].need = job[k].need,
           NEW q \in Job, q.parent <= Len(job), q.irv <= MaxPatches, q.need <= MaxPatches,
           ~q.counted, q.absorber => q.phase \in AbsorberPhase, job' = Append(base, q)
    PROVE  Evolves /\ SameCounted
<1>1. job \in Seq(Job) /\ Len(job) \in Nat /\ Jobs = 1..Len(job)
  BY DEF IInv, TypeOK, Jobs
<1>2. /\ job' \in Seq(Job) /\ Len(job') = Len(job) + 1 /\ Jobs' = 1..(Len(job) + 1)
      /\ \A k \in Jobs : job'[k] = base[k]
      /\ job'[Len(job) + 1] = q
  BY <1>1, AppendProperties DEF Jobs
<1>3. ASSUME NEW k \in Jobs' PROVE k \in Jobs \/ k = Len(job) + 1
  BY <1>1, <1>2
<1>4. /\ Jobs \subseteq Jobs' /\ Len(job) + 1 \notin Jobs /\ q.parent < Len(job) + 1
  BY <1>1, <1>2 DEF Job
<1>5. \A k \in Jobs : /\ job[k].parent < k
                      /\ job[k].irv <= MaxPatches /\ job[k].need <= MaxPatches
                      /\ job[k].absorber => job[k].phase \in AbsorberPhase
                      /\ job[k].counted => job[k].token
  BY DEF IInv, TypeOK, WorkersSignal, CountedIsToken
<1>6. Evolves
  BY <1>2, <1>3, <1>4, <1>5 DEF Evolves
<1>7. SameCounted
  BY <1>2, <1>3, <1>4 DEF SameCounted
<1> QED
  BY <1>6, <1>7, Zenon

\* The job keeps its record and no other appears.
LEMMA SameJobsEvolve ==
    ASSUME IInv, UNCHANGED job
    PROVE  Evolves /\ SameCounted /\ Jobs' = Jobs
  BY DEF IInv, TypeOK, WorkersSignal, CountedIsToken, Evolves, SameCounted, Jobs

\* The handler of a failed signal leaves the counter and the jobs alone, whether
\* it gets through or not.
LEMMA HandleFailedKeeps ==
    ASSUME IInv, NEW j \in Jobs, handleFailedNode(j) \/ FailureHandlerError(j)
    PROVE  IInv'
<1>1. TypeOK /\ job[j].node \in Node
  BY JobAt, Zenon
<1>2. UNCHANGED <<wf, ir, patches, job, signals, counter, consumed, loopIter>>
  BY Zenon DEF handleFailedNode, FailureHandlerError
<1>3. /\ context' \subseteq Node /\ runStatus' \in {"none", "FAILED", "COMPLETED"}
      /\ failing' \subseteq Jobs
  BY <1>1, Zenon DEF handleFailedNode, FailureHandlerError, TypeOK
<1>4. faults' \in 0..MaxFaults
  BY <1>1, FaultType, Zenon DEF handleFailedNode, FailureHandlerError, TypeOK
<1>5. Evolves /\ SameCounted /\ Jobs' = Jobs
  BY <1>2, SameJobsEvolve, Zenon
<1> QED
  BY <1>1, <1>2, <1>3, <1>4, <1>5, QuietKeeps, Zenon DEF TypeOK

\* BLPOP starts a handler for a worker's job, a second one for a duplicate.
LEMMA PopSignalKeeps ==
    ASSUME IInv, PopSignal
    PROVE  IInv'
<1> DEFINE j == Head(signals).job
           S == [job: Jobs, status: {"completed", "failed"}]
<1>1. TypeOK /\ signals \in Seq(S) /\ signals # <<>> /\ MaxPatches \in Nat
  BY IRTypes, Zenon DEF IInv, TypeOK, PopSignal
<1>2. Head(signals) \in S /\ Head(signals) = signals[1] /\ 1 \in DOMAIN signals
  <2> HIDE DEF S
  <2> QED
    BY <1>1, HeadTailProperties, LenProperties
<1>3. j \in Jobs /\ ~job[j].absorber
  BY <1>2, Zenon DEF IInv, WorkersSignal
<1>4. /\ signals' = Tail(signals)
      /\ UNCHANGED <<wf, ir, patches, counter, consumed, context, loopIter, runStatus, faults>>
  BY DEF PopSignal
<1>5. /\ job[j] \in Job /\ job[j].node \in Node /\ job[j].parent \in Nat /\ job[j].parent < j
      /\ Jobs = 1..Len(job) /\ Len(job) \in Nat /\ job \in Seq(Job)
  <2> HIDE DEF j, S
  <2>1. job[j] \in Job /\ job[j].parent < j
    BY <1>1, <1>3, JobAt, Zenon DEF TypeOK
  <2>2. Jobs = 1..Len(job) /\ Len(job) \in Nat /\ job \in Seq(Job)
    BY <1>1 DEF TypeOK, Jobs
  <2> QED
    BY <2>1, <2>2, Zenon DEF Job
<1> HIDE DEF j, S
<1>6. CASE failing' = failing \cup {j} /\ UNCHANGED job
  <2>1. Evolves /\ SameCounted /\ Jobs' = Jobs
    BY <1>6, SameJobsEvolve, Zenon
  <2> QED
    BY <1>1, <1>3, <1>4, <1>6, <2>1, QuietKeeps, Zenon DEF TypeOK
<1>7. CASE job[j].phase = "signalled" /\ Goto(j, "popped") /\ UNCHANGED failing
  <2>1. "popped" \in Phase /\ "signalled" \notin PastConsume
    BY DEF Phase, Volatile, PastConsume
  <2>2. Moves(j, "popped")
    BY <1>1, <1>3, <1>7, <2>1, GotoMoves, Zenon
  <2>3. Evolves /\ SameCounted /\ Jobs' = Jobs
    BY <1>3, <1>7, <2>1, <2>2, MovesEvolves, Zenon DEF Moves
  <2> QED
    BY <1>1, <1>4, <1>7, <2>3, QuietKeeps, Zenon DEF TypeOK
<1>8. CASE /\ job' = Append(job, NewJob(job[j].node, job[j].parent, "popped", FALSE, FALSE, 0))
           /\ UNCHANGED failing
  <2> DEFINE q == NewJob(job[j].node, job[j].parent, "popped", FALSE, FALSE, 0)
  <2>1. "popped" \in Phase /\ <<>> \in Seq(Node)
    BY DEF Phase, Volatile
  <2>2. /\ q \in Job /\ q.parent = job[j].parent /\ q.irv = 0 /\ q.need = 0 /\ q.counted = FALSE
        /\ q.absorber = FALSE
    BY <1>5, <2>1, Zenon DEF NewJob, Job
  <2>3. job' = Append(job, q)
    BY <1>8, Zenon
  <2> HIDE DEF q
  <2>4. q.parent <= Len(job) /\ q.irv <= MaxPatches /\ q.need <= MaxPatches
    BY <1>1, <1>3, <1>5, <2>2
  <2>5. Evolves /\ SameCounted
    BY <1>5, <2>2, <2>3, <2>4, AppendEvolves, Zenon
  <2>6. Jobs \subseteq Jobs'
    BY <2>5, Zenon DEF Evolves
  <2> QED
    BY <1>1, <1>4, <1>8, <2>5, <2>6, QuietKeeps, Zenon DEF TypeOK
<1> QED
  BY <1>6, <1>7, <1>8, Zenon DEF PopSignal, j

\* Routing to one next node adds at most one job, which is not yet counted.
LEMMA RouteNextKeeps ==
    ASSUME IInv, NEW j \in Jobs, RouteNext(j)
    PROVE  IInv'
<1> DEFINE advance == [job EXCEPT ![j].todo = Tail(@)]
           r == [job[j] EXCEPT !.todo = Tail(job[j].todo)]
           n == Head(job[j].todo)
<1>1. /\ TypeOK /\ MaxPatches \in Nat /\ job[j] \in Job /\ job[j].phase = "routing"
      /\ job[j].irv \in 0..MaxPatches /\ job[j].need \in 0..MaxPatches
      /\ job[j].todo \in Seq(Node) /\ job[j].todo # <<>> /\ job[j].absorber \in BOOLEAN
      /\ job \in [1..Len(job) -> Job] /\ Len(job) \in Nat /\ Jobs = 1..Len(job)
  <2>1. /\ TypeOK /\ MaxPatches \in Nat /\ job[j] \in Job
        /\ job[j].irv \in 0..MaxPatches /\ job[j].need \in 0..MaxPatches
    BY JobAt, Zenon
  <2>2. job[j].phase = "routing" /\ job[j].todo # <<>>
    BY DEF RouteNext
  <2>3. job[j].todo \in Seq(Node) /\ job[j].absorber \in BOOLEAN
    BY <2>1, Zenon DEF Job
  <2>4. job \in [1..Len(job) -> Job] /\ Len(job) \in Nat /\ Jobs = 1..Len(job)
    BY <2>1 DEF TypeOK, Jobs
  <2> QED
    BY <2>1, <2>2, <2>3, <2>4, Zenon
<1>2. Tail(job[j].todo) \in Seq(Node) /\ n \in Node
  BY <1>1, HeadTailProperties, Zenon
<1>3. /\ r \in Job /\ r.phase = job[j].phase /\ r.irv = job[j].irv /\ r.need = job[j].need
      /\ r.node = job[j].node /\ r.parent = job[j].parent /\ r.token = job[j].token
      /\ r.counted = job[j].counted /\ r.absorber = job[j].absorber
  BY <1>1, <1>2, Zenon DEF Job
<1>4. advance = [job EXCEPT ![j] = r]
  BY Zenon
<1>5. /\ UNCHANGED <<wf, ir, patches, signals, failing, counter, consumed, context,
                     loopIter, runStatus>>
      /\ faults' \in 0..MaxFaults
  BY <1>1, FaultType, Zenon DEF RouteNext, processWorkerNode, NoFault, TypeOK
<1>6. CASE job' = advance
  <2>1. /\ r.irv <= MaxPatches /\ r.need <= MaxPatches
        /\ job[j].absorber => r.phase \in AbsorberPhase
        /\ job[j].phase \in PastConsume => r.phase \in PastConsume
        /\ r.phase \in Phase
    BY <1>1, <1>3 DEF AbsorberPhase, Phase, Volatile
  <2> HIDE DEF r
  <2>2. job' = [job EXCEPT ![j] = r]
    BY <1>4, <1>6, Zenon
  <2>3. Moves(j, r.phase)
    BY <1>1, <1>3, <2>1, <2>2, ReplaceMoves, Zenon
  <2>4. Evolves /\ SameCounted /\ Jobs' = Jobs
    BY <2>1, <2>3, MovesEvolves, Zenon DEF Moves
  <2> QED
    BY <1>1, <1>5, <2>4, QuietKeeps, Zenon DEF TypeOK
<1>7. CASE \E p \in {"lost", "absorb", "skip", "queued"}, t, a \in BOOLEAN :
             /\ a => p = "absorb"
             /\ job' = Append(advance, NewJob(n, j, p, t, a, job[j].irv))
  <2>1. PICK p \in {"lost", "absorb", "skip", "queued"}, t, a \in BOOLEAN :
             /\ a => p = "absorb"
             /\ job' = Append(advance, NewJob(n, j, p, t, a, job[j].irv))
    BY <1>7, Zenon
  <2> DEFINE q == NewJob(n, j, p, t, a, job[j].irv)
  <2>2. /\ p \in Phase /\ "absorb" \in AbsorberPhase /\ j \in Nat /\ job[j].irv \in Nat
        /\ <<>> \in Seq(Node)
    BY <1>1 DEF Phase, Final, Volatile, AbsorberPhase
  <2>3. /\ q \in Job /\ q.parent = j /\ q.irv = job[j].irv /\ q.need = 0 /\ q.counted = FALSE
        /\ q.absorber = a /\ q.phase = p
    <3> HIDE DEF n
    <3> QED
      BY <1>2, <2>2, Zenon DEF NewJob, Job
  <2> HIDE DEF q, r
  <2>4. /\ advance \in [1..Len(job) -> Job]
        /\ \A k \in Jobs : advance[k] = IF k = j THEN r ELSE job[k]
    BY <1>1, <1>3, <1>4, Zenon
  <2>5. advance \in Seq(Job) /\ Len(advance) = Len(job)
    BY <1>1, <2>4, SeqOfFunction
  <2>6. \A k \in Jobs :
          /\ advance[k].node = job[k].node /\ advance[k].parent = job[k].parent
          /\ advance[k].phase = job[k].phase /\ advance[k].token = job[k].token
          /\ advance[k].counted = job[k].counted
          /\ advance[k].absorber = job[k].absorber
          /\ advance[k].irv = job[k].irv /\ advance[k].need = job[k].need
    BY <1>3, <2>4, Zenon
  <2>7. job' = Append(advance, q)
    BY <2>1, Zenon DEF q
  <2>8. /\ q.parent <= Len(job) /\ q.irv <= MaxPatches /\ q.need <= MaxPatches
        /\ ~q.counted /\ (q.absorber => q.phase \in AbsorberPhase)
    BY <1>1, <2>1, <2>2, <2>3
  <2> HIDE DEF advance
  <2>9. Evolves /\ SameCounted
    BY <2>3, <2>5, <2>6, <2>7, <2>8, AppendEvolves, Zenon
  <2>10. Jobs \subseteq Jobs'
    BY <2>9, Zenon DEF Evolves
  <2> QED
    BY <1>1, <1>5, <2>9, <2>10, QuietKeeps, Zenon DEF TypeOK
<1>8. \/ job' = advance
      \/ \E p \in {"lost", "absorb", "skip", "queued"}, t, a \in BOOLEAN :
             /\ a => p = "absorb"
             /\ job' = Append(advance, NewJob(n, j, p, t, a, job[j].irv))
  BY <1>1, Zenon DEF RouteNext, processWorkerNode, Spawn
<1> QED
  BY <1>6, <1>7, <1>8, Zenon

\* Several jobs are lost at once.
LEMMA LosingKeeps ==
    ASSUME IInv, NEW P, job' = [k \in Jobs |-> IF job[k].phase \in P
                                               THEN [job[k] EXCEPT !.phase = "lost"] ELSE job[k]]
    PROVE  Evolves /\ SameCounted /\ Jobs' = Jobs
<1>1. /\ TypeOK /\ job \in Seq(Job) /\ Len(job) \in Nat /\ Jobs = 1..Len(job)
      /\ \A k \in Jobs : job[k] \in Job
  BY JobAt DEF IInv, TypeOK, Jobs
<1>2. "lost" \in Phase /\ "lost" \in AbsorberPhase /\ "lost" \in PastConsume
  BY DEF Phase, Final, AbsorberPhase, PastConsume
<1>3. ASSUME NEW k \in Jobs
      PROVE  /\ job'[k] \in Job /\ job'[k].node = job[k].node /\ job'[k].parent = job[k].parent
             /\ job'[k].token = job[k].token /\ job'[k].counted = job[k].counted
             /\ job'[k].absorber = job[k].absorber
             /\ job'[k].irv = job[k].irv /\ job'[k].need = job[k].need
             /\ job'[k].phase \in {job[k].phase, "lost"}
  <2>1. CASE job[k].phase \in P
    <3>1. job'[k] = [job[k] EXCEPT !.phase = "lost"]
      BY <2>1, Zenon
    <3> QED
      BY <1>1, <1>2, <3>1, ZenonT(60) DEF Job
  <2>2. CASE job[k].phase \notin P
    BY <1>1, <2>2, Zenon
  <2> QED
    BY <2>1, <2>2, Zenon
<1>4. job' \in [1..Len(job) -> Job]
  BY <1>1, <1>3, Zenon
<1>5. job' \in Seq(Job) /\ Jobs' = Jobs
  BY <1>1, <1>4, SeqOfFunction, Zenon DEF Jobs
<1>6. \A k \in Jobs : /\ job[k].parent < k
                      /\ job[k].irv <= MaxPatches /\ job[k].need <= MaxPatches
                      /\ job[k].absorber => job[k].phase \in AbsorberPhase
                      /\ job[k].counted => job[k].token
  BY DEF IInv, TypeOK, WorkersSignal, CountedIsToken
<1>7. Evolves
  BY <1>2, <1>3, <1>5, <1>6 DEF Evolves
<1>8. SameCounted
  BY <1>3, <1>5 DEF SameCounted
<1> QED
  BY <1>5, <1>7, <1>8, Zenon

\* A failed XADD of an entry token keeps the invariant.
LEMMA PublishEntryFailsKeeps ==
    ASSUME IInv, PublishEntryFails
    PROVE  IInv'
<1>1. job' = [k \in Jobs |-> IF job[k].phase \in {"unsent"}
                             THEN [job[k] EXCEPT !.phase = "lost"] ELSE job[k]]
  BY DEF PublishEntryFails
<1>2. Evolves /\ SameCounted /\ Jobs' = Jobs
  BY <1>1, LosingKeeps, Zenon
<1>3. faults' \in 0..MaxFaults
  BY FaultType, Zenon DEF IInv, TypeOK, PublishEntryFails
<1> QED
  BY <1>2, <1>3, QuietKeeps, Zenon DEF IInv, TypeOK, PublishEntryFails

\* A crash of the workflow-runner keeps the invariant.
LEMMA CrashKeeps ==
    ASSUME IInv, Crash
    PROVE  IInv'
<1>1. Evolves /\ SameCounted /\ Jobs' = Jobs
  BY LosingKeeps, Zenon DEF Crash
<1>2. faults' \in 0..MaxFaults
  BY FaultType, Zenon DEF IInv, TypeOK, Crash
<1> QED
  BY <1>1, <1>2, QuietKeeps, Zenon DEF IInv, TypeOK, Crash

-----------------------------------------------------------------------------
(* The steps that move the counter. *)

\* A step on the counter keeps the parts of the invariant that are not about it.
LEMMA CountingKeeps ==
    ASSUME IInv, Evolves, Jobs' = Jobs, counter' \in Int, consumed' \subseteq Node,
           UNCHANGED <<wf, ir, patches, signals, failing, context, loopIter, runStatus, faults>>
    PROVE  /\ TypeOK' /\ WorkersSignal' /\ CountedIsToken'
           /\ \A n \in consumed : \E j \in Jobs' : /\ job'[j].node = n /\ ~job'[j].absorber
                                                  /\ job'[j].phase \in PastConsume
<1> DEFINE S == [job: Jobs, status: {"completed", "failed"}]
<1>1. TypeOK /\ signals \in Seq(S)
  BY DEF IInv, TypeOK
<1>2. ASSUME NEW i \in DOMAIN signals
      PROVE  signals[i].job \in Jobs
  <2>1. signals[i] \in S
    <3> HIDE DEF S
    <3> QED
      BY <1>1, <1>2, ElementOfSeq, LenProperties, Zenon
  <2> QED
    BY <2>1
<1>3. \A i \in DOMAIN signals' : ~job'[signals'[i].job].absorber
  BY <1>2, Zenon DEF Evolves, IInv, WorkersSignal
<1>4. RestOK'
  BY <1>1, Zenon DEF RestOK, TypeOK, MaxPatches
<1> QED
  BY <1>3, <1>4, EvolvesKeeps, Zenon

\* Consume lowers the counter exactly when it adds its op key to the applied set.
LEMMA ConsumeKeeps ==
    ASSUME IInv, NEW j \in Jobs, Consume(j)
    PROVE  IInv'
<1>1. TypeOK /\ job[j].node \in Node /\ job[j].phase = "ready" /\ ~job[j].absorber
  BY JobAt, Zenon DEF Consume, AbsorberPhase
<1>2. "consumed" \in Phase /\ "consumed" \in PastConsume /\ "ready" \notin PastConsume
  BY DEF Phase, Volatile, PastConsume
<1>3. Moves(j, "consumed")
  BY <1>1, <1>2, GotoMoves, Zenon DEF Consume
<1>4. Evolves /\ SameCounted /\ Jobs' = Jobs
  BY <1>1, <1>2, <1>3, MovesEvolves, Zenon DEF Moves
<1>5. /\ consumed' = consumed \cup {job[j].node}
      /\ counter' = IF job[j].node \in consumed THEN counter ELSE counter - 1
      /\ UNCHANGED <<wf, ir, patches, signals, failing, context, loopIter, runStatus, faults>>
  BY DEF Consume
<1>6. counter \in Int /\ counter' \in Int /\ consumed' \subseteq Node
  BY <1>1, <1>5 DEF TypeOK
<1>7. /\ TypeOK' /\ WorkersSignal' /\ CountedIsToken'
      /\ \A n \in consumed : \E k \in Jobs' : /\ job'[k].node = n /\ ~job'[k].absorber
                                              /\ job'[k].phase \in PastConsume
  BY <1>4, <1>5, <1>6, CountingKeeps, Zenon
<1>8. /\ IsFiniteSet(consumed')
      /\ Cardinality(consumed') = IF job[j].node \in consumed THEN Cardinality(consumed)
                                                              ELSE Cardinality(consumed) + 1
  BY <1>5, FS_AddElement, Zenon DEF IInv
<1>9. Counted' = Counted /\ IsFiniteSet(Counted)
  <2>1. Counted' = Counted
    BY <1>4 DEF Counted, SameCounted
  <2>2. job \in Seq(Job)
    BY <1>1, Zenon DEF TypeOK
  <2>3. Jobs = 1..Len(job) /\ Len(job) \in Int
    BY <2>2 DEF Jobs
  <2>4. IsFiniteSet(Jobs)
    BY <2>3, FS_Interval
  <2> QED
    BY <2>1, <2>4, FS_Subset, Zenon DEF Counted
<1>10. CounterAccounting'
  <2>1. Cardinality(Counted) \in Nat /\ Cardinality(consumed) \in Nat
    BY <1>9, FS_CardinalityType DEF IInv
  <2>2. counter = Cardinality(Counted) - Cardinality(consumed)
    BY DEF IInv, CounterAccounting
  <2>3. Cardinality(Counted') = Cardinality(Counted)
    BY <1>9
  <2> QED
    BY <1>5, <1>8, <2>1, <2>2, <2>3 DEF CounterAccounting
<1>11. ConsumedByJob'
  <2>1. job'[j].node = job[j].node /\ ~job'[j].absorber /\ job'[j].phase \in PastConsume
    BY <1>1, <1>2, <1>3, Zenon DEF Moves
  <2> QED
    BY <1>4, <1>5, <1>7, <2>1, Zenon DEF ConsumedByJob
<1> QED
  BY <1>7, <1>8, <1>10, <1>11, Zenon DEF IInv

\* Emit raises the counter by the number of jobs it counts, none counted before.
LEMMA EmitKeeps ==
    ASSUME IInv, NEW j \in Jobs, Emit(j)
    PROVE  IInv'
<1> DEFINE E == EmittedBy(j)
<1>1. /\ TypeOK /\ job \in Seq(Job) /\ Len(job) \in Nat /\ Jobs = 1..Len(job)
      /\ \A k \in Jobs : job[k] \in Job
  BY JobAt DEF IInv, TypeOK, Jobs
<1>2. /\ job[j].phase = "routing" /\ AfterRouting(j) \in {"check", "done"}
      /\ job[j].absorber => AfterRouting(j) = "done"
  BY Zenon DEF Emit, AfterRouting
<1>3. AfterRouting(j) \in Phase /\ AfterRouting(j) \in PastConsume /\ "done" \in AbsorberPhase
  BY <1>2, Zenon DEF Phase, Volatile, Final, PastConsume, AbsorberPhase
<1>4. ASSUME NEW k \in Jobs
      PROVE  /\ job'[k] \in Job /\ job'[k].node = job[k].node /\ job'[k].parent = job[k].parent
             /\ job'[k].token = job[k].token /\ job'[k].absorber = job[k].absorber
             /\ job'[k].irv = job[k].irv /\ job'[k].need = job[k].need
             /\ job'[k].counted <=> job[k].counted \/ k \in E
             /\ job'[k].phase = IF k = j THEN AfterRouting(j) ELSE job[k].phase
  <2> DEFINE c == job[k].counted \/ k \in E
             p == IF k = j THEN AfterRouting(j) ELSE job[k].phase
  <2>1. job[k] \in Job /\ c \in BOOLEAN /\ p \in Phase
    BY <1>1, <1>3, Zenon DEF Job
  <2>2. job'[k] = [job[k] EXCEPT !.counted = c, !.phase = p]
    BY Zenon DEF Emit
  <2> HIDE DEF c, p
  <2>3. /\ job'[k] \in Job /\ job'[k].node = job[k].node /\ job'[k].parent = job[k].parent
        /\ job'[k].token = job[k].token /\ job'[k].absorber = job[k].absorber
        /\ job'[k].irv = job[k].irv /\ job'[k].need = job[k].need
        /\ job'[k].counted = c /\ job'[k].phase = p
    BY <2>1, <2>2, Zenon DEF Job
  <2> QED
    BY <2>3, Zenon DEF c, p
<1>5. job' \in [1..Len(job) -> Job]
  BY <1>1, <1>4, Zenon DEF Emit
<1>6. job' \in Seq(Job) /\ Jobs' = Jobs
  BY <1>1, <1>5, SeqOfFunction, Zenon DEF Jobs
<1>7. \A k \in Jobs : /\ job[k].parent < k
                      /\ job[k].irv <= MaxPatches /\ job[k].need <= MaxPatches
                      /\ job[k].absorber => job[k].phase \in AbsorberPhase
                      /\ job[k].counted => job[k].token
  BY DEF IInv, TypeOK, WorkersSignal, CountedIsToken
<1>8. \A k \in E : k \in Jobs /\ job[k].token /\ ~job[k].counted
  BY DEF EmittedBy
<1> HIDE DEF E
<1>9. Evolves
  BY <1>2, <1>3, <1>4, <1>6, <1>7, <1>8 DEF Evolves
<1>10. Counted' = Counted \cup E /\ Counted \cap E = {}
  BY <1>4, <1>6, <1>8, ZenonT(60) DEF Counted
<1>11. /\ IsFiniteSet(Counted) /\ IsFiniteSet(E)
       /\ Cardinality(Counted) \in Nat /\ Cardinality(E) \in Nat /\ Cardinality(consumed) \in Nat
  <2>1. IsFiniteSet(Jobs)
    BY <1>1, FS_Interval
  <2>2. Counted \subseteq Jobs /\ E \subseteq Jobs
    BY <1>8 DEF Counted
  <2>3. IsFiniteSet(Counted) /\ IsFiniteSet(E)
    BY <2>1, <2>2, FS_Subset
  <2> QED
    BY <2>3, FS_CardinalityType DEF IInv
<1>12. Cardinality(Counted') = Cardinality(Counted) + Cardinality(E)
  <2>1. Cardinality(Counted \cup E)
          = Cardinality(Counted) + Cardinality(E) - Cardinality(Counted \cap E)
    BY <1>11, FS_Union, Zenon
  <2>2. Cardinality(Counted \cap E) = 0
    BY <1>10, FS_EmptySet
  <2>3. Cardinality(Counted') = Cardinality(Counted \cup E)
    BY <1>10, Zenon
  <2> QED
    BY <1>11, <2>1, <2>2, <2>3
<1>13. /\ counter' = counter + Cardinality(E)
       /\ UNCHANGED <<wf, ir, patches, signals, failing, consumed, context, loopIter,
                      runStatus, faults>>
  BY Zenon DEF Emit, E
<1>14. counter = Cardinality(Counted) - Cardinality(consumed)
  BY DEF IInv, CounterAccounting
<1>15. counter' \in Int /\ consumed' \subseteq Node
  BY <1>1, <1>11, <1>13 DEF TypeOK
<1>16. /\ TypeOK' /\ WorkersSignal' /\ CountedIsToken'
       /\ \A n \in consumed : \E k \in Jobs' : /\ job'[k].node = n /\ ~job'[k].absorber
                                               /\ job'[k].phase \in PastConsume
  BY <1>6, <1>9, <1>13, <1>15, CountingKeeps, Zenon
<1>17. CounterAccounting' /\ ConsumedByJob' /\ IsFiniteSet(consumed')
  BY <1>11, <1>12, <1>13, <1>14, <1>16 DEF CounterAccounting, ConsumedByJob, IInv
<1> QED
  BY <1>16, <1>17, Zenon DEF IInv

\* A finite set is listed as a sequence over it.
LEMMA ListedType ==
    ASSUME NEW S, IsFiniteSet(S)
    PROVE  Listed(S) \in [1..Cardinality(S) -> S] /\ Cardinality(S) \in Nat
<1>1. Cardinality(S) \in Nat /\ ExistsBijection(1..Cardinality(S), S)
  BY FS_CardinalityType, Zenon
<1>2. Listed(S) \in Bijection(1..Cardinality(S), S)
  BY <1>1, Zenon DEF ExistsBijection, Listed
<1> QED
  BY <1>1, <1>2, Zenon DEF Bijection, Injection

\* The starter sets the counter to the number of entry tokens, all of them counted.
LEMMA StartRunKeeps ==
    ASSUME IInv, StartRun
    PROVE  IInv'
<1> DEFINE S == findEntryNodes(IRAt(0))
           entry == Listed(S)
           N == Cardinality(S)
<1>1. TypeOK /\ MaxPatches \in Nat /\ 0 \in 0..MaxPatches
  BY IRTypes DEF IInv, TypeOK
<1>2. S \subseteq Node /\ IsFiniteSet(S)
  <2>1. DOMAIN IRAt(0) \subseteq Node /\ IsFiniteSet(DOMAIN IRAt(0))
    BY <1>1, IRTypes, Zenon DEF TypeOK
  <2>2. S \in SUBSET DOMAIN IRAt(0)
    BY DEF findEntryNodes
  <2> QED
    BY <2>1, <2>2, FS_Subset, Zenon
<1>3. /\ entry \in [1..N -> S] /\ N \in Nat /\ DOMAIN entry = 1..N /\ Len(entry) = N
      /\ \A i \in 1..N : entry[i] \in Node
  <2> HIDE DEF S
  <2>1. entry \in [1..N -> S] /\ N \in Nat
    BY <1>2, ListedType, Zenon
  <2>2. DOMAIN entry = 1..N /\ Len(entry) = N
    BY <2>1, SeqOfFunction, Zenon
  <2> QED
    BY <1>2, <2>1, <2>2, Zenon
<1>4. /\ job' = [i \in DOMAIN entry |->
                   [NewJob(entry[i], 0, "unsent", TRUE, FALSE, 0) EXCEPT !.counted = TRUE]]
      /\ counter' = Len(entry) /\ ir' = 0 /\ job = <<>>
      /\ UNCHANGED <<wf, patches, signals, failing, consumed, context, loopIter, runStatus, faults>>
  BY DEF StartRun
<1> HIDE DEF entry, S, N
<1>5. "unsent" \in Phase /\ <<>> \in Seq(Node) /\ Jobs = {}
  BY <1>4 DEF Phase, Volatile, Jobs
<1>6. ASSUME NEW i \in 1..N
      PROVE  /\ job'[i] \in Job /\ job'[i].parent = 0 /\ job'[i].counted /\ job'[i].token
             /\ ~job'[i].absorber /\ job'[i].irv = 0 /\ job'[i].need = 0
  <2> DEFINE n == entry[i]
  <2>1. n \in Node /\ job'[i] = [NewJob(n, 0, "unsent", TRUE, FALSE, 0) EXCEPT !.counted = TRUE]
    BY <1>3, <1>4, Zenon
  <2> HIDE DEF n
  <2> DEFINE r == [node |-> n, parent |-> 0, phase |-> "unsent", token |-> TRUE,
                   counted |-> TRUE, absorber |-> FALSE, irv |-> 0, need |-> 0, todo |-> <<>>]
  <2>2. job'[i] = r
    BY <2>1, ZenonT(60) DEF NewJob
  <2>3. r \in Job
    BY <1>5, <2>1, Zenon DEF Job
  <2>4. r.parent = 0 /\ r.counted /\ r.token /\ ~r.absorber /\ r.irv = 0 /\ r.need = 0
    BY Zenon
  <2> HIDE DEF r
  <2> QED
    BY <2>2, <2>3, <2>4, Zenon
<1>7. job' \in [1..N -> Job]
  BY <1>3, <1>4, <1>6, Zenon
<1>8. job' \in Seq(Job) /\ Jobs' = 1..N
  BY <1>3, <1>7, SeqOfFunction, Zenon DEF Jobs
<1>9. Evolves
  BY <1>1, <1>5, <1>6, <1>8 DEF Evolves
<1>10. signals = <<>> /\ failing = {} /\ consumed = {}
  <2>1. failing = {} /\ consumed = {}
    BY <1>1, <1>5, Zenon DEF TypeOK, IInv, ConsumedByJob
  <2>2. ASSUME signals # <<>> PROVE FALSE
    <3> DEFINE R == [job: Jobs, status: {"completed", "failed"}]
    <3>1. signals \in Seq(R)
      BY <1>1, Zenon DEF TypeOK
    <3>2. Head(signals) \in R
      <4> HIDE DEF R
      <4> QED
        BY <2>2, <3>1, HeadTailProperties, Zenon
    <3> QED
      BY <1>5, <3>2, Zenon
  <2> QED
    BY <2>1, <2>2, Zenon
<1>11. RestOK'
  BY <1>1, <1>4, <1>10 DEF RestOK, TypeOK, MaxPatches
<1>12. /\ TypeOK' /\ WorkersSignal' /\ CountedIsToken'
  BY <1>3, <1>4, <1>9, <1>10, <1>11, EvolvesKeeps
<1>13. CounterAccounting' /\ IsFiniteSet(consumed')
  <2>1. Counted' = 1..N
    BY <1>6, <1>8, Zenon DEF Counted
  <2>2. Cardinality(1..N) = N
    BY <1>3, FS_Interval
  <2>3. Cardinality(consumed') = 0 /\ IsFiniteSet(consumed')
    BY <1>4, <1>10, FS_EmptySet, Zenon
  <2>4. counter' = N /\ Cardinality(Counted') = N
    BY <1>3, <1>4, <2>1, <2>2, Zenon
  <2> QED
    BY <1>3, <2>3, <2>4 DEF CounterAccounting
<1> QED
  BY <1>4, <1>10, <1>12, <1>13 DEF IInv, ConsumedByJob

-----------------------------------------------------------------------------
(* The invariant and the theorems. *)

\* Before the run is started there is no job, no op key and a counter of 0.
LEMMA InitEstablishes == ASSUME Init PROVE IInv
<1>1. MaxPatches \in Nat /\ Jobs = {} /\ MaxFaults \in Nat
  BY IRTypes, FaultsAssumption DEF Init, Jobs
<1>2. TypeOK
  BY <1>1 DEF Init, TypeOK
<1>3. Counted = {} /\ consumed = {} /\ counter = 0
  BY <1>1, Zenon DEF Counted, Init
<1>4. CounterAccounting /\ IsFiniteSet(consumed)
  BY <1>3, FS_EmptySet DEF CounterAccounting
<1>5. WorkersSignal /\ ConsumedByJob /\ CountedIsToken
  BY <1>1, <1>3 DEF Init, WorkersSignal, ConsumedByJob, CountedIsToken
<1> QED
  BY <1>2, <1>4, <1>5, Zenon DEF IInv

\* Every step of the run keeps the invariant.
LEMMA NextKeeps == ASSUME IInv, [Next]_vars PROVE IInv'
<1>1. CASE StartRun
  BY <1>1, StartRunKeeps, Zenon
<1>2. CASE PublishEntryFails
  BY <1>2, PublishEntryFailsKeeps, Zenon
<1>3. CASE PopSignal
  BY <1>3, PopSignalKeeps, Zenon
<1>4. CASE Crash
  BY <1>4, CrashKeeps, Zenon
<1>5. ASSUME NEW j \in Jobs, Worker(j)
      PROVE  IInv'
  BY <1>5, AgentPatchKeeps, WorkersKeep, Zenon DEF Worker
<1>6. ASSUME NEW j \in Jobs, Handler(j)
      PROVE  IInv'
  BY <1>6, MovingStepsKeep, HandleFailedKeeps, LoadIRKeeps, ConsumeKeeps, DetermineKeeps,
     RouteNextKeeps, EmitKeeps, Zenon DEF Handler
<1>7. ASSUME NEW j \in Jobs, Faulty(j)
      PROVE  IInv'
  BY <1>7, MovingStepsKeep, HandleFailedKeeps, WorkersKeep, Zenon DEF Faulty
<1>8. CASE UNCHANGED vars
  <2>1. /\ UNCHANGED <<wf, ir, patches, job, signals, failing, counter, consumed, context,
                       loopIter, runStatus, faults>>
    BY <1>8, Zenon DEF vars
  <2>2. Evolves /\ SameCounted /\ Jobs' = Jobs
    BY <2>1, SameJobsEvolve, Zenon
  <2> QED
    BY <2>1, <2>2, QuietKeeps, Zenon DEF IInv, TypeOK
<1> QED
  BY <1>1, <1>2, <1>3, <1>4, <1>5, <1>6, <1>7, <1>8, Zenon DEF Next

\* The inductive invariant holds in every state of every run.
THEOREM Invariance == Spec => []IInv
<1>1. Init => IInv
  BY InitEstablishes, Zenon
<1>2. IInv /\ [Next]_vars => IInv'
  BY NextKeeps, Zenon
<1> QED
  BY <1>1, <1>2, PTL, Zenon DEF Spec

\* Every variable keeps its type: in particular a signal always names a job
\* that exists and a job is created after its parent.
THEOREM TypeCorrectness == Spec => []TypeOK
<1>1. IInv => TypeOK
  BY DEF IInv
<1> QED
  BY <1>1, Invariance, PTL, Zenon

\* For every workflow, whatever is lost, duplicated or crashes, the key
\* counter:<run> is the number of tokens counted by InitializeCounter and Emit
\* minus the number of op keys applied by Consume.
THEOREM CounterAccountingHolds == Spec => []CounterAccounting
<1>1. IInv => CounterAccounting
  BY DEF IInv
<1> QED
  BY <1>1, Invariance, PTL, Zenon

\* Each op key applied is the node of a token past its Consume.  With a counter
\* of 0 there are as many op keys as tokens, so the map from tokens to their
\* nodes is a bijection onto the op keys, and every token is past its Consume.
LEMMA IInvMeansZeroMeansDone == ASSUME IInv PROVE ZeroMeansDone
<1> SUFFICES ASSUME job # <<>>, counter = 0, AllCounted, NoDuplicates
             PROVE  /\ \A j \in Jobs : job[j].token => job[j].phase \notin Unconsumed
                    /\ \A j, k \in Jobs :
                          job[j].token /\ job[k].token /\ job[j].node = job[k].node => j = k
  BY DEF ZeroMeansDone
<1> DEFINE f == [j \in Counted |-> job[j].node]
           T == {job[j].node : j \in Counted}
<1>1. /\ TypeOK /\ IsFiniteSet(consumed)
      /\ Cardinality(Counted) - Cardinality(consumed) = 0
  BY DEF IInv, CounterAccounting
<1>2. IsFiniteSet(Counted)
  <2>1. IsFiniteSet(Jobs)
    BY <1>1, FS_Interval DEF TypeOK, Jobs
  <2> QED
    BY <2>1, FS_Subset, Zenon DEF Counted
<1>3. f \in Surjection(Counted, T)
  BY DEF Surjection
<1>4. /\ IsFiniteSet(T) /\ Cardinality(T) <= Cardinality(Counted)
      /\ Cardinality(T) = Cardinality(Counted) <=> f \in Injection(Counted, T)
  <2> HIDE DEF f, T
  <2> QED
    BY <1>2, <1>3, FS_Surjection, Zenon
<1>5. ASSUME NEW n \in consumed
      PROVE  \E j \in Counted : job[j].node = n /\ ~job[j].absorber /\ job[j].phase \in PastConsume
  <2>1. PICK j \in Jobs : job[j].node = n /\ ~job[j].absorber /\ job[j].phase \in PastConsume
    BY <1>5, Zenon DEF IInv, ConsumedByJob
  <2>2. job[j].counted
    BY <2>1, Zenon DEF NoDuplicates, AllCounted
  <2> QED
    BY <2>1, <2>2, Zenon DEF Counted
<1>6. consumed \subseteq T
  BY <1>5, Zenon
<1>7. Cardinality(consumed) \in Nat /\ Cardinality(Counted) \in Nat /\ Cardinality(T) \in Nat
  BY <1>1, <1>2, <1>4, FS_CardinalityType, Zenon
<1>8. Cardinality(consumed) <= Cardinality(T) /\ (Cardinality(T) = Cardinality(consumed) => T = consumed)
  <2> HIDE DEF T
  <2> QED
    BY <1>4, <1>6, FS_Subset, Zenon
<1>9. T = consumed /\ f \in Injection(Counted, T)
  <2> HIDE DEF T, f
  <2> QED
    BY <1>1, <1>4, <1>7, <1>8
<1>10. \A j, k \in Counted : job[j].node = job[k].node => j = k
  BY <1>9, Zenon DEF Injection, IsInjective
<1>11. \A j \in Jobs : job[j].token => j \in Counted
  BY DEF AllCounted, Counted
<1>12. ASSUME NEW j \in Counted
       PROVE  job[j].phase \in PastConsume
  <2>1. job[j].node \in consumed
    BY <1>9, Zenon
  <2>2. PICK k \in Counted : job[k].node = job[j].node /\ job[k].phase \in PastConsume
    BY <1>5, <2>1, Zenon
  <2> QED
    BY <1>10, <2>2, Zenon
<1>13. \A p \in PastConsume : p \notin Unconsumed
  BY DEF PastConsume, Unconsumed
<1>14. ASSUME NEW j \in Jobs, job[j].token
       PROVE  job[j].phase \notin Unconsumed
  BY <1>11, <1>12, <1>13, <1>14, Zenon
<1>15. ASSUME NEW j \in Jobs, NEW k \in Jobs, job[j].token, job[k].token,
              job[j].node = job[k].node
       PROVE  j = k
  BY <1>10, <1>11, <1>15, Zenon
<1> QED
  BY <1>14, <1>15, Zenon

\* For every workflow, a counter of 0 read when all published tokens are
\* counted and no signal was handled twice means that every token has been
\* consumed and that no node was visited twice (CheckCompletion's test).
THEOREM ZeroMeansDoneHolds == Spec => []ZeroMeansDone
<1>1. IInv => ZeroMeansDone
  BY IInvMeansZeroMeansDone, Zenon
<1> QED
  BY <1>1, Invariance, PTL, Zenon

\* In a settled run with counter 0 every job is over, or about to be.
LEMMA SettledPhases ==
    ASSUME IInv, Settled, counter = 0, NEW j \in Jobs
    PROVE  job[j].phase \in {"check", "completing", "done", "lost"}
<1>1. /\ job[j].phase \in Phase /\ job[j].phase \notin Routing
      /\ job[j].absorber => job[j].phase \in AbsorberPhase
  BY JobAt, Zenon DEF Settled
<1>2. job[j].token => job[j].phase \notin Unconsumed
  BY IInvMeansZeroMeansDone, Zenon DEF ZeroMeansDone, Settled
<1>3. CASE job[j].token
  BY <1>1, <1>2, <1>3, Zenon DEF Phase, Volatile, Final, Routing, Unconsumed
<1>4. CASE ~job[j].token
  BY <1>1, <1>4, Zenon DEF Settled, NoDuplicates, Routing, AbsorberPhase
<1> QED
  BY <1>3, <1>4, Zenon

\* No step of a settled run with counter 0 creates a job or moves the counter.
LEMMA SettledStep ==
    ASSUME IInv, Settled, counter = 0, Next
    PROVE  Len(job') = Len(job) /\ counter' = 0
<1>1. /\ job \in Seq(Job) /\ Len(job) \in Nat /\ Jobs = 1..Len(job) /\ job # <<>>
      /\ \A i \in DOMAIN signals : signals[i].status = "failed"
      /\ job \in [1..Len(job) -> Job]
  BY DEF IInv, TypeOK, Settled, Jobs
<1>2. ASSUME NEW j \in Jobs, NEW p, Goto(j, p)
      PROVE  Len(job') = Len(job)
  <2>1. DOMAIN job' = DOMAIN job
    BY <1>2, Zenon DEF Goto
  <2>2. job' = [k \in 1..Len(job) |-> job'[k]]
    BY <1>1, <1>2, <2>1, Zenon DEF Goto
  <2> QED
    BY <1>1, <2>2, LenProperties
<1>3. \A j \in Jobs : job[j].phase \in {"check", "completing", "done", "lost"}
  BY SettledPhases, Zenon
<1>4. ~StartRun /\ ~PublishEntryFails
  BY <1>1, <1>3, Zenon DEF StartRun, PublishEntryFails
<1>5. CASE PopSignal
  <2>1. Head(signals) = signals[1] /\ 1 \in DOMAIN signals
    BY <1>5, HeadTailProperties, LenProperties DEF PopSignal, IInv, TypeOK
  <2>2. UNCHANGED <<job, counter>>
    BY <1>1, <1>5, <2>1, Zenon DEF PopSignal
  <2> QED
    BY <2>2, Zenon
<1>6. CASE Crash
  <2>1. UNCHANGED counter
    BY <1>6, Zenon DEF Crash
  <2>2. \E P : job' = [k \in Jobs |-> IF job[k].phase \in P
                                     THEN [job[k] EXCEPT !.phase = "lost"] ELSE job[k]]
    BY <1>6, Zenon DEF Crash
  <2>3. job' \in Seq(Job) /\ DOMAIN job' = 1..Len(job)
    BY <1>1, <2>2, LosingKeeps, Zenon DEF Evolves, Jobs
  <2> QED
    BY <1>1, <2>1, <2>3, LenProperties
<1>7. ASSUME NEW j \in Jobs, Worker(j) \/ Handler(j) \/ Faulty(j)
      PROVE  Len(job') = Len(job) /\ counter' = 0
  <2>1. job[j].phase \in {"check", "completing", "done", "lost"}
    BY <1>3, Zenon
  <2>2. ~Worker(j)
    BY <2>1, Zenon DEF Worker, AgentPatch, WorkerComplete, WorkerFail
  <2>3. Handler(j) => handleFailedNode(j) \/ CheckCompletion(j) \/ UpdateRunStatus(j)
    BY <2>1, Zenon DEF Handler, PublishEntry, LoadIR, reloadIRIfPatched, Consume, StoreOutput,
                handleSkippedNode, DetermineNextNodes, ExitLoop, RouteNext, Emit
  <2>4. Faulty(j) => HandlerError(j) \/ FailureHandlerError(j)
    BY <2>1, Zenon DEF Faulty, WorkerSignalsTwice, WorkerLose, EmitFails
  <2>5. UNCHANGED counter /\ (UNCHANGED job \/ \E p : Goto(j, p))
    BY <1>7, <2>2, <2>3, <2>4, Zenon
    DEF handleFailedNode, CheckCompletion, UpdateRunStatus, HandlerError, FailureHandlerError
  <2> QED
    BY <1>2, <2>5, Zenon
<1> QED
  BY <1>4, <1>5, <1>6, <1>7, Zenon DEF Next

\* For every workflow, a counter of 0 with no handler between Consume and
\* Emit is final: no later step publishes a token or moves the counter.
THEOREM ZeroIsFinalHolds == Spec => ZeroIsFinal
<1>1. IInv /\ [Next]_vars => [Settled /\ counter = 0 => Len(job') = Len(job) /\ counter' = 0]_vars
  BY SettledStep, Zenon
<1> QED
  BY <1>1, Invariance, PTL, Zenon DEF Spec, ZeroIsFinal

-----------------------------------------------------------------------------
(* The output of a node is stored before the tokens of the next ones. *)

\* The phases of a job whose output is in the context, if no call failed.
Stored == {"stored", "exitloop", "routing", "check", "completing", "done"}

\* The handlers past storeResultInCAS and handleAbsorberNode have stored.
OutputInv ==
    faults = 0 => /\ \A j \in Jobs : job[j].phase \in Stored => job[j].node \in context
                  /\ \A j \in Jobs : job[j].parent > 0 => job[job[j].parent].node \in context

\* What a step may do: outputs stay, a job gets to those phases by storing its
\* output, and a job is new without a parent, as the child of one that has
\* stored, or for a signal handled twice.
Advances ==
    /\ context \subseteq context' /\ Jobs \subseteq Jobs'
    /\ \A k \in Jobs :
          /\ job'[k].node = job[k].node /\ job'[k].parent = job[k].parent
          /\ job'[k].phase \in Stored => job[k].phase \in Stored \/ job[k].node \in context'
    /\ \A k \in Jobs' : k \notin Jobs =>
          /\ job'[k].phase \notin Stored
          /\ \/ job'[k].parent = 0
             \/ \E i \in Jobs : job'[k].parent = i /\ job[i].phase \in Stored
             \/ \E i \in Jobs : job'[k].parent = job[i].parent

\* A parent is a job.
LEMMA ParentIsJob ==
    ASSUME TypeOK, NEW k \in Jobs, job[k].parent > 0
    PROVE  job[k].parent \in Jobs
<1>1. job \in Seq(Job) /\ job[k].parent < k
  BY Zenon DEF TypeOK
<1>2. Len(job) \in Nat /\ Jobs = 1..Len(job) /\ job[k] \in Job
  BY <1>1 DEF Jobs
<1>3. job[k].parent \in Nat
  BY <1>2, Zenon DEF Job
<1> QED
  BY <1>1, <1>2, <1>3

\* Such a step keeps the invariant.
LEMMA AdvancesKeeps ==
    ASSUME TypeOK, OutputInv, Advances, faults = 0
    PROVE  OutputInv'
<1>1. ASSUME NEW k \in Jobs, job[k].parent > 0
      PROVE  /\ job[k].parent \in Jobs
             /\ job'[job[k].parent].node \in context'
  BY <1>1, ParentIsJob, Zenon DEF OutputInv, Advances
<1>2. ASSUME NEW k \in Jobs', job'[k].phase \in Stored
      PROVE  job'[k].node \in context'
  BY <1>2, Zenon DEF OutputInv, Advances
<1>3. ASSUME NEW k \in Jobs', job'[k].parent > 0
      PROVE  job'[job'[k].parent].node \in context'
  <2>1. CASE k \in Jobs
    BY <1>1, <1>3, <2>1, Zenon DEF Advances
  <2>2. CASE \E i \in Jobs : job'[k].parent = i /\ job[i].phase \in Stored
    BY <2>2, Zenon DEF OutputInv, Advances
  <2>3. CASE \E i \in Jobs : job'[k].parent = job[i].parent
    BY <1>1, <1>3, <2>3, Zenon
  <2>4. job'[k].parent # 0
    BY <1>3
  <2> QED
    BY <2>1, <2>2, <2>3, <2>4, Zenon DEF Advances
<1> QED
  BY <1>2, <1>3, Zenon DEF OutputInv

\* A handler or a worker replaces the record of its job.
LEMMA OneAdvances ==
    ASSUME TypeOK, NEW j \in Jobs, NEW r, job' = [job EXCEPT ![j] = r],
           r.node = job[j].node, r.parent = job[j].parent, context \subseteq context',
           r.phase \in Stored => job[j].phase \in Stored \/ job[j].node \in context'
    PROVE  Advances
<1>1. Jobs' = Jobs /\ \A k \in Jobs : job'[k] = IF k = j THEN r ELSE job[k]
  BY Zenon DEF Jobs
<1> QED
  BY <1>1, Zenon DEF Advances

\* A handler goes to its next phase.
LEMMA GotoAdvances ==
    ASSUME IInv, NEW j \in Jobs, NEW p, Goto(j, p), context \subseteq context',
           p \in Stored => job[j].phase \in Stored \/ job[j].node \in context'
    PROVE  Advances
<1> DEFINE r == [job[j] EXCEPT !.phase = p]
<1>1. TypeOK /\ job[j] \in Job
  BY JobAt, Zenon
<1>2. r.phase = p /\ r.node = job[j].node /\ r.parent = job[j].parent
  BY <1>1, Zenon DEF Job
<1>3. job' = [job EXCEPT ![j] = r]
  BY Zenon DEF Goto
<1> HIDE DEF r
<1> QED
  BY <1>1, <1>2, <1>3, OneAdvances, Zenon

\* A job is added after the others, whose identity and phase do not change.
LEMMA AppendAdvances ==
    ASSUME IInv, NEW base \in Seq(Job), Len(base) = Len(job),
           \A k \in Jobs : /\ base[k].node = job[k].node /\ base[k].parent = job[k].parent
                           /\ base[k].phase = job[k].phase,
           NEW q \in Job, q.phase \notin Stored, job' = Append(base, q), UNCHANGED context,
           \/ \E i \in Jobs : q.parent = i /\ job[i].phase \in Stored
           \/ \E i \in Jobs : q.parent = job[i].parent
    PROVE  Advances
<1>1. job \in Seq(Job)
  BY Zenon DEF IInv, TypeOK
<1>2. /\ Jobs = 1..Len(job) /\ Jobs' = 1..(Len(job) + 1) /\ Len(job) \in Nat
      /\ \A k \in Jobs : job'[k] = base[k]
      /\ job'[Len(job) + 1] = q
  BY <1>1, AppendProperties DEF Jobs
<1>3. PICK m : m = Len(job) + 1
  BY Zenon
<1>4. Jobs \subseteq Jobs' /\ \A k \in Jobs' : k \in Jobs \/ k = m
  BY <1>2, <1>3
<1>5. \A k \in Jobs : job'[k] = base[k]
  BY <1>2, Zenon
<1>6. job'[m] = q
  BY <1>2, <1>3, Zenon
<1>7. \A k \in Jobs' : k \notin Jobs =>
         /\ job'[k].phase \notin Stored
         /\ \/ \E i \in Jobs : job'[k].parent = i /\ job[i].phase \in Stored
            \/ \E i \in Jobs : job'[k].parent = job[i].parent
  BY <1>4, <1>6, Zenon
<1>8. \A k \in Jobs : /\ job'[k].node = job[k].node /\ job'[k].parent = job[k].parent
                      /\ job'[k].phase = job[k].phase
  BY <1>5, Zenon
<1>9. context \subseteq context'
  BY Zenon
<1> QED
  BY <1>4, <1>7, <1>8, <1>9, Zenon DEF Advances

\* Emit counts its children and moves its own job on.
LEMMA EmitAdvances ==
    ASSUME IInv, NEW j \in Jobs, Emit(j)
    PROVE  Advances
<1>1. \A k \in Jobs : job[k] \in Job
  BY JobAt, Zenon
<1>2. Jobs' = Jobs /\ UNCHANGED context /\ job[j].phase = "routing"
  BY Zenon DEF Emit, Jobs
<1>3. ASSUME NEW k \in Jobs
      PROVE  /\ job'[k].node = job[k].node /\ job'[k].parent = job[k].parent
             /\ k # j => job'[k].phase = job[k].phase
  <2>1. PICK c, p : /\ c = (job[k].counted \/ k \in EmittedBy(j))
                    /\ p = IF k = j THEN AfterRouting(j) ELSE job[k].phase
    BY Zenon
  <2>2. job'[k] = [job[k] EXCEPT !.counted = c, !.phase = p]
    BY <2>1, Zenon DEF Emit
  <2> QED
    BY <1>1, <2>1, <2>2, Zenon DEF Job
<1>4. "routing" \in Stored
  BY DEF Stored
<1> QED
  BY <1>2, <1>3, <1>4, Zenon DEF Advances

\* The first signal of the list names a job.
LEMMA PoppedJob ==
    ASSUME IInv, PopSignal
    PROVE  Head(signals).job \in Jobs
<1> DEFINE S == [job: Jobs, status: {"completed", "failed"}]
<1>1. signals \in Seq(S) /\ signals # <<>>
  BY Zenon DEF IInv, TypeOK, PopSignal
<1>2. Head(signals) \in S
  <2> HIDE DEF S
  <2> QED
    BY <1>1, HeadTailProperties
<1> QED
  BY <1>2, Zenon

\* BLPOP moves a job on, or adds one beside the job the signal is for.
LEMMA PopAdvances ==
    ASSUME IInv, PopSignal
    PROVE  Advances
<1>1. PICK j \in Jobs : j = Head(signals).job
  BY PoppedJob, Zenon
<1>2. /\ TypeOK /\ job[j] \in Job /\ job \in Seq(Job) /\ UNCHANGED context
      /\ "popped" \notin Stored
  BY JobAt, Zenon DEF PopSignal, TypeOK, Stored
<1>3. CASE UNCHANGED job
  BY <1>2, <1>3, Zenon DEF Advances, Jobs
<1>4. CASE Goto(j, "popped")
  BY <1>2, <1>4, GotoAdvances, Zenon
<1>5. CASE job' = Append(job, NewJob(job[j].node, job[j].parent, "popped", FALSE, FALSE, 0))
  <2> DEFINE q == NewJob(job[j].node, job[j].parent, "popped", FALSE, FALSE, 0)
  <2>1. "popped" \in Phase /\ <<>> \in Seq(Node) /\ 0 \in Nat
    BY DEF Phase, Volatile
  <2>2. q \in Job /\ q.parent = job[j].parent /\ q.phase = "popped"
    BY <1>2, <2>1, Zenon DEF NewJob, Job
  <2>3. job' = Append(job, q)
    BY <1>5, Zenon
  <2> HIDE DEF q
  <2> QED
    BY <1>2, <2>2, <2>3, AppendAdvances, Zenon
<1> QED
  BY <1>1, <1>3, <1>4, <1>5, Zenon DEF PopSignal

\* The router takes a next node off the list of its job and adds its job.
LEMMA RouteAdvances ==
    ASSUME IInv, NEW j \in Jobs, RouteNext(j)
    PROVE  Advances
<1> DEFINE advance == [job EXCEPT ![j].todo = Tail(@)]
           r == [job[j] EXCEPT !.todo = Tail(job[j].todo)]
           n == Head(job[j].todo)
<1>1. /\ TypeOK /\ job[j] \in Job /\ job \in Seq(Job) /\ job[j].phase = "routing"
      /\ job[j].todo # <<>> /\ UNCHANGED context
  BY JobAt, Zenon DEF RouteNext, TypeOK
<1>2. job[j].todo \in Seq(Node) /\ job[j].irv \in Nat
  BY <1>1, Zenon DEF Job
<1>3. Tail(job[j].todo) \in Seq(Node) /\ n \in Node
  BY <1>1, <1>2, HeadTailProperties
<1>4. /\ r \in Job /\ r.phase = job[j].phase /\ r.node = job[j].node
      /\ r.parent = job[j].parent
  BY <1>1, <1>3, Zenon DEF Job
<1>5. advance = [job EXCEPT ![j] = r]
  BY Zenon
<1>6. job \in [1..Len(job) -> Job] /\ Len(job) \in Nat /\ Jobs = 1..Len(job)
  BY <1>1 DEF Jobs
<1>7. \/ job' = advance
      \/ \E p \in {"lost", "absorb", "skip", "queued"}, t, a \in BOOLEAN :
            job' = Append(advance, NewJob(n, j, p, t, a, job[j].irv))
  BY JobAt, <1>1, Zenon DEF RouteNext, processWorkerNode, Spawn, Job
<1> HIDE DEF r, n
<1>8. CASE job' = advance
  BY <1>1, <1>4, <1>5, <1>8, OneAdvances, Zenon
<1>9. ASSUME NEW p \in {"lost", "absorb", "skip", "queued"}, NEW t \in BOOLEAN,
             NEW a \in BOOLEAN, job' = Append(advance, NewJob(n, j, p, t, a, job[j].irv))
      PROVE  Advances
  <2> DEFINE q == NewJob(n, j, p, t, a, job[j].irv)
  <2>1. p \in Phase /\ p \notin Stored /\ "routing" \in Stored
    BY <1>9, Zenon DEF Phase, Final, Volatile, Stored
  <2>2. <<>> \in Seq(Node) /\ j \in Nat /\ 0 \in Nat
    BY <1>6
  <2>3. q \in Job /\ q.parent = j /\ q.phase = p
    BY <1>2, <1>3, <1>9, <2>1, <2>2, Zenon DEF NewJob, Job
  <2>4. job' = Append(advance, q)
    BY <1>9, Zenon
  <2>5. /\ advance \in [1..Len(job) -> Job]
        /\ \A k \in Jobs : advance[k] = IF k = j THEN r ELSE job[k]
    BY <1>4, <1>5, <1>6, Zenon
  <2> HIDE DEF q, advance
  <2>6. advance \in Seq(Job) /\ Len(advance) = Len(job)
    BY <1>6, <2>5, SeqOfFunction, Zenon
  <2>7. \A k \in Jobs : /\ advance[k].node = job[k].node /\ advance[k].parent = job[k].parent
                        /\ advance[k].phase = job[k].phase
    BY <1>4, <2>5, Zenon
  <2> QED
    BY <1>1, <2>1, <2>3, <2>4, <2>6, <2>7, AppendAdvances, Zenon
<1> QED
  BY <1>7, <1>8, <1>9, Zenon

\* The steps that change more than the phase of one job, and no other job.
LEMMA ReplacingAdvances ==
    ASSUME IInv, NEW j \in Jobs, AgentPatch(j) \/ LoadIR(j) \/ DetermineNextNodes(j)
    PROVE  Advances
<1>1. TypeOK /\ job[j] \in Job /\ job[j].phase \in {"queued", "popped", "stored"}
  BY JobAt, Zenon DEF AgentPatch, LoadIR, DetermineNextNodes
<1>2. UNCHANGED context
  BY Zenon DEF AgentPatch, LoadIR, DetermineNextNodes
<1>3. "stored" \in Stored /\ {"lost", "ready", "reload", "queued"} \cap Stored = {}
  BY Zenon DEF Stored
<1>4. CASE Goto(j, "lost") \/ Goto(j, "ready")
  BY <1>2, <1>3, <1>4, GotoAdvances, Zenon
<1>5. CASE AgentPatch(j)
  <2> DEFINE r == [job[j] EXCEPT !.need = patches + 1]
  <2>1. job[j].phase = "queued" /\ job' = [job EXCEPT ![j] = r]
    BY <1>5, Zenon DEF AgentPatch
  <2>2. r.phase = job[j].phase /\ r.node = job[j].node /\ r.parent = job[j].parent
    BY <1>1, Zenon DEF Job
  <2> HIDE DEF r
  <2> QED
    BY <1>1, <1>2, <1>3, <2>1, <2>2, OneAdvances, Zenon
<1>6. CASE LoadIR(j) /\ job' = [job EXCEPT ![j].phase = "reload", ![j].irv = patches]
  <2> DEFINE r == [job[j] EXCEPT !.phase = "reload", !.irv = patches]
  <2>1. job' = [job EXCEPT ![j] = r]
    BY <1>6, Zenon
  <2>2. r.phase = "reload" /\ r.node = job[j].node /\ r.parent = job[j].parent
    BY <1>1, Zenon DEF Job
  <2> HIDE DEF r
  <2> QED
    BY <1>1, <1>2, <1>3, <2>1, <2>2, OneAdvances, Zenon
<1>7. ASSUME NEW p, NEW todo, NEW v, job[j].phase = "stored",
             job' = [job EXCEPT ![j].phase = p, ![j].todo = todo, ![j].irv = v]
      PROVE  Advances
  <2> DEFINE r == [job[j] EXCEPT !.phase = p, !.todo = todo, !.irv = v]
  <2>1. job' = [job EXCEPT ![j] = r]
    BY <1>7, Zenon
  <2>2. r.phase = p /\ r.node = job[j].node /\ r.parent = job[j].parent
    BY <1>1, Zenon DEF Job
  <2> HIDE DEF r
  <2> QED
    BY <1>1, <1>2, <1>3, <1>7, <2>1, <2>2, OneAdvances, Zenon
<1>8. CASE DetermineNextNodes(j)
  <2>1. PICK v, d : /\ v = IF job[j].absorber THEN job[j].irv ELSE ir
                    /\ d = IRAt(v)[job[j].node]
    BY Zenon
  <2>2. /\ job[j].phase = "stored"
        /\ \/ Goto(j, "lost")
           \/ HandleLoop(j, v, d)
           \/ \E next : job' = [job EXCEPT ![j].phase = "routing", ![j].todo = next, ![j].irv = v]
    BY <1>8, <2>1, Zenon DEF DetermineNextNodes
  <2>3. CASE HandleLoop(j, v, d)
    <3>1. PICK p, todo : job' = [job EXCEPT ![j].phase = p, ![j].todo = todo, ![j].irv = v]
      BY <2>3, Zenon DEF HandleLoop
    <3> QED
      BY <1>7, <2>2, <3>1, Zenon
  <2>4. CASE \E next : job' = [job EXCEPT ![j].phase = "routing", ![j].todo = next, ![j].irv = v]
    <3>1. PICK next : job' = [job EXCEPT ![j].phase = "routing", ![j].todo = next, ![j].irv = v]
      BY <2>4, Zenon
    <3> QED
      BY <1>7, <2>2, <3>1, Zenon
  <2> QED
    BY <1>4, <2>2, <2>3, <2>4, Zenon
<1> QED
  BY <1>4, <1>5, <1>6, <1>8, Zenon DEF LoadIR

\* The steps that move one job to another phase.
LEMMA MovingAdvances ==
    ASSUME IInv, NEW j \in Jobs,
           \/ PublishEntry(j) \/ WorkerComplete(j) \/ WorkerFail(j) \/ reloadIRIfPatched(j)
           \/ Consume(j) \/ StoreOutput(j) \/ handleSkippedNode(j) \/ ExitLoop(j)
           \/ CheckCompletion(j) \/ UpdateRunStatus(j) \/ handleFailedNode(j)
    PROVE  Advances
<1>1. context \subseteq context'
  BY Zenon DEF PublishEntry, WorkerComplete, WorkerFail, reloadIRIfPatched, Consume, StoreOutput,
     handleSkippedNode, ExitLoop, CheckCompletion, UpdateRunStatus, handleFailedNode
<1>2. CASE handleFailedNode(j)
  BY <1>1, <1>2, Zenon DEF handleFailedNode, Advances, Jobs
<1>3. CASE StoreOutput(j)
  BY <1>1, <1>3, GotoAdvances, Zenon DEF StoreOutput
<1>4. CASE PublishEntry(j) \/ WorkerComplete(j) \/ WorkerFail(j) \/ reloadIRIfPatched(j)
           \/ Consume(j) \/ handleSkippedNode(j)
  <2>1. PICK p \in {"queued", "stranded", "signalled", "failed", "ready", "consumed", "popped"} :
               Goto(j, p)
    BY <1>4, Zenon DEF PublishEntry, WorkerComplete, WorkerFail, reloadIRIfPatched, Consume,
       handleSkippedNode
  <2>2. p \notin Stored
    BY <2>1, Zenon DEF Stored
  <2> QED
    BY <1>1, <2>1, <2>2, GotoAdvances, Zenon
<1>5. CASE ExitLoop(j) \/ CheckCompletion(j) \/ UpdateRunStatus(j)
  <2>1. job[j].phase \in {"exitloop", "check", "completing"} /\ \E p : Goto(j, p)
    BY <1>5, Zenon DEF ExitLoop, CheckCompletion, UpdateRunStatus
  <2>2. job[j].phase \in Stored
    BY <2>1, Zenon DEF Stored
  <2> QED
    BY <1>1, <2>1, <2>2, GotoAdvances, Zenon
<1> QED
  BY <1>2, <1>3, <1>4, <1>5, Zenon

\* The entry tokens have no parent and no output.
LEMMA StartAdvances ==
    ASSUME StartRun
    PROVE  Advances
<1>1. PICK entry : /\ job' = [i \in DOMAIN entry |->
                        [NewJob(entry[i], 0, "unsent", TRUE, FALSE, 0) EXCEPT !.counted = TRUE]]
                   /\ job = <<>> /\ UNCHANGED context
  BY Zenon DEF StartRun
<1>2. Jobs = {}
  BY <1>1 DEF Jobs
<1>3. ASSUME NEW k \in Jobs'
      PROVE  job'[k].parent = 0 /\ job'[k].phase = "unsent"
  <2>1. job'[k] = [NewJob(entry[k], 0, "unsent", TRUE, FALSE, 0) EXCEPT !.counted = TRUE]
    BY <1>1, <1>3, Zenon DEF Jobs
  <2> QED
    BY <2>1, Zenon DEF NewJob
<1>4. "unsent" \notin Stored
  BY DEF Stored
<1> QED
  BY <1>1, <1>2, <1>3, <1>4, Zenon DEF Advances

\* As long as there is no fault every step is of this kind.
LEMMA StepAdvances ==
    ASSUME IInv, [Next]_vars, faults' = 0
    PROVE  Advances /\ faults = 0
<1>1. faults \in Nat /\ faults + 1 # faults'
  BY FaultsAssumption DEF IInv, TypeOK
<1>2. \A kind : ~Fault(kind)
  BY <1>1, Zenon DEF Fault
<1>3. ~PublishEntryFails /\ ~Crash /\ \A j \in Jobs : ~Faulty(j)
  BY <1>2, Zenon DEF PublishEntryFails, Crash, Faulty, WorkerSignalsTwice, WorkerLose, EmitFails,
     HandlerError, FailureHandlerError
<1>4. CASE UNCHANGED vars
  BY <1>4, Zenon DEF vars, Advances, Jobs
<1>5. CASE StartRun
  BY <1>5, StartAdvances, Zenon DEF StartRun
<1>6. CASE PopSignal
  BY <1>6, PopAdvances, Zenon DEF PopSignal
<1>7. ASSUME NEW j \in Jobs, Worker(j) \/ Handler(j)
      PROVE  Advances /\ faults' = faults
  <2>1. Advances
    BY <1>7, EmitAdvances, RouteAdvances, ReplacingAdvances, MovingAdvances, Zenon
    DEF Worker, Handler
  <2>2. faults' = faults
    BY <1>2, <1>7, Zenon DEF Worker, Handler, AgentPatch, WorkerComplete, WorkerFail, PublishEntry,
       handleFailedNode, LoadIR, reloadIRIfPatched, Consume, StoreOutput, handleSkippedNode,
       DetermineNextNodes, ExitLoop, RouteNext, processWorkerNode, NoFault, Emit,
       CheckCompletion, UpdateRunStatus
  <2> QED
    BY <2>1, <2>2, Zenon
<1>8. CASE Next
  BY <1>3, <1>5, <1>6, <1>7, <1>8, Zenon DEF Next, StartRun, PopSignal
<1> QED
  BY <1>4, <1>8, Zenon DEF vars

\* For every workflow: without faults a token reaches a worker only after the
\* output of the node it comes from is in the run's context, whichever handlers
\* and absorbers run at the same time.
THEOREM OutputBeforeTokenHolds == Spec => []OutputBeforeToken
<1>1. Init => OutputInv
  <2>1. Init => Jobs = {}
    BY DEF Init, Jobs
  <2> QED
    BY <2>1, Zenon DEF OutputInv
<1>2. IInv /\ OutputInv /\ [Next]_vars => OutputInv'
  <2> SUFFICES ASSUME IInv, OutputInv, [Next]_vars, faults' = 0
               PROVE  OutputInv'
    BY Zenon DEF OutputInv
  <2>1. TypeOK
    BY Zenon DEF IInv
  <2> QED
    BY <2>1, StepAdvances, AdvancesKeeps, Zenon
<1>3. OutputInv => OutputBeforeToken
  BY Zenon DEF OutputInv, OutputBeforeToken
<1> QED
  BY <1>1, <1>2, <1>3, Invariance, PTL DEF Spec

=============================================================================
