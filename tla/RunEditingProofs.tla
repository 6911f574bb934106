-------------------------- MODULE RunEditingProofs --------------------------
(***************************************************************************)
(* Proofs about the compiler's cycle check, for every graph and every      *)
(* order of roots and dependents, and about the IR of a run, for every     *)
(* workflow, every list of operations and every interleaving.              *)
(*                                                                         *)
(* The cycle check.  A node is finished when its call has returned.  A     *)
(* dependent that a call has looked at and that is not a loop node is      *)
(* finished, or it is the next call on the stack (LookedAt).  So when a    *)
(* call returns, all its dependents that are not loop nodes are finished,  *)
(* and a set of nodes with a cycle and without loop nodes never has a      *)
(* finished node (FinishedOffCycles).                                      *)
(*                                                                         *)
(* The IR.  What the compiler makes of a workflow in order is well-formed, *)
(* and can be turned back (CompiledOK); what it is turned back into is a   *)
(* workflow with the same nodes, whose edges lead where the IR leads       *)
(* (BackSchema, BackLeads); a workflow with operations that compiles is in *)
(* order again (CompilesChecked).  So the IR stays well-formed (EditInv);  *)
(* PatchRun keeps what its operations do not define (PatchKeeps).          *)
(***************************************************************************)
EXTENDS RunEditing, Recursion, FiniteSetTheorems, TLAPS

-----------------------------------------------------------------------------
(* The cycle check. *)

\* The nodes whose calls have returned.
Finished == visited \ OnStack

\* No node is called twice, callers and callees are visited, and each call was
\* made from a dependent of the one below it.
StackOK ==
    /\ OnStack \subseteq visited
    /\ \A i, j \in DOMAIN recStack : recStack[i] = recStack[j] => i = j
    /\ \A i \in 1..(Len(recStack) - 1) : recStack[i + 1] \in graph[recStack[i]]

\* What is left of a node's dependents: all before it is visited, none when it
\* is finished.
LeftOK ==
    /\ \A u \in DOMAIN graph : left[u] \subseteq graph[u]
    /\ \A u \in DOMAIN graph \ visited : left[u] = graph[u]
    /\ \A u \in Finished : left[u] = {}

\* Where a dependent is that a call has looked at.
LookedAt ==
    \A u \in visited : \A d \in graph[u] \ left[u] :
        d \in loops \/ d \in Finished \/ \E i \in 1..(Len(recStack) - 1) :
                                            recStack[i] = u /\ recStack[i + 1] = d

\* A cycle without loop nodes has no finished node.
FinishedOffCycles ==
    \A S \in SUBSET (DOMAIN graph \ loops) : HasCycleIn(S) => S \cap Finished = {}

\* While the search runs, and when it has accepted.
SearchInv ==
    verdict \in {"running", "acyclic"} => LeftOK /\ LookedAt /\ FinishedOffCycles

AcceptInv == verdict = "acyclic" => recStack = <<>> /\ visited = DOMAIN graph

CheckInv == CheckTypeOK /\ StackOK /\ SearchInv /\ AcceptInv /\ RefusedHasCycle

\* No search has begun: the invariant holds.
LEMMA CheckInitially == CheckInit => CheckInv
  <1> SUFFICES ASSUME CheckInit PROVE CheckInv
    OBVIOUS
  <1>1. graph \in Graphs /\ DOMAIN graph = {} /\ recStack = <<>> /\ visited = {}
    BY DEF CheckInit, Graphs
  <1>2. CheckTypeOK
    BY <1>1 DEF CheckInit, CheckTypeOK
  <1>3. StackOK
    BY <1>1 DEF StackOK, OnStack
  <1> QED
    BY <1>2, <1>3 DEF CheckInit, CheckInv, SearchInv, AcceptInv, RefusedHasCycle

\* A new search starts with nothing visited.
LEMMA BeginKeeps == CheckInv /\ BeginAny => CheckInv'
  <1> SUFFICES ASSUME CheckInv, BeginAny PROVE CheckInv'
    OBVIOUS
  <1>1. /\ graph' \in Graphs /\ loops' \subseteq DOMAIN graph' /\ visited' = {}
        /\ recStack' = <<>> /\ left' = graph' /\ verdict' = "running"
    BY DEF BeginAny, Begin
  <1>2. graph' \in [DOMAIN graph' -> SUBSET DOMAIN graph']
    BY <1>1 DEF Graphs
  <1>3. CheckTypeOK'
    BY <1>1, <1>2 DEF CheckTypeOK
  <1>4. OnStack' = {}
    BY <1>1 DEF OnStack
  <1>5. StackOK'
    BY <1>1, <1>4 DEF StackOK
  <1>6. LeftOK' /\ LookedAt' /\ FinishedOffCycles'
    BY <1>1, <1>4 DEF LeftOK, LookedAt, FinishedOffCycles, Finished
  <1> QED
    BY <1>1, <1>3, <1>5, <1>6 DEF CheckInv, SearchInv, AcceptInv, RefusedHasCycle

\* A call of an unvisited node puts it on top and finishes nothing.
LEMMA Push ==
    ASSUME CheckTypeOK, StackOK, NEW n \in DOMAIN graph \ visited, hasCycle(n)
    PROVE  /\ recStack' \in Seq(DOMAIN graph)
           /\ Len(recStack') = Len(recStack) + 1
           /\ recStack'[Len(recStack) + 1] = n
           /\ \A i \in DOMAIN recStack : recStack'[i] = recStack[i]
           /\ OnStack' = OnStack \cup {n}
           /\ Finished' = Finished
           /\ \A i, j \in DOMAIN recStack' : recStack'[i] = recStack'[j] => i = j
  <1>1. recStack \in Seq(DOMAIN graph) /\ recStack' = Append(recStack, n)
    BY DEF CheckTypeOK, hasCycle
  <1>2. /\ recStack' \in Seq(DOMAIN graph)
        /\ Len(recStack') = Len(recStack) + 1
        /\ recStack'[Len(recStack) + 1] = n
        /\ \A i \in DOMAIN recStack : recStack'[i] = recStack[i]
        /\ DOMAIN recStack' = 1..(Len(recStack) + 1)
        /\ DOMAIN recStack = 1..Len(recStack)
        /\ Len(recStack) \in Nat
    BY <1>1
  <1>3. OnStack' = OnStack \cup {n}
    BY <1>2 DEF OnStack
  <1>4. Finished' = Finished
    BY <1>3 DEF Finished, hasCycle, StackOK
  <1>5. \A i, j \in DOMAIN recStack' : recStack'[i] = recStack'[j] => i = j
    <2> SUFFICES ASSUME NEW i \in DOMAIN recStack', NEW j \in DOMAIN recStack',
                        recStack'[i] = recStack'[j]
                 PROVE  i = j
      OBVIOUS
    <2>1. \A k \in DOMAIN recStack : recStack[k] # n
      BY DEF StackOK, OnStack
    <2> QED
      BY <1>2, <2>1 DEF StackOK
  <1> QED
    BY <1>2, <1>3, <1>4, <1>5

\* The search goes on from an unvisited node of the graph.
LEMMA NextRootKeeps == CheckInv /\ NextRoot => CheckInv'
  <1> SUFFICES ASSUME CheckInv, NextRoot PROVE CheckInv'
    OBVIOUS
  <1> USE DEF CheckInv
  <1>1. PICK n \in DOMAIN graph \ visited : hasCycle(n)
    BY DEF NextRoot
  <1>2. /\ verdict = "running" /\ verdict' = verdict /\ recStack = <<>>
        /\ graph' = graph /\ loops' = loops /\ left' = left /\ visited' = visited \cup {n}
    BY <1>1 DEF NextRoot, hasCycle
  <1>3. /\ recStack' \in Seq(DOMAIN graph)
        /\ Len(recStack') = 1
        /\ OnStack' = OnStack \cup {n}
        /\ Finished' = Finished
        /\ \A i, j \in DOMAIN recStack' : recStack'[i] = recStack'[j] => i = j
    BY <1>1, <1>2, Push
  <1>4. CheckTypeOK'
    BY <1>1, <1>2, <1>3 DEF CheckTypeOK
  <1>5. StackOK'
    BY <1>1, <1>2, <1>3 DEF StackOK
  <1>6. LeftOK'
    BY <1>2, <1>3 DEF LeftOK, SearchInv
  <1>7. LookedAt'
    BY <1>1, <1>2, <1>3 DEF LookedAt, LeftOK, SearchInv
  <1>8. FinishedOffCycles'
    BY <1>2, <1>3 DEF FinishedOffCycles, SearchInv, HasCycleIn
  <1> QED
    BY <1>2, <1>4, <1>5, <1>6, <1>7, <1>8 DEF SearchInv, AcceptInv, RefusedHasCycle

\* Every node has been visited and every call has returned.
LEMMA AcceptKeeps == CheckInv /\ Accept => CheckInv'
  <1> SUFFICES ASSUME CheckInv, Accept PROVE CheckInv'
    OBVIOUS
  <1> USE DEF CheckInv
  <1>1. /\ verdict = "running" /\ verdict' = "acyclic" /\ recStack = <<>> /\ recStack' = recStack
        /\ graph' = graph /\ loops' = loops /\ left' = left /\ visited' = visited
        /\ DOMAIN graph \subseteq visited
    BY DEF Accept
  <1>2. OnStack' = OnStack /\ Finished' = Finished
    BY <1>1 DEF OnStack, Finished
  <1>3. CheckTypeOK' /\ StackOK'
    BY <1>1, <1>2 DEF CheckTypeOK, StackOK
  <1>4. LeftOK' /\ LookedAt' /\ FinishedOffCycles'
    BY <1>1, <1>2 DEF LeftOK, LookedAt, FinishedOffCycles, SearchInv, HasCycleIn
  <1> QED
    BY <1>1, <1>3, <1>4, Zenon DEF SearchInv, AcceptInv, RefusedHasCycle, CheckTypeOK

\* The top of the stack is a visited node that is not finished.
LEMMA TopOnStack ==
    ASSUME CheckTypeOK, StackOK, recStack # <<>>
    PROVE  /\ Len(recStack) \in Nat \ {0}
           /\ DOMAIN recStack = 1..Len(recStack)
           /\ Top \in OnStack
           /\ Top \in visited
           /\ Top \in DOMAIN graph
  BY DEF CheckTypeOK, StackOK, OnStack, Top

\* A dependent that is unvisited is called.
LEMMA DescendKeeps ==
    ASSUME CheckInv, verdict = "running", recStack # <<>>, NEW d \in left[Top], d \notin visited,
           left' = [left EXCEPT ![Top] = @ \ {d}], hasCycle(d),
           UNCHANGED <<graph, loops, verdict>>
    PROVE  CheckInv'
  <1> USE DEF CheckInv
  <1>1. LeftOK /\ LookedAt /\ FinishedOffCycles
    BY DEF SearchInv
  <1>2. /\ Len(recStack) \in Nat \ {0} /\ DOMAIN recStack = 1..Len(recStack)
        /\ Top \in OnStack /\ Top \in visited /\ Top \in DOMAIN graph
    BY TopOnStack
  <1>3. d \in graph[Top] /\ d \in DOMAIN graph \ visited /\ visited' = visited \cup {d}
    BY <1>1, <1>2 DEF LeftOK, CheckTypeOK, hasCycle
  <1>4. /\ recStack' \in Seq(DOMAIN graph)
        /\ Len(recStack') = Len(recStack) + 1
        /\ recStack'[Len(recStack) + 1] = d
        /\ \A i \in DOMAIN recStack : recStack'[i] = recStack[i]
        /\ OnStack' = OnStack \cup {d}
        /\ Finished' = Finished
        /\ \A i, j \in DOMAIN recStack' : recStack'[i] = recStack'[j] => i = j
    BY <1>3, Push
  <1>5. /\ left' \in [DOMAIN graph -> SUBSET DOMAIN graph]
        /\ left'[Top] = left[Top] \ {d}
        /\ \A u \in DOMAIN graph \ {Top} : left'[u] = left[u]
    BY <1>2 DEF CheckTypeOK
  <1>6. CheckTypeOK'
    BY <1>3, <1>4, <1>5 DEF CheckTypeOK
  <1>7. StackOK'
    <2>1. \A i \in 1..Len(recStack) : recStack'[i + 1] \in graph[recStack'[i]]
      BY <1>2, <1>3, <1>4 DEF StackOK, Top
    <2> QED
      BY <1>3, <1>4, <2>1, <1>2 DEF StackOK
  <1>8. LeftOK'
    BY <1>1, <1>2, <1>3, <1>4, <1>5 DEF LeftOK, CheckTypeOK, Finished
  <1>9. LookedAt'
    <2> SUFFICES ASSUME NEW u \in visited', NEW x \in graph[u] \ left'[u], x \notin loops,
                        x \notin Finished
                 PROVE  \E i \in 1..(Len(recStack') - 1) :
                           recStack'[i] = u /\ recStack'[i + 1] = x
      BY <1>4 DEF LookedAt
    <2>1. CASE u = d
      BY <2>1, <1>1, <1>3, <1>5, <1>2 DEF LeftOK
    <2>2. CASE u # d /\ x \in graph[u] \ left[u]
      <3>1. PICK i \in 1..(Len(recStack) - 1) : recStack[i] = u /\ recStack[i + 1] = x
        BY <2>2, <1>1, <1>3 DEF LookedAt
      <3> QED
        BY <3>1, <1>2, <1>4
    <2>3. CASE u # d /\ x \notin graph[u] \ left[u]
      <3>1. u = Top /\ x = d
        BY <2>3, <1>2, <1>3, <1>5 DEF CheckTypeOK
      <3> QED
        BY <3>1, <1>2, <1>4 DEF Top
    <2> QED
      BY <2>1, <2>2, <2>3, Zenon
  <1>10. FinishedOffCycles'
    BY <1>1, <1>4 DEF FinishedOffCycles, HasCycleIn
  <1> QED
    BY <1>6, <1>7, <1>8, <1>9, <1>10 DEF SearchInv, AcceptInv, RefusedHasCycle

\* A dependent that is visited is passed over, or is the back edge that refuses
\* the workflow.
LEMMA PassKeeps ==
    ASSUME CheckInv, verdict = "running", recStack # <<>>, NEW d \in left[Top], d \in visited,
           left' = [left EXCEPT ![Top] = @ \ {d}],
           verdict' = IF d \in OnStack /\ d \notin loops THEN "cyclic" ELSE verdict,
           UNCHANGED <<graph, loops, visited, recStack>>
    PROVE  CheckInv'
  <1> USE DEF CheckInv
  <1>1. LeftOK /\ LookedAt /\ FinishedOffCycles
    BY DEF SearchInv
  <1>2. /\ Len(recStack) \in Nat \ {0} /\ DOMAIN recStack = 1..Len(recStack)
        /\ Top \in OnStack /\ Top \in visited /\ Top \in DOMAIN graph
    BY TopOnStack
  <1>3. d \in graph[Top]
    BY <1>1, <1>2 DEF LeftOK
  <1>4. OnStack' = OnStack /\ Finished' = Finished /\ Top' = Top
    BY DEF OnStack, Finished, Top
  <1>5. /\ left' \in [DOMAIN graph -> SUBSET DOMAIN graph]
        /\ left'[Top] = left[Top] \ {d}
        /\ \A u \in DOMAIN graph \ {Top} : left'[u] = left[u]
    BY <1>2 DEF CheckTypeOK
  <1>6. CheckTypeOK' /\ StackOK'
    BY <1>4, <1>5 DEF CheckTypeOK, StackOK
  <1>7. CASE d \in OnStack /\ d \notin loops
    <2>1. PICK i \in DOMAIN recStack : recStack[i] = d
      BY <1>7 DEF OnStack
    <2>2. \A j \in i..(Len(recStack) - 1) : recStack[j + 1] \in graph[recStack[j]]
      BY <1>2 DEF StackOK
    <2>3. RefusedHasCycle'
      BY <1>3, <1>4, <1>7, <2>1, <2>2 DEF RefusedHasCycle
    <2> QED
      BY <1>6, <1>7, <2>3 DEF SearchInv, AcceptInv
  <1>8. CASE ~(d \in OnStack /\ d \notin loops)
    <2>1. d \in loops \/ d \in Finished
      BY <1>8 DEF Finished
    <2>2. LeftOK'
      BY <1>1, <1>2, <1>4, <1>5 DEF LeftOK, Finished, CheckTypeOK
    <2>3. LookedAt'
      BY <1>1, <1>2, <1>4, <1>5, <2>1 DEF LookedAt, CheckTypeOK
    <2>4. FinishedOffCycles'
      BY <1>1, <1>4 DEF FinishedOffCycles, HasCycleIn
    <2> QED
      BY <1>6, <1>8, <2>2, <2>3, <2>4 DEF SearchInv, AcceptInv, RefusedHasCycle
  <1> QED
    BY <1>7, <1>8

\* One more dependent of the call on top.
LEMMA NextDependentKeeps == CheckInv /\ NextDependent => CheckInv'
  <1> SUFFICES ASSUME CheckInv, NextDependent PROVE CheckInv'
    OBVIOUS
  <1>1. PICK d \in left[Top] :
           /\ left' = [left EXCEPT ![Top] = @ \ {d}]
           /\ \/ d \notin visited /\ hasCycle(d) /\ UNCHANGED verdict
              \/ /\ d \in visited
                 /\ verdict' = IF d \in OnStack /\ d \notin loops THEN "cyclic" ELSE verdict
                 /\ UNCHANGED <<visited, recStack>>
    BY DEF NextDependent
  <1>2. verdict = "running" /\ recStack # <<>> /\ UNCHANGED <<graph, loops>>
    BY DEF NextDependent
  <1>3. CASE d \notin visited /\ hasCycle(d) /\ UNCHANGED verdict
    BY <1>1, <1>2, <1>3, DescendKeeps, Zenon
  <1>4. CASE /\ d \in visited
             /\ verdict' = IF d \in OnStack /\ d \notin loops THEN "cyclic" ELSE verdict
             /\ UNCHANGED <<visited, recStack>>
    BY <1>1, <1>2, <1>4, PassKeeps, Zenon
  <1> QED
    BY <1>1, <1>3, <1>4

\* The call on top has looked at all its dependents: it is finished, and on no
\* cycle without a loop node.
LEMMA ReturnKeeps == CheckInv /\ Return => CheckInv'
  <1> SUFFICES ASSUME CheckInv, Return PROVE CheckInv'
    OBVIOUS
  <1> USE DEF CheckInv
  <1>1. /\ verdict = "running" /\ verdict' = verdict /\ recStack # <<>> /\ left[Top] = {}
        /\ recStack' = SubSeq(recStack, 1, Len(recStack) - 1)
        /\ graph' = graph /\ loops' = loops /\ left' = left /\ visited' = visited
    BY DEF Return
  <1>2. LeftOK /\ LookedAt /\ FinishedOffCycles
    BY <1>1 DEF SearchInv
  <1>3. /\ Len(recStack) \in Nat \ {0} /\ DOMAIN recStack = 1..Len(recStack)
        /\ Top \in OnStack /\ Top \in visited /\ Top \in DOMAIN graph
    BY <1>1, TopOnStack
  <1>4. /\ recStack' \in Seq(DOMAIN graph)
        /\ Len(recStack') = Len(recStack) - 1
        /\ DOMAIN recStack' = 1..(Len(recStack) - 1)
        /\ \A i \in 1..(Len(recStack) - 1) : recStack'[i] = recStack[i]
    BY <1>1, <1>3 DEF CheckTypeOK
  <1>5. OnStack' = OnStack \ {Top}
    <2>1. \A i \in 1..(Len(recStack) - 1) : recStack[i] # Top
      BY <1>3 DEF StackOK, Top
    <2> QED
      BY <1>3, <1>4, <2>1 DEF OnStack, Top
  <1>6. Finished' = Finished \cup {Top}
    BY <1>1, <1>3, <1>5 DEF Finished
  <1>7. CheckTypeOK'
    BY <1>1, <1>4 DEF CheckTypeOK
  <1>8. StackOK'
    <2>1. OnStack' \subseteq visited'
      BY <1>1, <1>5 DEF StackOK
    <2>2. \A i, j \in DOMAIN recStack' : recStack'[i] = recStack'[j] => i = j
      BY <1>3, <1>4 DEF StackOK
    <2>3. \A i \in 1..(Len(recStack') - 1) : recStack'[i + 1] \in graph'[recStack'[i]]
      BY <1>1, <1>3, <1>4 DEF StackOK
    <2> QED
      BY <2>1, <2>2, <2>3 DEF StackOK
  <1>9. LeftOK'
    BY <1>1, <1>2, <1>6 DEF LeftOK
  <1>10. LookedAt'
    <2> SUFFICES ASSUME NEW u \in visited, NEW x \in graph[u] \ left[u], x \notin loops,
                        x \notin Finished'
                 PROVE  \E i \in 1..(Len(recStack') - 1) :
                           recStack'[i] = u /\ recStack'[i + 1] = x
      BY <1>1 DEF LookedAt
    <2>1. PICK i \in 1..(Len(recStack) - 1) : recStack[i] = u /\ recStack[i + 1] = x
      BY <1>2, <1>6 DEF LookedAt
    <2>2. i + 1 # Len(recStack)
      BY <1>6, <2>1 DEF Top
    <2>3. i \in 1..(Len(recStack) - 1) /\ i + 1 \in 1..(Len(recStack) - 1)
      <3>1. Len(recStack) \in Int /\ i \in Int /\ 1 <= i /\ i <= Len(recStack) - 1
        BY <1>3
      <3>2. i + 1 <= Len(recStack) - 1
        BY <2>2, <3>1
      <3> QED
        BY <3>1, <3>2
    <2>4. i \in 1..(Len(recStack') - 1) /\ recStack'[i] = u /\ recStack'[i + 1] = x
      BY <1>3, <1>4, <2>1, <2>3
    <2> QED
      BY <2>4
  <1>11. FinishedOffCycles'
    <2> SUFFICES ASSUME NEW S \in SUBSET (DOMAIN graph \ loops), HasCycleIn(S), Top \in S
                 PROVE  FALSE
      <3>1. SUFFICES ASSUME NEW S \in SUBSET (DOMAIN graph \ loops), HasCycleIn(S)
                     PROVE  S \cap (Finished \cup {Top}) = {}
        BY <1>1, <1>6 DEF FinishedOffCycles, HasCycleIn
      <3>2. S \cap Finished = {}
        BY <1>2, <3>1 DEF FinishedOffCycles
      <3> QED
        BY <3>1, <3>2
    <2>1. PICK d \in graph[Top] : d \in S
      BY DEF HasCycleIn
    <2>2. \A i \in 1..(Len(recStack) - 1) : recStack[i] # Top
      BY <1>3 DEF StackOK, Top
    <2>3. d \in Finished
      BY <1>1, <1>2, <1>3, <2>1, <2>2 DEF LookedAt
    <2> QED
      BY <1>2, <2>1, <2>3 DEF FinishedOffCycles
  <1> QED
    BY <1>1, <1>7, <1>8, <1>9, <1>10, <1>11 DEF SearchInv, AcceptInv, RefusedHasCycle

\* A step that changes nothing here.
LEMMA CheckStutters == CheckInv /\ UNCHANGED cvars => CheckInv'
  <1> SUFFICES ASSUME CheckInv, UNCHANGED cvars PROVE CheckInv'
    OBVIOUS
  <1>1. /\ graph' = graph /\ loops' = loops /\ visited' = visited /\ recStack' = recStack
        /\ left' = left /\ verdict' = verdict
    BY DEF cvars
  <1>2. OnStack' = OnStack /\ Finished' = Finished /\ Top' = Top
    BY <1>1 DEF OnStack, Finished, Top
  <1>3. CheckTypeOK' /\ StackOK' /\ AcceptInv' /\ RefusedHasCycle'
    BY <1>1, <1>2 DEF CheckInv, CheckTypeOK, StackOK, AcceptInv, RefusedHasCycle
  <1>4. SearchInv'
    BY <1>1, <1>2 DEF CheckInv, SearchInv, LeftOK, LookedAt, FinishedOffCycles, HasCycleIn
  <1> QED
    BY <1>3, <1>4 DEF CheckInv

\* Every step of the search keeps the invariant.
LEMMA CheckStep == CheckInv /\ [CheckNext]_cvars => CheckInv'
  BY BeginKeeps, NextRootKeeps, NextDependentKeeps, ReturnKeeps, AcceptKeeps, CheckStutters
     DEF CheckNext, Search

\* The invariant holds in every state of every search.
THEOREM CheckInvariant == CheckSpec => []CheckInv
  BY CheckStep, CheckInitially, PTL DEF CheckSpec

\* When the search has accepted, every node is finished.
LEMMA AcceptedOK == CheckInv => AcceptedCyclesLoop
  <1> SUFFICES ASSUME CheckInv, verdict = "acyclic",
                      NEW S \in SUBSET (DOMAIN graph \ loops), HasCycleIn(S)
               PROVE  FALSE
    BY DEF AcceptedCyclesLoop
  <1>1. recStack = <<>> /\ visited = DOMAIN graph
    BY DEF CheckInv, AcceptInv
  <1>2. OnStack = {}
    BY <1>1 DEF OnStack
  <1>3. Finished = DOMAIN graph
    BY <1>1, <1>2 DEF Finished
  <1>4. S \cap Finished = {}
    BY DEF CheckInv, SearchInv, FinishedOffCycles
  <1> QED
    BY <1>3, <1>4 DEF HasCycleIn

\* An accepted workflow has no cycle without a loop node, for every graph and
\* every order of roots and dependents.
THEOREM AcceptanceSound == CheckSpec => []AcceptedCyclesLoop
  BY AcceptedOK, CheckInvariant, PTL

\* A refused workflow has a cycle that enters a node without loop
\* configuration, for every graph and every order.
THEOREM RefusalSound == CheckSpec => []RefusedHasCycle
  BY CheckInvariant, PTL DEF CheckInv

-----------------------------------------------------------------------------
(* Lists. *)

\* One member more.
LEMMA AppendSet ==
    ASSUME NEW T, NEW q \in Seq(T), NEW e \in T
    PROVE  Range(Append(q, e)) = Range(q) \cup {e}
<1>1. PICK c : c = Append(q, e)
  BY Zenon
<1>2. PICK n : n = Len(q)
  BY Zenon
<1>3. /\ n \in Nat /\ DOMAIN q = 1..n /\ DOMAIN c = 1..(n + 1) /\ c[n + 1] = e
      /\ \A i \in 1..n : c[i] = q[i]
  BY <1>1, <1>2
<1>4. /\ \A i \in 1..(n + 1) : i \in 1..n \/ i = n + 1
      /\ \A i \in 1..n : i \in 1..(n + 1)
      /\ n + 1 \in 1..(n + 1)
  BY <1>3
<1>5. ASSUME NEW x PROVE x \in Range(c) <=> x \in Range(q) \/ x = e
  BY <1>3, <1>4, Zenon DEF Range
<1> QED
  BY <1>1, <1>5, Zenon

\* Two lists after each other.
LEMMA ConcatSet ==
    ASSUME NEW T, NEW q \in Seq(T), NEW e \in Seq(T)
    PROVE  Range(q \o e) = Range(q) \cup Range(e)
<1>1. PICK c, n, m : c = q \o e /\ n = Len(q) /\ m = Len(e)
  BY Zenon
<1>2. /\ n \in Nat /\ m \in Nat /\ DOMAIN q = 1..n /\ DOMAIN e = 1..m
  BY <1>1
<1>3. DOMAIN c = 1..(n + m)
  BY <1>1, <1>2
<1>4. \A i \in 1..n : c[i] = q[i]
  BY <1>1, <1>2
<1>5. \A i \in 1..(n + m) : i \notin 1..n => c[i] = e[i - n] /\ i - n \in 1..m
  BY <1>1, <1>2
<1>6. /\ \A i \in 1..n : i \in 1..(n + m)
      /\ \A i \in 1..m : n + i \in 1..(n + m) /\ n + i \notin 1..n /\ (n + i) - n = i
  BY <1>2
<1>7. \A i \in 1..m : c[n + i] = e[i]
  BY <1>5, <1>6
<1>8. ASSUME NEW x \in Range(c) PROVE x \in Range(q) \/ x \in Range(e)
  <2>1. PICK i \in 1..(n + m) : x = c[i]
    BY <1>3, <1>8, Zenon DEF Range
  <2> QED
    BY <1>2, <1>4, <1>5, <2>1, Zenon DEF Range
<1>9. ASSUME NEW x, x \in Range(q) \/ x \in Range(e) PROVE x \in Range(c)
  <2>1. CASE x \in Range(q)
    <3>1. PICK i \in 1..n : x = q[i]
      BY <1>2, <2>1, Zenon DEF Range
    <3>2. i \in DOMAIN c /\ x = c[i]
      BY <1>3, <1>4, <1>6, <3>1, Zenon
    <3> QED
      BY <3>2, Zenon DEF Range
  <2>2. CASE x \in Range(e)
    <3>1. PICK i \in 1..m : x = e[i]
      BY <1>2, <2>2, Zenon DEF Range
    <3>2. n + i \in DOMAIN c /\ x = c[n + i]
      BY <1>3, <1>6, <1>7, <3>1, Zenon
    <3> QED
      BY <3>2, Zenon DEF Range
  <2> QED
    BY <1>9, <2>1, <2>2, Zenon
<1> QED
  BY <1>1, <1>8, <1>9, Zenon

\* The lists that Only goes through.
Filters(f, T, s, S) ==
    /\ f \in [0..Len(s) -> Seq(T)]
    /\ f[0] = <<>>
    /\ \A i \in 1..Len(s) : f[i] = IF s[i] \in S THEN Append(f[i - 1], s[i]) ELSE f[i - 1]
    /\ Only(s, S) = f[Len(s)]

\* There are such lists.
LEMMA OnlySteps ==
    ASSUME NEW T, NEW s \in Seq(T), NEW S
    PROVE  \E f : Filters(f, T, s, S)
<1> DEFINE N == Len(s)
           next(q, i) == IF s[i] \in S THEN Append(q, s[i]) ELSE q
           E(f) == [i \in 0..N |-> IF i = 0 THEN <<>> ELSE next(f[i - 1], i)]
           step == [i \in 1..N |-> [q \in Seq(T) |-> next(q, i)]]
<1>1. N \in Nat /\ <<>> \in Seq(T) /\ \A i \in 1..N : s[i] \in T
  OBVIOUS
<1>2. ASSUME NEW q \in Seq(T), NEW i \in 1..N PROVE next(q, i) \in Seq(T)
  BY <1>1
<1> HIDE DEF N, next
<1>3. StepsOf(Seq(T), <<>>, N, step)
  <2>1. \A i \in 1..N : [q \in Seq(T) |-> next(q, i)] \in [Seq(T) -> Seq(T)]
    BY <1>2, Zenon
  <2> QED
    BY <1>1, <2>1, Zenon DEF StepsOf
<1>4. PICK f : Values(f, Seq(T), <<>>, N, step)
  BY <1>3, Recursion, Zenon
<1>5. \A i \in 1..N : i \in 0..N /\ i - 1 \in 0..N /\ i # 0
  BY <1>1
<1>6. /\ f \in [0..N -> Seq(T)] /\ f[0] = <<>>
      /\ \A i \in 1..N : f[i] = next(f[i - 1], i)
  <2>1. f \in [0..N -> Seq(T)] /\ f[0] = <<>> /\ \A i \in 1..N : f[i] = step[i][f[i - 1]]
    BY <1>4, Zenon DEF Values
  <2> QED
    BY <1>5, <2>1, Zenon
<1>7. f = E(f)
  <2>1. \A i \in 0..N : i = 0 \/ i \in 1..N
    BY <1>1
  <2> QED
    BY <1>6, <2>1, Zenon
<1>8. PICK g : g = CHOOSE h : h = E(h)
  BY Zenon
<1>9. g = E(g) /\ Only(s, S) = g[N]
  <2>1. g = E(g)
    BY <1>7, <1>8, Zenon
  <2>2. Only(s, S) = g[N]
    BY <1>8, Zenon DEF Only, N, next
  <2> QED
    BY <2>1, <2>2, Zenon
<1>10. g[0] = <<>> /\ \A i \in 1..N : g[i] = next(g[i - 1], i)
  <2>1. 0 \in 0..N
    BY <1>1
  <2>2. \A i \in 0..N : g[i] = IF i = 0 THEN <<>> ELSE next(g[i - 1], i)
    BY <1>9, Zenon
  <2> QED
    BY <1>5, <2>1, <2>2, Zenon
<1>11. Alike(N, f, g)
  BY <1>1, <1>6, <1>10, Zenon DEF Alike
<1>12. Only(s, S) = f[N]
  BY <1>9, <1>11, SameValues, Zenon
<1> QED
  BY <1>6, <1>12, Zenon DEF N, next, Filters

\* It keeps exactly the members that are in S.
LEMMA OnlyFacts ==
    ASSUME NEW T, NEW s \in Seq(T), NEW S
    PROVE  Only(s, S) \in Seq(T) /\ Range(Only(s, S)) = Range(s) \cap S
<1> DEFINE N == Len(s)
<1>1. N \in Nat /\ DOMAIN s = 1..N /\ \A i \in 1..N : s[i] \in T
  OBVIOUS
<1>0. PICK f : Filters(f, T, s, S)
  BY OnlySteps, Zenon
<1>2. /\ f \in [0..N -> Seq(T)] /\ f[0] = <<>>
      /\ \A i \in 1..N : f[i] = IF s[i] \in S THEN Append(f[i - 1], s[i]) ELSE f[i - 1]
      /\ Only(s, S) = f[N]
  BY <1>0, Zenon DEF Filters
<1> HIDE DEF N
<1> DEFINE Q == {n \in 0..N : Range(f[n]) = {s[i] : i \in 1..n} \cap S}
<1>3. 0 \in Q
  <2>1. Range(<<>>) = {} /\ 1..0 = {} /\ 0 \in 0..N
    BY <1>1 DEF Range
  <2> QED
    BY <1>2, <2>1, Zenon
<1>4. ASSUME NEW n \in 0..(N - 1), n \in Q PROVE n + 1 \in Q
  <2>1. n + 1 \in 1..N /\ (n + 1) - 1 = n /\ n \in 0..N /\ n + 1 \in 0..N
    BY <1>1
  <2>2. Range(f[n]) = {s[i] : i \in 1..n} \cap S
    BY <1>4, Zenon
  <2>3. PICK q, e : q = f[n] /\ e = s[n + 1]
    BY Zenon
  <2>4. q \in Seq(T) /\ e \in T
    BY <1>1, <1>2, <2>1, <2>3, Zenon
  <2>5. f[n + 1] = IF e \in S THEN Append(q, e) ELSE q
    BY <1>2, <2>1, <2>3, Zenon
  <2>6. Range(Append(q, e)) = Range(q) \cup {e}
    BY <2>4, AppendSet
  <2>7. {s[i] : i \in 1..(n + 1)} = {s[i] : i \in 1..n} \cup {e}
    BY <2>1, <2>3
  <2>8. Range(f[n + 1]) = {s[i] : i \in 1..(n + 1)} \cap S
    <3>1. Range(q) = {s[i] : i \in 1..n} \cap S
      BY <2>2, <2>3, Zenon
    <3>2. CASE e \in S
      BY <2>5, <2>6, <2>7, <3>1, <3>2
    <3>3. CASE e \notin S
      BY <2>5, <2>7, <3>1, <3>3
    <3> QED
      BY <3>2, <3>3, Zenon
  <2> QED
    BY <2>1, <2>8, Zenon
<1>5. N \in Q
  <2> HIDE DEF Q
  <2> QED
    BY <1>1, <1>3, <1>4, InductTo, Zenon
<1>6. N \in 0..N
  BY <1>1
<1>7. Range(s) = {s[i] : i \in 1..N}
  BY <1>1 DEF Range
<1> QED
  BY <1>2, <1>5, <1>6, <1>7, Zenon

\* The lists that Concat goes through.
Joined(f, T, ss) ==
    /\ f \in [0..Len(ss) -> Seq(T)] /\ f[0] = <<>>
    /\ \A i \in 1..Len(ss) : f[i] = f[i - 1] \o ss[i]
    /\ Concat(ss) = f[Len(ss)]

\* There are such lists.
LEMMA ConcatSteps ==
    ASSUME NEW T, NEW ss \in Seq(Seq(T))
    PROVE  \E f : Joined(f, T, ss)
<1> DEFINE N == Len(ss)
           E(f) == [i \in 0..N |-> IF i = 0 THEN <<>> ELSE f[i - 1] \o ss[i]]
           step == [i \in 1..N |-> [q \in Seq(T) |-> q \o ss[i]]]
<1>1. N \in Nat /\ <<>> \in Seq(T) /\ \A i \in 1..N : ss[i] \in Seq(T)
  OBVIOUS
<1>2. \A q \in Seq(T) : \A i \in 1..N : q \o ss[i] \in Seq(T)
  BY <1>1
<1> HIDE DEF N
<1>3. StepsOf(Seq(T), <<>>, N, step)
  <2>1. \A i \in 1..N : [q \in Seq(T) |-> q \o ss[i]] \in [Seq(T) -> Seq(T)]
    BY <1>2, Zenon
  <2> QED
    BY <1>1, <2>1, Zenon DEF StepsOf
<1>4. PICK f : Values(f, Seq(T), <<>>, N, step)
  BY <1>3, Recursion, Zenon
<1>5. \A i \in 1..N : i \in 0..N /\ i - 1 \in 0..N /\ i # 0
  BY <1>1
<1>6. /\ f \in [0..N -> Seq(T)] /\ f[0] = <<>>
      /\ \A i \in 1..N : f[i] = f[i - 1] \o ss[i]
  <2>1. f \in [0..N -> Seq(T)] /\ f[0] = <<>> /\ \A i \in 1..N : f[i] = step[i][f[i - 1]]
    BY <1>4, Zenon DEF Values
  <2> QED
    BY <1>5, <2>1, Zenon
<1>7. f = E(f)
  <2>1. \A i \in 0..N : i = 0 \/ i \in 1..N
    BY <1>1
  <2> QED
    BY <1>6, <2>1, Zenon
<1>8. PICK g : g = CHOOSE h : h = E(h)
  BY Zenon
<1>9. g = E(g) /\ Concat(ss) = g[N]
  <2>1. g = E(g)
    BY <1>7, <1>8, Zenon
  <2>2. Concat(ss) = g[N]
    BY <1>8, Zenon DEF Concat, N
  <2> QED
    BY <2>1, <2>2, Zenon
<1>10. g[0] = <<>> /\ \A i \in 1..N : g[i] = g[i - 1] \o ss[i]
  <2>1. 0 \in 0..N
    BY <1>1
  <2>2. \A i \in 0..N : g[i] = IF i = 0 THEN <<>> ELSE g[i - 1] \o ss[i]
    BY <1>9, Zenon
  <2> QED
    BY <1>5, <2>1, <2>2, Zenon
<1>11. Alike(N, f, g)
  BY <1>1, <1>6, <1>10, Zenon DEF Alike
<1>12. Concat(ss) = f[N]
  BY <1>9, <1>11, SameValues, Zenon
<1> QED
  BY <1>6, <1>12, Zenon DEF N, Joined

\* The concatenation of lists has the members of all of them.
LEMMA ConcatFacts ==
    ASSUME NEW T, NEW ss \in Seq(Seq(T))
    PROVE  Concat(ss) \in Seq(T) /\ Range(Concat(ss)) = UNION {Range(q) : q \in Range(ss)}
<1> DEFINE N == Len(ss)
<1>1. N \in Nat /\ DOMAIN ss = 1..N /\ \A i \in 1..N : ss[i] \in Seq(T)
  OBVIOUS
<1>2. PICK f : Joined(f, T, ss)
  BY ConcatSteps, Zenon
<1>3. /\ f \in [0..N -> Seq(T)] /\ f[0] = <<>>
      /\ \A i \in 1..N : f[i] = f[i - 1] \o ss[i]
      /\ Concat(ss) = f[N]
  BY <1>2, Zenon DEF Joined
<1> HIDE DEF N
<1> DEFINE Q == {n \in 0..N : \A x : x \in Range(f[n]) <=> \E i \in 1..n : x \in Range(ss[i])}
<1>4. 0 \in Q
  <2>1. Range(<<>>) = {} /\ 1..0 = {} /\ 0 \in 0..N
    BY <1>1 DEF Range
  <2> QED
    BY <1>3, <2>1, Zenon
<1>5. ASSUME NEW n \in 0..(N - 1), n \in Q PROVE n + 1 \in Q
  <2>1. /\ n + 1 \in 1..N /\ (n + 1) - 1 = n /\ n \in 0..N /\ n + 1 \in 0..N
        /\ 1..(n + 1) = (1..n) \cup {n + 1}
    BY <1>1
  <2>2. PICK q, e : q = f[n] /\ e = ss[n + 1]
    BY Zenon
  <2>3. q \in Seq(T) /\ e \in Seq(T) /\ f[n + 1] = q \o e
    BY <1>1, <1>3, <2>1, <2>2, Zenon
  <2>4. Range(q \o e) = Range(q) \cup Range(e)
    BY <2>3, ConcatSet, Zenon
  <2>5. \A x : x \in Range(q) <=> \E i \in 1..n : x \in Range(ss[i])
    BY <1>5, <2>2, Zenon
  <2>6. ASSUME NEW x PROVE x \in Range(f[n + 1]) <=> \E i \in 1..(n + 1) : x \in Range(ss[i])
    BY <2>1, <2>2, <2>3, <2>4, <2>5, Zenon
  <2> QED
    BY <2>1, <2>6, Zenon
<1>6. N \in Q
  <2> HIDE DEF Q
  <2> QED
    BY <1>1, <1>4, <1>5, InductTo, Zenon
<1>7. N \in 0..N
  BY <1>1
<1>8. Concat(ss) \in Seq(T)
  BY <1>3, <1>7, Zenon
<1>9. \A q : q \in Range(ss) <=> \E i \in 1..N : q = ss[i]
  BY <1>1, Zenon DEF Range
<1>10. \A x : x \in Range(Concat(ss)) <=> \E q \in Range(ss) : x \in Range(q)
  BY <1>3, <1>6, <1>9, Zenon
<1> QED
  BY <1>8, <1>10, Zenon

\* A finite set is listed with all its members.
LEMMA ListFacts ==
    ASSUME NEW S, IsFiniteSet(S)
    PROVE  AnyOrder(S) \in Seq(S) /\ Range(AnyOrder(S)) = S
<1>1. Cardinality(S) \in Nat /\ ExistsBijection(1..Cardinality(S), S)
  BY FS_CardinalityType, Zenon
<1>2. PICK n : n = Cardinality(S)
  BY Zenon
<1>3. \E f \in [1..n -> S] : IsInjective(f)
  BY <1>1, <1>2, Zenon DEF ExistsBijection, Bijection, Injection
<1>4. PICK f : f = AnyOrder(S)
  BY Zenon
<1>5. f \in Injection(1..n, S)
  BY <1>2, <1>3, <1>4, Zenon DEF AnyOrder, Injection
<1>6. Cardinality(1..n) = n
  BY <1>1, <1>2, FS_Interval
<1>7. f \in Surjection(1..n, S)
  BY <1>2, <1>5, <1>6, FS_Injection, Zenon
<1>8. f \in [1..n -> S] /\ \A y \in S : \E i \in 1..n : f[i] = y
  BY <1>5, <1>7, Zenon DEF Injection, Surjection
<1>9. f \in Seq(S) /\ DOMAIN f = 1..n
  BY <1>1, <1>2, <1>8
<1> QED
  BY <1>4, <1>8, <1>9, Zenon DEF Range

-----------------------------------------------------------------------------
(* The edges of a workflow. *)

\* The nodes a list of edges leads to.
LEMMA TargetsFacts ==
    ASSUME NEW edges \in Seq(EdgeType)
    PROVE  /\ Targets(edges) \in Seq(Node)
           /\ \A t : t \in Range(Targets(edges)) <=> \E e \in Range(edges) : e.to = t
<1>1. PICK N, c : N = Len(edges) /\ c = Targets(edges)
  BY Zenon
<1>2. N \in Nat /\ DOMAIN edges = 1..N /\ \A i \in 1..N : edges[i] \in EdgeType
  BY <1>1
<1>3. \A i \in 1..N : edges[i].to \in Node
  BY <1>2, Zenon DEF EdgeType
<1>4. c \in [1..N -> Node] /\ DOMAIN c = 1..N /\ \A i \in 1..N : c[i] = edges[i].to
  BY <1>1, <1>2, <1>3, Zenon DEF Targets
<1>5. c \in Seq(Node)
  BY <1>2, <1>4
<1>6. ASSUME NEW t PROVE t \in Range(c) <=> \E e \in Range(edges) : e.to = t
  <2>1. t \in Range(c) <=> \E i \in 1..N : edges[i].to = t
    BY <1>4, Zenon DEF Range
  <2>2. \A e : e \in Range(edges) <=> \E i \in 1..N : edges[i] = e
    BY <1>2, Zenon DEF Range
  <2> QED
    BY <2>1, <2>2, Zenon
<1> QED
  BY <1>1, <1>5, <1>6, Zenon

\* The edges of a node are those of the schema that start there.
LEMMA EdgesFacts ==
    ASSUME NEW schema, IsSchema(schema), NEW n
    PROVE  /\ EdgesFrom(schema, n) \in Seq(EdgeType)
           /\ \A e : e \in Range(EdgesFrom(schema, n)) <=> e \in Range(schema.edges) /\ e.from = n
<1>1. schema.edges \in Seq(EdgeType)
  BY Zenon DEF IsSchema
<1>2. PICK S : S = {e \in Range(schema.edges) : e.from = n}
  BY Zenon
<1>3. /\ Only(schema.edges, S) \in Seq(EdgeType)
      /\ Range(Only(schema.edges, S)) = Range(schema.edges) \cap S
  BY <1>1, OnlyFacts
<1>4. EdgesFrom(schema, n) = Only(schema.edges, S)
  BY <1>2, Zenon DEF EdgesFrom
<1> QED
  BY <1>2, <1>3, <1>4, Zenon

\* Those of them with condition c.
LEMMA ConditionFacts ==
    ASSUME NEW edges \in Seq(EdgeType), NEW c
    PROVE  /\ WithCondition(edges, c) \in Seq(EdgeType)
           /\ \A e : e \in Range(WithCondition(edges, c)) <=> e \in Range(edges) /\ e.cond = c
<1>1. PICK S : S = {e \in Range(edges) : e.cond = c}
  BY Zenon
<1>2. Only(edges, S) \in Seq(EdgeType) /\ Range(Only(edges, S)) = Range(edges) \cap S
  BY OnlyFacts
<1>3. WithCondition(edges, c) = Only(edges, S)
  BY <1>1, Zenon DEF WithCondition
<1> QED
  BY <1>1, <1>2, <1>3, Zenon

\* The members of a list of edges are edges.
LEMMA MemberType ==
    ASSUME NEW T, NEW s \in Seq(T), NEW e \in Range(s)
    PROVE  e \in T
  BY DEF Range

\* An edge of the schema from n to t.
Leads(schema, n, t) == \E e \in Range(schema.edges) : e.from = n /\ e.to = t

\* And one with condition c.
LeadsIf(schema, n, c, t) == \E e \in Range(schema.edges) : e.from = n /\ e.cond = c /\ e.to = t

\* Where the edges of a node lead, all together and those with a condition.
LEMMA NextFacts ==
    ASSUME NEW schema, IsSchema(schema), NEW n
    PROVE  /\ Targets(EdgesFrom(schema, n)) \in Seq(Node)
           /\ \A t : t \in Range(Targets(EdgesFrom(schema, n))) <=> Leads(schema, n, t)
           /\ \A c : /\ NextNodes(schema, n, c) \in Seq(Node)
                     /\ \A t : t \in Range(NextNodes(schema, n, c)) <=> LeadsIf(schema, n, c, t)
<1>1. PICK edges : edges = EdgesFrom(schema, n)
  BY Zenon
<1>2. /\ edges \in Seq(EdgeType)
      /\ \A e : e \in Range(edges) <=> e \in Range(schema.edges) /\ e.from = n
  BY <1>1, EdgesFacts, Zenon
<1>3. /\ Targets(edges) \in Seq(Node)
      /\ \A t : t \in Range(Targets(edges)) <=> \E e \in Range(edges) : e.to = t
  BY <1>2, TargetsFacts, Zenon
<1>4. \A t : t \in Range(Targets(edges)) <=> Leads(schema, n, t)
  BY <1>2, <1>3, Zenon DEF Leads
<1>5. ASSUME NEW c
      PROVE  /\ NextNodes(schema, n, c) \in Seq(Node)
             /\ \A t : t \in Range(NextNodes(schema, n, c)) <=> LeadsIf(schema, n, c, t)
  <2>1. PICK some : some = WithCondition(edges, c)
    BY Zenon
  <2>2. some \in Seq(EdgeType) /\ \A e : e \in Range(some) <=> e \in Range(edges) /\ e.cond = c
    BY <1>2, <2>1, ConditionFacts, Zenon
  <2>3. /\ Targets(some) \in Seq(Node)
        /\ \A t : t \in Range(Targets(some)) <=> \E e \in Range(some) : e.to = t
    BY <2>2, TargetsFacts, Zenon
  <2>4. \A t : t \in Range(Targets(some)) <=> LeadsIf(schema, n, c, t)
    BY <1>2, <2>2, <2>3, Zenon DEF LeadsIf
  <2>5. NextNodes(schema, n, c) = Targets(some)
    BY <1>1, <2>1, Zenon DEF NextNodes
  <2> QED
    BY <2>3, <2>4, <2>5, Zenon
<1> QED
  BY <1>1, <1>3, <1>4, <1>5, Zenon

-----------------------------------------------------------------------------
(* What the compiler makes of a workflow. *)

\* The rules of a node and its default lead to its dependents; only a branch
\* has them, and no branch is a loop.
NodeOK(x, n) ==
    /\ \A c \in DOMAIN x[n].rules :
          /\ c # "" /\ x[n].rules[c] # <<>>
          /\ Range(x[n].rules[c]) \subseteq Range(x[n].node.dependents)
    /\ Range(x[n].default) \subseteq Range(x[n].node.dependents)
    /\ IF HasBranch(x[n].node)
       THEN ~HasLoop(x[n].node)
       ELSE DOMAIN x[n].rules = {} /\ x[n].default = <<>>

\* What every IR that the compiler has made satisfies, and what PatchRun needs
\* to turn it back into a workflow.
IROK(x) == IsIR(x) /\ \A n \in DOMAIN x : NodeOK(x, n)

\* IRWellFormed for an IR that has not passed the cycle check.
WellFormed(x) ==
    /\ findEntryNodes([n \in DOMAIN x |-> x[n].node]) # {}
    /\ \E n \in DOMAIN x : x[n].node.isTerminal
    /\ \A n \in DOMAIN x :
          /\ Dependents(x)[n] \subseteq DOMAIN x
          /\ HasLoop(x[n].node) => x[n].node.loop.back \in DOMAIN x
          /\ \A m \in DOMAIN x : n \in x[m].node.dependencies <=> m \in Dependents(x)[n]
          /\ HasBranch(x[n].node) =>
                Dependents(x)[n] = UNION {Range(next) : next \in x[n].node.branch}

\* A condition node, or an approval with conditions.
Branches(schema, n) ==
    \/ schema.nodes[n].type = "conditional"
    \/ schema.nodes[n].type = "hitl" /\ HasConditionalEdges(schema, n)

\* The compiled node, field by field.
CompilesTo(x, schema, n) ==
    /\ DOMAIN x = DOMAIN schema.nodes
    /\ x[n].node.type = IF schema.nodes[n].type \in ControlType THEN "task" ELSE schema.nodes[n].type
    /\ x[n].node.dependencies = {e.from : e \in {e \in Range(schema.edges) : e.to = n}}
    /\ x[n].node.dependents = Targets(EdgesFrom(schema, n))
    /\ x[n].node.branch = IF Branches(schema, n)
                          THEN createBranchConfig(EdgesFrom(schema, n)) ELSE {}
    /\ x[n].node.loop = IF schema.nodes[n].type = "loop" THEN schema.nodes[n].loop ELSE NoLoop(n)
    /\ x[n].node.isTerminal \in BOOLEAN
    /\ x[n].node = [type |-> x[n].node.type, dependencies |-> x[n].node.dependencies,
                    dependents |-> x[n].node.dependents, branch |-> x[n].node.branch,
                    loop |-> x[n].node.loop, isTerminal |-> x[n].node.isTerminal]
    /\ HasBranchConfig(schema, n) <=> HasBranch(x[n].node)
    /\ x[n].rules = IF HasBranchConfig(schema, n)
                    THEN [c \in Conditions(schema, n) |-> NextNodes(schema, n, c)] ELSE NoRules
    /\ x[n].default = IF HasBranchConfig(schema, n) THEN NextNodes(schema, n, "") ELSE <<>>

\* That is what the compiler makes of a node.
LEMMA CompiledNode ==
    ASSUME NEW schema, NEW n \in DOMAIN schema.nodes, NEW x, x = Compiled(schema)
    PROVE  CompilesTo(x, schema, n)
<1>1. PICK c : c = convertWorkflowNode(schema, n)
  BY Zenon
<1>2. /\ c.type = IF schema.nodes[n].type \in ControlType THEN "task" ELSE schema.nodes[n].type
      /\ c.dependents = Targets(EdgesFrom(schema, n))
      /\ c.branch = IF Branches(schema, n) THEN createBranchConfig(EdgesFrom(schema, n)) ELSE {}
      /\ c.loop = IF schema.nodes[n].type = "loop" THEN schema.nodes[n].loop ELSE NoLoop(n)
  BY <1>1, Zenon DEF convertWorkflowNode, Branches, ControlType
<1>3. PICK nodes : nodes = CompileWorkflowSchema(schema)
  BY Zenon
<1>4. /\ DOMAIN nodes = DOMAIN schema.nodes
      /\ nodes[n] = [type |-> c.type,
                     dependencies |-> {e.from : e \in {e \in Range(schema.edges) : e.to = n}},
                     dependents |-> c.dependents, branch |-> c.branch, loop |-> c.loop,
                     isTerminal |-> isTerminal(c.dependents, c.branch, c.loop)]
  BY <1>1, <1>3, Zenon DEF CompileWorkflowSchema
<1>5. /\ DOMAIN x = DOMAIN schema.nodes
      /\ x[n].node = nodes[n]
      /\ x[n].rules = IF HasBranchConfig(schema, n)
                      THEN [d \in Conditions(schema, n) |-> NextNodes(schema, n, d)] ELSE NoRules
      /\ x[n].default = IF HasBranchConfig(schema, n) THEN NextNodes(schema, n, "") ELSE <<>>
  BY <1>3, <1>4, Zenon DEF Compiled
<1>6. /\ x[n].node.type = c.type
      /\ x[n].node.dependencies = {e.from : e \in {e \in Range(schema.edges) : e.to = n}}
      /\ x[n].node.dependents = c.dependents /\ x[n].node.branch = c.branch /\ x[n].node.loop = c.loop
      /\ x[n].node.isTerminal \in BOOLEAN
      /\ x[n].node = [type |-> x[n].node.type, dependencies |-> x[n].node.dependencies,
                      dependents |-> x[n].node.dependents, branch |-> x[n].node.branch,
                      loop |-> x[n].node.loop, isTerminal |-> x[n].node.isTerminal]
  <2>1. PICK d : d = nodes[n]
    BY Zenon
  <2>2. PICK deps : deps = {e.from : e \in {e \in Range(schema.edges) : e.to = n}}
    BY Zenon
  <2>3. PICK term : term = isTerminal(c.dependents, c.branch, c.loop)
    BY Zenon
  <2>4. d = [type |-> c.type, dependencies |-> deps, dependents |-> c.dependents,
             branch |-> c.branch, loop |-> c.loop, isTerminal |-> term]
    BY <1>4, <2>1, <2>2, <2>3, Zenon
  <2>5. /\ d.type = c.type /\ d.dependencies = deps /\ d.dependents = c.dependents
        /\ d.branch = c.branch /\ d.loop = c.loop /\ d.isTerminal = term
    BY <2>4
  <2>6. d = [type |-> d.type, dependencies |-> d.dependencies, dependents |-> d.dependents,
             branch |-> d.branch, loop |-> d.loop, isTerminal |-> d.isTerminal]
    BY <2>4, <2>5, Zenon
  <2>7. term \in BOOLEAN
    BY <2>3, Zenon DEF isTerminal
  <2>8. x[n].node = d
    BY <1>5, <2>1, Zenon
  <2> QED
    BY <2>2, <2>5, <2>6, <2>7, <2>8, Zenon
<1>7. HasBranchConfig(schema, n) <=> HasBranch(x[n].node)
  BY <1>1, <1>6, Zenon DEF HasBranchConfig, HasBranch
<1> QED
  BY <1>2, <1>5, <1>6, <1>7, Zenon DEF CompilesTo

\* The lists of a branch have the targets of all its edges.
LEMMA BranchTargets ==
    ASSUME NEW edges \in Seq(EdgeType)
    PROVE  /\ createBranchConfig(edges) \in SUBSET Seq(Node)
           /\ createBranchConfig(edges) # {}
           /\ UNION {Range(next) : next \in createBranchConfig(edges)} = Range(Targets(edges))
<1>1. PICK C : C = {e.cond : e \in Range(edges)} \cup {""}
  BY Zenon
<1>2. createBranchConfig(edges) = {Targets(WithCondition(edges, c)) : c \in C}
  BY <1>1, Zenon DEF createBranchConfig
<1>3. ASSUME NEW c
      PROVE  /\ Targets(WithCondition(edges, c)) \in Seq(Node)
             /\ \A t : t \in Range(Targets(WithCondition(edges, c)))
                          <=> \E e \in Range(edges) : e.cond = c /\ e.to = t
  <2>1. PICK some : some = WithCondition(edges, c)
    BY Zenon
  <2>2. some \in Seq(EdgeType) /\ \A e : e \in Range(some) <=> e \in Range(edges) /\ e.cond = c
    BY <2>1, ConditionFacts, Zenon
  <2>3. /\ Targets(some) \in Seq(Node)
        /\ \A t : t \in Range(Targets(some)) <=> \E e \in Range(some) : e.to = t
    BY <2>2, TargetsFacts, Zenon
  <2> QED
    BY <2>1, <2>2, <2>3, Zenon
<1>4. \A t : t \in Range(Targets(edges)) <=> \E e \in Range(edges) : e.to = t
  BY TargetsFacts, Zenon
<1>5. ASSUME NEW t
      PROVE  t \in UNION {Range(next) : next \in createBranchConfig(edges)} <=> t \in Range(Targets(edges))
  <2>1. t \in UNION {Range(next) : next \in createBranchConfig(edges)}
           <=> \E c \in C : t \in Range(Targets(WithCondition(edges, c)))
    BY <1>2, Zenon
  <2>2. \A e \in Range(edges) : e.cond \in C
    BY <1>1, Zenon
  <2> QED
    BY <1>3, <1>4, <2>1, <2>2, Zenon
<1>6. createBranchConfig(edges) # {}
  BY <1>1, <1>2, Zenon
<1>7. createBranchConfig(edges) \in SUBSET Seq(Node)
  BY <1>2, <1>3, Zenon
<1>8. UNION {Range(next) : next \in createBranchConfig(edges)} = Range(Targets(edges))
  BY <1>5
<1> QED
  BY <1>6, <1>7, <1>8, Zenon

\* What a compiled node leads to and comes after.
LEMMA CompiledLinks ==
    ASSUME NEW schema, IsSchema(schema), NEW n \in DOMAIN schema.nodes, NEW x, x = Compiled(schema)
    PROVE  /\ x[n].node.dependents \in Seq(Node)
           /\ \A t : t \in Range(x[n].node.dependents) <=> Leads(schema, n, t)
           /\ \A m : m \in x[n].node.dependencies <=> Leads(schema, m, n)
           /\ HasBranch(x[n].node) =>
                 Range(x[n].node.dependents) = UNION {Range(next) : next \in x[n].node.branch}
           /\ x[n].node.branch \in SUBSET Seq(Node)
           /\ HasBranch(x[n].node) <=> Branches(schema, n)
<1>0. CompilesTo(x, schema, n)
  BY CompiledNode, Zenon
<1>1. PICK d, edges : d = x[n].node /\ edges = EdgesFrom(schema, n)
  BY Zenon
<1>2. /\ d.dependencies = {e.from : e \in {e \in Range(schema.edges) : e.to = n}}
      /\ d.dependents = Targets(edges)
      /\ d.branch = IF Branches(schema, n) THEN createBranchConfig(edges) ELSE {}
  <2>1. /\ x[n].node.dependencies = {e.from : e \in {e \in Range(schema.edges) : e.to = n}}
        /\ x[n].node.dependents = Targets(EdgesFrom(schema, n))
        /\ x[n].node.branch = IF Branches(schema, n)
                              THEN createBranchConfig(EdgesFrom(schema, n)) ELSE {}
    BY <1>0, Zenon DEF CompilesTo
  <2> QED
    BY <1>1, <2>1, Zenon
<1>3. edges \in Seq(EdgeType)
  BY <1>1, EdgesFacts, Zenon
<1>4. /\ Targets(edges) \in Seq(Node)
      /\ \A t : t \in Range(Targets(edges)) <=> Leads(schema, n, t)
  BY <1>1, NextFacts, Zenon
<1>5. \A m : m \in d.dependencies <=> Leads(schema, m, n)
  BY <1>2, Zenon DEF Leads
<1>6. /\ createBranchConfig(edges) \in SUBSET Seq(Node)
      /\ createBranchConfig(edges) # {}
      /\ UNION {Range(next) : next \in createBranchConfig(edges)} = Range(Targets(edges))
  BY <1>3, BranchTargets, Zenon
<1>7. CASE Branches(schema, n)
  <2>1. d.branch = createBranchConfig(edges)
    BY <1>2, <1>7, Zenon
  <2> QED
    BY <1>1, <1>2, <1>4, <1>5, <1>6, <1>7, <2>1, Zenon DEF HasBranch
<1>8. CASE ~Branches(schema, n)
  <2>1. d.branch = {}
    BY <1>2, <1>8, Zenon
  <2> QED
    BY <1>1, <1>2, <1>4, <1>5, <1>8, <2>1, Zenon DEF HasBranch
<1> QED
  BY <1>7, <1>8, Zenon

\* A compiled node has the type of its kind.
LEMMA CompiledType ==
    ASSUME NEW schema, IsSchema(schema), NEW n \in DOMAIN schema.nodes, NEW x, x = Compiled(schema),
           Converts(schema.nodes[n])
    PROVE  x[n].node \in NodeDef
<1>0. CompilesTo(x, schema, n)
  BY CompiledNode, Zenon
<1>1. PICK d : d = x[n].node
  BY Zenon
<1>2. PICK w : w = schema.nodes[n]
  BY Zenon
<1>3. n \in Node /\ w.loop \in LoopConfig
  BY <1>2, Zenon DEF IsSchema, WorkflowNode
<1>4. /\ d = [type |-> d.type, dependencies |-> d.dependencies, dependents |-> d.dependents,
            branch |-> d.branch, loop |-> d.loop, isTerminal |-> d.isTerminal]
      /\ d.type = IF w.type \in ControlType THEN "task" ELSE w.type
      /\ d.loop = IF w.type = "loop" THEN w.loop ELSE NoLoop(n)
      /\ d.isTerminal \in BOOLEAN
  <2>1. /\ x[n].node = [type |-> x[n].node.type, dependencies |-> x[n].node.dependencies,
                        dependents |-> x[n].node.dependents, branch |-> x[n].node.branch,
                        loop |-> x[n].node.loop, isTerminal |-> x[n].node.isTerminal]
        /\ x[n].node.type = IF schema.nodes[n].type \in ControlType THEN "task" ELSE schema.nodes[n].type
        /\ x[n].node.loop = IF schema.nodes[n].type = "loop" THEN schema.nodes[n].loop ELSE NoLoop(n)
        /\ x[n].node.isTerminal \in BOOLEAN
    BY <1>0, Zenon DEF CompilesTo
  <2> QED
    BY <1>1, <1>2, <2>1, Zenon
<1>5. d.type \in NodeType
  BY <1>2, <1>4, Zenon DEF Converts, isValidExecutableType, NodeType
<1>6. /\ d.dependents \in Seq(Node) /\ d.branch \in BranchConfig
      /\ \A m : m \in d.dependencies <=> Leads(schema, m, n)
  BY <1>1, CompiledLinks, Zenon DEF BranchConfig
<1>7. d.dependencies \in SUBSET Node
  <2>1. schema.edges \in Seq(EdgeType)
    BY Zenon DEF IsSchema
  <2>2. ASSUME NEW e \in Range(schema.edges) PROVE e.from \in Node
    <3>1. e \in EdgeType
      BY <2>1, MemberType
    <3> QED
      BY <3>1, Zenon DEF EdgeType
  <2> QED
    <3>1. ASSUME NEW m \in d.dependencies PROVE m \in Node
      BY <1>6, <2>2, <3>1, Zenon DEF Leads
    <3> QED
      BY <3>1, Zenon
<1>8. NoLoop(n) \in LoopConfig
  BY <1>3 DEF NoLoop, LoopConfig
<1>9. d.loop \in LoopConfig
  BY <1>3, <1>4, <1>8, Zenon
<1> QED
  BY <1>1, <1>4, <1>5, <1>6, <1>7, <1>9, Zenon DEF NodeDef

\* Its conditions and its default are edges to dependents.
LEMMA CompiledRules ==
    ASSUME NEW schema, IsSchema(schema), NEW n \in DOMAIN schema.nodes, NEW x, x = Compiled(schema)
    PROVE  /\ DOMAIN x[n].rules \subseteq Cond
           /\ \A c \in DOMAIN x[n].rules : x[n].rules[c] \in Seq(Node)
           /\ x[n].default \in Seq(Node)
           /\ NodeOK(x, n)
<1>0. CompilesTo(x, schema, n)
  BY CompiledNode, Zenon
<1>1. PICK rules, default : rules = x[n].rules /\ default = x[n].default
  BY Zenon
<1>2. PICK D : D = Range(x[n].node.dependents)
  BY Zenon
<1>3. \A t : t \in D <=> Leads(schema, n, t)
  BY <1>2, CompiledLinks, Zenon
<1>4. \A c : /\ NextNodes(schema, n, c) \in Seq(Node)
             /\ \A t : t \in Range(NextNodes(schema, n, c)) <=> LeadsIf(schema, n, c, t)
  BY NextFacts, Zenon
<1>5. \A c : Range(NextNodes(schema, n, c)) \subseteq D
  BY <1>3, <1>4, Zenon DEF Leads, LeadsIf
<1>6. CASE HasBranchConfig(schema, n)
  <2>1. /\ rules = [c \in Conditions(schema, n) |-> NextNodes(schema, n, c)]
        /\ default = NextNodes(schema, n, "")
        /\ HasBranch(x[n].node)
    BY <1>1, <1>6, <1>0, Zenon DEF CompilesTo
  <2>2. ASSUME NEW c \in Conditions(schema, n)
        PROVE  c \in Cond /\ c # "" /\ NextNodes(schema, n, c) # <<>>
    <3>1. PICK e \in Range(EdgesFrom(schema, n)) : e.cond = c
      BY Zenon DEF Conditions
    <3>2. e \in Range(schema.edges) /\ e.from = n
      BY <3>1, EdgesFacts, Zenon
    <3>3. e \in EdgeType
      BY <3>2, MemberType DEF IsSchema
    <3>4. c # "" /\ c \in Cond
      BY <3>1, <3>3, Zenon DEF Conditions, EdgeType
    <3>5. e.to \in Range(NextNodes(schema, n, c))
      BY <1>4, <3>1, <3>2, Zenon DEF LeadsIf
    <3>6. Range(<<>>) = {}
      BY DEF Range
    <3> QED
      BY <3>4, <3>5, <3>6, Zenon
  <2>3. /\ DOMAIN rules = Conditions(schema, n)
        /\ \A c \in DOMAIN rules : rules[c] = NextNodes(schema, n, c)
    BY <2>1, Zenon
  <2>4. \A c \in DOMAIN rules : /\ c \in Cond /\ c # "" /\ rules[c] # <<>>
                                /\ rules[c] \in Seq(Node) /\ Range(rules[c]) \subseteq D
    BY <1>4, <1>5, <2>2, <2>3, Zenon
  <2>5. default \in Seq(Node) /\ Range(default) \subseteq D
    BY <1>4, <1>5, <2>1, Zenon
  <2>6. ~HasLoop(x[n].node)
    <3>1. Branches(schema, n)
      BY <2>1, CompiledLinks, Zenon
    <3>2. schema.nodes[n].type # "loop"
      BY <3>1 DEF Branches
    <3>3. x[n].node.loop = NoLoop(n)
      BY <1>0, <3>2, Zenon DEF CompilesTo
    <3>4. NoLoop(n).max = 0
      BY Zenon DEF NoLoop
    <3> QED
      BY <3>3, <3>4 DEF HasLoop
  <2>7. NodeOK(x, n)
    BY <1>1, <1>2, <2>1, <2>4, <2>5, <2>6, Zenon DEF NodeOK
  <2> QED
    BY <1>1, <2>4, <2>5, <2>7, Zenon
<1>7. CASE ~HasBranchConfig(schema, n)
  <2>1. rules = NoRules /\ default = <<>>
    BY <1>1, <1>7, <1>0, Zenon DEF CompilesTo
  <2>2. DOMAIN rules = {}
    BY <2>1, Zenon DEF NoRules
  <2>3. Range(<<>>) = {} /\ <<>> \in Seq(Node)
    BY DEF Range
  <2> QED
    BY <1>0, <1>1, <1>2, <1>7, <2>1, <2>2, <2>3, Zenon DEF NodeOK, CompilesTo
<1> QED
  BY <1>6, <1>7, Zenon

\* A schema all of whose nodes and edges are in order.
Checked(schema) ==
    /\ IsSchema(schema)
    /\ \A n \in DOMAIN schema.nodes : Converts(schema.nodes[n])
    /\ EdgesExist(schema)
    /\ validate(Compiled(schema))

\* What is compiled from it can be executed, but for cycles.
LEMMA CompiledOK ==
    ASSUME NEW schema, Checked(schema)
    PROVE  IROK(Compiled(schema)) /\ WellFormed(Compiled(schema))
<1>1. PICK x : x = Compiled(schema)
  BY Zenon
<1>2. /\ IsSchema(schema) /\ EdgesExist(schema) /\ validate(x)
      /\ \A n \in DOMAIN schema.nodes : Converts(schema.nodes[n])
  BY <1>1, Zenon DEF Checked
<1>3. DOMAIN x = DOMAIN schema.nodes
  BY <1>1, Zenon DEF Compiled, CompileWorkflowSchema
<1>4. DOMAIN x \subseteq Node
  BY <1>2, <1>3, Zenon DEF IsSchema
<1>5. ASSUME NEW n \in DOMAIN x
      PROVE  /\ x[n].node.dependents \in Seq(Node)
             /\ \A t : t \in Range(x[n].node.dependents) <=> Leads(schema, n, t)
             /\ \A m : m \in x[n].node.dependencies <=> Leads(schema, m, n)
             /\ HasBranch(x[n].node) =>
                   Range(x[n].node.dependents) = UNION {Range(next) : next \in x[n].node.branch}
  BY <1>1, <1>2, <1>3, CompiledLinks, Zenon
<1>6. ASSUME NEW n \in DOMAIN x PROVE x[n].node \in NodeDef
  BY <1>1, <1>2, <1>3, CompiledType, Zenon
<1>7. ASSUME NEW n \in DOMAIN x
      PROVE  /\ DOMAIN x[n].rules \subseteq Cond
             /\ \A c \in DOMAIN x[n].rules : x[n].rules[c] \in Seq(Node)
             /\ x[n].default \in Seq(Node)
             /\ NodeOK(x, n)
  BY <1>1, <1>2, <1>3, CompiledRules, Zenon
<1>8. IROK(x)
  BY <1>4, <1>6, <1>7, Zenon DEF IROK, IsIR
<1>9. ASSUME NEW n \in DOMAIN x
      PROVE  /\ Dependents(x)[n] = Range(x[n].node.dependents)
             /\ Dependents(x)[n] \subseteq DOMAIN x
             /\ HasLoop(x[n].node) => x[n].node.loop.back \in DOMAIN x
             /\ \A m \in DOMAIN x : n \in x[m].node.dependencies <=> m \in Dependents(x)[n]
             /\ HasBranch(x[n].node) =>
                   Dependents(x)[n] = UNION {Range(next) : next \in x[n].node.branch}
  <2>1. Dependents(x)[n] = Range(x[n].node.dependents)
    BY Zenon DEF Dependents
  <2>2. \A t : t \in Dependents(x)[n] <=> Leads(schema, n, t)
    <3>1. \A t : t \in Range(x[n].node.dependents) <=> Leads(schema, n, t)
      BY <1>5, Zenon
    <3> QED
      BY <2>1, <3>1, Zenon
  <2>3. ASSUME NEW t, Leads(schema, n, t) PROVE t \in DOMAIN x
    <3>1. PICK e \in Range(schema.edges) : e.to = t
      BY <2>3, Zenon DEF Leads
    <3> QED
      BY <1>2, <1>3, <3>1, Zenon DEF EdgesExist
  <2>4. \A m \in DOMAIN x : n \in x[m].node.dependencies <=> m \in Dependents(x)[n]
    BY <1>5, <2>2, Zenon
  <2>5. HasLoop(x[n].node) => x[n].node.loop.back \in DOMAIN x
    BY <1>2, Zenon DEF validate
  <2>6. Dependents(x)[n] \subseteq DOMAIN x
    BY <2>2, <2>3, Zenon
  <2>7. HasBranch(x[n].node) => Dependents(x)[n] = UNION {Range(next) : next \in x[n].node.branch}
    BY <1>5, <2>1, Zenon
  <2> QED
    BY <2>1, <2>4, <2>5, <2>6, <2>7, Zenon
<1>10. /\ findEntryNodes([n \in DOMAIN x |-> x[n].node]) # {}
       /\ \E n \in DOMAIN x : x[n].node.isTerminal
  <2>1. PICK n \in DOMAIN x : x[n].node.dependencies = {}
    BY <1>2, Zenon DEF validate
  <2>2. n \in findEntryNodes([m \in DOMAIN x |-> x[m].node])
    BY <2>1 DEF findEntryNodes
  <2>3. \E m \in DOMAIN x : x[m].node.isTerminal
    BY <1>2, Zenon DEF validate
  <2> QED
    BY <2>2, <2>3, Zenon
<1>11. WellFormed(x)
  BY <1>9, <1>10, Zenon DEF WellFormed
<1> QED
  BY <1>1, <1>8, <1>11, Zenon

\* The largest of some positions is one of them.
LEMMA MaxIn ==
    ASSUME NEW N \in Nat, NEW S \in SUBSET (1..N), S # {}
    PROVE  Max(S) \in S
<1> DEFINE B == {k \in Nat : \A i \in S : i <= k}
<1>1. N \in B
  OBVIOUS
<1>2. PICK m \in B : \A k \in B : m <= k
  <2>1. B \subseteq Nat /\ B # {}
    BY <1>1
  <2> HIDE DEF B
  <2> QED
    BY <2>1, Least
<1>3. m \in S
  <2> SUFFICES ASSUME m \notin S PROVE FALSE
    OBVIOUS
  <2>1. m \in Nat /\ \A i \in S : i \in Nat /\ i >= 1 /\ i <= m
    BY <1>2
  <2>2. \A i \in S : i <= m - 1
    BY <2>1
  <2>3. PICK i : i \in S
    BY Zenon
  <2>4. m - 1 \in Nat /\ ~(m <= m - 1)
    BY <2>1, <2>2, <2>3
  <2>5. m - 1 \in B
    BY <2>2, <2>4
  <2> QED
    BY <1>2, <2>4, <2>5
<1>4. \A i \in S : m >= i
  BY <1>2
<1> QED
  BY <1>3, <1>4, Zenon DEF Max

-----------------------------------------------------------------------------
(* A workflow with operations. *)

\* The edges of a patch.
LEMMA AddedType ==
    ASSUME NEW ops \in Seq(EditType)
    PROVE  AddedEdges(ops) \in Seq(EdgeType)
<1>1. PICK S : S = {o \in Range(ops) : o.path = "edges"}
  BY Zenon
<1>2. PICK added : added = Only(ops, S)
  BY Zenon
<1>3. added \in Seq(EditType)
  BY <1>2, OnlyFacts
<1>4. PICK N : N = Len(added)
  BY Zenon
<1>5. N \in Nat /\ DOMAIN added = 1..N /\ \A i \in 1..N : added[i] \in EditType
  BY <1>3, <1>4
<1>6. \A i \in 1..N : added[i].edge \in EdgeType
  BY <1>5, Zenon DEF EditType
<1>7. PICK f : f = [i \in 1..N |-> added[i].edge]
  BY Zenon
<1>8. f \in [1..N -> EdgeType]
  BY <1>6, <1>7, Zenon
<1>9. f \in Seq(EdgeType)
  BY <1>5, <1>8
<1>10. AddedEdges(ops) = f
  BY <1>1, <1>2, <1>5, <1>7, Zenon DEF AddedEdges
<1> QED
  BY <1>9, <1>10, Zenon

\* The nodes a patch defines.
Defined(ops) == {ops[i].id : i \in AddedNodes(ops)}

\* Schema p is the schema with the patch: every node of it is one of the
\* schema's or one of the patch's.
PatchesTo(p, schema, ops) ==
    /\ IsSchema(p)
    /\ DOMAIN p.nodes = DOMAIN schema.nodes \cup Defined(ops)
    /\ \A n \in DOMAIN schema.nodes \ Defined(ops) : p.nodes[n] = schema.nodes[n]
    /\ \A n \in DOMAIN p.nodes : \/ n \in DOMAIN schema.nodes /\ p.nodes[n] = schema.nodes[n]
                                 \/ \E i \in AddedNodes(ops) : p.nodes[n] = ops[i].def
    /\ Range(p.edges) = Range(schema.edges) \cup Range(AddedEdges(ops))

\* That is what applying a patch does.
LEMMA PatchedFacts ==
    ASSUME NEW schema, IsSchema(schema), NEW ops \in Seq(EditType), NEW p, p = applyPatch(schema, ops)
    PROVE  PatchesTo(p, schema, ops)
<1>1. PICK N : N = Len(ops)
  BY Zenon
<1>2. N \in Nat /\ DOMAIN ops = 1..N /\ \A i \in 1..N : ops[i] \in EditType
  BY <1>1
<1>3. /\ schema.edges \in Seq(EdgeType) /\ DOMAIN schema.nodes \subseteq Node
      /\ \A n \in DOMAIN schema.nodes : schema.nodes[n] \in WorkflowNode
  BY Zenon DEF IsSchema
<1>4. p.edges = schema.edges \o AddedEdges(ops)
  BY Zenon DEF applyPatch
<1>5. AddedEdges(ops) \in Seq(EdgeType)
  BY AddedType, Zenon
<1>6. p.edges \in Seq(EdgeType) /\ Range(p.edges) = Range(schema.edges) \cup Range(AddedEdges(ops))
  <2>1. PICK q, e : q = schema.edges /\ e = AddedEdges(ops)
    BY Zenon
  <2>2. q \in Seq(EdgeType) /\ e \in Seq(EdgeType) /\ p.edges = q \o e
    BY <1>3, <1>4, <1>5, <2>1, Zenon
  <2>3. Range(q \o e) = Range(q) \cup Range(e)
    BY <2>2, ConcatSet
  <2>4. q \o e \in Seq(EdgeType)
    BY <2>2
  <2> QED
    BY <2>1, <2>2, <2>3, <2>4, Zenon
<1>7. p.nodes = [n \in DOMAIN schema.nodes \cup Defined(ops) |->
                    LET here == {i \in AddedNodes(ops) : ops[i].id = n}
                    IN  IF here = {} THEN schema.nodes[n] ELSE ops[Max(here)].def]
  BY Zenon DEF applyPatch, Defined
<1>8. DOMAIN p.nodes = DOMAIN schema.nodes \cup Defined(ops)
  BY <1>7, Zenon
<1>9. ASSUME NEW n \in DOMAIN p.nodes
      PROVE  \/ n \in DOMAIN schema.nodes /\ n \notin Defined(ops) /\ p.nodes[n] = schema.nodes[n]
             \/ n \in Defined(ops) /\ \E i \in AddedNodes(ops) : p.nodes[n] = ops[i].def
  <2>1. PICK here : here = {i \in AddedNodes(ops) : ops[i].id = n}
    BY Zenon
  <2>2. p.nodes[n] = IF here = {} THEN schema.nodes[n] ELSE ops[Max(here)].def
    BY <1>7, <1>8, <2>1, Zenon
  <2>3. CASE here = {}
    <3>1. n \notin Defined(ops)
      BY <2>1, <2>3, Zenon DEF Defined
    <3> QED
      BY <1>8, <2>2, <2>3, <3>1, Zenon
  <2>4. CASE here # {}
    <3>1. here \in SUBSET (1..N)
      BY <1>2, <2>1, Zenon DEF AddedNodes
    <3>2. Max(here) \in here
      BY <1>2, <2>4, <3>1, MaxIn, Zenon
    <3>3. Max(here) \in AddedNodes(ops) /\ ops[Max(here)].id = n
      BY <2>1, <3>2, Zenon
    <3> QED
      BY <2>2, <2>4, <3>3, Zenon DEF Defined
  <2> QED
    BY <2>3, <2>4, Zenon
<1>10. /\ Defined(ops) \subseteq Node
       /\ \A i \in AddedNodes(ops) : ops[i].def \in WorkflowNode
  BY <1>2, Zenon DEF Defined, AddedNodes, EditType
<1>11. IsSchema(p)
  BY <1>3, <1>6, <1>8, <1>9, <1>10, Zenon DEF IsSchema
<1> QED
  BY <1>6, <1>8, <1>9, <1>11, Zenon DEF PatchesTo

\* A workflow with a patch that compiles is in order.
LEMMA CompilesChecked ==
    ASSUME NEW schema, IsSchema(schema), NEW ops \in Seq(EditType), Compiles(schema, ops)
    PROVE  Checked(applyPatch(schema, ops))
<1>1. PICK p : p = applyPatch(schema, ops)
  BY Zenon
<1>2. /\ \A n \in DOMAIN schema.nodes : Converts(schema.nodes[n])
      /\ \A i \in AddedNodes(ops) : Converts(ops[i].def)
      /\ EdgesExist(p) /\ validate(Compiled(p))
  BY <1>1, Zenon DEF Compiles
<1>3. /\ IsSchema(p)
      /\ \A n \in DOMAIN p.nodes : \/ n \in DOMAIN schema.nodes /\ p.nodes[n] = schema.nodes[n]
                                   \/ \E i \in AddedNodes(ops) : p.nodes[n] = ops[i].def
  <2>1. PatchesTo(p, schema, ops)
    BY <1>1, PatchedFacts, Zenon
  <2> QED
    BY <2>1, Zenon DEF PatchesTo
<1>4. \A n \in DOMAIN p.nodes : Converts(p.nodes[n])
  BY <1>2, <1>3, Zenon
<1> QED
  BY <1>1, <1>2, <1>3, <1>4, Zenon DEF Checked

-----------------------------------------------------------------------------
(* The workflow an IR is turned back into. *)

\* The condition of an edge.
EdgeCond == Cond \cup {""}

\* That of an edge without one.
Unconditional == ""

\* List f has one edge from n for each target.
EdgesTo(f, n, targets, c) ==
    /\ f \in Seq(EdgeType)
    /\ \A e : e \in Range(f) <=> \E t \in Range(targets) : e = [from |-> n, to |-> t, cond |-> c]

\* That is what EdgesOf makes.
LEMMA EdgesOfFacts ==
    ASSUME NEW n \in Node, NEW targets \in Seq(Node), NEW c \in EdgeCond
    PROVE  EdgesTo(EdgesOf(n, targets, c), n, targets, c)
<1>1. PICK N, f : N = Len(targets) /\ f = EdgesOf(n, targets, c)
  BY Zenon
<1>2. N \in Nat /\ DOMAIN targets = 1..N /\ \A i \in 1..N : targets[i] \in Node
  BY <1>1
<1>3. /\ DOMAIN f = 1..N
      /\ \A i \in 1..N : f[i] = [from |-> n, to |-> targets[i], cond |-> c]
  BY <1>1, <1>2, Zenon DEF EdgesOf
<1>4. f \in [1..N -> EdgeType]
  <2>1. f = [i \in 1..N |-> [from |-> n, to |-> targets[i], cond |-> c]]
    BY <1>1, <1>2, Zenon DEF EdgesOf
  <2>2. \A i \in 1..N : [from |-> n, to |-> targets[i], cond |-> c] \in EdgeType
    BY <1>2, Zenon DEF EdgeType, EdgeCond
  <2> QED
    BY <2>1, <2>2, Zenon
<1>5. f \in Seq(EdgeType)
  BY <1>2, <1>4
<1>6. ASSUME NEW e
      PROVE  e \in Range(f) <=> \E t \in Range(targets) : e = [from |-> n, to |-> t, cond |-> c]
  <2>1. e \in Range(f) <=> \E i \in 1..N : e = f[i]
    BY <1>3, Zenon DEF Range
  <2>2. \A t : t \in Range(targets) <=> \E i \in 1..N : t = targets[i]
    BY <1>2, Zenon DEF Range
  <2>3. ASSUME NEW i \in 1..N, e = f[i]
        PROVE  \E t \in Range(targets) : e = [from |-> n, to |-> t, cond |-> c]
    BY <1>3, <2>2, <2>3, Zenon
  <2>4. ASSUME NEW t \in Range(targets), e = [from |-> n, to |-> t, cond |-> c]
        PROVE  \E i \in 1..N : e = f[i]
    <3>1. PICK i \in 1..N : t = targets[i]
      BY <2>2, Zenon
    <3>2. e = f[i]
      BY <1>3, <2>4, <3>1, Zenon
    <3> QED
      BY <3>2, Zenon
  <2> QED
    BY <2>1, <2>3, <2>4, Zenon
<1> QED
  BY <1>1, <1>5, <1>6, Zenon DEF EdgesTo

\* List q has what the lists f[d] have.
Joins(q, T, D, f) == q \in Seq(T) /\ \A e : e \in Range(q) <=> \E d \in D : e \in Range(f[d])

\* A finite set of lists, one after the other.
LEMMA JoinFacts ==
    ASSUME NEW T, NEW D, IsFiniteSet(D), NEW f, f \in [D -> Seq(T)]
    PROVE  Joins(Concat(AnyOrder({f[d] : d \in D})), T, D, f)
<1>1. PICK S : S = {f[d] : d \in D}
  BY Zenon
<1>2. f \in Surjection(D, S)
  BY <1>1, Zenon DEF Surjection
<1>3. IsFiniteSet(S)
  BY <1>2, FS_Surjection, Zenon
<1>4. PICK ss : ss = AnyOrder(S)
  BY Zenon
<1>5. ss \in Seq(S) /\ Range(ss) = S
  BY <1>3, <1>4, ListFacts, Zenon
<1>6. S \subseteq Seq(T)
  BY <1>1, Zenon
<1>7. ss \in Seq(Seq(T))
  BY <1>5, <1>6
<1>8. Concat(ss) \in Seq(T) /\ Range(Concat(ss)) = UNION {Range(q) : q \in Range(ss)}
  BY <1>7, ConcatFacts
<1>9. ASSUME NEW e PROVE e \in Range(Concat(ss)) <=> \E d \in D : e \in Range(f[d])
  <2>1. e \in Range(Concat(ss)) <=> \E q \in S : e \in Range(q)
    BY <1>5, <1>8, Zenon
  <2> QED
    BY <1>1, <2>1, Zenon
<1> QED
  BY <1>1, <1>4, <1>8, <1>9, Zenon DEF Joins

\* Edge e is one that node n of an IR is turned back into.
BackEdge(old, n, e) ==
    \/ \E t \in Range(old[n].node.dependents) : e = [from |-> n, to |-> t, cond |-> Unconditional]
    \/ \E c \in DOMAIN old[n].rules :
          \E t \in Range(old[n].rules[c]) : e = [from |-> n, to |-> t, cond |-> c]
    \/ \E t \in Range(old[n].default) : e = [from |-> n, to |-> t, cond |-> Unconditional]

\* The edges of a node of the IR.
LEMMA BackFacts ==
    ASSUME NEW old, IsIR(old), NEW n \in DOMAIN old
    PROVE  /\ EdgesFromIR(old, n) \in Seq(EdgeType)
           /\ \A e : e \in Range(EdgesFromIR(old, n)) <=> BackEdge(old, n, e)
<1>1. PICK targets, rules, default : /\ targets = old[n].node.dependents
                                     /\ rules = old[n].rules
                                     /\ default = old[n].default
  BY Zenon
<1>2. /\ n \in Node /\ targets \in Seq(Node) /\ DOMAIN rules \subseteq Cond
      /\ \A c \in DOMAIN rules : rules[c] \in Seq(Node)
      /\ default \in Seq(Node)
  BY <1>1, Zenon DEF IsIR, NodeDef
<1>0. Unconditional \in EdgeCond /\ \A c \in DOMAIN rules : c \in EdgeCond
  BY <1>2, Zenon DEF Unconditional, EdgeCond
<1>3. PICK A : A = EdgesOf(n, targets, Unconditional)
  BY Zenon
<1>4. PICK C : C = EdgesOf(n, default, Unconditional)
  BY Zenon
<1>5. PICK f : f = [c \in DOMAIN rules |-> EdgesOf(n, rules[c], c)]
  BY Zenon
<1>6. PICK B : B = Concat(AnyOrder({f[c] : c \in DOMAIN rules}))
  BY Zenon
<1>7. /\ A \in Seq(EdgeType)
      /\ \A e : e \in Range(A) <=> \E t \in Range(targets) : e = [from |-> n, to |-> t, cond |-> Unconditional]
  <2>1. EdgesTo(A, n, targets, Unconditional)
    BY <1>0, <1>2, <1>3, EdgesOfFacts, Zenon
  <2> QED
    BY <2>1, Zenon DEF EdgesTo
<1>8. /\ C \in Seq(EdgeType)
      /\ \A e : e \in Range(C) <=> \E t \in Range(default) : e = [from |-> n, to |-> t, cond |-> Unconditional]
  <2>1. EdgesTo(C, n, default, Unconditional)
    BY <1>0, <1>2, <1>4, EdgesOfFacts, Zenon
  <2> QED
    BY <2>1, Zenon DEF EdgesTo
<1>9. ASSUME NEW c \in DOMAIN rules
      PROVE  /\ f[c] \in Seq(EdgeType)
             /\ \A e : e \in Range(f[c]) <=>
                          \E t \in Range(rules[c]) : e = [from |-> n, to |-> t, cond |-> c]
  <2>1. f[c] = EdgesOf(n, rules[c], c) /\ rules[c] \in Seq(Node) /\ c \in EdgeCond
    BY <1>0, <1>2, <1>5, Zenon
  <2>2. EdgesTo(f[c], n, rules[c], c)
    BY <1>2, <2>1, EdgesOfFacts, Zenon
  <2> QED
    BY <2>2, Zenon DEF EdgesTo
<1>10. f \in [DOMAIN rules -> Seq(EdgeType)]
  BY <1>5, <1>9, Zenon
<1>11. IsFiniteSet(DOMAIN rules)
  BY <1>2, EditingAssumption, FS_Subset, Zenon
<1>12. B \in Seq(EdgeType) /\ \A e : e \in Range(B) <=> \E c \in DOMAIN rules : e \in Range(f[c])
  <2>1. Joins(B, EdgeType, DOMAIN rules, f)
    BY <1>6, <1>10, <1>11, JoinFacts, Zenon
  <2> QED
    BY <2>1, Zenon DEF Joins
<1>13. EdgesFromIR(old, n) = A \o B \o C
  <2>1. {f[c] : c \in DOMAIN rules} = {EdgesOf(n, rules[c], c) : c \in DOMAIN rules}
    BY <1>5, Zenon
  <2> QED
    BY <1>1, <1>3, <1>4, <1>6, <2>1, Zenon DEF EdgesFromIR, Unconditional
<1>14. PICK AB : AB = A \o B
  BY Zenon
<1>15. AB \in Seq(EdgeType) /\ Range(AB) = Range(A) \cup Range(B)
  BY <1>7, <1>12, <1>14, ConcatSet
<1>16. AB \o C \in Seq(EdgeType) /\ Range(AB \o C) = Range(AB) \cup Range(C)
  BY <1>8, <1>15, ConcatSet
<1>17. ASSUME NEW e PROVE e \in Range(AB \o C) <=> BackEdge(old, n, e)
  <2>1. e \in Range(B) <=>
           \E c \in DOMAIN rules : \E t \in Range(rules[c]) : e = [from |-> n, to |-> t, cond |-> c]
    <3>1. \A c \in DOMAIN rules :
             e \in Range(f[c]) <=> \E t \in Range(rules[c]) : e = [from |-> n, to |-> t, cond |-> c]
      BY <1>9, Zenon
    <3>2. e \in Range(B) <=> \E c \in DOMAIN rules : e \in Range(f[c])
      BY <1>12, Zenon
    <3> QED
      BY <3>1, <3>2, Zenon
  <2>2. e \in Range(AB \o C) <=> e \in Range(A) \/ e \in Range(B) \/ e \in Range(C)
    BY <1>15, <1>16, Zenon
  <2>3. BackEdge(old, n, e) <=>
           \/ \E t \in Range(targets) : e = [from |-> n, to |-> t, cond |-> Unconditional]
           \/ \E c \in DOMAIN rules : \E t \in Range(rules[c]) : e = [from |-> n, to |-> t, cond |-> c]
           \/ \E t \in Range(default) : e = [from |-> n, to |-> t, cond |-> Unconditional]
    BY <1>1, Zenon DEF BackEdge
  <2> QED
    BY <1>7, <1>8, <2>1, <2>2, <2>3, Zenon
<1> QED
  BY <1>13, <1>14, <1>16, <1>17, Zenon

\* Schema s is what an IR is turned back into.
BackTo(s, old) ==
    /\ IsSchema(s)
    /\ DOMAIN s.nodes = DOMAIN old
    /\ \A n \in DOMAIN old :
          /\ HasBranch(old[n].node) /\ ~HasLoop(old[n].node) => s.nodes[n].type = "conditional"
          /\ ~HasBranch(old[n].node) /\ HasLoop(old[n].node) => s.nodes[n].type = "loop"
          /\ ~HasBranch(old[n].node) /\ ~HasLoop(old[n].node) => s.nodes[n].type = old[n].node.type
          /\ ~HasLoopConfig(s.nodes[n])
    /\ \A e : e \in Range(s.edges) <=> \E n \in DOMAIN old : BackEdge(old, n, e)

\* The type a node comes back with.
BackType(d) ==
    CASE HasBranch(d) -> "conditional"
      [] HasLoop(d) -> "loop"
      [] OTHER -> d.type

\* It is that of its branch, of its loop, or its own.
LEMMA BackTypes ==
    ASSUME NEW old, IsIR(old), NEW n \in DOMAIN old, NEW d, d = old[n].node,
           HasBranch(d) => ~HasLoop(d)
    PROVE  /\ HasBranch(d) => BackType(d) = "conditional"
           /\ ~HasBranch(d) /\ HasLoop(d) => BackType(d) = "loop"
           /\ ~HasBranch(d) /\ ~HasLoop(d) => BackType(d) = d.type
           /\ BackType(d) \in ControlType \cup NodeType
<1>1. d.type \in NodeType
  <2>1. d \in NodeDef
    BY Zenon DEF IsIR
  <2> QED
    BY <2>1, Zenon DEF NodeDef
<1>2. CASE HasBranch(d)
  BY <1>2, Zenon DEF BackType, ControlType
<1>3. CASE ~HasBranch(d) /\ HasLoop(d)
  BY <1>3, Zenon DEF BackType, ControlType
<1>4. CASE ~HasBranch(d) /\ ~HasLoop(d)
  BY <1>1, <1>4, Zenon DEF BackType
<1> QED
  BY <1>2, <1>3, <1>4, Zenon

\* That is what PatchRun does.
LEMMA BackSchema ==
    ASSUME NEW old, IROK(old)
    PROVE  BackTo(irToWorkflowSchema(old), old)
<1>1. PICK s : s = irToWorkflowSchema(old)
  BY Zenon
<1>2. PICK f : f = [n \in DOMAIN old |-> EdgesFromIR(old, n)]
  BY Zenon
<1>3. IsIR(old) /\ \A n \in DOMAIN old : NodeOK(old, n)
  BY Zenon DEF IROK
<1>4. DOMAIN old \subseteq Node
  BY <1>3, Zenon DEF IsIR
<1>5. IsFiniteSet(DOMAIN old)
  BY <1>4, EditingAssumption, FS_Subset, Zenon
<1>6. ASSUME NEW n \in DOMAIN old
      PROVE  f[n] \in Seq(EdgeType) /\ \A e : e \in Range(f[n]) <=> BackEdge(old, n, e)
  <2>1. f[n] = EdgesFromIR(old, n)
    BY <1>2, Zenon
  <2>2. EdgesFromIR(old, n) \in Seq(EdgeType)
        /\ \A e : e \in Range(EdgesFromIR(old, n)) <=> BackEdge(old, n, e)
    BY <1>3, BackFacts, Zenon
  <2> QED
    BY <2>1, <2>2, Zenon
<1>7. f \in [DOMAIN old -> Seq(EdgeType)]
  BY <1>2, <1>6, Zenon
<1>8. PICK q : q = Concat(AnyOrder({f[n] : n \in DOMAIN old}))
  BY Zenon
<1>9. Joins(q, EdgeType, DOMAIN old, f)
  BY <1>5, <1>7, <1>8, JoinFacts, Zenon
<1>10. /\ s.edges = q
       /\ DOMAIN s.nodes = DOMAIN old
       /\ \A n \in DOMAIN old : s.nodes[n] = [type |-> BackType(old[n].node), loop |-> NoLoop(n)]
  <2>1. {f[n] : n \in DOMAIN old} = {EdgesFromIR(old, n) : n \in DOMAIN old}
    BY <1>2, Zenon
  <2>2. s.edges = q
    BY <1>1, <1>8, <2>1, Zenon DEF irToWorkflowSchema
  <2>3. s.nodes = [n \in DOMAIN old |-> [type |-> BackType(old[n].node), loop |-> NoLoop(n)]]
    BY <1>1, Zenon DEF irToWorkflowSchema, BackType
  <2> QED
    BY <2>2, <2>3, Zenon
<1>11. \A e : e \in Range(s.edges) <=> \E n \in DOMAIN old : BackEdge(old, n, e)
  <2>1. \A e : e \in Range(q) <=> \E n \in DOMAIN old : e \in Range(f[n])
    BY <1>9, Zenon DEF Joins
  <2> QED
    BY <1>6, <1>10, <2>1, Zenon
<1>12. ASSUME NEW n \in DOMAIN old
       PROVE  /\ HasBranch(old[n].node) /\ ~HasLoop(old[n].node) => s.nodes[n].type = "conditional"
              /\ ~HasBranch(old[n].node) /\ HasLoop(old[n].node) => s.nodes[n].type = "loop"
              /\ ~HasBranch(old[n].node) /\ ~HasLoop(old[n].node) => s.nodes[n].type = old[n].node.type
              /\ ~HasLoopConfig(s.nodes[n])
              /\ s.nodes[n] \in WorkflowNode
  <2>1. PICK d, w : d = old[n].node /\ w = s.nodes[n]
    BY Zenon
  <2>2. HasBranch(d) => ~HasLoop(d)
    BY <1>3, <2>1, Zenon DEF NodeOK
  <2>3. /\ HasBranch(d) => BackType(d) = "conditional"
        /\ ~HasBranch(d) /\ HasLoop(d) => BackType(d) = "loop"
        /\ ~HasBranch(d) /\ ~HasLoop(d) => BackType(d) = d.type
        /\ BackType(d) \in ControlType \cup NodeType
    BY <1>3, <2>1, <2>2, BackTypes, Zenon
  <2>4. w = [type |-> BackType(d), loop |-> NoLoop(n)]
    BY <1>10, <2>1, Zenon
  <2>5. w.type = BackType(d) /\ w.loop = NoLoop(n)
    BY <2>4, Zenon
  <2>6. NoLoop(n) \in LoopConfig /\ NoLoop(n).max = 0
    BY <1>4 DEF NoLoop, LoopConfig
  <2>7. w \in WorkflowNode
    BY <2>3, <2>4, <2>6, Zenon DEF WorkflowNode
  <2>8. ~HasLoopConfig(w)
    BY <2>5, <2>6 DEF HasLoopConfig
  <2> QED
    BY <2>1, <2>3, <2>5, <2>7, <2>8, Zenon
<1>13. q \in Seq(EdgeType)
  BY <1>9, Zenon DEF Joins
<1>14. IsSchema(s)
  BY <1>4, <1>10, <1>12, <1>13, Zenon DEF IsSchema
<1>15. BackTo(s, old)
  BY <1>10, <1>11, <1>12, <1>14, Zenon DEF BackTo
<1> QED
  BY <1>1, <1>15, Zenon

-----------------------------------------------------------------------------
(* What an edit keeps. *)

\* What an edit leaves of node n.
Kept(old, new, ops, n) ==
    /\ Range(new.node.dependents) = Range(old.node.dependents) \cup AddedTargets(ops, n)
    /\ ~HasBranch(old.node) => new.node.type = old.node.type
    /\ \A c \in DOMAIN old.rules :
          c \in DOMAIN new.rules /\ Range(old.rules[c]) \subseteq Range(new.rules[c])
    /\ Range(old.default) \subseteq Range(new.default)

\* The edges an IR is turned back into lead where its nodes lead.
LEMMA BackLeads ==
    ASSUME NEW s, NEW old, IROK(old), BackTo(s, old), NEW n \in DOMAIN old
    PROVE  /\ \A t : Leads(s, n, t) <=> t \in Range(old[n].node.dependents)
           /\ \A c \in DOMAIN old[n].rules : \A t \in Range(old[n].rules[c]) : LeadsIf(s, n, c, t)
           /\ \A t \in Range(old[n].default) : LeadsIf(s, n, Unconditional, t)
<1>1. \A e : e \in Range(s.edges) <=> \E m \in DOMAIN old : BackEdge(old, m, e)
  BY Zenon DEF BackTo
<1>2. PICK D, rules, default : /\ D = Range(old[n].node.dependents)
                               /\ rules = old[n].rules
                               /\ default = Range(old[n].default)
  BY Zenon
<1>3. /\ \A c \in DOMAIN rules : Range(rules[c]) \subseteq D
      /\ default \subseteq D
  BY <1>2, Zenon DEF IROK, NodeOK
<1>4. ASSUME NEW t, NEW c, NEW e, e = [from |-> n, to |-> t, cond |-> c]
      PROVE  e.from = n /\ e.to = t /\ e.cond = c
  BY <1>4, Zenon
<1>5. ASSUME NEW t \in D PROVE Leads(s, n, t)
  <2>1. PICK e : e = [from |-> n, to |-> t, cond |-> Unconditional]
    BY Zenon
  <2>2. BackEdge(old, n, e)
    BY <1>2, <2>1, Zenon DEF BackEdge
  <2>3. e \in Range(s.edges)
    BY <1>1, <2>2, Zenon
  <2> QED
    BY <1>4, <2>1, <2>3, Zenon DEF Leads
<1>6. ASSUME NEW t, Leads(s, n, t) PROVE t \in D
  <2>1. PICK e \in Range(s.edges) : e.from = n /\ e.to = t
    BY <1>6, Zenon DEF Leads
  <2>2. PICK m \in DOMAIN old : BackEdge(old, m, e)
    BY <1>1, <2>1, Zenon
  <2>3. PICK u, c : /\ e = [from |-> m, to |-> u, cond |-> c]
                    /\ \/ u \in Range(old[m].node.dependents)
                       \/ c \in DOMAIN old[m].rules /\ u \in Range(old[m].rules[c])
                       \/ u \in Range(old[m].default)
    BY <2>2, Zenon DEF BackEdge
  <2>4. e.from = m /\ e.to = u
    BY <2>3, Zenon
  <2>5. m = n /\ u = t
    BY <2>1, <2>4, Zenon
  <2>6. t \in D \/ (c \in DOMAIN rules /\ t \in Range(rules[c])) \/ t \in default
    BY <1>2, <2>3, <2>5, Zenon
  <2> QED
    BY <1>3, <2>6, Zenon
<1>7. ASSUME NEW c \in DOMAIN rules, NEW t \in Range(rules[c]) PROVE LeadsIf(s, n, c, t)
  <2>1. PICK e : e = [from |-> n, to |-> t, cond |-> c]
    BY Zenon
  <2>2. BackEdge(old, n, e)
    BY <1>2, <2>1, Zenon DEF BackEdge
  <2>3. e \in Range(s.edges)
    BY <1>1, <2>2, Zenon
  <2> QED
    BY <1>4, <2>1, <2>3, Zenon DEF LeadsIf
<1>8. ASSUME NEW t \in default PROVE LeadsIf(s, n, Unconditional, t)
  <2>1. PICK e : e = [from |-> n, to |-> t, cond |-> Unconditional]
    BY Zenon
  <2>2. BackEdge(old, n, e)
    BY <1>2, <2>1, Zenon DEF BackEdge
  <2>3. e \in Range(s.edges)
    BY <1>1, <2>2, Zenon
  <2> QED
    BY <1>4, <2>1, <2>3, Zenon DEF LeadsIf
<1> QED
  BY <1>2, <1>5, <1>6, <1>7, <1>8, Zenon

\* A patched IR keeps the nodes the patch does not define.
LEMMA PatchKeeps ==
    ASSUME NEW old, IROK(old), NEW ops \in Seq(EditType), NEW s, s = irToWorkflowSchema(old),
           Compiles(s, ops), NEW x, x = Compiled(applyPatch(s, ops)),
           NEW n \in DOMAIN old, n \notin Defined(ops)
    PROVE  n \in DOMAIN x /\ Kept(old[n], x[n], ops, n)
<1>1. PICK p : p = applyPatch(s, ops)
  BY Zenon
<1>2. BackTo(s, old)
  BY BackSchema, Zenon
<1>3. IsSchema(s) /\ DOMAIN s.nodes = DOMAIN old
  BY <1>2, Zenon DEF BackTo
<1>4. PatchesTo(p, s, ops)
  BY <1>1, <1>3, PatchedFacts, Zenon
<1>5. /\ IsSchema(p) /\ n \in DOMAIN p.nodes /\ p.nodes[n] = s.nodes[n]
      /\ Range(p.edges) = Range(s.edges) \cup Range(AddedEdges(ops))
  BY <1>3, <1>4, Zenon DEF PatchesTo
<1>6. CompilesTo(x, p, n)
  BY <1>1, <1>5, CompiledNode, Zenon
<1>7. n \in DOMAIN x
  BY <1>5, <1>6, Zenon DEF CompilesTo
<1>8. /\ \A t : t \in Range(x[n].node.dependents) <=> Leads(p, n, t)
      /\ HasBranch(x[n].node) <=> Branches(p, n)
  BY <1>1, <1>5, CompiledLinks, Zenon
<1>9. /\ \A t : Leads(s, n, t) <=> t \in Range(old[n].node.dependents)
      /\ \A c \in DOMAIN old[n].rules : \A t \in Range(old[n].rules[c]) : LeadsIf(s, n, c, t)
      /\ \A t \in Range(old[n].default) : LeadsIf(s, n, Unconditional, t)
  BY <1>2, BackLeads, Zenon
<1>10. ASSUME NEW t PROVE Leads(p, n, t) <=> Leads(s, n, t) \/ t \in AddedTargets(ops, n)
  BY <1>5, Zenon DEF Leads, AddedTargets
<1>11. Range(x[n].node.dependents) = Range(old[n].node.dependents) \cup AddedTargets(ops, n)
  BY <1>8, <1>9, <1>10, Zenon
<1>12. \A c, t : LeadsIf(s, n, c, t) => LeadsIf(p, n, c, t)
  BY <1>5, Zenon DEF LeadsIf
<1>13. Converts(s.nodes[n])
  BY <1>3, Zenon DEF Compiles
<1>14. NodeOK(old, n)
  BY Zenon DEF IROK
<1>15. CASE ~HasBranch(old[n].node)
  <2>1. Range(<<>>) = {}
    BY DEF Range
  <2>2. DOMAIN old[n].rules = {} /\ old[n].default = <<>>
    BY <1>14, <1>15, Zenon DEF NodeOK
  <2>3. ~HasLoop(old[n].node)
    <3>1. SUFFICES ASSUME HasLoop(old[n].node) PROVE FALSE
      BY Zenon
    <3>2. s.nodes[n].type = "loop" /\ ~HasLoopConfig(s.nodes[n])
      BY <1>2, <1>15, <3>1, Zenon DEF BackTo
    <3> QED
      BY <1>13, <3>2, Zenon DEF Converts
  <2>4. s.nodes[n].type = old[n].node.type
    BY <1>2, <1>15, <2>3, Zenon DEF BackTo
  <2>5. old[n].node.type \in NodeType
    BY Zenon DEF IROK, IsIR, NodeDef
  <2>6. x[n].node.type = IF s.nodes[n].type \in ControlType THEN "task" ELSE s.nodes[n].type
    BY <1>5, <1>6, Zenon DEF CompilesTo
  <2>7. old[n].node.type \notin ControlType
    BY <2>5 DEF NodeType, ExecutableType, ControlType
  <2>8. x[n].node.type = old[n].node.type
    BY <2>4, <2>6, <2>7, Zenon
  <2> QED
    BY <1>7, <1>11, <2>1, <2>2, <2>8, Zenon DEF Kept
<1>16. CASE HasBranch(old[n].node)
  <2>1. s.nodes[n].type = "conditional"
    BY <1>2, <1>14, <1>16, Zenon DEF BackTo, NodeOK
  <2>2. Branches(p, n)
    BY <1>5, <2>1, Zenon DEF Branches
  <2>3. HasBranchConfig(p, n)
    BY <1>6, <1>8, <2>2, Zenon DEF CompilesTo
  <2>4. /\ x[n].rules = [c \in Conditions(p, n) |-> NextNodes(p, n, c)]
        /\ x[n].default = NextNodes(p, n, Unconditional)
    BY <1>6, <2>3, Zenon DEF CompilesTo, Unconditional
  <2>5. \A c : \A t : t \in Range(NextNodes(p, n, c)) <=> LeadsIf(p, n, c, t)
    BY <1>5, NextFacts, Zenon
  <2>6. ASSUME NEW c \in DOMAIN old[n].rules
        PROVE  c \in DOMAIN x[n].rules /\ Range(old[n].rules[c]) \subseteq Range(x[n].rules[c])
    <3>1. c # "" /\ old[n].rules[c] # <<>>
      BY <1>14, Zenon DEF NodeOK
    <3>2. Range(old[n].rules[c]) \subseteq Range(NextNodes(p, n, c))
      BY <1>9, <1>12, <2>5, Zenon
    <3>3. old[n].rules[c] \in Seq(Node)
      BY Zenon DEF IROK, IsIR
    <3>4. PICK t : t \in Range(old[n].rules[c])
      <4>1. PICK q : q = old[n].rules[c]
        BY Zenon
      <4>2. q \in Seq(Node) /\ q # <<>>
        BY <3>1, <3>3, <4>1, Zenon
      <4>3. q[1] \in Range(q)
        BY <4>2 DEF Range
      <4> QED
        BY <4>1, <4>3, Zenon
    <3>5. LeadsIf(p, n, c, t)
      BY <1>9, <1>12, <3>4, Zenon
    <3>6. PICK e \in Range(p.edges) : e.from = n /\ e.cond = c
      BY <3>5, Zenon DEF LeadsIf
    <3>7. e \in Range(EdgesFrom(p, n))
      BY <1>5, <3>6, EdgesFacts, Zenon
    <3>8. c \in Conditions(p, n)
      BY <3>1, <3>6, <3>7, Zenon DEF Conditions
    <3> QED
      BY <2>4, <3>2, <3>8, Zenon
  <2>7. Range(old[n].default) \subseteq Range(x[n].default)
    <3>1. Range(old[n].default) \subseteq Range(NextNodes(p, n, Unconditional))
      BY <1>9, <1>12, <2>5, Zenon
    <3> QED
      BY <2>4, <3>1, Zenon
  <2> QED
    BY <1>7, <1>11, <1>16, <2>6, <2>7, Zenon DEF Kept
<1> QED
  BY <1>15, <1>16, Zenon

-----------------------------------------------------------------------------
(* The IR of a run. *)

\* What is being compiled: a well-formed IR whose graph is the one the search goes
\* through and, for a PatchRun, what its operations make of the IR it read.
JobOK ==
    /\ IROK(job.new) /\ WellFormed(job.new)
    /\ graph = Dependents(job.new) /\ loops = Loops(job.new)
    /\ job.kind \in {"start", "patch"}
    /\ job.kind = "patch" =>
          /\ IROK(job.read)
          /\ job.ops \in Seq(EditType)
          /\ Compiles(irToWorkflowSchema(job.read), job.ops)
          /\ job.new = Compiled(applyPatch(irToWorkflowSchema(job.read), job.ops))

\* The IR of the run is well-formed and can be turned back into a workflow, and so
\* is the one being compiled.
EditInv ==
    /\ base \in Workflows
    /\ changes \in 0..MaxChanges
    /\ IROK(ir)
    /\ ir # NoIR => WellFormed(ir) /\ CyclesLoop(ir)
    /\ job = NoJob \/ JobOK

\* The graph of an IR, for the cycle check.
LEMMA GraphOK ==
    ASSUME NEW x, IROK(x), WellFormed(x)
    PROVE  /\ Dependents(x) \in Graphs
           /\ DOMAIN Dependents(x) = DOMAIN x
           /\ Loops(x) \subseteq DOMAIN x
<1>1. PICK N, g : N = DOMAIN x /\ g = Dependents(x)
  BY Zenon
<1>2. N \in SUBSET Node
  BY <1>1, Zenon DEF IROK, IsIR
<1>3. g = [n \in N |-> Range(x[n].node.dependents)]
  BY <1>1, Zenon DEF Dependents
<1>4. \A n \in N : g[n] \subseteq N
  BY <1>1, Zenon DEF WellFormed
<1>5. g \in [N -> SUBSET N]
  BY <1>3, <1>4, Zenon
<1>6. g \in Graphs
  BY <1>2, <1>5, Zenon DEF Graphs
<1> QED
  BY <1>1, <1>3, <1>6, Zenon DEF Loops

\* A compilation that gets to the cycle check.
LEMMA CompileStep ==
    ASSUME NEW schema, IsSchema(schema), NEW ops \in Seq(EditType), NEW kind,
           Compile(schema, ops, kind)
    PROVE  \/ UNCHANGED <<job, cvars>>
           \/ LET new == Compiled(applyPatch(schema, ops))
              IN  /\ job' = [kind |-> kind, read |-> ir, ops |-> ops, new |-> new]
                  /\ Compiles(schema, ops)
                  /\ IROK(new) /\ WellFormed(new)
                  /\ graph' = Dependents(new) /\ loops' = Loops(new)
                  /\ BeginAny
<1>1. PICK new : new = Compiled(applyPatch(schema, ops))
  BY Zenon
<1>2. CASE Compiles(schema, ops)
  <2>1. job' = [kind |-> kind, read |-> ir, ops |-> ops, new |-> new]
        /\ Begin(Dependents(new), Loops(new))
    BY <1>1, <1>2, Zenon DEF Compile
  <2>2. Checked(applyPatch(schema, ops))
    BY <1>2, CompilesChecked, Zenon
  <2>3. IROK(new) /\ WellFormed(new)
    BY <1>1, <2>2, CompiledOK, Zenon
  <2>4. /\ Dependents(new) \in Graphs /\ DOMAIN Dependents(new) = DOMAIN new
        /\ Loops(new) \subseteq DOMAIN new
    BY <2>3, GraphOK, Zenon
  <2>5. graph' = Dependents(new) /\ loops' = Loops(new)
    BY <2>1, Zenon DEF Begin
  <2>6. Begin(graph', loops')
    BY <2>1, <2>5, Zenon
  <2>7. BeginAny
    BY <2>4, <2>5, <2>6, Zenon DEF BeginAny
  <2> QED
    BY <1>1, <1>2, <2>1, <2>3, <2>5, <2>7, Zenon
<1>3. CASE ~Compiles(schema, ops)
  BY <1>3, Zenon DEF Compile
<1> QED
  BY <1>2, <1>3, Zenon

\* There is no IR and no compilation yet.
LEMMA NothingOK == IROK(NoIR) /\ IsIR(NoJob.new)
<1>1. DOMAIN NoIR = {}
  BY Zenon DEF NoIR
<1>2. IsIR(NoIR)
  BY <1>1, Zenon DEF IsIR
<1>3. NoJob.new = NoIR
  BY Zenon DEF NoJob
<1> QED
  BY <1>1, <1>2, <1>3, Zenon DEF IROK

\* A run starts without IR.
LEMMA EditInit == Init => EditInv
<1> SUFFICES ASSUME Init PROVE EditInv
  OBVIOUS
<1>1. base \in Workflows /\ ir = NoIR /\ job = NoJob /\ changes = 0
  BY Zenon DEF Init
<1>2. changes \in 0..MaxChanges
  BY <1>1, EditingAssumption
<1> QED
  BY <1>1, <1>2, NothingOK, Zenon DEF EditInv

\* The run starter works on the frozen workflow.
LEMMA StartRunKeeps == EditInv /\ StartRun => EditInv' /\ (BeginAny \/ UNCHANGED cvars)
<1> SUFFICES ASSUME EditInv, StartRun PROVE EditInv' /\ (BeginAny \/ UNCHANGED cvars)
  OBVIOUS
<1>1. /\ Compile(base, <<>>, "start") /\ job = NoJob /\ ir = NoIR
      /\ base' = base /\ ir' = ir /\ changes' = changes
  BY Zenon DEF StartRun
<1>2. base \in Workflows /\ changes \in 0..MaxChanges /\ IROK(ir)
  BY Zenon DEF EditInv
<1>3. IsSchema(base)
  BY <1>2, EditingAssumption, Zenon
<1>4. <<>> \in Seq(EditType)
  OBVIOUS
<1>5. PICK new : new = Compiled(applyPatch(base, <<>>))
  BY Zenon
<1>6. \/ UNCHANGED <<job, cvars>>
      \/ /\ job' = [kind |-> "start", read |-> ir, ops |-> <<>>, new |-> new]
         /\ IROK(new) /\ WellFormed(new)
         /\ graph' = Dependents(new) /\ loops' = Loops(new)
         /\ BeginAny
  BY <1>1, <1>3, <1>4, <1>5, CompileStep, Zenon
<1>7. CASE UNCHANGED <<job, cvars>>
  <2>1. UNCHANGED cvars /\ job' = job
    BY <1>7, Zenon
  <2> QED
    BY <1>1, <1>2, <2>1, Zenon DEF EditInv
<1>8. CASE ~UNCHANGED <<job, cvars>>
  <2>1. /\ job' = [kind |-> "start", read |-> ir, ops |-> <<>>, new |-> new]
        /\ IROK(new) /\ WellFormed(new)
        /\ graph' = Dependents(new) /\ loops' = Loops(new)
        /\ BeginAny
    BY <1>6, <1>8, Zenon
  <2>2. job'.kind = "start" /\ job'.new = new
    BY <2>1, Zenon
  <2>3. JobOK'
    BY <2>1, <2>2, Zenon DEF JobOK
  <2> QED
    BY <1>1, <1>2, <2>1, <2>3, Zenon DEF EditInv
<1> QED
  BY <1>7, <1>8, Zenon

\* PatchRun works on the workflow that the IR is turned back into.
LEMMA PatchRunKeeps ==
    ASSUME EditInv, NEW ops \in Edits, PatchRun(ops)
    PROVE  EditInv' /\ (BeginAny \/ UNCHANGED cvars)
<1>1. PICK schema : schema = irToWorkflowSchema(ir)
  BY Zenon
<1>2. /\ Compile(schema, ops, "patch") /\ job = NoJob /\ ir # NoIR
      /\ base' = base /\ ir' = ir
  BY <1>1, Zenon DEF PatchRun
<1>3. /\ base \in Workflows /\ IROK(ir)
      /\ ir # NoIR => WellFormed(ir) /\ CyclesLoop(ir)
  BY Zenon DEF EditInv
<1>4. changes' \in 0..MaxChanges
  <2>1. changes \in 0..MaxChanges
    BY Zenon DEF EditInv
  <2>2. changes < MaxChanges /\ changes' = changes + 1
    BY Zenon DEF PatchRun
  <2> QED
    BY <2>1, <2>2, EditingAssumption
<1>5. BackTo(schema, ir)
  BY <1>1, <1>3, BackSchema, Zenon
<1>6. IsSchema(schema)
  BY <1>5, Zenon DEF BackTo
<1>7. ops \in Seq(EditType)
  BY EditingAssumption, Zenon
<1>8. PICK new : new = Compiled(applyPatch(schema, ops))
  BY Zenon
<1>9. \/ UNCHANGED <<job, cvars>>
      \/ /\ job' = [kind |-> "patch", read |-> ir, ops |-> ops, new |-> new]
         /\ Compiles(schema, ops)
         /\ IROK(new) /\ WellFormed(new)
         /\ graph' = Dependents(new) /\ loops' = Loops(new)
         /\ BeginAny
  BY <1>2, <1>6, <1>7, <1>8, CompileStep, Zenon
<1>10. CASE UNCHANGED <<job, cvars>>
  <2>1. UNCHANGED cvars /\ job' = job
    BY <1>10, Zenon
  <2> QED
    BY <1>2, <1>3, <1>4, <2>1, Zenon DEF EditInv
<1>11. CASE ~UNCHANGED <<job, cvars>>
  <2>1. /\ job' = [kind |-> "patch", read |-> ir, ops |-> ops, new |-> new]
        /\ Compiles(schema, ops)
        /\ IROK(new) /\ WellFormed(new)
        /\ graph' = Dependents(new) /\ loops' = Loops(new)
        /\ BeginAny
    BY <1>9, <1>11, Zenon
  <2>2. job'.kind = "patch" /\ job'.read = ir /\ job'.ops = ops /\ job'.new = new
    BY <2>1, Zenon
  <2>3. JobOK'
    BY <1>1, <1>3, <1>7, <1>8, <2>1, <2>2, Zenon DEF JobOK
  <2> QED
    BY <1>2, <1>3, <1>4, <2>1, <2>3, Zenon DEF EditInv
<1> QED
  BY <1>10, <1>11, Zenon

\* The search leaves its graph alone.
LEMMA CheckStepKeeps == EditInv /\ Check => EditInv'
<1> SUFFICES ASSUME EditInv, Check PROVE EditInv'
  OBVIOUS
<1>1. Search /\ base' = base /\ ir' = ir /\ job' = job /\ changes' = changes
  BY Zenon DEF Check
<1>2. graph' = graph /\ loops' = loops
  BY <1>1, Zenon DEF Search, NextRoot, NextDependent, Return, Accept
<1>3. JobOK => JobOK'
  BY <1>1, <1>2, Zenon DEF JobOK
<1> QED
  BY <1>1, <1>3, Zenon DEF EditInv

\* An IR that the search has accepted is stored.
LEMMA SetIRKeeps == EditInv /\ CheckInv /\ SetIR => EditInv'
<1> SUFFICES ASSUME EditInv, CheckInv, SetIR PROVE EditInv'
  OBVIOUS
<1>1. /\ job # NoJob /\ verdict = "acyclic" /\ ir' = job.new /\ job' = NoJob
      /\ base' = base /\ changes' = changes
  BY Zenon DEF SetIR
<1>2. JobOK /\ base \in Workflows /\ changes \in 0..MaxChanges
  BY <1>1, Zenon DEF EditInv
<1>3. PICK new : new = job.new
  BY Zenon
<1>4. /\ IROK(new) /\ WellFormed(new)
      /\ graph = Dependents(new) /\ loops = Loops(new)
  BY <1>2, <1>3, Zenon DEF JobOK
<1>5. AcceptedCyclesLoop
  BY AcceptedOK, Zenon
<1>6. DOMAIN graph = DOMAIN new
  BY <1>4, GraphOK, Zenon
<1>7. \A S \in SUBSET (DOMAIN new \ Loops(new)) :
          ~(S # {} /\ \A u \in S : Dependents(new)[u] \cap S # {})
  BY <1>1, <1>4, <1>5, <1>6, Zenon DEF AcceptedCyclesLoop, HasCycleIn
<1>8. CyclesLoop(new)
  BY <1>7, Zenon DEF CyclesLoop
<1> QED
  BY <1>1, <1>2, <1>3, <1>4, <1>8, Zenon DEF EditInv

\* A refusal, or a SET that fails, leaves the IR of the run.
LEMMA RefusalKeeps == EditInv /\ (RefuseCycle \/ SetIRFails) => EditInv'
<1> SUFFICES ASSUME EditInv, RefuseCycle \/ SetIRFails PROVE EditInv'
  OBVIOUS
<1>1. job' = NoJob /\ base' = base /\ ir' = ir /\ changes' = changes
  BY Zenon DEF RefuseCycle, SetIRFails
<1> QED
  BY <1>1, Zenon DEF EditInv

\* A reload stores the frozen workflow with the recorded patches, also while a
\* PatchRun is in progress.
LEMMA ReloadIRKeeps == EditInv /\ ReloadIR => EditInv'
<1> SUFFICES ASSUME EditInv, ReloadIR PROVE EditInv'
  OBVIOUS
<1>1. PICK new : new = Compiled(applyPatch(base, RunPatch))
  BY Zenon
<1>2. /\ Compiles(base, RunPatch) /\ CyclesLoop(new) /\ ir' = new
      /\ base' = base /\ job' = job /\ graph' = graph /\ loops' = loops
  BY <1>1, Zenon DEF ReloadIR, cvars
<1>3. base \in Workflows /\ (job = NoJob \/ JobOK)
  BY Zenon DEF EditInv
<1>4. changes' \in 0..MaxChanges
  <2>1. changes \in 0..MaxChanges
    BY Zenon DEF EditInv
  <2>2. changes < MaxChanges /\ changes' = changes + 1
    BY Zenon DEF ReloadIR
  <2> QED
    BY <2>1, <2>2, EditingAssumption
<1>5. IsSchema(base) /\ RunPatch \in Seq(EditType)
  BY <1>3, EditingAssumption, Zenon
<1>6. Checked(applyPatch(base, RunPatch))
  BY <1>2, <1>5, CompilesChecked, Zenon
<1>7. IROK(new) /\ WellFormed(new)
  BY <1>1, <1>6, CompiledOK, Zenon
<1>8. JobOK => JobOK'
  BY <1>2, Zenon DEF JobOK
<1> QED
  BY <1>2, <1>3, <1>4, <1>7, <1>8, Zenon DEF EditInv

\* Every step of RunEditing is one of the cycle check, or leaves it alone.
LEMMA CheckRefined == EditInv /\ [Next]_vars => [CheckNext]_cvars
<1> SUFFICES ASSUME EditInv, [Next]_vars PROVE CheckNext \/ UNCHANGED cvars
  BY Zenon
<1>1. CASE StartRun
  BY <1>1, StartRunKeeps, Zenon DEF CheckNext
<1>2. ASSUME NEW ops \in Edits, PatchRun(ops) PROVE CheckNext \/ UNCHANGED cvars
  BY <1>2, PatchRunKeeps, Zenon DEF CheckNext
<1>3. CASE Check
  BY <1>3, Zenon DEF Check, CheckNext
<1>4. CASE SetIR \/ SetIRFails \/ RefuseCycle \/ ReloadIR
  BY <1>4, Zenon DEF SetIR, SetIRFails, RefuseCycle, ReloadIR
<1>5. CASE UNCHANGED vars
  BY <1>5, Zenon DEF vars, cvars
<1> QED
  BY <1>1, <1>2, <1>3, <1>4, <1>5, Zenon DEF Next

\* EditInv and CheckInv need each other: the search of an IR is only right
\* when its graph is the IR's, and the IR only when its search is.
LEMMA EditStep == EditInv /\ CheckInv /\ [Next]_vars => EditInv'
<1> SUFFICES ASSUME EditInv, CheckInv, [Next]_vars PROVE EditInv'
  OBVIOUS
<1>1. CASE StartRun
  BY <1>1, StartRunKeeps, Zenon
<1>2. ASSUME NEW ops \in Edits, PatchRun(ops) PROVE EditInv'
  BY <1>2, PatchRunKeeps, Zenon
<1>3. CASE Check
  BY <1>3, CheckStepKeeps, Zenon
<1>4. CASE SetIR
  BY <1>4, SetIRKeeps, Zenon
<1>5. CASE RefuseCycle \/ SetIRFails
  BY <1>5, RefusalKeeps, Zenon
<1>6. CASE ReloadIR
  BY <1>6, ReloadIRKeeps, Zenon
<1>7. CASE UNCHANGED vars
  <2>1. /\ base' = base /\ ir' = ir /\ job' = job /\ changes' = changes
        /\ graph' = graph /\ loops' = loops
    BY <1>7, Zenon DEF vars
  <2>2. JobOK => JobOK'
    BY <2>1, Zenon DEF JobOK
  <2> QED
    BY <2>1, <2>2, Zenon DEF EditInv
<1> QED
  BY <1>1, <1>2, <1>3, <1>4, <1>5, <1>6, <1>7, Zenon DEF Next

\* The invariant of runs holds with that of the search, for every workflow, every
\* list of operations and every interleaving of PatchRun and reload.
THEOREM EditInvariant == Spec => [](EditInv /\ CheckInv)
<1>1. Init => EditInv /\ CheckInv
  BY EditInit, CheckInitially, Zenon DEF Init
<1>2. EditInv /\ CheckInv /\ [Next]_vars => (EditInv /\ CheckInv)'
  BY CheckStep, EditStep, CheckRefined, Zenon
<1> QED
  BY <1>1, <1>2, PTL DEF Spec

\* The cycle check inside the compilations of a run (validate's call of hasCycle)
\* is the search of module CycleCheck: it starts with a graph on its own nodes,
\* and nothing but the search touches its state until it has ended.
THEOREM ImplementsCheck == Spec => CheckSpec
<1>1. Init => CheckInit
  BY Zenon DEF Init
<1> QED
  BY <1>1, CheckRefined, EditInvariant, PTL DEF Spec, CheckSpec

\* The IR of a run, the one being compiled and the search hold what their types
\* say.
THEOREM TypeCorrect == Spec => []TypeOK
<1>1. EditInv /\ CheckInv => TypeOK
  <2> SUFFICES ASSUME EditInv, CheckInv PROVE TypeOK
    OBVIOUS
  <2>1. base \in Workflows /\ changes \in 0..MaxChanges /\ IROK(ir) /\ (job = NoJob \/ JobOK)
    BY Zenon DEF EditInv
  <2>2. IsIR(job.new)
    BY <2>1, NothingOK, Zenon DEF JobOK, IROK
  <2>3. CheckTypeOK
    BY Zenon DEF CheckInv
  <2> QED
    BY <2>1, <2>2, <2>3, Zenon DEF TypeOK, IROK
<1> QED
  BY <1>1, EditInvariant, PTL

\* A run or an edit that the cycle check refuses (hasCycle returns true) has a
\* cycle that enters a node without loop configuration.
THEOREM RefusedOnlyCyclic == Spec => []RefusedHasCycle
<1>1. CheckInv => RefusedHasCycle
  BY Zenon DEF CheckInv
<1> QED
  BY <1>1, EditInvariant, PTL

\* Whatever is compiled, edited with PatchRun or reloaded, and in whatever order:
\* the stored IR has an entry and a terminal node, its dependents, branch targets
\* and loop_back_tos are nodes, dependencies match dependents, and its cycles go
\* through loops.
THEOREM AlwaysWellFormed == Spec => []IRWellFormed
<1>1. EditInv => IRWellFormed
  BY Zenon DEF EditInv, WellFormed, IRWellFormed
<1> QED
  BY <1>1, EditInvariant, PTL

\* The step of EditKeeps: what is stored is what the PatchRun has compiled.
LEMMA EditStepKeeps ==
    ASSUME EditInv, [Next]_vars, ir' # ir, job.kind = "patch", job'.kind = "none",
           NEW n \in DOMAIN job.read \ {job.ops[i].id : i \in AddedNodes(job.ops)}
    PROVE  Dependents(ir')[n] = Range(ir'[n].node.dependents)
           /\ Dependents(job.read)[n] = Range(job.read[n].node.dependents)
           /\ Kept(job.read[n], ir'[n], job.ops, n)
<1>1. job # NoJob
  <2>1. NoJob.kind = "none"
    BY Zenon DEF NoJob
  <2> QED
    BY <2>1
<1>2. JobOK
  BY <1>1, Zenon DEF EditInv
<1>3. PICK old, ops, new : old = job.read /\ ops = job.ops /\ new = job.new
  BY Zenon
<1>4. /\ IROK(old) /\ ops \in Seq(EditType)
      /\ Compiles(irToWorkflowSchema(old), ops)
      /\ new = Compiled(applyPatch(irToWorkflowSchema(old), ops))
  BY <1>2, <1>3, Zenon DEF JobOK
<1>5. SetIR
  <2>1. ~StartRun /\ ~(\E o \in Edits : PatchRun(o))
    BY <1>1, Zenon DEF StartRun, PatchRun
  <2>2. ~Check /\ ~RefuseCycle /\ ~SetIRFails /\ ~UNCHANGED vars
    BY Zenon DEF Check, RefuseCycle, SetIRFails, vars
  <2>3. ASSUME ReloadIR PROVE FALSE
    <3>1. job'.kind = "patch"
      BY <2>3, Zenon DEF ReloadIR
    <3> QED
      BY <3>1
  <2> QED
    BY <2>1, <2>2, <2>3, Zenon DEF Next
<1>6. ir' = new
  BY <1>3, <1>5, Zenon DEF SetIR
<1>7. n \in DOMAIN old \ Defined(ops)
  BY <1>3, Zenon DEF Defined
<1>8. n \in DOMAIN new /\ Kept(old[n], new[n], ops, n)
  BY <1>4, <1>7, PatchKeeps, Zenon
<1> QED
  BY <1>3, <1>6, <1>7, <1>8, Zenon DEF Dependents

\* PatchRun keeps what it does not define of the IR it read, although the IR has
\* been a workflow in between.
THEOREM EditsKeep == Spec => EditKeeps
<1>1. EditInv /\ [Next]_vars =>
        (ir' # ir /\ job.kind = "patch" /\ job'.kind = "none" =>
          \A n \in DOMAIN job.read \ {job.ops[i].id : i \in AddedNodes(job.ops)} :
              LET old == job.read[n]
                  new == ir'[n]
              IN  /\ Dependents(ir')[n] = Dependents(job.read)[n] \cup AddedTargets(job.ops, n)
                  /\ ~HasBranch(old.node) => new.node.type = old.node.type
                  /\ \A c \in DOMAIN old.rules :
                        c \in DOMAIN new.rules /\ Range(old.rules[c]) \subseteq Range(new.rules[c])
                  /\ Range(old.default) \subseteq Range(new.default))
  BY EditStepKeeps, Zenon DEF Kept
<1> QED
  BY <1>1, EditInvariant, PTL DEF Spec, EditKeeps

=============================================================================
