----------------------- MODULE WorkflowVersionsProofs -----------------------
(***************************************************************************)
(* Proofs about the versions of workflows, for any requests, tags,         *)
(* workflows and patches, however the statements interleave and wherever   *)
(* requests stop.                                                          *)
(*                                                                         *)
(* The chain of a head grows until it is as long as the head's depth and   *)
(* never changes after that.  Its members are whole heads of smaller depth *)
(* whose chains are the front of it, and in the end the head itself        *)
(* (ChainOK).  So what a whole version materialises to never changes       *)
(* either (WholeStays, MaterializedStays), whoever has read it.            *)
(*                                                                         *)
(* That a patched version can be read needs what materialising computes:   *)
(* an operation that the patcher accepts is accepted by the library, too,  *)
(* if both arrays are there and its path is a JSON pointer                 *)
(* (PatcherIsSafe), so such a patch that was validated applies             *)
(* (ValidatedApplies), and a head materialises to its own patch on top of  *)
(* what the version below it materialises to (MaterializeAppend).          *)
(* ReadInv keeps which version each patch was validated against and which  *)
(* it was put on.                                                          *)
(***************************************************************************)
EXTENDS WorkflowVersions, Recursion, TLAPS

Rows == DOMAIN artifact

\* A DAG, or a head with all members of its chain.
Whole(a) == a \in Rows /\ (IsPatchSet(a) => Len(chain[a]) = artifact[a].depth)

\* Head a is one patch on top of version b.
Extends(a, b) ==
    /\ a \in Rows /\ IsPatchSet(a)
    /\ artifact[a].base = IF IsDAGVersion(b) THEN b ELSE artifact[b].base
    /\ artifact[a].depth = IF IsDAGVersion(b) THEN 1 ELSE artifact[b].depth + 1

\* The types, but for workflows and operations, of which nothing is needed.
ArtifactType(V) ==
    [kind: {"dag_version", "patch_set"}, workflow: V, ops: V, base: Nat, depth: Nat,
     compacted_from: Nat, original_patches: Nat, on: Nat, checked: Nat]

RequestType(V) ==
    [pc: Pc, tag: Tag \cup {""}, workflow: V, ops: V, target: Nat, row: Nat, version: Nat,
     checked: Nat, base: Nat, depth: Nat, members: Seq(Nat), art: Nat]

ReferencesOK ==
    /\ tag \in [Tag -> [target: Nat, version: Nat, row: Nat]]
    /\ \E V : artifact \in Seq(ArtifactType(V)) /\ req \in [Slot -> RequestType(V)]
    /\ chain \in Seq(Seq(Nat)) /\ Len(chain) = Len(artifact)
    /\ runs \in Seq([base_ref: Nat, of: Nat])
    /\ born \in Nat

MemberOK(a, i) ==
    LET m == chain[a][i]
    IN  /\ m \in Rows /\ IsPatchSet(m)
        /\ artifact[m].depth = i
        /\ artifact[m].base = artifact[a].base
        /\ i = artifact[a].depth => m = a
        /\ Len(chain[m]) = i
        /\ \A j \in 1..i : chain[m][j] = chain[a][j]

ChainOK(a) ==
    /\ IsDAGVersion(a) => chain[a] = <<>>
    /\ IsPatchSet(a) =>
          /\ artifact[a].depth > 0
          /\ artifact[a].base \in Rows /\ IsDAGVersion(artifact[a].base)
          /\ Len(chain[a]) <= artifact[a].depth
    /\ \A i \in 1..Len(chain[a]) : MemberOK(a, i)

TablesOK == \A a \in Rows : ChainOK(a)

TagsOK ==
    \A t \in Tag :
        /\ tag[t].row <= born
        /\ ExistsTag(t) => Whole(tag[t].target) /\ tag[t].row # 0

\* What a request has read of the version it works on still holds.
TargetOK(s) ==
    LET r == req[s]
    IN  /\ r.pc \in {"validate", "patch", "chain", "member", "materialize", "freeze", "run"} =>
              Whole(r.target)
        /\ r.pc \in {"readchain", "compact"} => r.target \in Rows /\ IsPatchSet(r.target)
        /\ r.pc = "compact" /\ Len(r.members) = artifact[r.target].depth =>
              Whole(r.target) /\ MaterializesTo(r.target, r.workflow)
        /\ r.pc \in {"freeze", "run"} => MaterializesTo(r.target, r.workflow)
        /\ r.pc = "run" =>
              r.art \in Rows /\ IsDAGVersion(r.art) /\ artifact[r.art].workflow = r.workflow

\* The head a PATCH is building, and the version a request moves its tag to.
PatchOK(s) ==
    LET r == req[s]
    IN  /\ r.pc \in {"idle", "lookup", "artifact", "readchain", "compact", "migrate"} => r.ops = <<>>
        /\ r.pc \in {"validate", "reresolve", "patch", "chain", "member"} => r.row # 0
        /\ r.pc \in {"chain", "member"} => Extends(r.art, r.target)
        /\ r.pc = "chain" => chain[r.art] = <<>>
        /\ r.pc = "member" =>
              /\ Len(r.members) = artifact[r.art].depth
              /\ r.members[artifact[r.art].depth] = r.art
              /\ \A i \in 1..(artifact[r.art].depth - 1) : r.members[i] = chain[r.target][i]
              /\ Len(chain[r.art]) < artifact[r.art].depth
              /\ \A i \in 1..Len(chain[r.art]) : chain[r.art][i] = r.members[i]
        /\ r.pc \in {"exists", "create", "move", "migrate"} => Whole(r.art)
        /\ r.pc \in {"exists", "create", "move"} /\ r.ops # <<>> =>
              /\ r.row # 0
              /\ Whole(r.target)
              /\ Extends(r.art, r.target)
              /\ \A i \in 1..(artifact[r.art].depth - 1) : chain[r.art][i] = chain[r.target][i]

\* A tag with the row and version that a request has seen points at what it
\* pointed at then.
SeenOK(s) ==
    LET r == req[s]
    IN  /\ r.pc # "idle" \/ r.row # 0 => r.tag \in Tag
        /\ r.row <= born
        /\ r.row # 0 /\ r.row = tag[r.tag].row =>
              /\ r.version <= tag[r.tag].version
              /\ r.version = tag[r.tag].version => r.target = tag[r.tag].target

RequestOK(s) == TargetOK(s) /\ PatchOK(s) /\ SeenOK(s)

\* No two requests build the same head.
Building(s) == req[s].pc \in {"chain", "member"}

HeadsApart ==
    \A s, u \in Slot : s # u /\ Building(s) /\ Building(u) => req[s].art # req[u].art

RunsOK ==
    \A i \in DOMAIN runs :
        /\ Whole(runs[i].of)
        /\ runs[i].base_ref \in Rows /\ IsDAGVersion(runs[i].base_ref)
        /\ MaterializesTo(runs[i].of, artifact[runs[i].base_ref].workflow)

CompactedOK ==
    \A b \in Rows :
        LET p == artifact[b].compacted_from
        IN  p # 0 =>
                /\ p \in Rows /\ IsPatchSet(p)
                /\ artifact[b].original_patches = artifact[p].depth =>
                      Whole(p) /\ MaterializesTo(p, artifact[b].workflow)

IInv ==
    /\ ReferencesOK /\ TablesOK /\ TagsOK /\ HeadsApart /\ RunsOK /\ CompactedOK
    /\ \A s \in Slot : RequestOK(s)

-----------------------------------------------------------------------------
(* The tables. *)

\* The rows are numbered from 1, and every chain is a sequence of ids.
LEMMA RowFacts ==
    ASSUME ReferencesOK
    PROVE  /\ Rows = 1..Len(artifact) /\ Len(artifact) \in Nat /\ DOMAIN chain = Rows
           /\ \A a \in Rows :
                 /\ artifact[a].kind \in {"dag_version", "patch_set"}
                 /\ artifact[a].depth \in Nat /\ artifact[a].base \in Nat
                 /\ artifact[a].compacted_from \in Nat /\ artifact[a].original_patches \in Nat
                 /\ chain[a] \in Seq(Nat) /\ Len(chain[a]) \in Nat /\ DOMAIN chain[a] = 1..Len(chain[a])
<1>1. PICK V : artifact \in Seq(ArtifactType(V))
  BY DEF ReferencesOK
<1>2. Rows = 1..Len(artifact) /\ Len(artifact) \in Nat /\ DOMAIN chain = Rows
  BY <1>1 DEF ReferencesOK, Rows
<1>3. ASSUME NEW a \in Rows PROVE artifact[a] \in ArtifactType(V) /\ chain[a] \in Seq(Nat)
  BY <1>1, <1>2, <1>3 DEF ReferencesOK, Rows
<1> QED
  BY <1>2, <1>3 DEF ArtifactType

\* A version whose chain is as long as its depth is complete in the sense of
\* TagsComplete.
LEMMA WholeIsComplete ==
    ASSUME ReferencesOK, TablesOK, NEW a, Whole(a)
    PROVE  Complete(a)
<1>1. CASE IsDAGVersion(a)
  BY <1>1 DEF Complete
<1>2. CASE IsPatchSet(a)
  <2>1. ChainOK(a) /\ a \in Rows /\ Len(chain[a]) = artifact[a].depth
    BY <1>2 DEF TablesOK, Whole
  <2>2. artifact[a].depth \in Nat
    BY <2>1, RowFacts
  <2>3. \A i \in 1..artifact[a].depth : MemberOK(a, i)
    BY <2>1 DEF ChainOK
  <2>4. artifact[a].depth \in 1..artifact[a].depth /\ IsDAGVersion(artifact[a].base)
    BY <1>2, <2>1, <2>2 DEF ChainOK
  <2> QED
    BY <2>1, <2>3, <2>4 DEF Complete, MemberOK
<1> QED
  BY <1>1, <1>2, RowFacts DEF Whole, IsDAGVersion, IsPatchSet

\* And conversely.
LEMMA CompleteIsWhole ==
    ASSUME ReferencesOK, NEW a \in Rows, Complete(a)
    PROVE  Whole(a)
BY RowFacts DEF Complete, Whole, IsDAGVersion, IsPatchSet

\* A member of a chain is a whole version.
LEMMA MemberIsWhole ==
    ASSUME ReferencesOK, TablesOK, NEW a \in Rows, NEW i \in 1..Len(chain[a])
    PROVE  Whole(chain[a][i])
BY DEF TablesOK, ChainOK, MemberOK, Whole

-----------------------------------------------------------------------------
(* Rows stay, and so do the chains of whole versions. *)

\* Rows are only added, and only the chain of head x changes.
Grows(x) ==
    /\ Rows \subseteq Rows'
    /\ \A a \in Rows : artifact'[a] = artifact[a] /\ (a # x => chain'[a] = chain[a])

\* A whole version stays as it is.
LEMMA WholeStays ==
    ASSUME NEW x, Grows(x), ~Whole(x), NEW a, Whole(a)
    PROVE  Whole(a)' /\ chain'[a] = chain[a] /\ artifact'[a] = artifact[a] /\ a \in Rows
BY DEF Grows, Whole, IsPatchSet

\* What a whole version materialises to stays as it is.
LEMMA MaterializedStays ==
    ASSUME ReferencesOK, TablesOK, NEW x, Grows(x), ~Whole(x), NEW a, Whole(a)
    PROVE  \A w : MaterializesTo(a, w) => MaterializesTo(a, w)'
<1>1. chain'[a] = chain[a] /\ artifact'[a] = artifact[a] /\ a \in Rows
  BY WholeStays
<1>2. \A i \in DOMAIN chain[a] : artifact'[chain[a][i]] = artifact[chain[a][i]]
  <2>1. \A i \in DOMAIN chain[a] : chain[a][i] \in Rows
    BY <1>1, RowFacts DEF TablesOK, ChainOK, MemberOK
  <2> QED
    BY <2>1 DEF Grows
<1>3. IsPatchSet(a) => artifact'[artifact[a].base] = artifact[artifact[a].base]
  BY <1>1 DEF TablesOK, ChainOK, Grows
<1>4. IsDAGVersion(a) \/ IsPatchSet(a)
  BY <1>1, RowFacts DEF IsDAGVersion, IsPatchSet
<1>5. IsDAGVersion(a)' <=> IsDAGVersion(a)
  BY <1>1 DEF IsDAGVersion
<1>6. CASE IsDAGVersion(a)
  <2>1. GetWorkflowComponents(a)' = GetWorkflowComponents(a)
    BY <1>1, <1>5, <1>6 DEF GetWorkflowComponents
  <2> QED
    BY <2>1 DEF MaterializesTo, GetWorkflow, WorkflowResponse
<1>7. CASE ~IsDAGVersion(a)
  <2>1. GetWorkflowComponents(a)' = GetWorkflowComponents(a)
    BY <1>1, <1>2, <1>3, <1>4, <1>5, <1>7 DEF GetWorkflowComponents, loadPatchSetComponents, GetPatchChain
  <2> QED
    BY <2>1 DEF MaterializesTo, GetWorkflow, WorkflowResponse
<1> QED
  BY <1>6, <1>7

-----------------------------------------------------------------------------
(* What other requests rely on stays. *)

\* The chain of another row stays in order.
LEMMA ChainStays ==
    ASSUME ReferencesOK, TablesOK, NEW x, Grows(x), ~Whole(x), NEW a \in Rows, a # x
    PROVE  ChainOK(a)'
<1>1. ChainOK(a) /\ chain'[a] = chain[a] /\ artifact'[a] = artifact[a] /\ a \in Rows'
  BY DEF TablesOK, Grows
<1>2. IsDAGVersion(a)' = IsDAGVersion(a) /\ IsPatchSet(a)' = IsPatchSet(a)
  BY <1>1 DEF IsDAGVersion, IsPatchSet
<1>3. IsPatchSet(a) => artifact[a].base \in Rows' /\ IsDAGVersion(artifact[a].base)'
  BY <1>1 DEF ChainOK, Grows, IsDAGVersion
<1>4. ASSUME NEW i \in 1..Len(chain[a]) PROVE MemberOK(a, i)'
  <2>1. MemberOK(a, i) /\ Whole(chain[a][i])
    BY <1>1, <1>4, MemberIsWhole DEF ChainOK
  <2>2. chain'[chain[a][i]] = chain[chain[a][i]] /\ artifact'[chain[a][i]] = artifact[chain[a][i]]
        /\ chain[a][i] \in Rows'
    BY <2>1, WholeStays DEF Grows
  <2> QED
    BY <1>1, <2>1, <2>2, Zenon DEF MemberOK, IsPatchSet
<1> QED
  BY <1>1, <1>2, <1>3, <1>4 DEF ChainOK

\* A head still extends the version it was put on.
LEMMA ExtendsStays ==
    ASSUME NEW x, Grows(x), NEW a, NEW b \in Rows, Extends(a, b)
    PROVE  Extends(a, b)'
BY DEF Extends, Grows, IsPatchSet, IsDAGVersion

\* A request that does not take the step, and does not build head x, still
\* finds the version it works on.
LEMMA TargetStays ==
    ASSUME IInv, NEW x, Grows(x), ~Whole(x), NEW u \in Slot, req'[u] = req[u]
    PROVE  TargetOK(u)'
<1> DEFINE r == req[u]
<1>0. TargetOK(u) /\ ReferencesOK /\ TablesOK
  BY DEF IInv, RequestOK
<1>1. \A a : Whole(a) => Whole(a)' /\ \A w : MaterializesTo(a, w) => MaterializesTo(a, w)'
  BY <1>0, WholeStays, MaterializedStays
<1>2. \A a \in Rows : /\ a \in Rows' /\ artifact'[a] = artifact[a]
                      /\ IsPatchSet(a)' = IsPatchSet(a) /\ IsDAGVersion(a)' = IsDAGVersion(a)
  BY DEF Grows, IsPatchSet, IsDAGVersion
<1>3. (r.pc \in {"validate", "patch", "chain", "member", "materialize", "freeze", "run"} =>
         Whole(r.target))'
  BY <1>0, <1>1 DEF TargetOK
<1>4. (r.pc \in {"readchain", "compact"} => r.target \in Rows /\ IsPatchSet(r.target))'
  BY <1>0, <1>2 DEF TargetOK
<1>5. (r.pc = "compact" /\ Len(r.members) = artifact[r.target].depth =>
         Whole(r.target) /\ MaterializesTo(r.target, r.workflow))'
  BY <1>0, <1>1, <1>2 DEF TargetOK
<1>6. (r.pc \in {"freeze", "run"} => MaterializesTo(r.target, r.workflow))'
  BY <1>0, <1>1 DEF TargetOK
<1>7. (r.pc = "run" =>
         r.art \in Rows /\ IsDAGVersion(r.art) /\ artifact[r.art].workflow = r.workflow)'
  BY <1>0, <1>2 DEF TargetOK
<1> QED
  BY <1>3, <1>4, <1>5, <1>6, <1>7 DEF TargetOK

\* Nor has the head it builds, or moves its tag to, changed.
LEMMA PatchStays ==
    ASSUME IInv, NEW x, Grows(x), ~Whole(x), NEW u \in Slot, req'[u] = req[u],
           Building(u) => req[u].art # x
    PROVE  PatchOK(u)'
<1> DEFINE r == req[u]
<1>0. TargetOK(u) /\ PatchOK(u)
  BY DEF IInv, RequestOK
<1>1. \A a : Whole(a) => Whole(a)' /\ chain'[a] = chain[a] /\ artifact'[a] = artifact[a] /\ a \in Rows
  BY WholeStays
<1>2. \A a \in Rows : artifact'[a] = artifact[a] /\ (a # x => chain'[a] = chain[a])
  BY DEF Grows
<1>3. \A a : \A b \in Rows : Extends(a, b) => Extends(a, b)'
  BY ExtendsStays, SMTT(40)
<1>4. CASE r.pc \in {"chain", "member"}
  <2>1. Whole(r.target) /\ Extends(r.art, r.target) /\ r.art \in Rows /\ r.art # x
    BY <1>0, <1>4, Zenon DEF TargetOK, PatchOK, Extends, Building
  <2>2. Extends(r.art, r.target)' /\ chain'[r.art] = chain[r.art] /\ artifact'[r.art] = artifact[r.art]
        /\ chain'[r.target] = chain[r.target]
    BY <1>1, <1>2, <1>3, <2>1, Zenon
  <2> QED
    BY <1>0, <1>4, <2>2, ZenonT(60) DEF PatchOK
<1>5. CASE r.pc \in {"exists", "create", "move"}
  <2>1. Whole(r.art) /\ Whole(r.art)' /\ chain'[r.art] = chain[r.art] /\ artifact'[r.art] = artifact[r.art]
    BY <1>0, <1>1, <1>5, Zenon DEF PatchOK
  <2>2. CASE r.ops = <<>>
    BY <1>0, <1>5, <2>1, <2>2, Zenon DEF PatchOK
  <2>3. CASE r.ops # <<>>
    <3>1. Whole(r.target) /\ Extends(r.art, r.target)
      BY <1>0, <1>5, <2>3, Zenon DEF PatchOK
    <3>2. Whole(r.target)' /\ Extends(r.art, r.target)' /\ chain'[r.target] = chain[r.target]
      BY <1>1, <1>3, <3>1
    <3>3. /\ req'[u].row # 0
          /\ \A i \in 1..(artifact'[r.art].depth - 1) : chain'[r.art][i] = chain'[r.target][i]
      BY <1>0, <1>5, <2>1, <2>3, <3>2, Zenon DEF PatchOK
    <3> QED
      BY <1>5, <2>1, <3>2, <3>3, Zenon DEF PatchOK
  <2> QED
    BY <2>2, <2>3
<1>6. CASE r.pc = "migrate"
  BY <1>0, <1>1, <1>6, Zenon DEF PatchOK
<1>7. CASE r.pc \notin {"chain", "member", "exists", "create", "move", "migrate"}
  BY <1>0, <1>7, Zenon DEF PatchOK
<1> QED
  BY <1>4, <1>5, <1>6, <1>7

\* The statements on a tag: none, a move, a removal or a new row.
TagsForward ==
    /\ born' \in Nat /\ born <= born'
    /\ \A t \in Tag :
          \/ tag'[t] = tag[t]
          \/ tag'[t].row = 0
          \/ tag'[t].row > born
          \/ tag'[t].row = tag[t].row /\ tag'[t].version = tag[t].version + 1

\* A request that does not take the step still knows what its tag pointed at.
LEMMA SeenStays ==
    ASSUME IInv, TagsForward, NEW u \in Slot, req'[u] = req[u]
    PROVE  SeenOK(u)'
<1> DEFINE r == req[u]
<1>0. SeenOK(u) /\ ReferencesOK
  BY DEF IInv, RequestOK
<1>1. r.row \in Nat /\ r.version \in Nat /\ born \in Nat
  BY <1>0, Zenon DEF ReferencesOK, RequestType
<1>2. CASE r.row = 0
  BY <1>0, <1>1, <1>2 DEF SeenOK, TagsForward
<1>3. CASE r.row # 0
  <2>1. r.tag \in Tag /\ r.row <= born /\ r.row <= born'
    BY <1>0, <1>1, <1>3 DEF SeenOK, TagsForward
  <2>2. tag[r.tag].version \in Nat /\ tag[r.tag].row \in Nat
    BY <1>0, <2>1 DEF ReferencesOK
  <2>3. r.row = tag'[r.tag].row =>
          \/ tag'[r.tag] = tag[r.tag]
          \/ tag'[r.tag].row = tag[r.tag].row /\ tag'[r.tag].version = tag[r.tag].version + 1
    BY <1>1, <1>3, <2>1 DEF TagsForward
  <2>4. r.row = tag[r.tag].row =>
          /\ r.version <= tag[r.tag].version
          /\ r.version = tag[r.tag].version => r.target = tag[r.tag].target
    BY <1>0, <1>3 DEF SeenOK
  <2>5. r.row = tag'[r.tag].row =>
          /\ r.version <= tag'[r.tag].version
          /\ r.version = tag'[r.tag].version => r.target = tag'[r.tag].target
    BY <1>1, <2>2, <2>3, <2>4
  <2> QED
    BY <2>1, <2>5 DEF SeenOK
<1> QED
  BY <1>2, <1>3

-----------------------------------------------------------------------------
(* Kinds of steps. *)

IsRequest(r) == r \in RequestType({r.workflow, r.ops})

IsArtifact(a) == a \in ArtifactType({a.workflow, a.ops})

\* The requests hold what their types say.
LEMMA RequestFacts ==
    ASSUME ReferencesOK, NEW s \in Slot
    PROVE  IsRequest(req[s])
<1>1. PICK V : req \in [Slot -> RequestType(V)]
  BY DEF ReferencesOK
<1>2. req[s] \in RequestType(V)
  BY <1>1
<1> QED
  BY <1>2, Zenon DEF IsRequest, RequestType

\* A wider set of workflows and operations is a wider type.
LEMMA TypesWiden ==
    ASSUME NEW V, NEW W, V \subseteq W
    PROVE  RequestType(V) \subseteq RequestType(W) /\ ArtifactType(V) \subseteq ArtifactType(W)
BY Zenon DEF RequestType, ArtifactType

\* One request goes on, and at most one row is added.
LEMMA TypesStay ==
    ASSUME ReferencesOK, NEW s \in Slot, NEW r, IsRequest(r), req' = [req EXCEPT ![s] = r],
           \/ artifact' = artifact
           \/ \E a : IsArtifact(a) /\ artifact' = Append(artifact, a)
    PROVE  /\ \E V : artifact' \in Seq(ArtifactType(V)) /\ req' \in [Slot -> RequestType(V)]
           /\ req'[s] = r
<1>1. PICK V : artifact \in Seq(ArtifactType(V)) /\ req \in [Slot -> RequestType(V)]
  BY DEF ReferencesOK
<1>2. PICK a : artifact' = artifact \/ (IsArtifact(a) /\ artifact' = Append(artifact, a))
  OBVIOUS
<1> DEFINE W == V \cup {r.workflow, r.ops, a.workflow, a.ops}
<1>3. RequestType(V) \subseteq RequestType(W) /\ ArtifactType(V) \subseteq ArtifactType(W)
  BY TypesWiden, Zenon
<1>4. r \in RequestType(W) /\ (IsArtifact(a) => a \in ArtifactType(W))
  BY TypesWiden, Zenon DEF IsRequest, IsArtifact
<1> HIDE DEF W
<1>5. req' \in [Slot -> RequestType(W)] /\ req'[s] = r
  BY <1>1, <1>3, <1>4
<1>6. artifact \in Seq(ArtifactType(W))
  BY <1>1, <1>3
<1>7. artifact' \in Seq(ArtifactType(W))
  BY <1>2, <1>4, <1>6
<1> QED
  BY <1>5, <1>7

\* All of the invariant but what the request that takes the step relies on.
RestOK(s) ==
    /\ ReferencesOK /\ TablesOK /\ TagsOK /\ HeadsApart /\ RunsOK /\ CompactedOK
    /\ \A u \in Slot \ {s} : RequestOK(u)

\* There is no row 0.
LEMMA ZeroIsNoRow ==
    ASSUME ReferencesOK
    PROVE  ~Whole(0)
BY RowFacts DEF Whole

\* The runs and the tags that are there, and the compacted bases, are still
\* what they were.
LEMMA RestStays ==
    ASSUME IInv, NEW x, Grows(x), ~Whole(x)
    PROVE  /\ runs' = runs => RunsOK'
           /\ tag' = tag /\ born' = born => TagsOK'
           /\ Rows' = Rows => CompactedOK'
           /\ \A b \in Rows :
                LET p == artifact[b].compacted_from
                IN  p # 0 =>
                      /\ p \in Rows' /\ IsPatchSet(p)' /\ artifact'[b] = artifact[b]
                      /\ artifact[b].original_patches = artifact'[p].depth =>
                            Whole(p)' /\ MaterializesTo(p, artifact[b].workflow)'
<1>0. ReferencesOK /\ TablesOK /\ TagsOK /\ RunsOK /\ CompactedOK
  BY DEF IInv
<1>1. \A a : Whole(a) => Whole(a)' /\ \A w : MaterializesTo(a, w) => MaterializesTo(a, w)'
  BY <1>0, WholeStays, MaterializedStays
<1>2. \A a \in Rows : /\ a \in Rows' /\ artifact'[a] = artifact[a]
                      /\ IsPatchSet(a)' = IsPatchSet(a) /\ IsDAGVersion(a)' = IsDAGVersion(a)
  BY DEF Grows, IsPatchSet, IsDAGVersion
<1>3. runs' = runs => RunsOK'
  BY <1>0, <1>1, <1>2 DEF RunsOK
<1>4. tag' = tag /\ born' = born => TagsOK'
  BY <1>0, <1>1 DEF TagsOK, ExistsTag
<1>5. ASSUME NEW b \in Rows, artifact[b].compacted_from # 0
      PROVE  LET p == artifact[b].compacted_from
             IN  /\ p \in Rows' /\ IsPatchSet(p)' /\ artifact'[b] = artifact[b]
                 /\ artifact[b].original_patches = artifact'[p].depth =>
                       Whole(p)' /\ MaterializesTo(p, artifact[b].workflow)'
  BY <1>0, <1>1, <1>2, <1>5 DEF CompactedOK
<1>6. Rows' = Rows => CompactedOK'
  BY <1>2, <1>5 DEF CompactedOK
<1> QED
  BY <1>3, <1>4, <1>5, <1>6

\* No row is added and no chain changed: what is stored stays in order, and so
\* do the requests that do not take the step.
LEMMA TablesStill ==
    ASSUME IInv, UNCHANGED <<artifact, chain>>, TagsForward
    PROVE  /\ Grows(0) /\ ~Whole(0) /\ Rows' = Rows /\ TablesOK' /\ CompactedOK'
           /\ \A u \in Slot : req'[u] = req[u] => RequestOK(u)'
<1>0. ReferencesOK /\ TablesOK
  BY DEF IInv
<1>1. Grows(0) /\ ~Whole(0) /\ Rows' = Rows
  BY <1>0, ZeroIsNoRow DEF Grows, Rows
<1>2. TablesOK'
  <2>1. \A a \in Rows : a # 0
    BY <1>0, RowFacts
  <2> QED
    BY <1>0, <1>1, <2>1, ChainStays DEF TablesOK
<1>3. CompactedOK'
  BY <1>1, RestStays
<1>4. \A u \in Slot : Building(u) => req[u].art # 0
  <2>1. \A u \in Slot : Building(u) => req[u].art \in Rows
    BY DEF IInv, RequestOK, PatchOK, Building, Extends
  <2>2. 0 \notin Rows
    BY <1>0, RowFacts
  <2> QED
    BY <2>1, <2>2, Zenon
<1>5. \A u \in Slot : req'[u] = req[u] => RequestOK(u)'
  BY <1>1, <1>4, TargetStays, PatchStays, SeenStays DEF RequestOK
<1> QED
  BY <1>1, <1>2, <1>3, <1>5

\* A request that only reads.
LEMMA ReadStep ==
    ASSUME IInv, NEW s \in Slot, NEW r, IsRequest(r), req' = [req EXCEPT ![s] = r],
           UNCHANGED <<tag, artifact, chain, runs, born>>,
           r.pc \in {"chain", "member"} => Building(s) /\ r.art = req[s].art
    PROVE  RestOK(s)' /\ req'[s] = r /\ Grows(0) /\ ~Whole(0)
<1>0. ReferencesOK /\ HeadsApart
  BY DEF IInv
<1>1. TagsForward
  BY <1>0 DEF TagsForward, ReferencesOK
<1>2. /\ Grows(0) /\ ~Whole(0) /\ TablesOK' /\ CompactedOK'
      /\ \A u \in Slot : req'[u] = req[u] => RequestOK(u)'
  BY <1>1, TablesStill
<1>3. TagsOK' /\ RunsOK'
  BY <1>2, RestStays
<1>4. ReferencesOK' /\ req'[s] = r
  BY <1>0, TypesStay, Zenon DEF ReferencesOK
<1>5. \A u \in Slot \ {s} : req'[u] = req[u]
  BY <1>0 DEF ReferencesOK
<1>6. HeadsApart'
  BY <1>0, <1>4, <1>5 DEF HeadsApart, Building
<1> QED
  BY <1>2, <1>3, <1>4, <1>5, <1>6 DEF RestOK

\* What a new row has to refer to.
NewRowOK(a) ==
    /\ a.kind = "patch_set" => a.depth > 0 /\ a.base \in Rows /\ IsDAGVersion(a.base)
    /\ a.compacted_from # 0 =>
          /\ a.compacted_from \in Rows /\ IsPatchSet(a.compacted_from)
          /\ a.original_patches = artifact[a.compacted_from].depth =>
                Whole(a.compacted_from) /\ MaterializesTo(a.compacted_from, a.workflow)

\* A request that adds a row.
LEMMA CreateStep ==
    ASSUME IInv, NEW s \in Slot, NEW r, IsRequest(r), req' = [req EXCEPT ![s] = r],
           NEW a, IsArtifact(a), Create(a), UNCHANGED <<tag, runs, born>>,
           NewRowOK(a), r.pc \in {"chain", "member"} => r.art = NewArtifact
    PROVE  /\ RestOK(s)' /\ req'[s] = r
           /\ Grows(0) /\ ~Whole(0) /\ NewArtifact \notin Rows
           /\ NewArtifact \in Rows' /\ artifact'[NewArtifact] = a /\ chain'[NewArtifact] = <<>>
<1>0. ReferencesOK /\ TablesOK /\ HeadsApart
  BY DEF IInv
<1>1. Len(artifact) \in Nat /\ Len(chain) = Len(artifact) /\ Rows = 1..Len(artifact)
  BY <1>0, RowFacts DEF ReferencesOK
<1>2. PICK V : artifact \in Seq(ArtifactType(V))
  BY <1>0 DEF ReferencesOK
<1>3. /\ Rows' = 1..(Len(artifact) + 1)
      /\ \A i \in Rows : artifact'[i] = artifact[i]
      /\ artifact'[NewArtifact] = a
      /\ Len(artifact') = Len(artifact) + 1
  <2>1. artifact' = Append(artifact, a)
    BY DEF Create
  <2> QED
    BY <1>1, <1>2, <2>1 DEF Rows, NewArtifact
<1>4. /\ chain' \in Seq(Seq(Nat)) /\ Len(chain') = Len(artifact')
      /\ \A i \in Rows : chain'[i] = chain[i]
      /\ chain'[NewArtifact] = <<>>
  <2>1. chain' = Append(chain, <<>>) /\ <<>> \in Seq(Nat) /\ chain \in Seq(Seq(Nat))
    BY <1>0 DEF Create, ReferencesOK
  <2> QED
    BY <1>1, <1>3, <2>1 DEF NewArtifact
<1>5. /\ Grows(0) /\ ~Whole(0)
      /\ NewArtifact \notin Rows /\ NewArtifact \in Rows' /\ Rows' = Rows \cup {NewArtifact}
  <2>1. NewArtifact \notin Rows /\ NewArtifact \in Rows' /\ Rows' = Rows \cup {NewArtifact}
    BY <1>1, <1>3 DEF NewArtifact
  <2>2. Grows(0)
    BY <1>3, <1>4, <2>1 DEF Grows
  <2> QED
    BY <1>0, <2>1, <2>2, ZeroIsNoRow
<1>6. ReferencesOK' /\ req'[s] = r
  BY <1>0, <1>4, TypesStay, Zenon DEF ReferencesOK, Create
<1>7. TablesOK'
  <2>1. \A i \in Rows : ChainOK(i)'
    BY <1>0, <1>1, <1>5, ChainStays
  <2>2. ASSUME NEW n, n = NewArtifact PROVE ChainOK(n)'
    <3>1. artifact'[n] = a /\ chain'[n] = <<>> /\ Len(chain'[n]) = 0 /\ 1..Len(chain'[n]) = {}
      BY <1>3, <1>4, <2>2
    <3>2. a.depth \in Nat
      BY DEF IsArtifact, ArtifactType
    <3>3. a.kind = "patch_set" => a.depth > 0 /\ a.base \in Rows' /\ IsDAGVersion(a.base)'
      BY <1>3, <1>5 DEF NewRowOK, IsDAGVersion
    <3> QED
      BY <3>1, <3>2, <3>3 DEF ChainOK, IsPatchSet, IsDAGVersion
  <2>3. \A n \in Rows' : ChainOK(n)'
    BY <1>5, <2>1, <2>2
  <2> QED
    BY <2>3 DEF TablesOK
<1>8. TagsOK' /\ RunsOK'
  BY <1>5, RestStays, Zenon
<1>9. CompactedOK'
  <2> DEFINE FromOK(b, p) ==
               /\ p \in Rows /\ IsPatchSet(p)
               /\ artifact[b].original_patches = artifact[p].depth =>
                     Whole(p) /\ MaterializesTo(p, artifact[b].workflow)
  <2>1. ASSUME NEW b \in Rows, NEW p, p = artifact[b].compacted_from, p # 0
        PROVE  FromOK(b, p)'
    BY <1>3, <1>5, <2>1, RestStays, Zenon
  <2>2. ASSUME NEW b, b = NewArtifact, NEW p, p = a.compacted_from, p # 0
        PROVE  FromOK(b, p)'
    <3>1. p \in Rows' /\ IsPatchSet(p)' /\ artifact'[p] = artifact[p] /\ artifact'[b] = a
      BY <1>3, <1>5, <2>2, Zenon DEF NewRowOK, IsPatchSet
    <3>2. a.original_patches = artifact[p].depth => Whole(p)' /\ MaterializesTo(p, a.workflow)'
      <4>1. a.original_patches = artifact[p].depth => Whole(p) /\ MaterializesTo(p, a.workflow)
        BY <2>2, Zenon DEF NewRowOK
      <4> QED
        BY <1>0, <1>5, <4>1, WholeStays, MaterializedStays, Zenon
    <3>3. (MaterializesTo(p, artifact[b].workflow))' <=> MaterializesTo(p, a.workflow)'
      BY <3>1 DEF MaterializesTo
    <3> QED
      BY <3>1, <3>2, <3>3, Zenon
  <2> HIDE DEF FromOK
  <2>3. \A b \in Rows' : \A p : p = artifact'[b].compacted_from /\ p # 0 => FromOK(b, p)'
    BY <1>3, <1>5, <2>1, <2>2, Zenon
  <2> QED
    BY <2>3, Zenon DEF CompactedOK, FromOK
<1>10. \A u \in Slot \ {s} : req'[u] = req[u]
  <2>1. PICK W : req \in [Slot -> W]
    BY <1>0, Zenon DEF ReferencesOK
  <2> QED
    BY <2>1, Zenon
<1>11. \A u \in Slot : Building(u) => req[u].art \in Rows
  BY DEF IInv, RequestOK, PatchOK, Building, Extends
<1>12. TagsForward
  BY <1>0 DEF TagsForward, ReferencesOK
<1>13. \A u \in Slot \ {s} : RequestOK(u)'
  <2>1. \A u \in Slot : Building(u) => req[u].art # 0
    BY <1>1, <1>11
  <2> QED
    BY <1>5, <1>10, <1>12, <2>1, TargetStays, PatchStays, SeenStays DEF RequestOK
<1>14. HeadsApart'
  BY <1>0, <1>5, <1>6, <1>10, <1>11 DEF HeadsApart, Building
<1> QED
  BY <1>3, <1>4, <1>5, <1>6, <1>7, <1>8, <1>9, <1>13, <1>14 DEF RestOK

\* What is left to show of a step is what its own request relies on.
LEMMA StepOK ==
    ASSUME NEW s \in Slot, RestOK(s)', RequestOK(s)'
    PROVE  IInv'
BY DEF IInv, RestOK

\* The fields of an idle slot.
LEMMA NoRequestType ==
    /\ IsRequest(NoRequest) /\ NoRequest.pc = "idle" /\ NoRequest.ops = <<>>
    /\ NoRequest.tag = "" /\ NoRequest.row = 0 /\ NoRequest.version = 0
<1>1. <<>> \in Seq(Nat)
  OBVIOUS
<1> QED
  BY <1>1, Zenon DEF IsRequest, RequestType, NoRequest, Pc

\* A request that has ended relies on nothing.
LEMMA EndedOK ==
    ASSUME NEW s \in Slot, ReferencesOK', req'[s] = NoRequest
    PROVE  RequestOK(s)'
<1>1. born' \in Nat
  BY DEF ReferencesOK
<1>2. req'[s].pc = "idle" /\ req'[s].ops = <<>> /\ req'[s].row = 0
  BY NoRequestType, ZenonT(60)
<1>3. TargetOK(s)' /\ PatchOK(s)'
  BY <1>2, Zenon DEF TargetOK, PatchOK
<1>4. SeenOK(s)'
  BY <1>1, <1>2 DEF SeenOK
<1> QED
  BY <1>3, <1>4 DEF RequestOK

\* The tag is moved, inserted or removed, the run inserted, or the request
\* ends without a statement.
LEMMA LastStep ==
    ASSUME IInv, NEW s \in Slot, req' = [req EXCEPT ![s] = NoRequest],
           UNCHANGED <<artifact, chain>>, TagsForward,
           tag' \in [Tag -> [target: Nat, version: Nat, row: Nat]], TagsOK',
           runs' \in Seq([base_ref: Nat, of: Nat]), RunsOK'
    PROVE  IInv'
<1>0. ReferencesOK /\ HeadsApart
  BY DEF IInv
<1>1. TablesOK' /\ CompactedOK' /\ \A u \in Slot : req'[u] = req[u] => RequestOK(u)'
  BY TablesStill
<1>2. ReferencesOK' /\ req'[s] = NoRequest
  BY <1>0, TypesStay, NoRequestType, Zenon DEF ReferencesOK, TagsForward
<1>3. \A u \in Slot \ {s} : req'[u] = req[u]
  BY <1>0 DEF ReferencesOK
<1>4. HeadsApart'
  <2>1. ~Building(s)'
    BY <1>2, NoRequestType, Zenon DEF Building
  <2> QED
    BY <1>0, <1>3, <2>1 DEF HeadsApart, Building
<1> QED
  BY <1>1, <1>2, <1>3, <1>4, EndedOK, StepOK DEF RestOK

\* A request ends without a statement.
LEMMA EndStep ==
    ASSUME IInv, NEW s \in Slot, req' = [req EXCEPT ![s] = NoRequest],
           UNCHANGED <<tag, artifact, chain, runs, born>>
    PROVE  IInv'
<1>1. RestOK(s)' /\ req'[s] = NoRequest
  BY ReadStep, NoRequestType, Zenon
<1> QED
  BY <1>1, EndedOK, StepOK DEF RestOK

-----------------------------------------------------------------------------
(* CreateOrMoveTag. *)

\* The tag is looked up.
LEMMA CreateOrMoveTagKeeps ==
    ASSUME IInv, NEW s \in Slot, CreateOrMoveTag(s)
    PROVE  IInv'
<1> DEFINE r == [req[s] EXCEPT !.pc = IF ExistsTag(req[s].tag) THEN "move" ELSE "create"]
<1>0. IsRequest(req[s]) /\ RequestOK(s) /\ req[s].pc = "exists" /\ ReferencesOK
  BY RequestFacts DEF IInv, CreateOrMoveTag, At
<1>1. /\ IsRequest(r) /\ r.pc \in {"move", "create"}
      /\ r.tag = req[s].tag /\ r.ops = req[s].ops /\ r.art = req[s].art /\ r.target = req[s].target
      /\ r.row = req[s].row /\ r.version = req[s].version
  BY <1>0, Zenon DEF IsRequest, RequestType, Pc
<1> HIDE DEF r
<1>2. req' = [req EXCEPT ![s] = r] /\ UNCHANGED <<tag, artifact, chain, runs, born>>
  BY DEF CreateOrMoveTag, Continue, r
<1>3. RestOK(s)' /\ req'[s] = r
  BY <1>1, <1>2, ReadStep, Zenon
<1>4. TargetOK(s)'
  BY <1>1, <1>3, Zenon DEF TargetOK
<1>5. PatchOK(s)'
  <2>1. \A b, c : (Whole(b) => Whole(b)') /\ (Extends(b, c) => Extends(b, c)')
    BY <1>2, Zenon DEF Whole, Extends, IsPatchSet, IsDAGVersion, Rows
  <2>2. artifact' = artifact /\ chain' = chain
    BY <1>2
  <2> QED
    BY <1>0, <1>1, <1>3, <2>1, <2>2, ZenonT(60) DEF RequestOK, PatchOK
<1>6. SeenOK(s)'
  BY <1>0, <1>1, <1>2, <1>3, ZenonT(60) DEF RequestOK, SeenOK
<1> QED
  BY <1>3, <1>4, <1>5, <1>6, StepOK DEF RequestOK

\* The tag is moved to a whole version, or is gone.
LEMMA MoveTagKeeps ==
    ASSUME IInv, NEW s \in Slot, MoveTag(s)
    PROVE  IInv'
<1> DEFINE t == req[s].tag
           a == req[s].art
<1>0. ReferencesOK /\ TagsOK /\ IsRequest(req[s]) /\ RequestOK(s) /\ req[s].pc = "move"
  BY RequestFacts, Zenon DEF IInv, MoveTag, At
<1>1. /\ req' = [req EXCEPT ![s] = NoRequest] /\ UNCHANGED <<artifact, chain, runs, born>>
      /\ UpdateTag(t, a)
  BY DEF MoveTag, Finish, Continue
<1>2. t \in Tag /\ Whole(a) /\ a \in Nat
  BY <1>0, Zenon DEF RequestOK, SeenOK, PatchOK, IsRequest, RequestType
<1>3. CASE ~ExistsTag(t)
  BY <1>1, <1>3, EndStep, Zenon DEF UpdateTag
<1>4. CASE ExistsTag(t)
  <2>1. /\ tag' \in [Tag -> [target: Nat, version: Nat, row: Nat]]
        /\ \A u \in Tag \ {t} : tag'[u] = tag[u]
        /\ tag'[t].target = a /\ tag'[t].version = tag[t].version + 1 /\ tag'[t].row = tag[t].row
    <3>1. tag \in [Tag -> [target: Nat, version: Nat, row: Nat]]
      BY <1>0 DEF ReferencesOK
    <3>2. PICK m : /\ m = [target |-> a, version |-> tag[t].version + 1, row |-> tag[t].row]
                   /\ tag' = [tag EXCEPT ![t] = m]
      BY <1>1, <1>4, Zenon DEF UpdateTag
    <3>3. m \in [target: Nat, version: Nat, row: Nat] /\ m.target = a
          /\ m.version = tag[t].version + 1 /\ m.row = tag[t].row
      BY <1>2, <3>1, <3>2
    <3> QED
      BY <1>2, <3>1, <3>2, <3>3, Zenon
  <2>2. TagsForward
    BY <1>0, <1>1, <2>1 DEF TagsForward, ReferencesOK
  <2>3. \A b : Whole(b) => Whole(b)'
    BY <1>1 DEF Whole, Rows, IsPatchSet
  <2>4. TagsOK'
    BY <1>0, <1>1, <1>2, <1>4, <2>1, <2>3, Zenon DEF TagsOK, ExistsTag
  <2>5. RunsOK' /\ runs' \in Seq([base_ref: Nat, of: Nat])
    BY <1>0, <1>1, <2>2, RestStays, TablesStill, Zenon DEF ReferencesOK
  <2> QED
    BY <1>1, <2>1, <2>2, <2>4, <2>5, LastStep, Zenon
<1> QED
  BY <1>3, <1>4

\* The tag is inserted with a new row, or has come up since.
LEMMA CreateTagKeeps ==
    ASSUME IInv, NEW s \in Slot, CreateTag(s)
    PROVE  IInv'
<1> DEFINE t == req[s].tag
           a == req[s].art
<1>0. ReferencesOK /\ TagsOK /\ IsRequest(req[s]) /\ RequestOK(s) /\ req[s].pc = "create"
  BY RequestFacts DEF IInv, CreateTag, At
<1>1. /\ req' = [req EXCEPT ![s] = NoRequest] /\ UNCHANGED <<artifact, chain, runs>>
      /\ InsertTag(t, a) \/ UNCHANGED <<tag, born>>
  BY SMTT(40) DEF CreateTag, Finish, Continue
<1>2. t \in Tag /\ Whole(a) /\ a \in Nat
  BY <1>0, Zenon DEF RequestOK, SeenOK, PatchOK, IsRequest, RequestType
<1>3. CASE UNCHANGED <<tag, born>>
  BY <1>1, <1>3, EndStep, Zenon
<1>4. CASE InsertTag(t, a)
  <2>0. born \in Nat /\ born' = born + 1 /\ \A u \in Tag : tag[u].row \in Nat
    BY <1>0, <1>4, Zenon DEF InsertTag, ReferencesOK
  <2>1. /\ tag' \in [Tag -> [target: Nat, version: Nat, row: Nat]]
        /\ \A u \in Tag \ {t} : tag'[u] = tag[u]
        /\ tag'[t].target = a /\ tag'[t].row = born + 1
    <3>1. tag \in [Tag -> [target: Nat, version: Nat, row: Nat]]
      BY <1>0 DEF ReferencesOK
    <3>2. PICK m : /\ m = [target |-> a, version |-> 1, row |-> born + 1]
                   /\ tag' = [tag EXCEPT ![t] = m]
      BY <1>4, Zenon DEF InsertTag
    <3>3. m \in [target: Nat, version: Nat, row: Nat] /\ m.target = a /\ m.row = born + 1
      BY <1>2, <2>0, <3>2
    <3> QED
      BY <1>2, <3>1, <3>2, <3>3, Zenon
  <2>2. TagsForward
    BY <2>0, <2>1 DEF TagsForward
  <2>3. \A b : Whole(b) => Whole(b)'
    BY <1>1 DEF Whole, Rows, IsPatchSet
  <2>4. TagsOK'
    <3>1. \A u \in Tag : tag'[u].row <= born'
      BY <1>0, <2>0, <2>1 DEF TagsOK
    <3>2. \A u \in Tag : ExistsTag(u)' => Whole(tag[u].target)' /\ tag'[u].row # 0
      BY <1>0, <1>2, <2>0, <2>1, <2>3, SMTT(40) DEF TagsOK, ExistsTag
    <3> QED
      BY <3>1, <3>2 DEF TagsOK
  <2>5. RunsOK' /\ runs' \in Seq([base_ref: Nat, of: Nat])
    BY <1>0, <1>1, <2>2, RestStays, TablesStill, Zenon DEF ReferencesOK
  <2> QED
    BY <1>1, <2>1, <2>2, <2>4, <2>5, LastStep, Zenon
<1> QED
  BY <1>1, <1>3, <1>4

\* The tag is removed; what it pointed at stays.
LEMMA DeleteWorkflowKeeps ==
    ASSUME IInv, NEW t \in Tag, DeleteWorkflow(t)
    PROVE  IInv'
<1>0. ReferencesOK /\ TagsOK /\ HeadsApart
  BY DEF IInv
<1>1. UNCHANGED <<artifact, chain, runs, req, born>> /\ tag' = [tag EXCEPT ![t] = NoTag]
  BY DEF DeleteWorkflow, RemoveTag
<1>2. /\ tag' \in [Tag -> [target: Nat, version: Nat, row: Nat]]
      /\ \A u \in Tag \ {t} : tag'[u] = tag[u]
      /\ tag'[t].target = 0 /\ tag'[t].row = 0
  BY <1>0, <1>1 DEF ReferencesOK, NoTag
<1>3. TagsForward
  BY <1>0, <1>1, <1>2 DEF TagsForward, ReferencesOK
<1>4. /\ Grows(0) /\ ~Whole(0) /\ TablesOK' /\ CompactedOK'
      /\ \A u \in Slot : req'[u] = req[u] => RequestOK(u)'
  BY <1>1, <1>3, TablesStill
<1>5. RunsOK'
  BY <1>1, <1>4, RestStays, Zenon
<1>6. \A b : Whole(b) => Whole(b)'
  BY <1>1, Zenon DEF Whole, Rows, IsPatchSet
<1>7. TagsOK'
  BY <1>0, <1>1, <1>2, <1>6 DEF TagsOK, ExistsTag, ReferencesOK
<1>8. ReferencesOK' /\ HeadsApart'
  BY <1>0, <1>1, <1>2 DEF ReferencesOK, HeadsApart, Building
<1> QED
  BY <1>1, <1>4, <1>5, <1>7, <1>8 DEF IInv

-----------------------------------------------------------------------------
(* The first statements of a request. *)

\* A request has read nothing yet, but for the head a compaction is asked for.
LEMMA StartKeeps ==
    ASSUME IInv, NEW s \in Slot, NEW r, IsRequest(r), Start(s, r),
           r.pc \in {"lookup", "resolve", "resolve_run", "readchain"},
           r.tag \in Tag, r.row = 0, r.version = 0,
           r.pc \in {"lookup", "readchain"} => r.ops = <<>>,
           r.pc = "readchain" => r.target \in Rows /\ IsPatchSet(r.target)
    PROVE  IInv'
<1>1. req' = [req EXCEPT ![s] = r] /\ UNCHANGED <<tag, artifact, chain, runs, born>>
  BY DEF Start
<1>2. RestOK(s)' /\ req'[s] = r
  BY <1>1, ReadStep, Zenon
<1>3. TargetOK(s)' /\ PatchOK(s)'
  BY <1>1, <1>2, Zenon DEF TargetOK, PatchOK, Rows, IsPatchSet
<1>4. SeenOK(s)'
  <2>1. born' \in Nat
    BY <1>2, Zenon DEF RestOK, ReferencesOK
  <2> QED
    BY <1>2, <2>1 DEF SeenOK
<1> QED
  BY <1>2, <1>3, <1>4, StepOK, Zenon DEF RequestOK

\* POST, PATCH, execute and compaction.
LEMMA StartsKeep ==
    ASSUME IInv, NEW s \in Slot, NEW t \in Tag,
           \/ CreateRun(s, t)
           \/ \E w \in Workflow : CreateWorkflow(s, t, w)
           \/ \E ops \in Patch : PatchWorkflow(s, t, ops)
           \/ \E a \in DOMAIN artifact : CompactWorkflow(s, t, a)
    PROVE  IInv'
<1>0. <<>> \in Seq(Nat) /\ \A a \in DOMAIN artifact : a \in Nat
  BY RowFacts DEF IInv, Rows
<1>1. CASE CreateRun(s, t)
  <2> DEFINE r == [NoRequest EXCEPT !.pc = "resolve_run", !.tag = t]
  <2>1. /\ IsRequest(r) /\ r.pc = "resolve_run" /\ r.tag = t /\ r.row = 0 /\ r.version = 0
        /\ r.ops = <<>>
    BY <1>0, Zenon DEF NoRequest, IsRequest, RequestType, Pc
  <2> QED
    BY <1>1, <2>1, StartKeeps, Zenon DEF CreateRun
<1>2. ASSUME NEW w \in Workflow, CreateWorkflow(s, t, w) PROVE IInv'
  <2> DEFINE r == [NoRequest EXCEPT !.pc = "lookup", !.tag = t, !.workflow = w]
  <2>1. /\ IsRequest(r) /\ r.pc = "lookup" /\ r.tag = t /\ r.row = 0 /\ r.version = 0
        /\ r.ops = <<>>
    BY <1>0, ZenonT(60) DEF NoRequest, IsRequest, RequestType, Pc
  <2> QED
    BY <1>2, <2>1, StartKeeps, Zenon DEF CreateWorkflow
<1>3. ASSUME NEW ops \in Patch, PatchWorkflow(s, t, ops) PROVE IInv'
  <2> DEFINE r == [NoRequest EXCEPT !.pc = "resolve", !.tag = t, !.ops = ops]
  <2>1. IsRequest(r) /\ r.pc = "resolve" /\ r.tag = t /\ r.row = 0 /\ r.version = 0
    BY <1>0, ZenonT(60) DEF NoRequest, IsRequest, RequestType, Pc
  <2> QED
    BY <1>3, <2>1, StartKeeps, Zenon DEF PatchWorkflow
<1>4. ASSUME NEW a \in DOMAIN artifact, CompactWorkflow(s, t, a) PROVE IInv'
  <2> DEFINE r == [NoRequest EXCEPT !.pc = "readchain", !.tag = t, !.target = a]
  <2>1. /\ IsRequest(r) /\ r.pc = "readchain" /\ r.tag = t /\ r.row = 0 /\ r.version = 0
        /\ r.ops = <<>> /\ r.target = a
    BY <1>0, ZenonT(60) DEF NoRequest, IsRequest, RequestType, Pc
  <2>2. a \in Rows /\ IsPatchSet(a)
    BY <1>4, Zenon DEF CompactWorkflow, GetCompactionCandidates, Rows
  <2> QED
    BY <1>4, <2>1, <2>2, StartKeeps, Zenon DEF CompactWorkflow
<1> QED
  BY <1>1, <1>2, <1>3, <1>4, SMTT(40)

\* The tag is read: it points at a whole version.
LEMMA ResolveTagKeeps ==
    ASSUME IInv, NEW s \in Slot, NEW pc \in Pc \ {"idle"}, NEW next \in {"validate", "patch", "materialize"},
           ResolveTag(s, pc, next)
    PROVE  IInv'
<1> DEFINE t == req[s].tag
           r == [Resolved(s) EXCEPT !.pc = next]
<1>0. IsRequest(req[s]) /\ RequestOK(s) /\ req[s].pc = pc /\ ReferencesOK /\ TagsOK
  BY RequestFacts DEF IInv, ResolveTag, At
<1>1. t \in Tag /\ UNCHANGED <<tag, artifact, chain, runs, born>>
  BY <1>0 DEF RequestOK, SeenOK, ResolveTag
<1>2. CASE ~ExistsTag(t)
  BY <1>1, <1>2, EndStep DEF ResolveTag, Finish, Continue
<1>3. CASE ExistsTag(t)
  <2>1. tag[t].target \in Nat /\ tag[t].row \in Nat /\ tag[t].version \in Nat
    BY <1>0, <1>1, SMTT(40) DEF ReferencesOK
  <2>2. /\ IsRequest(r) /\ r.pc = next /\ r.tag = t
        /\ r.target = tag[t].target /\ r.row = tag[t].row /\ r.version = tag[t].version
    BY <1>0, <2>1, Zenon DEF IsRequest, RequestType, Pc, Resolved
  <2> HIDE DEF r
  <2>3. req' = [req EXCEPT ![s] = r]
    BY <1>3 DEF ResolveTag, Continue, r
  <2>4. RestOK(s)' /\ req'[s] = r
    BY <1>1, <2>2, <2>3, ReadStep, ZenonT(60)
  <2>5. Whole(tag[t].target) /\ tag[t].row # 0 /\ tag[t].row <= born
    BY <1>0, <1>1, <1>3, Zenon DEF TagsOK
  <2>6. \A b : Whole(b) => Whole(b)'
    BY <1>1 DEF Whole, Rows, IsPatchSet
  <2>7. TargetOK(s)' /\ PatchOK(s)'
    BY <2>2, <2>4, <2>5, <2>6, Zenon DEF TargetOK, PatchOK
  <2>8. SeenOK(s)'
    <3>1. tag' = tag /\ born' = born
      BY <1>1
    <3> QED
      BY <1>1, <2>1, <2>2, <2>4, <2>5, <3>1 DEF SeenOK
  <2> QED
    BY <2>4, <2>7, <2>8, StepOK DEF RequestOK
<1> QED
  BY <1>2, <1>3

-----------------------------------------------------------------------------
(* POST /workflows. *)

\* The DAG that is there is whole.
LEMMA GetByVersionHashKeeps ==
    ASSUME IInv, NEW s \in Slot, GetByVersionHash(s)
    PROVE  IInv'
<1>0. IsRequest(req[s]) /\ RequestOK(s) /\ req[s].pc = "lookup" /\ ReferencesOK
  BY RequestFacts, ZenonT(60) DEF IInv, GetByVersionHash, At
<1>1. PICK r :
        /\ req' = [req EXCEPT ![s] = r]
        /\ \/ \E a \in Rows : IsDAGVersion(a) /\ r = [req[s] EXCEPT !.pc = "exists", !.art = a]
           \/ r = [req[s] EXCEPT !.pc = "artifact"]
  BY ZenonT(60) DEF GetByVersionHash, Continue, Rows
<1>2. UNCHANGED <<tag, artifact, chain, runs, born>> /\ req[s].ops = <<>>
  BY <1>0, ZenonT(60) DEF GetByVersionHash, RequestOK, PatchOK
<1>3. /\ IsRequest(r) /\ r.pc \in {"exists", "artifact"} /\ r.ops = <<>>
      /\ r.tag = req[s].tag /\ r.row = req[s].row /\ r.version = req[s].version
      /\ r.target = req[s].target
      /\ r.pc = "exists" => r.art \in Rows /\ IsDAGVersion(r.art)
  <2>1. CASE r = [req[s] EXCEPT !.pc = "artifact"]
    BY <1>0, <1>2, <2>1, Zenon DEF IsRequest, RequestType, Pc
  <2>2. ASSUME NEW a \in Rows, IsDAGVersion(a), r = [req[s] EXCEPT !.pc = "exists", !.art = a]
        PROVE  <1>3!:
    <3>1. a \in Nat
      BY <1>0, RowFacts, SMTT(40)
    <3> QED
      BY <1>0, <1>2, <2>2, <3>1, ZenonT(60) DEF IsRequest, RequestType, Pc
  <2> QED
    BY <1>1, <2>1, <2>2, Zenon
<1>4. RestOK(s)' /\ req'[s] = r
  BY <1>1, <1>2, <1>3, ReadStep, ZenonT(60)
<1>5. r.pc = "exists" => Whole(r.art)'
  BY <1>2, <1>3, Zenon DEF Whole, Rows, IsPatchSet, IsDAGVersion
<1>6. TargetOK(s)' /\ PatchOK(s)'
  BY <1>3, <1>4, <1>5, ZenonT(60) DEF TargetOK, PatchOK
<1>7. SeenOK(s)'
  BY <1>0, <1>2, <1>3, <1>4, Zenon DEF RequestOK, SeenOK
<1> QED
  BY <1>4, <1>6, <1>7, StepOK, SMTT(40) DEF RequestOK

\* A DAG as it is stored.
LEMMA DAGVersionFacts ==
    ASSUME NEW w, NEW from \in Nat, NEW patches \in Nat
    PROVE  LET a == DAGVersion(w, from, patches)
           IN  /\ IsArtifact(a) /\ a.kind = "dag_version" /\ a.workflow = w
               /\ a.compacted_from = from /\ a.original_patches = patches
BY DEF DAGVersion, IsArtifact, ArtifactType

\* The new DAG is whole.
LEMMA CreateDAGVersionKeeps ==
    ASSUME IInv, NEW s \in Slot, CreateDAGVersion(s)
    PROVE  IInv'
<1> DEFINE r == [req[s] EXCEPT !.pc = "exists", !.art = NewArtifact]
           a == DAGVersion(req[s].workflow, 0, 0)
<1>0. IsRequest(req[s]) /\ RequestOK(s) /\ req[s].pc = "artifact" /\ ReferencesOK
  BY RequestFacts, SMTT(40) DEF IInv, CreateDAGVersion, At
<1>1. NewArtifact \in Nat /\ req[s].ops = <<>>
  <2>1. NewArtifact \in Nat
    BY <1>0, RowFacts DEF NewArtifact
  <2>2. req[s].ops = <<>>
    BY <1>0, Zenon DEF RequestOK, PatchOK
  <2> QED
    BY <2>1, <2>2
<1>2. /\ IsRequest(r) /\ r.pc = "exists" /\ r.ops = <<>> /\ r.art = NewArtifact
      /\ r.tag = req[s].tag /\ r.row = req[s].row /\ r.version = req[s].version
      /\ r.target = req[s].target
  BY <1>0, <1>1, Zenon DEF IsRequest, RequestType, Pc
<1>3. IsArtifact(a) /\ a.kind = "dag_version" /\ a.compacted_from = 0
  BY DAGVersionFacts
<1>4. req' = [req EXCEPT ![s] = r] /\ Create(a) /\ UNCHANGED <<tag, runs, born>>
  BY SMTT(40) DEF CreateDAGVersion, Continue
<1> HIDE DEF r, a
<1>5. RestOK(s)' /\ req'[s] = r /\ NewArtifact \in Rows' /\ artifact'[NewArtifact] = a
  BY <1>2, <1>3, <1>4, CreateStep, ZenonT(60) DEF NewRowOK
<1>6. Whole(req[s].art)'
  BY <1>2, <1>3, <1>5, Zenon DEF Whole, IsPatchSet
<1>7. TargetOK(s)' /\ PatchOK(s)'
  BY <1>2, <1>5, <1>6, Zenon DEF TargetOK, PatchOK
<1>8. SeenOK(s)'
  BY <1>0, <1>2, <1>4, <1>5, ZenonT(60) DEF RequestOK, SeenOK
<1> QED
  BY <1>5, <1>7, <1>8, StepOK DEF RequestOK

-----------------------------------------------------------------------------
(* PATCH /workflows/:tag/patch. *)

\* The operations have been tried.
LEMMA ValidatePatchKeeps ==
    ASSUME IInv, NEW s \in Slot, ValidatePatch(s)
    PROVE  IInv'
<1> DEFINE r == [req[s] EXCEPT !.pc = "reresolve", !.checked = req[s].target]
<1>0. IsRequest(req[s]) /\ RequestOK(s) /\ req[s].pc = "validate" /\ ReferencesOK
  BY RequestFacts DEF IInv, ValidatePatch, At
<1>1. /\ UNCHANGED <<tag, artifact, chain, runs, born>>
      /\ req' = [req EXCEPT ![s] = r] \/ req' = [req EXCEPT ![s] = NoRequest]
  BY DEF ValidatePatch, Continue, Finish
<1>2. CASE req' = [req EXCEPT ![s] = NoRequest]
  BY <1>1, <1>2, EndStep, Zenon
<1>3. CASE req' = [req EXCEPT ![s] = r]
  <2>1. /\ IsRequest(r) /\ r.pc = "reresolve" /\ r.tag = req[s].tag /\ r.row = req[s].row
        /\ r.version = req[s].version /\ r.target = req[s].target
    BY <1>0, Zenon DEF IsRequest, RequestType, Pc
  <2> HIDE DEF r
  <2>2. RestOK(s)' /\ req'[s] = r
    BY <1>1, <1>3, <2>1, ReadStep, ZenonT(60)
  <2>3. TargetOK(s)' /\ PatchOK(s)'
    BY <1>0, <2>1, <2>2, Zenon DEF RequestOK, TargetOK, PatchOK
  <2>4. SeenOK(s)'
    BY <1>0, <1>1, <2>1, <2>2, ZenonT(60) DEF RequestOK, SeenOK
  <2> QED
    BY <2>2, <2>3, <2>4, StepOK DEF RequestOK
<1> QED
  BY <1>1, <1>2, <1>3

\* The new head extends the version that was resolved and has no members yet.
LEMMA CreatePatchArtifactKeeps ==
    ASSUME IInv, NEW s \in Slot, CreatePatchArtifact(s)
    PROVE  IInv'
<1> DEFINE b == req[s].target
           base == IF IsDAGVersion(b) THEN b ELSE artifact[b].base
           depth == IF IsDAGVersion(b) THEN 1 ELSE artifact[b].depth + 1
           r0 == [req[s] EXCEPT !.base = base, !.depth = depth]
           r == [r0 EXCEPT !.pc = "chain", !.art = NewArtifact]
           a == PatchSet(r0)
<1>0. /\ IsRequest(req[s]) /\ RequestOK(s) /\ req[s].pc = "patch" /\ ReferencesOK /\ TablesOK
  BY RequestFacts, SMTT(40) DEF IInv, CreatePatchArtifact, At
<1>1. NewArtifact \in Nat /\ Whole(b) /\ req[s].row # 0
  <2>1. NewArtifact \in Nat
    BY <1>0, RowFacts DEF NewArtifact
  <2>2. Whole(b) /\ req[s].row # 0
    BY <1>0, Zenon DEF RequestOK, TargetOK, PatchOK
  <2> QED
    BY <2>1, <2>2, Zenon
<1>2. /\ base \in Nat /\ base \in Rows /\ IsDAGVersion(base)
      /\ depth \in Nat /\ depth > 0
  <2>1. b \in Rows /\ b \in Nat /\ artifact[b].base \in Nat /\ artifact[b].depth \in Nat
        /\ (~IsDAGVersion(b) => IsPatchSet(b))
    BY <1>0, <1>1, RowFacts DEF Whole, IsDAGVersion, IsPatchSet
  <2>2. ChainOK(b)
    BY <1>0, <2>1, Zenon DEF TablesOK
  <2>3. CASE IsDAGVersion(b)
    BY <2>1, <2>3
  <2>4. CASE ~IsDAGVersion(b)
    <3>1. /\ artifact[b].depth > 0
          /\ artifact[b].base \in Rows /\ IsDAGVersion(artifact[b].base)
      BY <2>1, <2>2, <2>4, Zenon DEF ChainOK
    <3> QED
      BY <2>1, <2>4, <3>1
  <2> QED
    BY <2>3, <2>4
<1>3. req' = [req EXCEPT ![s] = r] /\ Create(a) /\ UNCHANGED <<tag, runs, born>>
  BY DEF CreatePatchArtifact, Continue
<1> HIDE DEF base, depth
<1>4. /\ IsRequest(r) /\ r.pc = "chain" /\ r.art = NewArtifact
      /\ r.tag = req[s].tag /\ r.row = req[s].row /\ r.version = req[s].version
      /\ r.target = b
  BY <1>0, <1>1, <1>2, Zenon DEF IsRequest, RequestType, Pc
<1>5. /\ IsArtifact(a) /\ a.kind = "patch_set" /\ a.base = base /\ a.depth = depth
      /\ a.compacted_from = 0
  BY <1>0, <1>2, ZenonT(60) DEF PatchSet, IsRequest, RequestType, IsArtifact, ArtifactType
<1> HIDE DEF r0, r, a
<1>6. /\ RestOK(s)' /\ req'[s] = r /\ Grows(0) /\ ~Whole(0)
      /\ NewArtifact \in Rows' /\ artifact'[NewArtifact] = a /\ chain'[NewArtifact] = <<>>
  BY <1>2, <1>3, <1>4, <1>5, CreateStep, ZenonT(60) DEF NewRowOK
<1>7. Whole(req[s].target)' /\ artifact'[b] = artifact[b] /\ req'[s].target = b
  BY <1>1, <1>4, <1>6, WholeStays, Zenon
<1>8. Extends(req[s].art, req[s].target)'
  BY <1>4, <1>5, <1>6, <1>7, ZenonT(60) DEF Extends, IsPatchSet, IsDAGVersion, base, depth
<1>9. TargetOK(s)' /\ PatchOK(s)'
  BY <1>1, <1>4, <1>6, <1>7, <1>8, ZenonT(60) DEF TargetOK, PatchOK
<1>10. SeenOK(s)'
  BY <1>0, <1>3, <1>4, <1>6, ZenonT(60) DEF RequestOK, SeenOK
<1> QED
  BY <1>6, <1>9, <1>10, StepOK DEF RequestOK

\* The members are those of the version it extends, and itself.
LEMMA GetPreviousChainKeeps ==
    ASSUME IInv, NEW s \in Slot, GetPreviousChain(s)
    PROVE  IInv'
<1> DEFINE b == req[s].target
           a == req[s].art
           before == IF IsDAGVersion(b) THEN <<>> ELSE chain[b]
           members == Append(before, a)
           r == [req[s] EXCEPT !.pc = "member", !.members = members]
<1>0. IsRequest(req[s]) /\ RequestOK(s) /\ req[s].pc = "chain" /\ ReferencesOK /\ TablesOK
  BY RequestFacts DEF IInv, GetPreviousChain, At
<1>1. /\ UNCHANGED <<tag, artifact, chain, runs, born>>
      /\ req' = [req EXCEPT ![s] = r]
  BY SMTT(40) DEF GetPreviousChain, Continue, GetPatchChain
<1>2. /\ Whole(b) /\ Extends(a, b) /\ chain[a] = <<>> /\ req[s].row # 0
      /\ a \in Nat /\ b \in Rows /\ a \in Rows
  BY <1>0, ZenonT(60) DEF RequestOK, TargetOK, PatchOK, IsRequest, RequestType, Whole, Extends
<1>3. artifact[b].depth \in Nat /\ chain[b] \in Seq(Nat) /\ artifact[a].depth \in Nat
      /\ (~IsDAGVersion(b) => IsPatchSet(b))
  BY <1>0, <1>2, RowFacts, ZenonT(60) DEF IsDAGVersion, IsPatchSet
<1>4. before \in Seq(Nat) /\ Len(before) + 1 = artifact[a].depth
      /\ \A i \in 1..Len(before) : before[i] = chain[b][i]
  <2>1. CASE IsDAGVersion(b)
    <3>1. artifact[a].depth = 1
      BY <1>2, <2>1, Zenon DEF Extends
    <3> QED
      BY <2>1, <3>1
  <2>2. CASE ~IsDAGVersion(b)
    <3>1. artifact[a].depth = artifact[b].depth + 1 /\ Len(chain[b]) = artifact[b].depth
      BY <1>2, <1>3, <2>2, Zenon DEF Extends, Whole
    <3> QED
      BY <1>3, <2>2, <3>1
  <2> QED
    BY <2>1, <2>2
<1> HIDE DEF before
<1>5. /\ members \in Seq(Nat) /\ Len(members) = artifact[a].depth
      /\ members[artifact[a].depth] = a
      /\ \A i \in 1..(artifact[a].depth - 1) : members[i] = chain[b][i]
  BY <1>2, <1>3, <1>4
<1> HIDE DEF members
<1>6. /\ IsRequest(r) /\ r.pc = "member" /\ r.tag = req[s].tag /\ r.row = req[s].row
      /\ r.version = req[s].version /\ r.target = b /\ r.art = a /\ r.members = members
  BY <1>0, <1>5, Zenon DEF IsRequest, RequestType, Pc
<1> HIDE DEF r
<1>7. RestOK(s)' /\ req'[s] = r
  BY <1>0, <1>1, <1>6, ReadStep, ZenonT(60) DEF Building
<1>8. Whole(req[s].target)' /\ Extends(req[s].art, req[s].target)'
  BY <1>1, <1>2, <1>6, <1>7, ZenonT(60) DEF Whole, Extends, Rows, IsPatchSet, IsDAGVersion
<1>9. TargetOK(s)'
  BY <1>6, <1>7, <1>8, Zenon DEF TargetOK
<1>10. PatchOK(s)'
  <2>1. Len(chain[a]) = 0 /\ 0 < artifact[a].depth /\ 1..Len(chain[a]) = {}
    <3>1. chain[a] = <<>> /\ artifact[a].depth \in Nat
      BY <1>2, <1>3, Zenon
    <3> QED
      BY <1>4, <3>1
  <2>2. /\ req'[s].pc = "member" /\ req'[s].row # 0
        /\ req'[s].art = a /\ req'[s].target = b /\ req'[s].members = members
    BY <1>2, <1>6, <1>7, Zenon
  <2>3. /\ Len(req'[s].members) = artifact'[req'[s].art].depth
        /\ req'[s].members[artifact'[req'[s].art].depth] = req'[s].art
        /\ \A i \in 1..(artifact'[req'[s].art].depth - 1) :
              req'[s].members[i] = chain'[req'[s].target][i]
        /\ Len(chain'[req'[s].art]) < artifact'[req'[s].art].depth
        /\ \A i \in 1..Len(chain'[req'[s].art]) : chain'[req'[s].art][i] = req'[s].members[i]
    BY <1>1, <1>5, <2>1, <2>2, Zenon
  <2> QED
    BY <1>8, <2>2, <2>3, Zenon DEF PatchOK
<1>11. SeenOK(s)'
  BY <1>0, <1>1, <1>6, <1>7, Zenon DEF RequestOK, SeenOK
<1> QED
  BY <1>7, <1>9, <1>10, <1>11, StepOK DEF RequestOK

\* A chain with one more member.
LEMMA AppendFacts ==
    ASSUME NEW S, NEW q \in Seq(S), NEW y \in S
    PROVE  /\ Append(q, y) \in Seq(S) /\ Len(Append(q, y)) = Len(q) + 1
           /\ Append(q, y)[Len(q) + 1] = y
           /\ \A i \in 1..Len(q) : Append(q, y)[i] = q[i]
OBVIOUS

\* A table with one row changed.
LEMMA RowChanged ==
    ASSUME NEW S, NEW table \in Seq(S), NEW a \in DOMAIN table, NEW q \in S
    PROVE  LET new == [table EXCEPT ![a] = q]
           IN  /\ new \in Seq(S) /\ Len(new) = Len(table) /\ new[a] = q
               /\ \A i \in DOMAIN table \ {a} : new[i] = table[i]
OBVIOUS

\* Member m comes next, at k, in the chain of head a that request s builds.
NextIs(s, a, k, m) ==
    req[s].pc = "member" /\ a = req[s].art /\ k = Len(chain[a]) + 1 /\ m = req[s].members[k]

\* What is known of it.
NextIsOK(a, k, m) ==
    /\ a \in Rows /\ IsPatchSet(a) /\ ~Whole(a)
    /\ k \in Nat /\ k - 1 = Len(chain[a]) /\ k <= artifact[a].depth /\ m \in Rows /\ m \in Nat
    /\ k = artifact[a].depth => m = a
    /\ k # artifact[a].depth =>
          /\ m # a /\ IsPatchSet(m) /\ artifact[m].depth = k
          /\ artifact[m].base = artifact[a].base
          /\ Len(chain[m]) = k /\ chain[m][k] = m
          /\ \A j \in 1..(k - 1) : chain[m][j] = chain[a][j]

\* It is the member of the version the head extends, or the head itself.
LEMMA NextMember ==
    ASSUME IInv, NEW s \in Slot, NEW a, NEW k, NEW m, NextIs(s, a, k, m)
    PROVE  NextIsOK(a, k, m)
<1>0. IsRequest(req[s]) /\ RequestOK(s) /\ ReferencesOK /\ TablesOK
  BY RequestFacts DEF IInv
<1>1. PICK b : b = req[s].target
  BY SMTT(40)
<1>2. /\ Whole(b) /\ Extends(a, b)
      /\ req[s].members[artifact[a].depth] = a
      /\ Len(chain[a]) < artifact[a].depth
      /\ k = artifact[a].depth => m = a
  BY <1>0, <1>1, ZenonT(60) DEF NextIs, RequestOK, TargetOK, PatchOK
<1>3. \A i \in 1..(artifact[a].depth - 1) : req[s].members[i] = chain[b][i]
  BY <1>0, <1>1, ZenonT(60) DEF NextIs, RequestOK, PatchOK
<1>4. \A i \in 1..Len(chain[a]) : chain[a][i] = req[s].members[i]
  BY <1>0, ZenonT(60) DEF NextIs, RequestOK, PatchOK
<1>5. a \in Rows /\ IsPatchSet(a) /\ b \in Rows
  BY <1>2, Zenon DEF Extends, Whole
<1>6. artifact[a].depth \in Nat /\ artifact[b].depth \in Nat /\ Len(chain[a]) \in Nat
  BY <1>0, <1>5, RowFacts
<1>7. (~IsDAGVersion(b) => IsPatchSet(b)) /\ \A i \in Rows : i \in Nat
  BY <1>0, <1>5, RowFacts, SMTT(40) DEF IsDAGVersion, IsPatchSet
<1>8. k \in Nat /\ k > 0 /\ k <= artifact[a].depth /\ k - 1 = Len(chain[a])
  BY <1>2, <1>6, SMTT(40) DEF NextIs
<1>9. ~Whole(a)
  <2>1. Len(chain[a]) # artifact[a].depth
    BY <1>2, <1>6, SMTT(40)
  <2> QED
    BY <1>5, <2>1 DEF Whole
<1>10. CASE k = artifact[a].depth
  BY <1>2, <1>5, <1>7, <1>8, <1>9, <1>10, Zenon DEF NextIsOK
<1>11. CASE k # artifact[a].depth
  <2>1. k \in 1..(artifact[a].depth - 1) /\ artifact[a].depth # 1
    BY <1>6, <1>8, <1>11, SMTT(40)
  <2>2. /\ IsPatchSet(b) /\ artifact[a].base = artifact[b].base
        /\ artifact[b].depth = artifact[a].depth - 1 /\ Len(chain[b]) = artifact[b].depth
    BY <1>2, <1>6, <1>7, <2>1 DEF Extends, Whole
  <2>3. m = chain[b][k] /\ k \in 1..Len(chain[b])
    BY <1>3, <2>1, <2>2, Zenon DEF NextIs
  <2>4. MemberOK(b, k)
    BY <1>0, <1>5, <2>3, Zenon DEF TablesOK, ChainOK
  <2>5. /\ m \in Rows /\ IsPatchSet(m) /\ artifact[m].depth = k
        /\ artifact[m].base = artifact[a].base /\ Len(chain[m]) = k
    BY <2>2, <2>3, <2>4, Zenon DEF MemberOK
  <2>6. \A j \in 1..k : chain[m][j] = chain[b][j]
    BY <2>3, <2>4, Zenon DEF MemberOK
  <2>7. m # a
    BY <1>11, <2>5
  <2>8. ASSUME NEW j \in 1..(k - 1) PROVE chain[m][j] = chain[a][j]
    <3>1. j \in 1..k /\ j \in 1..(artifact[a].depth - 1) /\ j \in 1..Len(chain[a])
      BY <1>6, <1>8, <2>8
    <3> QED
      BY <1>3, <1>4, <2>6, <3>1
  <2>9. chain[m][k] = m
    <3>1. k \in 1..k
      BY <1>8
    <3> QED
      BY <2>3, <2>6, <3>1, Zenon
  <2> QED
    BY <1>5, <1>7, <1>8, <1>9, <1>11, <2>5, <2>7, <2>8, <2>9, Zenon DEF NextIsOK
<1> QED
  BY <1>10, <1>11

\* The head has one member more, and nothing else changes.
Inserted(a, k, m) ==
    /\ Grows(a) /\ Rows' = Rows /\ artifact' = artifact
    /\ chain' \in Seq(Seq(Nat)) /\ Len(chain') = Len(chain)
    /\ \A i \in Rows \ {a} : chain'[i] = chain[i]
    /\ Len(chain'[a]) = k /\ chain'[a][k] = m
    /\ \A i \in 1..(k - 1) : chain'[a][i] = chain[a][i]

\* InsertPatchChain inserts it.
LEMMA MemberInserted ==
    ASSUME IInv, NEW s \in Slot, InsertPatchChain(s), NEW a, NEW k, NEW m, NextIs(s, a, k, m)
    PROVE  NextIsOK(a, k, m) /\ Inserted(a, k, m)
<1>1. NextIsOK(a, k, m)
  BY NextMember
<1>2. a \in Rows /\ m \in Nat /\ k - 1 = Len(chain[a]) /\ k \in Nat
  BY <1>1, Zenon DEF NextIsOK
<1>3. chain \in Seq(Seq(Nat)) /\ DOMAIN chain = Rows /\ chain[a] \in Seq(Nat) /\ Len(chain[a]) \in Nat
  BY <1>2, RowFacts, Zenon DEF IInv, ReferencesOK
<1>4. PICK q : q = Append(chain[a], m)
  BY Zenon
<1>5. /\ q \in Seq(Nat) /\ Len(q) = Len(chain[a]) + 1 /\ q[Len(chain[a]) + 1] = m
      /\ \A i \in 1..Len(chain[a]) : q[i] = chain[a][i]
  BY <1>2, <1>3, <1>4, AppendFacts
<1>6. chain' = [chain EXCEPT ![a] = q] /\ artifact' = artifact
  BY <1>4, Zenon DEF InsertPatchChain, NextIs
<1>7. /\ chain' \in Seq(Seq(Nat)) /\ Len(chain') = Len(chain) /\ chain'[a] = q
      /\ \A i \in Rows \ {a} : chain'[i] = chain[i]
  BY <1>2, <1>3, <1>5, <1>6, RowChanged
<1>8. Len(chain[a]) + 1 = k
  BY <1>2, <1>3
<1>9. Rows' = Rows /\ Grows(a)
  BY <1>6, <1>7 DEF Rows, Grows
<1> QED
  BY <1>1, <1>2, <1>5, <1>6, <1>7, <1>8, <1>9 DEF Inserted

\* The chain stays in order with the next member.
LEMMA TablesWithMember ==
    ASSUME ReferencesOK, TablesOK, NEW a, NEW k, NEW m, NextIsOK(a, k, m), Inserted(a, k, m)
    PROVE  TablesOK'
<1>1. /\ a \in Rows /\ IsPatchSet(a) /\ ~Whole(a) /\ ChainOK(a)
      /\ k \in Nat /\ k - 1 = Len(chain[a]) /\ k <= artifact[a].depth /\ artifact[a].depth \in Nat
      /\ k > 0
  <2>1. a \in Rows /\ k - 1 = Len(chain[a]) /\ k \in Nat
    BY DEF NextIsOK
  <2>2. Len(chain[a]) \in Nat /\ artifact[a].depth \in Nat
    BY <2>1, RowFacts
  <2> QED
    BY <2>1, <2>2 DEF NextIsOK, TablesOK
<1>2. /\ Grows(a) /\ Rows' = Rows /\ artifact' = artifact
      /\ Len(chain'[a]) = k /\ chain'[a][k] = m
  BY SMTT(40) DEF Inserted
<1>3. ASSUME NEW i \in 1..k, i # k
      PROVE  i \in 1..(k - 1) /\ i \in 1..Len(chain[a]) /\ i # artifact[a].depth
  BY <1>1, <1>3
<1>4. ASSUME NEW i \in 1..k PROVE MemberOK(a, i)'
  <2>1. CASE i # k
    <3>1. i \in 1..(k - 1) /\ i \in 1..Len(chain[a]) /\ i # artifact[a].depth
      BY <1>3, <2>1, Zenon
    <3>2. MemberOK(a, i) /\ Whole(chain[a][i])
      BY <1>1, <3>1, MemberIsWhole, Zenon DEF ChainOK
    <3>3. chain'[a][i] = chain[a][i]
      BY <3>1, Zenon DEF Inserted
    <3>4. chain[a][i] # a /\ chain[a][i] \in Rows
      BY <1>1, <3>2, Zenon DEF MemberOK
    <3>5. chain'[chain[a][i]] = chain[chain[a][i]]
      BY <3>4, Zenon DEF Inserted
    <3>6. \A j \in 1..i : chain'[a][j] = chain[a][j]
      <4>1. \A j \in 1..i : j \in 1..(k - 1)
        BY <1>1, <3>1, SMTT(40)
      <4> QED
        BY <4>1, Zenon DEF Inserted
    <3> QED
      BY <1>2, <3>1, <3>2, <3>3, <3>4, <3>5, <3>6, Zenon DEF MemberOK, IsPatchSet
  <2>2. CASE i = k /\ k = artifact[a].depth
    <3>1. m = a
      BY <2>2, Zenon DEF NextIsOK
    <3> QED
      BY <1>1, <1>2, <2>2, <3>1, Zenon DEF MemberOK, IsPatchSet
  <2>3. CASE i = k /\ k # artifact[a].depth
    <3>1. /\ m # a /\ m \in Rows /\ IsPatchSet(m) /\ artifact[m].depth = k
          /\ artifact[m].base = artifact[a].base /\ Len(chain[m]) = k /\ chain[m][k] = m
      BY <2>3, Zenon DEF NextIsOK
    <3>2. chain'[m] = chain[m]
      BY <3>1, Zenon DEF Inserted
    <3>3. ASSUME NEW j \in 1..k PROVE chain'[m][j] = chain'[a][j]
      <4>1. CASE j = k
        BY <1>2, <3>1, <3>2, <4>1, Zenon
      <4>2. CASE j # k
        <5>1. j \in 1..(k - 1)
          BY <1>3, <4>2
        <5>2. chain[m][j] = chain[a][j] /\ chain'[a][j] = chain[a][j]
          BY <2>3, <5>1, Zenon DEF NextIsOK, Inserted
        <5> QED
          BY <3>2, <5>2, Zenon
      <4> QED
        BY <4>1, <4>2, Zenon
    <3> QED
      BY <1>2, <2>3, <3>1, <3>2, <3>3, Zenon DEF MemberOK, IsPatchSet
  <2> QED
    BY <2>1, <2>2, <2>3, Zenon
<1>5. ChainOK(a)'
  <2>1. /\ IsPatchSet(a)' /\ ~IsDAGVersion(a)' /\ artifact'[a].depth > 0
        /\ artifact'[a].base \in Rows' /\ IsDAGVersion(artifact[a].base)'
    BY <1>1, <1>2, Zenon DEF ChainOK, IsPatchSet, IsDAGVersion
  <2>2. \A i \in 1..Len(chain'[a]) : MemberOK(a, i)'
    BY <1>2, <1>4, SMTT(40)
  <2>3. Len(chain'[a]) <= artifact'[a].depth
    BY <1>1, <1>2, Zenon
  <2> QED
    BY <2>1, <2>2, <2>3, Zenon DEF ChainOK
<1>6. \A i \in Rows \ {a} : ChainOK(i)'
  BY <1>1, <1>2, ChainStays, Zenon
<1> QED
  BY <1>2, <1>5, <1>6 DEF TablesOK

\* One more member, and with the last one the head is whole.
LEMMA InsertPatchChainKeeps ==
    ASSUME IInv, NEW s \in Slot, InsertPatchChain(s)
    PROVE  IInv'
<1>0. /\ IsRequest(req[s]) /\ RequestOK(s) /\ req[s].pc = "member"
      /\ ReferencesOK /\ TablesOK /\ HeadsApart
  BY RequestFacts, Zenon DEF IInv, InsertPatchChain, At
<1>1. PICK a, b, k, m : NextIs(s, a, k, m) /\ b = req[s].target
  BY <1>0, Zenon DEF NextIs
<1>2. NextIsOK(a, k, m) /\ Inserted(a, k, m)
  BY <1>1, MemberInserted, SMTT(40)
<1>3. /\ a = req[s].art /\ a \in Rows /\ IsPatchSet(a) /\ ~Whole(a) /\ k \in Nat
      /\ k <= artifact[a].depth /\ k - 1 = Len(chain[a])
  BY <1>1, <1>2, Zenon DEF NextIs, NextIsOK
<1>4. /\ Grows(a) /\ Rows' = Rows /\ artifact' = artifact
      /\ chain' \in Seq(Seq(Nat)) /\ Len(chain') = Len(chain) /\ Len(chain'[a]) = k
  BY <1>2 DEF Inserted
<1>5. TablesOK'
  BY <1>0, <1>2, TablesWithMember, Zenon
<1>6. PICK pc : pc = IF k = Len(req[s].members) THEN "exists" ELSE "member"
  OBVIOUS
<1>7. PICK r : r = [req[s] EXCEPT !.pc = pc]
  BY Zenon
<1>8. req' = [req EXCEPT ![s] = r] /\ UNCHANGED <<tag, runs, born>>
  BY <1>1, <1>6, <1>7, Zenon DEF InsertPatchChain, Continue, NextIs
<1>9. /\ IsRequest(r) /\ r.pc = pc /\ pc \in {"exists", "member"}
      /\ r.tag = req[s].tag /\ r.row = req[s].row /\ r.version = req[s].version
      /\ r.target = b /\ r.art = a /\ r.members = req[s].members /\ r.ops = req[s].ops
  BY <1>0, <1>1, <1>3, <1>6, <1>7, Zenon DEF IsRequest, RequestType, Pc
<1>10. ReferencesOK' /\ req'[s] = r
  BY <1>0, <1>4, <1>8, <1>9, TypesStay, Zenon DEF ReferencesOK
<1>11. TagsOK' /\ RunsOK' /\ CompactedOK'
  BY <1>3, <1>4, <1>8, RestStays, Zenon
<1>12. \A u \in Slot \ {s} : req'[u] = req[u]
  BY <1>0, <1>8, SMTT(40) DEF ReferencesOK
<1>13. \A u \in Slot \ {s} : RequestOK(u)'
  <2>1. \A u \in Slot \ {s} : Building(u) => req[u].art # a
    BY <1>0, <1>3, Zenon DEF HeadsApart, Building
  <2>2. TagsForward
    BY <1>0, <1>8, SMTT(40) DEF TagsForward, ReferencesOK
  <2> QED
    BY <1>3, <1>4, <1>12, <2>1, <2>2, TargetStays, PatchStays, SeenStays, ZenonT(60) DEF RequestOK
<1>14. HeadsApart'
  BY <1>0, <1>3, <1>9, <1>10, <1>12 DEF HeadsApart, Building
<1>15. RestOK(s)'
  BY <1>5, <1>10, <1>11, <1>13, <1>14, SMTT(40) DEF RestOK
<1>16. /\ Whole(b) /\ Extends(a, b) /\ req[s].row # 0
       /\ Len(req[s].members) = artifact[a].depth
       /\ req[s].members[artifact[a].depth] = a
  BY <1>0, <1>1, <1>3, ZenonT(60) DEF RequestOK, TargetOK, PatchOK
<1>17. Whole(b)' /\ chain'[b] = chain[b] /\ b \in Rows
  BY <1>3, <1>4, <1>16, WholeStays, ZenonT(60)
<1>18. Extends(a, b)'
  BY <1>4, <1>16, <1>17, ExtendsStays, Zenon
<1>19. /\ \A i \in 1..(artifact[a].depth - 1) : req[s].members[i] = chain[b][i]
       /\ \A i \in 1..Len(chain[a]) : chain[a][i] = req[s].members[i]
  BY <1>0, <1>1, <1>3, Zenon DEF RequestOK, PatchOK
<1>20. \A i \in 1..k : chain'[a][i] = req[s].members[i]
  <2>1. ASSUME NEW i \in 1..k PROVE chain'[a][i] = req[s].members[i]
    <3>1. CASE i = k
      BY <1>1, <1>2, <3>1, ZenonT(60) DEF Inserted, NextIs
    <3>2. CASE i # k
      <4>1. i \in 1..(k - 1) /\ i \in 1..Len(chain[a])
        BY <1>3, <2>1, <3>2
      <4>2. chain'[a][i] = chain[a][i]
        BY <1>2, <4>1, Zenon DEF Inserted
      <4> QED
        BY <1>19, <4>1, <4>2
    <3> QED
      BY <3>1, <3>2, Zenon
  <2> QED
    BY <2>1, Zenon
<1>21. artifact[a].depth \in Nat
  BY <1>0, <1>3, RowFacts, Zenon
<1>22. /\ req'[s].pc = pc /\ req'[s].row # 0 /\ req'[s].target = b /\ req'[s].art = a
       /\ req'[s].members = req[s].members
  BY <1>9, <1>10, <1>16, Zenon
<1>23. TargetOK(s)'
  BY <1>9, <1>17, <1>22, Zenon DEF TargetOK
<1>24. ASSUME pc = "member" PROVE PatchOK(s)'
  <2>1. k < artifact[a].depth
    BY <1>3, <1>6, <1>16, <1>21, <1>24, SMTT(60)
  <2>2. /\ Len(req'[s].members) = artifact'[req'[s].art].depth
        /\ req'[s].members[artifact'[req'[s].art].depth] = req'[s].art
        /\ \A i \in 1..(artifact'[req'[s].art].depth - 1) :
              req'[s].members[i] = chain'[req'[s].target][i]
        /\ Len(chain'[req'[s].art]) < artifact'[req'[s].art].depth
        /\ \A i \in 1..Len(chain'[req'[s].art]) : chain'[req'[s].art][i] = req'[s].members[i]
    BY <1>4, <1>16, <1>17, <1>19, <1>20, <1>22, <2>1, Zenon
  <2> QED
    BY <1>18, <1>22, <1>24, <2>2, Zenon DEF PatchOK
<1>25. ASSUME pc = "exists" PROVE PatchOK(s)'
  <2>1. k = artifact[a].depth
    BY <1>6, <1>16, <1>25
  <2>2. Whole(a)'
    BY <1>3, <1>4, <2>1, Zenon DEF Whole
  <2>3. \A i \in 1..(artifact[a].depth - 1) : chain'[a][i] = chain'[b][i]
    <3>1. \A i \in 1..(artifact[a].depth - 1) : i \in 1..k
      BY <1>21, <2>1, SMTT(40)
    <3> QED
      BY <1>17, <1>19, <1>20, <3>1, Zenon
  <2>4. \A i \in 1..(artifact'[req'[s].art].depth - 1) : chain'[req'[s].art][i] = chain'[req'[s].target][i]
    BY <1>4, <1>22, <2>3, Zenon
  <2> QED
    BY <1>17, <1>18, <1>22, <1>25, <2>2, <2>4, ZenonT(60) DEF PatchOK
<1>26. SeenOK(s)'
  BY <1>0, <1>1, <1>8, <1>9, <1>10, ZenonT(60) DEF RequestOK, SeenOK
<1>27. RequestOK(s)'
  BY <1>9, <1>23, <1>24, <1>25, <1>26, Zenon DEF RequestOK
<1> QED
  BY <1>15, <1>27, StepOK

-----------------------------------------------------------------------------
(* POST /workflows/:tag/execute. *)

\* What has been materialised is what the version stands for.
LEMMA MaterializeForRunKeeps ==
    ASSUME IInv, NEW s \in Slot, MaterializeForRun(s)
    PROVE  IInv'
<1>0. /\ IsRequest(req[s]) /\ RequestOK(s) /\ req[s].pc = "materialize"
      /\ ReferencesOK /\ TablesOK
  BY RequestFacts DEF IInv, MaterializeForRun, At
<1>1. PICK b, current : b = req[s].target /\ current = Materialize(GetWorkflowComponents(b))
  OBVIOUS
<1>2. PICK r : r = [req[s] EXCEPT !.pc = "freeze", !.workflow = current.workflow]
  OBVIOUS
<1>3. /\ UNCHANGED <<tag, artifact, chain, runs, born>>
      /\ \/ current.ok /\ req' = [req EXCEPT ![s] = r]
         \/ req' = [req EXCEPT ![s] = NoRequest]
  BY <1>1, <1>2 DEF MaterializeForRun, Continue, Finish
<1>4. CASE req' = [req EXCEPT ![s] = NoRequest]
  BY <1>3, <1>4, EndStep, ZenonT(60)
<1>5. CASE current.ok /\ req' = [req EXCEPT ![s] = r]
  <2>1. /\ IsRequest(r) /\ r.pc = "freeze" /\ r.tag = req[s].tag /\ r.row = req[s].row
        /\ r.version = req[s].version /\ r.target = b /\ r.workflow = current.workflow
    BY <1>0, <1>1, <1>2, Zenon DEF IsRequest, RequestType, Pc
  <2>2. RestOK(s)' /\ req'[s] = r /\ Grows(0) /\ ~Whole(0)
    BY <1>3, <1>5, <2>1, ReadStep, Zenon
  <2>3. Whole(b) /\ MaterializesTo(b, r.workflow)
    BY <1>0, <1>1, <1>5, <2>1, ZenonT(60) DEF RequestOK, TargetOK, MaterializesTo, GetWorkflow, WorkflowResponse
  <2>4. Whole(b)' /\ MaterializesTo(b, r.workflow)'
    BY <1>0, <2>2, <2>3, WholeStays, MaterializedStays, ZenonT(60)
  <2>5. TargetOK(s)'
    BY <2>1, <2>2, <2>4, Zenon DEF TargetOK
  <2>6. PatchOK(s)'
    BY <2>1, <2>2, ZenonT(60) DEF PatchOK
  <2>7. SeenOK(s)'
    BY <1>0, <1>1, <1>3, <2>1, <2>2, Zenon DEF RequestOK, SeenOK
  <2> QED
    BY <2>2, <2>5, <2>6, <2>7, StepOK DEF RequestOK
<1> QED
  BY <1>3, <1>4, <1>5

\* It is stored as a DAG.
LEMMA FreezeForRunKeeps ==
    ASSUME IInv, NEW s \in Slot, FreezeForRun(s)
    PROVE  IInv'
<1>0. /\ IsRequest(req[s]) /\ RequestOK(s) /\ req[s].pc = "freeze"
      /\ ReferencesOK /\ TablesOK
  BY RequestFacts DEF IInv, FreezeForRun, At
<1>1. PICK b, w, n : b = req[s].target /\ w = req[s].workflow /\ n = NewArtifact
  OBVIOUS
<1>2. PICK r, a : r = [req[s] EXCEPT !.pc = "run", !.art = n] /\ a = DAGVersion(w, 0, 0)
  BY SMTT(40)
<1>3. n \in Nat
  BY <1>0, <1>1, RowFacts DEF NewArtifact
<1>4. /\ IsRequest(r) /\ r.pc = "run" /\ r.art = n /\ r.workflow = w
      /\ r.tag = req[s].tag /\ r.row = req[s].row /\ r.version = req[s].version
      /\ r.target = b
  BY <1>0, <1>1, <1>2, <1>3, ZenonT(60) DEF IsRequest, RequestType, Pc
<1>5. IsArtifact(a) /\ a.kind = "dag_version" /\ a.compacted_from = 0 /\ a.workflow = w
  BY <1>2, DAGVersionFacts
<1>6. req' = [req EXCEPT ![s] = r] /\ Create(a) /\ UNCHANGED <<tag, runs, born>>
  BY <1>1, <1>2 DEF FreezeForRun, Continue
<1>7. /\ RestOK(s)' /\ req'[s] = r /\ Grows(0) /\ ~Whole(0)
      /\ n \in Rows' /\ artifact'[n] = a
  BY <1>1, <1>4, <1>5, <1>6, CreateStep, ZenonT(60) DEF NewRowOK
<1>8. Whole(b)' /\ MaterializesTo(b, w)'
  <2>1. Whole(b) /\ MaterializesTo(b, w)
    BY <1>0, <1>1, Zenon DEF RequestOK, TargetOK
  <2> QED
    BY <1>0, <1>7, <2>1, WholeStays, MaterializedStays, Zenon
<1>9. TargetOK(s)'
  BY <1>4, <1>5, <1>7, <1>8, Zenon DEF TargetOK, IsDAGVersion
<1>10. PatchOK(s)'
  BY <1>4, <1>7, Zenon DEF PatchOK
<1>11. SeenOK(s)'
  BY <1>0, <1>1, <1>4, <1>6, <1>7, Zenon DEF RequestOK, SeenOK
<1> QED
  BY <1>7, <1>9, <1>10, <1>11, StepOK DEF RequestOK

\* The run refers to that DAG.
LEMMA InsertRunKeeps ==
    ASSUME IInv, NEW s \in Slot, InsertRun(s)
    PROVE  IInv'
<1>0. /\ IsRequest(req[s]) /\ RequestOK(s) /\ req[s].pc = "run"
      /\ ReferencesOK /\ TablesOK /\ RunsOK
  BY RequestFacts, Zenon DEF IInv, InsertRun, At
<1>1. PICK run : run = [base_ref |-> req[s].art, of |-> req[s].target]
  BY Zenon
<1>2. /\ req' = [req EXCEPT ![s] = NoRequest] /\ UNCHANGED <<tag, artifact, chain, born>>
      /\ runs' = Append(runs, run)
  BY <1>1 DEF InsertRun, Finish, Continue
<1>3. /\ run \in [base_ref: Nat, of: Nat]
      /\ run.base_ref = req[s].art /\ run.of = req[s].target
  BY <1>0, <1>1, Zenon DEF IsRequest, RequestType
<1>4. /\ Whole(run.of) /\ run.base_ref \in Rows /\ IsDAGVersion(run.base_ref)
      /\ MaterializesTo(run.of, artifact[run.base_ref].workflow)
  BY <1>0, <1>3, Zenon DEF RequestOK, TargetOK
<1>5. TagsForward
  BY <1>0, <1>2 DEF TagsForward, ReferencesOK
<1>6. Grows(0) /\ ~Whole(0) /\ Rows' = Rows
  BY <1>2, <1>5, TablesStill
<1>7. /\ runs' \in Seq([base_ref: Nat, of: Nat])
      /\ \A i \in DOMAIN runs' : runs'[i] = run \/ (i \in DOMAIN runs /\ runs'[i] = runs[i])
  <2>1. runs \in Seq([base_ref: Nat, of: Nat]) /\ runs' = Append(runs, run)
    BY <1>0, <1>2, Zenon DEF ReferencesOK
  <2> QED
    BY <1>3, <2>1
<1>8. \A q : /\ Whole(q.of) /\ q.base_ref \in Rows /\ IsDAGVersion(q.base_ref)
             /\ MaterializesTo(q.of, artifact[q.base_ref].workflow)
             => /\ Whole(q.of)' /\ q.base_ref \in Rows' /\ IsDAGVersion(q.base_ref)'
                /\ MaterializesTo(q.of, artifact[q.base_ref].workflow)'
  <2>1. \A a : Whole(a) => Whole(a)' /\ \A w : MaterializesTo(a, w) => MaterializesTo(a, w)'
    BY <1>0, <1>6, WholeStays, MaterializedStays, Zenon
  <2> QED
    BY <1>2, <1>6, <2>1, Zenon DEF IsDAGVersion
<1>9. RunsOK'
  BY <1>0, <1>4, <1>7, <1>8, Zenon DEF RunsOK
<1>10. TagsOK'
  BY <1>2, <1>6, RestStays, Zenon
<1>11. tag' \in [Tag -> [target: Nat, version: Nat, row: Nat]]
  BY <1>0, <1>2 DEF ReferencesOK
<1> QED
  BY <1>2, <1>5, <1>7, <1>9, <1>10, <1>11, LastStep, Zenon

-----------------------------------------------------------------------------
(* Compaction. *)

\* What has been materialised is what the head stands for, if all of its
\* members were read.
LEMMA MaterializeChainKeeps ==
    ASSUME IInv, NEW s \in Slot, MaterializeChain(s)
    PROVE  IInv'
<1>0. /\ IsRequest(req[s]) /\ RequestOK(s) /\ req[s].pc = "readchain"
      /\ ReferencesOK /\ TablesOK
  BY RequestFacts DEF IInv, MaterializeChain, At
<1>1. PICK b : b = req[s].target
  OBVIOUS
<1>2. PICK result : result = Materialize(loadPatchSetComponents(b, chain[b]))
  OBVIOUS
<1>3. PICK r : r = [req[s] EXCEPT !.pc = "compact", !.members = chain[b], !.workflow = result.workflow]
  OBVIOUS
<1>4. /\ UNCHANGED <<tag, artifact, chain, runs, born>>
      /\ \/ result.ok /\ req' = [req EXCEPT ![s] = r]
         \/ req' = [req EXCEPT ![s] = NoRequest]
  BY <1>1, <1>2, <1>3, Zenon DEF MaterializeChain, Continue, Finish, GetPatchChain
<1>5. CASE req' = [req EXCEPT ![s] = NoRequest]
  BY <1>4, <1>5, EndStep, Zenon
<1>6. CASE result.ok /\ req' = [req EXCEPT ![s] = r]
  <2>1. b \in Rows /\ IsPatchSet(b) /\ req[s].ops = <<>>
    BY <1>0, <1>1, ZenonT(60) DEF RequestOK, TargetOK, PatchOK
  <2>2. chain[b] \in Seq(Nat)
    BY <1>0, <2>1, RowFacts, Zenon
  <2>3. /\ IsRequest(r) /\ r.pc = "compact" /\ r.tag = req[s].tag /\ r.row = req[s].row
        /\ r.version = req[s].version /\ r.target = b /\ r.workflow = result.workflow
        /\ r.members = chain[b] /\ r.ops = <<>>
    BY <1>0, <1>1, <1>3, <2>1, <2>2, ZenonT(60) DEF IsRequest, RequestType, Pc
  <2>4. RestOK(s)' /\ req'[s] = r /\ Grows(0) /\ ~Whole(0)
    BY <1>4, <1>6, <2>3, ReadStep, ZenonT(60)
  <2>5. MaterializesTo(b, r.workflow)
    <3>1. GetWorkflowComponents(b) = loadPatchSetComponents(b, chain[b])
      BY <2>1, Zenon DEF GetWorkflowComponents, GetPatchChain, IsPatchSet, IsDAGVersion
    <3> QED
      BY <1>2, <1>6, <2>3, <3>1, Zenon DEF MaterializesTo, GetWorkflow, WorkflowResponse
  <2>6. Len(r.members) = artifact[b].depth => Whole(b)' /\ MaterializesTo(b, r.workflow)'
    <3>1. Len(r.members) = artifact[b].depth => Whole(b)
      BY <2>1, <2>3, Zenon DEF Whole
    <3> QED
      BY <1>0, <2>4, <2>5, <3>1, WholeStays, MaterializedStays, Zenon
  <2>7. TargetOK(s)'
    BY <1>4, <2>1, <2>3, <2>4, <2>6, ZenonT(60) DEF TargetOK, Rows, IsPatchSet
  <2>8. PatchOK(s)'
    BY <2>3, <2>4, Zenon DEF PatchOK
  <2>9. SeenOK(s)'
    BY <1>0, <1>1, <1>4, <2>3, <2>4, Zenon DEF RequestOK, SeenOK
  <2> QED
    BY <2>4, <2>7, <2>8, <2>9, StepOK DEF RequestOK
<1> QED
  BY <1>4, <1>5, <1>6

\* It is stored as a DAG.
LEMMA CreateCompactedBaseKeeps ==
    ASSUME IInv, NEW s \in Slot, CreateCompactedBase(s)
    PROVE  IInv'
<1>0. /\ IsRequest(req[s]) /\ RequestOK(s) /\ req[s].pc = "compact"
      /\ ReferencesOK /\ TablesOK
  BY RequestFacts DEF IInv, CreateCompactedBase, At
<1>1. PICK b, w, n, l : b = req[s].target /\ w = req[s].workflow /\ n = NewArtifact /\ l = Len(req[s].members)
  BY Zenon
<1>2. PICK r, a : r = [req[s] EXCEPT !.pc = "migrate", !.art = n] /\ a = DAGVersion(w, b, l)
  OBVIOUS
<1>3. n \in Nat /\ l \in Nat /\ b \in Nat /\ req[s].ops = <<>>
  <2>1. n \in Nat
    BY <1>0, <1>1, RowFacts, SMTT(40) DEF NewArtifact
  <2>2. req[s].members \in Seq(Nat) /\ b \in Nat
    BY <1>0, <1>1, Zenon DEF IsRequest, RequestType
  <2>3. l \in Nat
    BY <1>1, <2>2
  <2> QED
    BY <1>0, <2>1, <2>2, <2>3, Zenon DEF RequestOK, PatchOK
<1>4. /\ IsRequest(r) /\ r.pc = "migrate" /\ r.art = n /\ r.ops = <<>>
      /\ r.tag = req[s].tag /\ r.row = req[s].row /\ r.version = req[s].version
      /\ r.target = b
  BY <1>0, <1>1, <1>2, <1>3, ZenonT(60) DEF IsRequest, RequestType, Pc
<1>5. /\ IsArtifact(a) /\ a.kind = "dag_version" /\ a.compacted_from = b /\ a.workflow = w
      /\ a.original_patches = l
  BY <1>2, <1>3, DAGVersionFacts
<1>6. req' = [req EXCEPT ![s] = r] /\ Create(a) /\ UNCHANGED <<tag, runs, born>>
  BY <1>1, <1>2 DEF CreateCompactedBase, Continue
<1>7. /\ b \in Rows /\ IsPatchSet(b)
      /\ l = artifact[b].depth => Whole(b) /\ MaterializesTo(b, w)
  BY <1>0, <1>1, Zenon DEF RequestOK, TargetOK
<1>8. RestOK(s)' /\ req'[s] = r /\ n \in Rows' /\ artifact'[n] = a
  <2>1. NewRowOK(a)
    BY <1>5, <1>7, Zenon DEF NewRowOK
  <2> QED
    BY <1>1, <1>4, <1>5, <1>6, <2>1, CreateStep, ZenonT(60)
<1>9. Whole(n)'
  BY <1>5, <1>8 DEF Whole, IsPatchSet
<1>10. TargetOK(s)' /\ PatchOK(s)'
  BY <1>4, <1>8, <1>9, ZenonT(60) DEF TargetOK, PatchOK
<1>11. SeenOK(s)'
  BY <1>0, <1>1, <1>4, <1>6, <1>8, Zenon DEF RequestOK, SeenOK
<1> QED
  BY <1>8, <1>10, <1>11, StepOK DEF RequestOK

\* The tag is looked up again before it is moved.
LEMMA MigrateKeeps ==
    ASSUME IInv, NEW s \in Slot, MigrateTagToCompactedBase(s)
    PROVE  IInv'
<1>0. IsRequest(req[s]) /\ RequestOK(s) /\ req[s].pc = "migrate" /\ ReferencesOK
  BY RequestFacts DEF IInv, MigrateTagToCompactedBase, At
<1>1. PICK r : r = [req[s] EXCEPT !.pc = "move"]
  BY Zenon
<1>2. /\ UNCHANGED <<tag, artifact, chain, runs, born>>
      /\ req' = [req EXCEPT ![s] = r] \/ req' = [req EXCEPT ![s] = NoRequest]
  BY <1>1 DEF MigrateTagToCompactedBase, Continue, Finish
<1>3. CASE req' = [req EXCEPT ![s] = NoRequest]
  BY <1>2, <1>3, EndStep, Zenon
<1>4. CASE req' = [req EXCEPT ![s] = r]
  <2>1. /\ IsRequest(r) /\ r.pc = "move" /\ r.tag = req[s].tag /\ r.row = req[s].row
        /\ r.version = req[s].version /\ r.target = req[s].target /\ r.art = req[s].art
        /\ r.ops = req[s].ops
    BY <1>0, <1>1, Zenon DEF IsRequest, RequestType, Pc
  <2>2. RestOK(s)' /\ req'[s] = r
    BY <1>2, <1>4, <2>1, ReadStep, ZenonT(60)
  <2>3. Whole(r.art)' /\ r.ops = <<>>
    BY <1>0, <1>2, <2>1, Zenon DEF RequestOK, PatchOK, Whole, Rows, IsPatchSet
  <2>4. TargetOK(s)' /\ PatchOK(s)'
    BY <2>1, <2>2, <2>3, ZenonT(60) DEF TargetOK, PatchOK
  <2>5. SeenOK(s)'
    BY <1>0, <1>2, <2>1, <2>2, Zenon DEF RequestOK, SeenOK
  <2> QED
    BY <2>2, <2>4, <2>5, StepOK DEF RequestOK
<1> QED
  BY <1>2, <1>3, <1>4

-----------------------------------------------------------------------------
(* The invariant. *)

\* One workflow, not patched yet.
LEMMA InitOK == Init => IInv
<1> SUFFICES ASSUME Init PROVE IInv
  OBVIOUS
<1>1. PICK t \in Tag, w \in Workflow :
        /\ artifact = <<DAGVersion(w, 0, 0)>>
        /\ tag = [u \in Tag |-> IF u = t THEN [target |-> 1, version |-> 1, row |-> 1] ELSE NoTag]
  BY DEF Init
<1>2. PICK a : a = DAGVersion(w, 0, 0)
  OBVIOUS
<1>3. IsArtifact(a) /\ a.kind = "dag_version" /\ a.compacted_from = 0
  BY <1>2, DAGVersionFacts
<1>4. /\ artifact = <<a>> /\ chain = << <<>> >> /\ runs = <<>> /\ born = 1
      /\ req = [s \in Slot |-> NoRequest]
  BY <1>1, <1>2, Zenon DEF Init
<1>5. /\ Rows = {1} /\ artifact[1] = a /\ chain[1] = <<>> /\ Len(chain[1]) = 0 /\ DOMAIN runs = {}
      /\ Len(artifact) = 1 /\ Len(chain) = 1
  BY <1>4 DEF Rows
<1>6. ReferencesOK
  <2>1. tag \in [Tag -> [target: Nat, version: Nat, row: Nat]]
    BY <1>1 DEF NoTag
  <2>2. \E V : artifact \in Seq(ArtifactType(V)) /\ req \in [Slot -> RequestType(V)]
    <3> DEFINE V == {a.workflow, a.ops, NoRequest.workflow, NoRequest.ops}
    <3>1. a \in ArtifactType(V) /\ NoRequest \in RequestType(V)
      BY <1>3, NoRequestType, TypesWiden, ZenonT(60) DEF IsArtifact, IsRequest
    <3> HIDE DEF V
    <3>2. artifact \in Seq(ArtifactType(V)) /\ req \in [Slot -> RequestType(V)]
      BY <1>4, <3>1
    <3> QED
      BY <3>2
  <2>3. chain \in Seq(Seq(Nat)) /\ runs \in Seq([base_ref: Nat, of: Nat]) /\ born \in Nat
    BY <1>4
  <2> QED
    BY <1>5, <2>1, <2>2, <2>3, Zenon DEF ReferencesOK
<1>7. TablesOK /\ RunsOK /\ CompactedOK
  <2>1. 1..Len(chain[1]) = {}
    BY <1>5
  <2> QED
    BY <1>3, <1>5, <2>1, Zenon DEF TablesOK, ChainOK, RunsOK, CompactedOK, IsPatchSet, IsDAGVersion
<1>8. TagsOK
  <2>1. Whole(1)
    BY <1>3, <1>5 DEF Whole, IsPatchSet
  <2>2. \A u \in Tag : \/ tag[u].target = 1 /\ tag[u].row = 1
                       \/ tag[u].target = 0 /\ tag[u].row = 0
    BY <1>1, Zenon DEF NoTag
  <2> QED
    BY <1>4, <2>1, <2>2 DEF TagsOK, ExistsTag
<1>9. HeadsApart
  BY <1>4, NoRequestType, ZenonT(60) DEF HeadsApart, Building
<1>10. ASSUME NEW s \in Slot PROVE RequestOK(s)
  <2>1. req[s].pc = "idle" /\ req[s].ops = <<>> /\ req[s].row = 0
    BY <1>4, NoRequestType, ZenonT(60)
  <2>2. req[s].row <= born
    BY <1>4, <2>1
  <2> QED
    BY <2>1, <2>2, Zenon DEF RequestOK, TargetOK, PatchOK, SeenOK
<1> QED
  BY <1>6, <1>7, <1>8, <1>9, <1>10 DEF IInv

\* Every step keeps the invariant.
LEMMA NextOK == IInv /\ [Next]_vars => IInv'
<1> SUFFICES ASSUME IInv, [Next]_vars PROVE IInv'
  OBVIOUS
<1>1. ASSUME NEW s \in Slot, NEW t \in Tag,
             \/ CreateRun(s, t)
             \/ \E w \in Workflow : CreateWorkflow(s, t, w)
             \/ \E ops \in Patch : PatchWorkflow(s, t, ops)
             \/ \E a \in DOMAIN artifact : CompactWorkflow(s, t, a)
      PROVE  IInv'
  BY <1>1, StartsKeep
<1>2. ASSUME NEW s \in Slot, GetByVersionHash(s) PROVE IInv'
  BY <1>2, GetByVersionHashKeeps
<1>3. ASSUME NEW s \in Slot, CreateDAGVersion(s) PROVE IInv'
  BY <1>3, CreateDAGVersionKeeps
<1>4. ASSUME NEW s \in Slot,
             \/ ResolveTag(s, "resolve", "validate")
             \/ ResolveTag(s, "reresolve", "patch")
             \/ ResolveTag(s, "resolve_run", "materialize")
      PROVE  IInv'
  <2>1. {"resolve", "reresolve", "resolve_run"} \subseteq Pc \ {"idle"}
    BY DEF Pc
  <2> QED
    BY <1>4, <2>1, ResolveTagKeeps
<1>5. ASSUME NEW s \in Slot, ValidatePatch(s) PROVE IInv'
  BY <1>5, ValidatePatchKeeps
<1>6. ASSUME NEW s \in Slot, CreatePatchArtifact(s) PROVE IInv'
  BY <1>6, CreatePatchArtifactKeeps
<1>7. ASSUME NEW s \in Slot, GetPreviousChain(s) PROVE IInv'
  BY <1>7, GetPreviousChainKeeps
<1>8. ASSUME NEW s \in Slot, InsertPatchChain(s) PROVE IInv'
  BY <1>8, InsertPatchChainKeeps
<1>9. ASSUME NEW s \in Slot, CreateOrMoveTag(s) \/ MoveTag(s) \/ CreateTag(s) PROVE IInv'
  BY <1>9, CreateOrMoveTagKeeps, MoveTagKeeps, CreateTagKeeps
<1>10. ASSUME NEW s \in Slot, MaterializeForRun(s) \/ FreezeForRun(s) \/ InsertRun(s) PROVE IInv'
  BY <1>10, MaterializeForRunKeeps, FreezeForRunKeeps, InsertRunKeeps
<1>11. ASSUME NEW s \in Slot, \/ MaterializeChain(s) \/ CreateCompactedBase(s)
                              \/ MigrateTagToCompactedBase(s)
       PROVE  IInv'
  BY <1>11, MaterializeChainKeeps, CreateCompactedBaseKeeps, MigrateKeeps
<1>12. ASSUME NEW s \in Slot, Abort(s) PROVE IInv'
  BY <1>12, EndStep, Zenon DEF Abort, Finish, Continue
<1>13. ASSUME NEW t \in Tag, DeleteWorkflow(t) PROVE IInv'
  BY <1>13, DeleteWorkflowKeeps
<1>14. CASE UNCHANGED vars
  <2>1. UNCHANGED <<tag, artifact, chain, runs, req, born>>
    BY <1>14 DEF vars
  <2>2. ReferencesOK' /\ HeadsApart' /\ TagsForward
    BY <2>1 DEF IInv, ReferencesOK, HeadsApart, Building, TagsForward
  <2>3. /\ Grows(0) /\ ~Whole(0) /\ TablesOK' /\ CompactedOK'
        /\ \A u \in Slot : RequestOK(u)'
    BY <2>1, <2>2, TablesStill
  <2>4. TagsOK' /\ RunsOK'
    BY <2>1, <2>3, RestStays, Zenon
  <2> QED
    BY <2>2, <2>3, <2>4 DEF IInv
<1> QED
  BY <1>1, <1>2, <1>3, <1>4, <1>5, <1>6, <1>7, <1>8, <1>9, <1>10, <1>11, <1>12, <1>13, <1>14, Zenon DEF Next

\* The invariant holds in every state.
THEOREM Invariant == Spec => []IInv
BY InitOK, NextOK, PTL DEF Spec

-----------------------------------------------------------------------------
(* The properties. *)

\* No tag, and no request that works on a version, ever refers to a head whose
\* members are not all inserted.
THEOREM TagsAreComplete == Spec => []TagsComplete
<1>1. IInv => TagsComplete
  <2> SUFFICES ASSUME IInv PROVE TagsComplete
    OBVIOUS
  <2>1. \A a : Whole(a) => Complete(a)
    BY WholeIsComplete DEF IInv
  <2>2. \A t \in ListWorkflows : Complete(tag[t].target)
    BY <2>1, Zenon DEF IInv, TagsOK, ListWorkflows
  <2>3. \A s \in Slot : req[s].pc \in {"validate", "patch", "chain", "materialize"} =>
          Complete(req[s].target)
    BY <2>1, Zenon DEF IInv, RequestOK, TargetOK
  <2> QED
    BY <2>2, <2>3, Zenon DEF TagsComplete
<1> QED
  BY <1>1, Invariant, PTL

\* Version k of a workflow is what its tag showed after its k-th patch.
THEOREM VersionsAreStable == Spec => []VersionsStable
<1>1. IInv => VersionsStable
  <2> SUFFICES ASSUME IInv, NEW a \in DOMAIN artifact, IsPatchSet(a), Complete(a),
                      NEW k \in 1..artifact[a].depth
               PROVE  VersionExists(a, k) /\ GetWorkflowVersion(a, k) = GetWorkflow(chain[a][k])
    BY DEF VersionsStable
  <2>0. ReferencesOK /\ TablesOK /\ a \in Rows /\ ~IsDAGVersion(a)
    BY SMTT(40) DEF IInv, Rows, IsPatchSet, IsDAGVersion
  <2>1. Len(chain[a]) = artifact[a].depth /\ chain[a] \in Seq(Nat) /\ artifact[a].depth \in Nat
    BY <2>0, RowFacts, Zenon DEF Complete
  <2>2. PICK m : m = chain[a][k]
    BY Zenon
  <2>3. MemberOK(a, k)
    BY <2>0, <2>1, Zenon DEF TablesOK, ChainOK
  <2>4. /\ m \in Rows /\ ~IsDAGVersion(m) /\ artifact[m].base = artifact[a].base
        /\ Len(chain[m]) = k /\ \A j \in 1..k : chain[m][j] = chain[a][j]
    BY <2>2, <2>3, Zenon DEF MemberOK, IsPatchSet, IsDAGVersion
  <2>5. SubSeq(chain[a], 1, k) = chain[m]
    <3>1. chain[m] \in Seq(Nat)
      BY <2>0, <2>4, RowFacts, Zenon
    <3> QED
      BY <2>1, <2>4, <3>1
  <2>6. VersionExists(a, k)
    BY <2>0, <2>1, SMTT(40) DEF VersionExists, GetPatchChain
  <2>7. GetWorkflowComponentsAtVersion(a, k) = GetWorkflowComponents(m)
    BY <2>0, <2>4, <2>5, Zenon DEF GetWorkflowComponentsAtVersion, GetWorkflowComponents, GetPatchChain,
                            loadPatchSetComponents
  <2> QED
    BY <2>2, <2>6, <2>7, Zenon DEF GetWorkflowVersion, GetWorkflow
<1> QED
  BY <1>1, Invariant, PTL

\* The DAG a run starts from is what its version stands for, then and later.
THEOREM RunsAreFrozen == Spec => []RunFrozen
<1>1. IInv => RunFrozen
  BY DEF IInv, RunsOK, RunFrozen
<1> QED
  BY <1>1, Invariant, PTL

\* A base compacted from all of a chain is what the chain stands for.
THEOREM CompactionIsSame == Spec => []CompactedIsSame
<1>1. IInv => CompactedIsSame
  <2>1. IInv => \A a : Whole(a) => Complete(a)
    BY WholeIsComplete, SMTT(40) DEF IInv
  <2> QED
    BY <2>1, Zenon DEF IInv, CompactedOK, CompactedIsSame, Rows
<1> QED
  BY <1>1, Invariant, PTL

\* A whole head that extends b, and shares b's members, is b and itself.
LEMMA HeadIsOneMore ==
    ASSUME ReferencesOK, TablesOK, NEW a, NEW b, Whole(a), Whole(b), Extends(a, b),
           \A i \in 1..(artifact[a].depth - 1) : chain[a][i] = chain[b][i]
    PROVE  chain[a] = Append(chain[b], a)
<1>1. /\ a \in Rows /\ b \in Rows /\ IsPatchSet(a) /\ Len(chain[a]) = artifact[a].depth
      /\ ChainOK(a) /\ ChainOK(b)
  BY DEF Whole, Extends, TablesOK
<1>2. /\ chain[a] \in Seq(Nat) /\ chain[b] \in Seq(Nat) /\ artifact[a].depth \in Nat
      /\ artifact[b].depth \in Nat /\ a \in Nat
  BY <1>1, RowFacts
<1>3. Len(chain[b]) = artifact[a].depth - 1
  <2>1. CASE IsDAGVersion(b)
    <3>1. chain[b] = <<>> /\ artifact[a].depth = 1
      BY <1>1, <2>1, Zenon DEF Extends, ChainOK
    <3> QED
      BY <3>1, SMTT(40)
  <2>2. CASE ~IsDAGVersion(b)
    <3>1. IsPatchSet(b)
      BY <1>1, <2>2, RowFacts, Zenon DEF IsDAGVersion, IsPatchSet
    <3>2. artifact[a].depth = artifact[b].depth + 1 /\ Len(chain[b]) = artifact[b].depth
      BY <2>2, <3>1, Zenon DEF Extends, Whole
    <3> QED
      BY <1>2, <3>2
  <2> QED
    BY <2>1, <2>2, Zenon
<1>4. artifact[a].depth > 0 /\ chain[a][artifact[a].depth] = a
  <2>1. artifact[a].depth > 0
    BY <1>1, Zenon DEF ChainOK
  <2>2. artifact[a].depth \in 1..Len(chain[a])
    BY <1>1, <1>2, <2>1, SMTT(40)
  <2>3. MemberOK(a, artifact[a].depth)
    BY <1>1, <2>2, Zenon DEF ChainOK
  <2> QED
    BY <2>1, <2>3, Zenon DEF MemberOK
<1>5. PICK n, q, p : n = artifact[a].depth /\ q = chain[a] /\ p = chain[b]
  BY Zenon
<1>6. /\ q \in Seq(Nat) /\ p \in Seq(Nat) /\ n \in Nat /\ n > 0 /\ Len(q) = n /\ Len(p) = n - 1
      /\ q[n] = a /\ \A i \in 1..(n - 1) : q[i] = p[i]
  BY <1>1, <1>2, <1>3, <1>4, <1>5, Zenon
<1>7. q = Append(p, a)
  BY <1>2, <1>6
<1> QED
  BY <1>5, <1>7, Zenon

\* A PATCH that moves the tag as it has resolved it extends what the tag
\* pointed at.
THEOREM MovesExtend == Spec => MoveExtends
<1> DEFINE Step ==
      \A s \in Slot :
          LET t == req[s].tag
              old == tag[t].target
              new == tag'[t].target
          IN  /\ req[s].pc = "move" /\ req[s].ops # <<>> /\ tag' # tag
              /\ tag'[t].target = req[s].art
              /\ req'[s].pc = "idle"
              /\ tag[t].row = req[s].row /\ tag[t].version = req[s].version
              => /\ chain[new] = Append(chain[old], new)
                 /\ artifact[new].base = IF IsDAGVersion(old) THEN old ELSE artifact[old].base
<1> DEFINE OneMore(a, b) ==
      /\ chain[a] = Append(chain[b], a)
      /\ artifact[a].base = IF IsDAGVersion(b) THEN b ELSE artifact[b].base
<1>1. ASSUME IInv, NEW s \in Slot, NEW a, NEW b, NEW t,
             a = req[s].art, t = req[s].tag, b = tag[t].target,
             req[s].pc = "move", req[s].ops # <<>>,
             tag[t].row = req[s].row, tag[t].version = req[s].version
      PROVE  OneMore(a, b)
  <2>0. ReferencesOK /\ TablesOK /\ RequestOK(s)
    BY <1>1 DEF IInv
  <2>1. /\ Whole(a) /\ Whole(req[s].target) /\ Extends(a, req[s].target) /\ req[s].row # 0
        /\ \A i \in 1..(artifact[a].depth - 1) : chain[a][i] = chain[req[s].target][i]
    BY <1>1, <2>0, Zenon DEF RequestOK, PatchOK
  <2>2. req[s].target = b
    BY <1>1, <2>0, <2>1, ZenonT(60) DEF RequestOK, SeenOK
  <2>3. chain[a] = Append(chain[b], a)
    BY <2>0, <2>1, <2>2, HeadIsOneMore, ZenonT(60)
  <2> QED
    BY <2>1, <2>2, <2>3, ZenonT(60) DEF Extends
<1>2. IInv => Step
  <2> SUFFICES ASSUME IInv, NEW s \in Slot,
                      req[s].pc = "move", req[s].ops # <<>>,
                      tag'[req[s].tag].target = req[s].art,
                      tag[req[s].tag].row = req[s].row,
                      tag[req[s].tag].version = req[s].version
               PROVE  OneMore(tag'[req[s].tag].target, tag[req[s].tag].target)
    BY Zenon
  <2> HIDE DEF OneMore
  <2>1. OneMore(req[s].art, tag[req[s].tag].target)
    BY <1>1, Zenon
  <2> QED
    BY <2>1, Zenon
<1>3. IInv /\ [Next]_vars => [Step]_vars
  BY <1>2, Zenon
<1> QED
  BY <1>3, Invariant, PTL DEF Spec, MoveExtends

-----------------------------------------------------------------------------
(* What materialising a version computes. *)

\* The results of applying operations.
ResultType == [ok: BOOLEAN, workflow: WorkflowType]

\* Neither array is missing.
BothArrays(w) == w.nodes.has /\ w.edges.has

\* What one operation does, for the two that apply operations.
PatcherStep(r, o) ==
    IF r.ok /\ PatcherAccepts(r.workflow, o) THEN Result(Edit(r.workflow, o))
    ELSE [r EXCEPT !.ok = FALSE]

LibraryStep(r, o) ==
    IF r.ok /\ LibraryAccepts(r.workflow, o) THEN Result(Edit(r.workflow, o))
    ELSE [r EXCEPT !.ok = FALSE]

\* The array that an accepted operation changes holds items as before.
LEMMA EditedType ==
    ASSUME NEW items \in Seq(Item), NEW o \in Operation,
           \/ o.op = "add" /\ o.index \in {End} \cup 0..Len(items)
           \/ o.op \in {"remove", "replace"} /\ o.index \in 0..(Len(items) - 1)
    PROVE  Edited(items, o) \in Seq(Item)
<1>1. o.value \in Item /\ o.index \in Int /\ Len(items) \in Nat
  BY DEF Operation
<1>2. CASE o.op = "add" /\ o.index = End
  BY <1>1, <1>2 DEF Edited
<1>3. CASE o.op = "add" /\ o.index # End
  <2>1. o.index \in 0..Len(items)
    BY <1>3
  <2>2. /\ SubSeq(items, 1, o.index) \in Seq(Item)
        /\ SubSeq(items, o.index + 1, Len(items)) \in Seq(Item)
        /\ <<o.value>> \in Seq(Item)
    BY <1>1, <2>1
  <2>3. Edited(items, o) = SubSeq(items, 1, o.index) \o <<o.value>> \o SubSeq(items, o.index + 1, Len(items))
    BY <1>3, Zenon DEF Edited
  <2> QED
    BY <2>2, <2>3
<1>4. CASE o.op = "remove"
  <2>1. o.index \in 0..(Len(items) - 1)
    BY <1>4
  <2>2. /\ SubSeq(items, 1, o.index) \in Seq(Item)
        /\ SubSeq(items, o.index + 2, Len(items)) \in Seq(Item)
    BY <1>1, <2>1
  <2>3. Edited(items, o) = SubSeq(items, 1, o.index) \o SubSeq(items, o.index + 2, Len(items))
    BY <1>4, Zenon DEF Edited
  <2> QED
    BY <2>2, <2>3
<1>5. CASE o.op = "replace"
  <2>1. Edited(items, o) = [items EXCEPT ![o.index + 1] = o.value]
    BY <1>5, Zenon DEF Edited
  <2>2. o.index + 1 \in 1..Len(items)
    BY <1>1, <1>5
  <2> QED
    BY <1>1, <2>1, <2>2
<1> QED
  BY <1>2, <1>3, <1>4, <1>5

\* An accepted operation leaves a workflow, with the arrays it had.
LEMMA EditType ==
    ASSUME NEW w \in WorkflowType, NEW o \in Operation, PatcherAccepts(w, o) \/ LibraryAccepts(w, o)
    PROVE  /\ Edit(w, o) \in WorkflowType
           /\ BothArrays(w) => BothArrays(Edit(w, o))
<1>1. /\ w.nodes \in Array /\ w.edges \in Array
      /\ w.nodes.items \in Seq(Item) /\ w.edges.items \in Seq(Item)
      /\ o.array \in {"nodes", "edges"}
  BY DEF WorkflowType, Array, Operation
<1>2. PICK x : x = Edited(w[o.array].items, o)
  OBVIOUS
<1>3. x \in Seq(Item)
  <2>1. w[o.array].items \in Seq(Item)
    BY <1>1
  <2>2. \/ o.op = "add" /\ o.index \in {End} \cup 0..Len(w[o.array].items)
        \/ o.op \in {"remove", "replace"} /\ o.index \in 0..(Len(w[o.array].items) - 1)
    BY DEF PatcherAccepts, LibraryAccepts, InRange
  <2> QED
    BY <1>2, <2>1, <2>2, EditedType
<1>4. PICK y : y = [has |-> TRUE, items |-> x]
  BY Zenon
<1>5. y \in Array /\ y.has
  BY <1>3, <1>4 DEF Array
<1>6. Edit(w, o) = [w EXCEPT ![o.array] = y]
  BY <1>2, <1>4 DEF Edit
<1>7. CASE o.array = "nodes"
  <2>1. Edit(w, o) = [w EXCEPT !["nodes"] = y]
    BY <1>6, <1>7
  <2> QED
    BY <1>1, <1>5, <2>1 DEF WorkflowType, BothArrays
<1>8. CASE o.array = "edges"
  <2>1. Edit(w, o) = [w EXCEPT !["edges"] = y]
    BY <1>6, <1>8
  <2> QED
    BY <1>1, <1>5, <2>1 DEF WorkflowType, BothArrays
<1> QED
  BY <1>1, <1>7, <1>8

\* On a workflow with both arrays the library takes what the patcher takes, if
\* the path is a JSON pointer.
LEMMA PatcherIsSafe ==
    ASSUME NEW w, NEW o \in Operation, BothArrays(w), PatcherAccepts(w, o), o.rooted
    PROVE  LibraryAccepts(w, o)
<1>1. o.array \in {"nodes", "edges"}
  BY DEF Operation
<1>2. w[o.array].has
  BY <1>1 DEF BothArrays
<1> QED
  BY <1>2, Zenon DEF PatcherAccepts, LibraryAccepts

\* The workflows that the patcher goes through.
LEMMA PatcherSteps ==
    ASSUME NEW w \in WorkflowType, NEW ops \in Seq(Operation)
    PROVE  \E f \in [0..Len(ops) -> ResultType] :
              /\ f[0] = Result(w)
              /\ \A i \in 1..Len(ops) : f[i] = PatcherStep(f[i - 1], ops[i])
              /\ ApplyJSONPatchToWorkflow(w, ops) = f[Len(ops)]
<1> DEFINE N == Len(ops)
           E(f) == [i \in 0..N |-> IF i = 0 THEN Result(w) ELSE PatcherStep(f[i - 1], ops[i])]
           step == [i \in 1..N |-> [r \in ResultType |-> PatcherStep(r, ops[i])]]
<1>1. N \in Nat /\ \A i \in 1..N : ops[i] \in Operation
  OBVIOUS
<1>2. ASSUME NEW r \in ResultType, NEW o \in Operation PROVE PatcherStep(r, o) \in ResultType
  <2>1. r.workflow \in WorkflowType /\ [r EXCEPT !.ok = FALSE] \in ResultType
    BY Zenon DEF ResultType
  <2>2. \A v \in WorkflowType : Result(v) \in ResultType
    BY Zenon DEF Result, ResultType
  <2> QED
    BY <2>1, <2>2, EditType, Zenon DEF PatcherStep
<1>3. StepsOf(ResultType, Result(w), N, step)
  <2>1. Result(w) \in ResultType
    BY Zenon DEF Result, ResultType
  <2> QED
    BY <1>1, <1>2, <2>1, Zenon DEF StepsOf
<1>4. ApplyJSONPatchToWorkflow(w, ops) = (CHOOSE f : f = E(f))[N]
  BY Zenon DEF ApplyJSONPatchToWorkflow, ApplyOperations, PatcherStep
<1> HIDE DEF N
<1>5. PICK f : Values(f, ResultType, Result(w), N, step)
  BY <1>3, Recursion, Zenon
<1>6. \A i \in 0..N : i # 0 => i \in 1..N /\ i - 1 \in 0..N
  BY <1>1
<1>7. /\ 0 \in 0..N /\ N \in 0..N
      /\ \A i \in 1..N : i \in 0..N /\ i # 0
  BY <1>1
<1>8. /\ f \in [0..N -> ResultType] /\ f[0] = Result(w)
      /\ \A i \in 1..N : f[i] = PatcherStep(f[i - 1], ops[i])
  BY <1>5, <1>6, <1>7, Zenon DEF Values
<1>9. f = E(f)
  BY <1>6, <1>8, Zenon
<1>10. PICK g : g = E(g) /\ ApplyJSONPatchToWorkflow(w, ops) = g[N]
  BY <1>4, <1>9, Zenon
<1>11. g[0] = Result(w) /\ \A i \in 1..N : g[i] = PatcherStep(g[i - 1], ops[i])
  BY <1>7, <1>10, Zenon
<1>12. Alike(N, f, g)
  BY <1>1, <1>8, <1>11, Zenon DEF Alike
<1>13. f[N] = g[N]
  BY <1>12, SameValues, Zenon
<1> QED
  BY <1>8, <1>10, <1>13, Zenon DEF N

\* The workflows that the library goes through.
LEMMA LibrarySteps ==
    ASSUME NEW r0 \in ResultType, NEW ops \in Seq(Operation)
    PROVE  \E f \in [0..Len(ops) -> ResultType] :
              /\ f[0] = r0
              /\ \A i \in 1..Len(ops) : f[i] = LibraryStep(f[i - 1], ops[i])
              /\ applyPatch(r0, ops) = f[Len(ops)]
<1> DEFINE N == Len(ops)
           E(f) == [i \in 0..N |-> IF i = 0 THEN r0 ELSE LibraryStep(f[i - 1], ops[i])]
           step == [i \in 1..N |-> [r \in ResultType |-> LibraryStep(r, ops[i])]]
<1>1. N \in Nat /\ \A i \in 1..N : ops[i] \in Operation
  OBVIOUS
<1>2. ASSUME NEW r \in ResultType, NEW o \in Operation PROVE LibraryStep(r, o) \in ResultType
  <2>1. r.workflow \in WorkflowType /\ [r EXCEPT !.ok = FALSE] \in ResultType
    BY Zenon DEF ResultType
  <2>2. \A v \in WorkflowType : Result(v) \in ResultType
    BY Zenon DEF Result, ResultType
  <2> QED
    BY <2>1, <2>2, EditType, Zenon DEF LibraryStep
<1>3. StepsOf(ResultType, r0, N, step)
  BY <1>1, <1>2, Zenon DEF StepsOf
<1>4. applyPatch(r0, ops) = (CHOOSE f : f = E(f))[N]
  BY Zenon DEF applyPatch, ApplyOperations, LibraryStep
<1> HIDE DEF N
<1>5. PICK f : Values(f, ResultType, r0, N, step)
  BY <1>3, Recursion, Zenon
<1>6. \A i \in 0..N : i # 0 => i \in 1..N /\ i - 1 \in 0..N
  BY <1>1
<1>7. /\ 0 \in 0..N /\ N \in 0..N
      /\ \A i \in 1..N : i \in 0..N /\ i # 0
  BY <1>1
<1>8. /\ f \in [0..N -> ResultType] /\ f[0] = r0
      /\ \A i \in 1..N : f[i] = LibraryStep(f[i - 1], ops[i])
  BY <1>5, <1>6, <1>7, Zenon DEF Values
<1>9. f = E(f)
  BY <1>6, <1>8, Zenon
<1>10. PICK g : g = E(g) /\ applyPatch(r0, ops) = g[N]
  BY <1>4, <1>9, Zenon
<1>11. g[0] = r0 /\ \A i \in 1..N : g[i] = LibraryStep(g[i - 1], ops[i])
  BY <1>7, <1>10, Zenon
<1>12. Alike(N, f, g)
  BY <1>1, <1>8, <1>11, Zenon DEF Alike
<1>13. f[N] = g[N]
  BY <1>12, SameValues, Zenon
<1> QED
  BY <1>8, <1>10, <1>13, Zenon DEF N

\* Operations leave a workflow.
LEMMA ApplyType ==
    ASSUME NEW r \in ResultType, NEW ops \in Seq(Operation)
    PROVE  applyPatch(r, ops) \in ResultType
<1>1. PICK f \in [0..Len(ops) -> ResultType] : applyPatch(r, ops) = f[Len(ops)]
  BY LibrarySteps, Zenon
<1>2. Len(ops) \in 0..Len(ops)
  OBVIOUS
<1> QED
  BY <1>1, <1>2, Zenon

\* The components of a version.
Components == [base: WorkflowType, patches: Seq(Seq(Operation))]

\* The workflows that a chain of patches goes through.
LEMMA MaterializeSteps ==
    ASSUME NEW c \in Components
    PROVE  \E f \in [0..Len(c.patches) -> ResultType] :
              /\ f[0] = Result(c.base)
              /\ \A i \in 1..Len(c.patches) : f[i] = applyPatch(f[i - 1], c.patches[i])
              /\ Materialize(c) = f[Len(c.patches)]
<1> DEFINE N == Len(c.patches)
           E(f) == [i \in 0..N |-> IF i = 0 THEN Result(c.base) ELSE applyPatch(f[i - 1], c.patches[i])]
           step == [i \in 1..N |-> [r \in ResultType |-> applyPatch(r, c.patches[i])]]
<1>0. c.base \in WorkflowType /\ c.patches \in Seq(Seq(Operation))
  BY Zenon DEF Components
<1>1. N \in Nat /\ \A i \in 1..N : c.patches[i] \in Seq(Operation)
  BY <1>0
<1>2. \A r \in ResultType : \A ops \in Seq(Operation) : applyPatch(r, ops) \in ResultType
  BY ApplyType
<1>3. StepsOf(ResultType, Result(c.base), N, step)
  <2>1. Result(c.base) \in ResultType
    BY <1>0, Zenon DEF Result, ResultType
  <2> QED
    BY <1>1, <1>2, <2>1, Zenon DEF StepsOf
<1>4. Materialize(c) = (CHOOSE f : f = E(f))[N]
  BY Zenon DEF Materialize
<1> HIDE DEF N
<1>5. PICK f : Values(f, ResultType, Result(c.base), N, step)
  BY <1>3, Recursion, Zenon
<1>6. \A i \in 0..N : i # 0 => i \in 1..N /\ i - 1 \in 0..N
  BY <1>1
<1>7. /\ 0 \in 0..N /\ N \in 0..N
      /\ \A i \in 1..N : i \in 0..N /\ i # 0
  BY <1>1
<1>8. /\ f \in [0..N -> ResultType] /\ f[0] = Result(c.base)
      /\ \A i \in 1..N : f[i] = applyPatch(f[i - 1], c.patches[i])
  BY <1>5, <1>6, <1>7, Zenon DEF Values
<1>9. f = E(f)
  BY <1>6, <1>8, Zenon
<1>10. PICK g : g = E(g) /\ Materialize(c) = g[N]
  BY <1>4, <1>9, Zenon
<1>11. g[0] = Result(c.base) /\ \A i \in 1..N : g[i] = applyPatch(g[i - 1], c.patches[i])
  BY <1>7, <1>10, Zenon
<1>12. Alike(N, f, g)
  BY <1>1, <1>8, <1>11, Zenon DEF Alike
<1>13. f[N] = g[N]
  BY <1>12, SameValues, Zenon
<1> QED
  BY <1>8, <1>10, <1>13, Zenon DEF N

\* What the patcher has accepted on a workflow with both arrays, the library
\* accepts too, if the paths are JSON pointers.
LEMMA ValidatedApplies ==
    ASSUME NEW w \in WorkflowType, BothArrays(w), NEW ops \in Seq(Operation), Rooted(ops),
           ApplyJSONPatchToWorkflow(w, ops).ok
    PROVE  applyPatch(Result(w), ops).ok
<1> DEFINE N == Len(ops)
<1>0. N \in Nat /\ Result(w) \in ResultType /\ Result(w).workflow = w
  BY DEF Result, ResultType
<1>1. PICK f \in [0..N -> ResultType] :
        /\ f[0] = Result(w)
        /\ \A i \in 1..N : f[i] = PatcherStep(f[i - 1], ops[i])
        /\ ApplyJSONPatchToWorkflow(w, ops) = f[N]
  BY PatcherSteps, Zenon
<1>2. PICK g \in [0..N -> ResultType] :
        /\ g[0] = Result(w)
        /\ \A i \in 1..N : g[i] = LibraryStep(g[i - 1], ops[i])
        /\ applyPatch(Result(w), ops) = g[N]
  BY <1>0, LibrarySteps, Zenon
<1>3. \A i \in 1..N : ops[i] \in Operation /\ ops[i].rooted
  BY DEF Rooted
<1> HIDE DEF N
<1> DEFINE S == {n \in 0..N : f[n].ok => g[n] = f[n] /\ BothArrays(f[n].workflow)}
<1>4. 0 \in S
  <2>1. 0 \in 0..N
    BY <1>0
  <2> QED
    BY <1>0, <1>1, <1>2, <2>1, Zenon
<1>5. ASSUME NEW n \in 0..(N - 1), n \in S PROVE n + 1 \in S
  <2>1. n + 1 \in 1..N /\ n + 1 \in 0..N /\ n \in 0..N /\ (n + 1) - 1 = n
    BY <1>0
  <2>2. PICK o, r : o = ops[n + 1] /\ r = f[n] /\ o \in Operation /\ o.rooted /\ r \in ResultType
    BY <1>1, <1>3, <2>1, Zenon
  <2>3. f[n + 1] = PatcherStep(r, o) /\ g[n + 1] = LibraryStep(g[n], o)
    BY <1>1, <1>2, <2>1, <2>2, Zenon
  <2>4. ASSUME f[n + 1].ok PROVE g[n + 1] = f[n + 1] /\ BothArrays(f[n + 1].workflow)
    <3>1. r.ok /\ PatcherAccepts(r.workflow, o) /\ r.workflow \in WorkflowType
      BY <2>2, <2>3, <2>4, Zenon DEF PatcherStep, ResultType
    <3>2. g[n] = r /\ BothArrays(r.workflow)
      BY <1>5, <2>2, <3>1, Zenon
    <3>3. LibraryAccepts(r.workflow, o) /\ BothArrays(Edit(r.workflow, o))
      BY <2>2, <3>1, <3>2, PatcherIsSafe, EditType, Zenon
    <3>4. f[n + 1] = Result(Edit(r.workflow, o)) /\ g[n + 1] = Result(Edit(r.workflow, o))
      BY <2>3, <3>1, <3>2, <3>3, Zenon DEF PatcherStep, LibraryStep
    <3>5. \A v : Result(v).workflow = v
      BY Zenon DEF Result
    <3> QED
      BY <3>3, <3>4, <3>5, Zenon
  <2> QED
    BY <2>1, <2>4, Zenon
<1>6. N \in S
  <2> HIDE DEF S
  <2> QED
    BY <1>0, <1>4, <1>5, InductTo, Zenon
<1> QED
  BY <1>1, <1>2, <1>6, Zenon

\* Operations leave both arrays where there are both.
LEMMA ArraysStay ==
    ASSUME NEW r0 \in ResultType, NEW ops \in Seq(Operation), BothArrays(r0.workflow)
    PROVE  BothArrays(applyPatch(r0, ops).workflow)
<1> DEFINE N == Len(ops)
<1>0. N \in Nat
  OBVIOUS
<1>1. PICK f \in [0..N -> ResultType] :
        /\ f[0] = r0
        /\ \A i \in 1..N : f[i] = LibraryStep(f[i - 1], ops[i])
        /\ applyPatch(r0, ops) = f[N]
  BY LibrarySteps, Zenon
<1>2. \A i \in 1..N : ops[i] \in Operation
  OBVIOUS
<1> HIDE DEF N
<1> DEFINE S == {n \in 0..N : BothArrays(f[n].workflow)}
<1>3. 0 \in S
  BY <1>0, <1>1
<1>4. ASSUME NEW n \in 0..(N - 1), n \in S PROVE n + 1 \in S
  <2>1. n + 1 \in 1..N /\ n + 1 \in 0..N /\ n \in 0..N /\ (n + 1) - 1 = n
    BY <1>0
  <2>2. PICK o, r : o = ops[n + 1] /\ r = f[n] /\ o \in Operation /\ r \in ResultType
    BY <1>1, <1>2, <2>1, Zenon
  <2>3. f[n + 1] = LibraryStep(r, o) /\ BothArrays(r.workflow) /\ r.workflow \in WorkflowType
    BY <1>1, <1>4, <2>1, <2>2, Zenon DEF ResultType
  <2>4. \A v : Result(v).workflow = v
    BY Zenon DEF Result
  <2>5. [r EXCEPT !.ok = FALSE].workflow = r.workflow
    BY <2>2, Zenon DEF ResultType
  <2>6. BothArrays(f[n + 1].workflow)
    <3>1. CASE r.ok /\ LibraryAccepts(r.workflow, o)
      <4>1. BothArrays(Edit(r.workflow, o))
        BY <2>2, <2>3, <3>1, EditType, Zenon
      <4> QED
        BY <2>3, <2>4, <3>1, <4>1, Zenon DEF LibraryStep
    <3>2. CASE ~(r.ok /\ LibraryAccepts(r.workflow, o))
      BY <2>3, <2>5, <3>2, Zenon DEF LibraryStep
    <3> QED
      BY <3>1, <3>2, Zenon
  <2> QED
    BY <2>1, <2>6, Zenon
<1>5. N \in S
  <2> HIDE DEF S
  <2> QED
    BY <1>0, <1>3, <1>4, InductTo, Zenon
<1> QED
  BY <1>1, <1>5, Zenon

\* They materialise to a workflow, with both arrays if the base has both.
LEMMA MaterializeType ==
    ASSUME NEW c \in Components
    PROVE  /\ Materialize(c) \in ResultType
           /\ BothArrays(c.base) => BothArrays(Materialize(c).workflow)
<1> DEFINE N == Len(c.patches)
<1>0. c.base \in WorkflowType /\ c.patches \in Seq(Seq(Operation))
  BY Zenon DEF Components
<1>1. N \in Nat /\ \A i \in 1..N : c.patches[i] \in Seq(Operation)
  BY <1>0
<1>2. PICK f \in [0..N -> ResultType] :
        /\ f[0] = Result(c.base)
        /\ \A i \in 1..N : f[i] = applyPatch(f[i - 1], c.patches[i])
        /\ Materialize(c) = f[N]
  BY MaterializeSteps, Zenon
<1> HIDE DEF N
<1>3. ASSUME BothArrays(c.base) PROVE BothArrays(f[N].workflow)
  <2> DEFINE S == {n \in 0..N : BothArrays(f[n].workflow)}
  <2>1. 0 \in S
    <3>1. 0 \in 0..N /\ Result(c.base).workflow = c.base
      BY <1>1 DEF Result
    <3> QED
      BY <1>2, <1>3, <3>1, Zenon
  <2>2. ASSUME NEW n \in 0..(N - 1), n \in S PROVE n + 1 \in S
    <3>1. n + 1 \in 1..N /\ n + 1 \in 0..N /\ n \in 0..N /\ (n + 1) - 1 = n
      BY <1>1
    <3>2. f[n + 1] = applyPatch(f[n], c.patches[n + 1]) /\ f[n] \in ResultType
      BY <1>2, <3>1, Zenon
    <3>3. BothArrays(f[n].workflow) /\ c.patches[n + 1] \in Seq(Operation)
      BY <1>1, <2>2, <3>1, Zenon
    <3> QED
      BY <3>1, <3>2, <3>3, ArraysStay, Zenon
  <2>3. N \in S
    <3> HIDE DEF S
    <3> QED
      BY <1>1, <2>1, <2>2, InductTo, Zenon
  <2> QED
    BY <2>3, Zenon
<1>4. N \in 0..N
  BY <1>1
<1> QED
  BY <1>2, <1>3, <1>4, Zenon

\* One patch more is applied to what the others made.
LEMMA MaterializeAppend ==
    ASSUME NEW c \in Components, NEW ops \in Seq(Operation),
           NEW d, d = [base |-> c.base, patches |-> Append(c.patches, ops)]
    PROVE  Materialize(d) = applyPatch(Materialize(c), ops)
<1> DEFINE N == Len(c.patches)
           longer == Append(c.patches, ops)
<1>0. c.base \in WorkflowType /\ c.patches \in Seq(Seq(Operation))
  BY Zenon DEF Components
<1>1. N \in Nat /\ longer \in Seq(Seq(Operation)) /\ Len(longer) = N + 1
      /\ longer[N + 1] = ops /\ \A i \in 1..N : longer[i] = c.patches[i]
  BY <1>0, AppendFacts
<1>2. PICK f \in [0..N -> ResultType] :
        /\ f[0] = Result(c.base)
        /\ \A i \in 1..N : f[i] = applyPatch(f[i - 1], c.patches[i])
        /\ Materialize(c) = f[N]
  BY MaterializeSteps, Zenon
<1> HIDE DEF N, longer
<1>3. d \in Components /\ d.base = c.base /\ d.patches = longer
  BY <1>0, <1>1, Zenon DEF Components, longer
<1>4. PICK g \in [0..Len(d.patches) -> ResultType] :
        /\ g[0] = Result(d.base)
        /\ \A i \in 1..Len(d.patches) : g[i] = applyPatch(g[i - 1], d.patches[i])
        /\ Materialize(d) = g[Len(d.patches)]
  BY <1>3, MaterializeSteps, Zenon
<1>5. /\ g[0] = Result(c.base) /\ Materialize(d) = g[N + 1]
      /\ \A i \in 1..(N + 1) : g[i] = applyPatch(g[i - 1], longer[i])
  BY <1>1, <1>4, <1>3, Zenon
<1>6. /\ \A i \in 1..N : i \in 1..(N + 1)
      /\ N + 1 \in 1..(N + 1) /\ (N + 1) - 1 = N
  BY <1>1
<1>7. \A i \in 1..N : g[i] = applyPatch(g[i - 1], c.patches[i])
  BY <1>1, <1>6, <1>5, Zenon
<1>8. Alike(N, f, g)
  BY <1>1, <1>2, <1>7, <1>5, Zenon DEF Alike
<1>9. f[N] = g[N]
  BY <1>8, SameValues, Zenon
<1>10. g[N + 1] = applyPatch(g[N], ops)
  BY <1>1, <1>6, <1>5, Zenon
<1> QED
  BY <1>2, <1>9, <1>5, <1>10, Zenon

-----------------------------------------------------------------------------
(* Reading a patched version. *)

\* The operations were tried on version v and accepted.
Validated(v, ops) ==
    LET current == GetWorkflow(v).workflow
    IN  Whole(v) /\ current.ok /\ ApplyJSONPatchToWorkflow(current.workflow, ops).ok

\* Head a is put on version b: the members it has so far are those of b.
PutOn(a, b) ==
    /\ Whole(b) /\ Extends(a, b)
    /\ \A i \in 1..Len(chain[a]) : i < artifact[a].depth => chain[a][i] = chain[b][i]

\* What a row holds, and for a head where it was put and that it was validated.
RowReadOK(a) ==
    /\ artifact[a].workflow \in WorkflowType
    /\ artifact[a].ops \in Seq(Operation)
    /\ IsPatchSet(a) => PutOn(a, artifact[a].on) /\ Validated(artifact[a].checked, artifact[a].ops)

\* The same for a request that is on its way to such a head.
RequestReadOK(r) ==
    /\ r.workflow \in WorkflowType
    /\ r.ops \in Seq(Operation)
    /\ r.pc \in {"reresolve", "patch"} => Validated(r.checked, r.ops)
    /\ r.pc \in {"chain", "member"} => artifact[r.art].on = r.target

ReadInv ==
    /\ \A a \in Rows : RowReadOK(a)
    /\ \A s \in Slot : RequestReadOK(req[s])

\* What was validated stays so.
LEMMA ValidatedStays ==
    ASSUME ReferencesOK, TablesOK, NEW x, Grows(x), ~Whole(x), NEW v, NEW ops, Validated(v, ops)
    PROVE  Validated(v, ops)'
<1>1. PICK w : Whole(v) /\ MaterializesTo(v, w) /\ ApplyJSONPatchToWorkflow(w, ops).ok
  BY Zenon DEF Validated, MaterializesTo
<1>2. Whole(v)'
  BY <1>1, WholeStays, Zenon
<1>3. MaterializesTo(v, w)'
  BY <1>1, MaterializedStays, Zenon
<1> QED
  BY <1>1, <1>2, <1>3, Zenon DEF Validated, MaterializesTo

\* A head whose chain does not change is still put on the same version.
LEMMA PutOnStays ==
    ASSUME NEW x, Grows(x), ~Whole(x), NEW a \in Rows, a # x, NEW b, PutOn(a, b)
    PROVE  PutOn(a, b)'
<1>1. Whole(b) /\ Extends(a, b)
  BY Zenon DEF PutOn
<1>2. Whole(b)' /\ chain'[b] = chain[b] /\ b \in Rows
  BY <1>1, WholeStays, Zenon
<1>3. Extends(a, b)'
  BY <1>1, <1>2, ExtendsStays, Zenon
<1>4. chain'[a] = chain[a] /\ artifact'[a] = artifact[a]
  BY Zenon DEF Grows
<1> QED
  BY <1>2, <1>3, <1>4, Zenon DEF PutOn

\* The rows whose chain does not change.
LEMMA RowReadStays ==
    ASSUME ReferencesOK, TablesOK, NEW x, Grows(x), ~Whole(x), NEW a \in Rows, a # x, RowReadOK(a)
    PROVE  RowReadOK(a)'
<1>1. artifact'[a] = artifact[a]
  BY Zenon DEF Grows
<1>2. IsPatchSet(a)' <=> IsPatchSet(a)
  BY <1>1, Zenon DEF IsPatchSet
<1>3. PICK b, v, ops : b = artifact[a].on /\ v = artifact[a].checked /\ ops = artifact[a].ops
  BY Zenon
<1>4. IsPatchSet(a) => PutOn(a, b)'
  BY <1>3, PutOnStays, Zenon DEF RowReadOK
<1>5. IsPatchSet(a) => Validated(v, ops)'
  BY <1>3, ValidatedStays, Zenon DEF RowReadOK
<1> QED
  BY <1>1, <1>2, <1>3, <1>4, <1>5, Zenon DEF RowReadOK

\* What requests rely on.
LEMMA RequestReadStays ==
    ASSUME ReferencesOK, TablesOK, NEW x, Grows(x), ~Whole(x), NEW r, RequestReadOK(r),
           r.pc \in {"chain", "member"} => r.art \in Rows
    PROVE  RequestReadOK(r)'
<1>1. r.pc \in {"reresolve", "patch"} => Validated(r.checked, r.ops)'
  BY ValidatedStays, Zenon DEF RequestReadOK
<1>2. r.pc \in {"chain", "member"} => artifact'[r.art] = artifact[r.art]
  BY Zenon DEF Grows
<1> QED
  BY <1>1, <1>2, Zenon DEF RequestReadOK

\* While no version changes, everything stays as it is.
LEMMA VersionsStill ==
    ASSUME IInv, ReadInv, UNCHANGED <<artifact, chain>>
    PROVE  /\ \A a \in Rows' : RowReadOK(a)'
           /\ \A r : RequestReadOK(r) => RequestReadOK(r)'
<1>0. ReferencesOK /\ TablesOK
  BY Zenon DEF IInv
<1>1. Grows(0) /\ ~Whole(0) /\ Rows' = Rows
  BY <1>0, ZeroIsNoRow DEF Grows, Rows
<1>2. \A a \in Rows : RowReadOK(a)'
  <2>1. \A a \in Rows : a # 0
    BY <1>0, RowFacts
  <2> QED
    BY <1>0, <1>1, <2>1, RowReadStays, Zenon DEF ReadInv
<1>3. ASSUME NEW r, RequestReadOK(r) PROVE RequestReadOK(r)'
  <2>1. r.pc \in {"reresolve", "patch"} => Validated(r.checked, r.ops)'
    BY <1>0, <1>1, <1>3, ValidatedStays, Zenon DEF RequestReadOK
  <2> QED
    BY <1>3, <2>1, Zenon DEF RequestReadOK
<1> QED
  BY <1>1, <1>2, <1>3, Zenon

\* A step that leaves the requests alone, too.
LEMMA StillReads ==
    ASSUME IInv, ReadInv, UNCHANGED <<artifact, chain, req>>
    PROVE  ReadInv'
BY VersionsStill, Zenon DEF ReadInv

\* A step of request s that stores nothing.
LEMMA ReadsOnly ==
    ASSUME IInv, ReadInv, UNCHANGED <<artifact, chain>>, NEW s \in Slot, NEW r,
           req' = [req EXCEPT ![s] = r], RequestReadOK(r)
    PROVE  ReadInv'
<1>1. PICK W : req \in [Slot -> W]
  BY Zenon DEF IInv, ReferencesOK
<1>2. \A u \in Slot : req'[u] = IF u = s THEN r ELSE req[u]
  BY <1>1, Zenon
<1>3. \A u \in Slot : RequestReadOK(req'[u])
  BY <1>2, Zenon DEF ReadInv
<1> QED
  BY <1>3, VersionsStill, Zenon DEF ReadInv

\* A step of request s that stores row a.
LEMMA ReadsAndCreates ==
    ASSUME IInv, ReadInv, NEW s \in Slot, NEW r, req' = [req EXCEPT ![s] = r],
           NEW a, Create(a),
           a.workflow \in WorkflowType, a.ops \in Seq(Operation),
           r.workflow \in WorkflowType, r.ops \in Seq(Operation),
           r.pc \notin {"reresolve", "patch", "member"},
           r.pc = "chain" => r.art = NewArtifact /\ a.on = r.target,
           a.kind = "patch_set" =>
              /\ Whole(a.on) /\ Validated(a.checked, a.ops)
              /\ a.base = IF IsDAGVersion(a.on) THEN a.on ELSE artifact[a.on].base
              /\ a.depth = IF IsDAGVersion(a.on) THEN 1 ELSE artifact[a.on].depth + 1
    PROVE  ReadInv'
<1>0. ReferencesOK /\ TablesOK
  BY Zenon DEF IInv
<1>1. /\ Len(artifact) \in Nat /\ Len(chain) = Len(artifact) /\ Rows = 1..Len(artifact)
      /\ chain \in Seq(Seq(Nat))
  BY <1>0, RowFacts DEF ReferencesOK
<1>2. PICK V : artifact \in Seq(V)
  BY <1>0, Zenon DEF ReferencesOK
<1>3. PICK n : n = NewArtifact
  BY Zenon
<1>4. /\ Rows' = Rows \cup {n} /\ n \notin Rows
      /\ \A i \in Rows : artifact'[i] = artifact[i]
      /\ artifact'[n] = a
  <2>1. artifact' = Append(artifact, a) /\ n = Len(artifact) + 1
    BY <1>3, Zenon DEF Create, NewArtifact
  <2> QED
    BY <1>1, <1>2, <2>1 DEF Rows
<1>5. chain'[n] = <<>> /\ \A i \in Rows : chain'[i] = chain[i]
  <2>1. chain' = Append(chain, <<>>) /\ n = Len(artifact) + 1
    BY <1>3, Zenon DEF Create, NewArtifact
  <2> QED
    BY <1>1, <2>1
<1>6. Grows(0) /\ ~Whole(0)
  BY <1>0, <1>4, <1>5, ZeroIsNoRow, Zenon DEF Grows
<1>7. \A b \in Rows : RowReadOK(b)'
  <2>1. \A b \in Rows : b # 0
    BY <1>1
  <2> QED
    BY <1>0, <1>6, <2>1, RowReadStays, Zenon DEF ReadInv
<1>8. a.kind = "patch_set" => PutOn(n, a.on)' /\ Validated(a.checked, a.ops)'
  <2> SUFFICES ASSUME a.kind = "patch_set" PROVE PutOn(n, a.on)' /\ Validated(a.checked, a.ops)'
    BY Zenon
  <2>1. Validated(a.checked, a.ops)'
    BY <1>0, <1>6, ValidatedStays, Zenon
  <2>2. PICK b : b = a.on
    BY Zenon
  <2>3. Whole(b)' /\ artifact'[b] = artifact[b]
    BY <1>6, <2>2, WholeStays, Zenon
  <2>4. Extends(n, b)'
    BY <1>4, <2>2, <2>3, Zenon DEF Extends, IsPatchSet, IsDAGVersion
  <2>5. 1..Len(chain'[n]) = {}
    BY <1>5
  <2>6. PutOn(n, b)'
    BY <2>3, <2>4, <2>5, Zenon DEF PutOn
  <2> QED
    BY <2>1, <2>2, <2>6, Zenon
<1>9. RowReadOK(n)'
  BY <1>4, <1>8, Zenon DEF RowReadOK, IsPatchSet
<1>10. PICK W : req \in [Slot -> W]
  BY <1>0, Zenon DEF ReferencesOK
<1>11. \A u \in Slot : req'[u] = IF u = s THEN r ELSE req[u]
  BY <1>10, Zenon
<1>12. RequestReadOK(r)'
  BY <1>3, <1>4, Zenon DEF RequestReadOK
<1>13. ASSUME NEW u \in Slot PROVE RequestReadOK(req[u])'
  <2>1. CASE u = s
    BY <1>11, <1>12, <2>1, Zenon
  <2>2. CASE u # s
    <3>1. PICK q : q = req[u]
      BY Zenon
    <3>2. RequestReadOK(q) /\ (q.pc \in {"chain", "member"} => q.art \in Rows)
      BY <3>1, Zenon DEF IInv, RequestOK, PatchOK, Extends, ReadInv
    <3>3. RequestReadOK(q)'
      BY <1>0, <1>6, <3>2, RequestReadStays, Zenon
    <3> QED
      BY <1>11, <2>2, <3>1, <3>3, Zenon
  <2> QED
    BY <2>1, <2>2, Zenon
<1> QED
  BY <1>4, <1>7, <1>9, <1>13, Zenon DEF ReadInv

\* An idle slot.
LEMMA NoRequestReads == RequestReadOK(NoRequest)
<1>1. NoWorkflow \in WorkflowType
  BY VersionsAssumption, Zenon DEF NoWorkflow
<1>2. <<>> \in Seq(Operation)
  OBVIOUS
<1> QED
  BY <1>1, <1>2, Zenon DEF RequestReadOK, NoRequest

\* A request ends.
LEMMA ReadEnds ==
    ASSUME IInv, ReadInv, UNCHANGED <<artifact, chain>>, NEW s \in Slot,
           req' = [req EXCEPT ![s] = NoRequest]
    PROVE  ReadInv'
BY NoRequestReads, ReadsOnly, Zenon

\* What a version is made of.
LEMMA ComponentsType ==
    ASSUME IInv, ReadInv, NEW a \in Rows
    PROVE  /\ GetWorkflowComponents(a) \in Components
           /\ IsPatchSet(a) => loadPatchSetComponents(a, chain[a]) \in Components
<1>0. ReferencesOK /\ TablesOK
  BY Zenon DEF IInv
<1>1. artifact[a].workflow \in WorkflowType /\ <<>> \in Seq(Seq(Operation))
  BY DEF ReadInv, RowReadOK
<1>2. chain[a] \in Seq(Nat) /\ DOMAIN chain[a] = 1..Len(chain[a]) /\ Len(chain[a]) \in Nat
  BY <1>0, RowFacts, Zenon
<1>3. IsDAGVersion(a) \/ IsPatchSet(a)
  BY <1>0, RowFacts, Zenon DEF IsDAGVersion, IsPatchSet
<1>4. ASSUME IsPatchSet(a) PROVE loadPatchSetComponents(a, chain[a]) \in Components
  <2>1. artifact[a].base \in Rows
    BY <1>0, <1>4, Zenon DEF TablesOK, ChainOK
  <2>2. artifact[artifact[a].base].workflow \in WorkflowType
    BY <2>1, Zenon DEF ReadInv, RowReadOK
  <2>3. \A i \in 1..Len(chain[a]) : artifact[chain[a][i]].ops \in Seq(Operation)
    BY <1>0, Zenon DEF TablesOK, ChainOK, MemberOK, ReadInv, RowReadOK
  <2>4. PICK p : p = [i \in DOMAIN chain[a] |-> artifact[chain[a][i]].ops]
    BY Zenon
  <2>5. p \in Seq(Seq(Operation))
    <3>1. p \in [1..Len(chain[a]) -> Seq(Operation)]
      BY <1>2, <2>3, <2>4, Zenon
    <3> QED
      BY <1>2, <3>1
  <2> QED
    BY <2>2, <2>4, <2>5, Zenon DEF loadPatchSetComponents, Components
<1>5. IsDAGVersion(a) => GetWorkflowComponents(a) \in Components
  BY <1>1, Zenon DEF GetWorkflowComponents, Components
<1>6. ~IsDAGVersion(a) => GetWorkflowComponents(a) = loadPatchSetComponents(a, chain[a])
  BY Zenon DEF GetWorkflowComponents, GetPatchChain
<1> QED
  BY <1>3, <1>4, <1>5, <1>6, Zenon

\* One more member of the head that request s builds.
LEMMA InsertReads ==
    ASSUME IInv, ReadInv, NEW s \in Slot, InsertPatchChain(s)
    PROVE  ReadInv'
<1>0. ReferencesOK /\ TablesOK /\ RequestOK(s) /\ RequestReadOK(req[s]) /\ req[s].pc = "member"
  BY Zenon DEF IInv, ReadInv, InsertPatchChain, At
<1>1. PICK a, b, k, m : NextIs(s, a, k, m) /\ b = req[s].target
  BY <1>0, Zenon DEF NextIs
<1>2. NextIsOK(a, k, m) /\ Inserted(a, k, m)
  BY <1>1, MemberInserted, Zenon
<1>3. /\ a = req[s].art /\ a \in Rows /\ IsPatchSet(a) /\ ~Whole(a) /\ k \in Nat
      /\ k - 1 = Len(chain[a]) /\ m = req[s].members[k]
  BY <1>1, <1>2, Zenon DEF NextIs, NextIsOK
<1>4. Grows(a) /\ Rows' = Rows /\ artifact' = artifact /\ Len(chain'[a]) = k
  BY <1>2, Zenon DEF Inserted
<1>5. \A c \in Rows : c # a => RowReadOK(c)'
  BY <1>0, <1>3, <1>4, RowReadStays, Zenon DEF ReadInv
<1>6. artifact[a].on = b /\ RowReadOK(a) /\ artifact[a].depth \in Nat
  BY <1>0, <1>1, <1>3, RowFacts, Zenon DEF RequestReadOK, ReadInv
<1>7. PutOn(a, b) /\ Validated(artifact[a].checked, artifact[a].ops)
  BY <1>3, <1>6, Zenon DEF RowReadOK
<1>8. Whole(b)' /\ chain'[b] = chain[b] /\ b \in Rows
  BY <1>3, <1>4, <1>7, WholeStays, Zenon DEF PutOn
<1>9. Extends(a, b)'
  BY <1>4, <1>7, <1>8, ExtendsStays, Zenon DEF PutOn
<1>10. \A i \in 1..(artifact[a].depth - 1) : req[s].members[i] = chain[b][i]
  BY <1>0, <1>1, <1>3, Zenon DEF RequestOK, PatchOK
<1>11. ASSUME NEW i \in 1..k, i < artifact[a].depth PROVE chain'[a][i] = chain[b][i]
  <2>1. CASE i = k
    <3>1. k \in 1..(artifact[a].depth - 1)
      BY <1>3, <1>6, <1>11, <2>1
    <3> QED
      BY <1>2, <1>3, <1>10, <2>1, <3>1, Zenon DEF Inserted
  <2>2. CASE i # k
    <3>1. i \in 1..(k - 1) /\ i \in 1..Len(chain[a])
      BY <1>3, <2>2
    <3>2. chain'[a][i] = chain[a][i]
      BY <1>2, <3>1, Zenon DEF Inserted
    <3> QED
      BY <1>7, <1>11, <3>1, <3>2, Zenon DEF PutOn
  <2> QED
    BY <2>1, <2>2, Zenon
<1>12. PutOn(a, b)'
  BY <1>4, <1>8, <1>9, <1>11, Zenon DEF PutOn
<1>13. RowReadOK(a)'
  <2>1. PICK v, ops : v = artifact[a].checked /\ ops = artifact[a].ops
    BY Zenon
  <2>2. Validated(v, ops)'
    BY <1>0, <1>3, <1>4, <1>7, <2>1, ValidatedStays, Zenon
  <2> QED
    BY <1>4, <1>6, <1>12, <2>1, <2>2, Zenon DEF RowReadOK
<1>14. PICK pc, r : pc \in {"exists", "member"} /\ r = [req[s] EXCEPT !.pc = pc]
                    /\ req' = [req EXCEPT ![s] = r]
  BY Zenon DEF InsertPatchChain, Continue
<1>15. IsRequest(req[s])
  BY <1>0, RequestFacts, Zenon
<1>16. r.pc = pc /\ r.workflow = req[s].workflow /\ r.ops = req[s].ops /\ r.art = a /\ r.target = b
  BY <1>1, <1>3, <1>14, <1>15, Zenon DEF IsRequest, RequestType
<1>17. RequestReadOK(r)'
  BY <1>0, <1>4, <1>6, <1>14, <1>16, Zenon DEF RequestReadOK
<1>18. PICK W : req \in [Slot -> W]
  BY <1>0, Zenon DEF ReferencesOK
<1>19. \A u \in Slot : req'[u] = IF u = s THEN r ELSE req[u]
  BY <1>14, <1>18, Zenon
<1>20. ASSUME NEW u \in Slot PROVE RequestReadOK(req[u])'
  <2>1. CASE u = s
    BY <1>17, <1>19, <2>1, Zenon
  <2>2. CASE u # s
    <3>1. PICK q : q = req[u]
      BY Zenon
    <3>2. RequestReadOK(q) /\ (q.pc \in {"chain", "member"} => q.art \in Rows)
      BY <3>1, Zenon DEF IInv, RequestOK, PatchOK, Extends, ReadInv
    <3>3. RequestReadOK(q)'
      BY <1>0, <1>3, <1>4, <3>2, RequestReadStays, Zenon
    <3> QED
      BY <1>19, <2>2, <3>1, <3>3, Zenon
  <2> QED
    BY <2>1, <2>2, Zenon
<1> QED
  BY <1>4, <1>5, <1>13, <1>20, Zenon DEF ReadInv

\* A request begins.
LEMMA StartReads ==
    ASSUME IInv, ReadInv, NEW s \in Slot, NEW t,
           \/ CreateRun(s, t)
           \/ \E w \in Workflow : CreateWorkflow(s, t, w)
           \/ \E ops \in Patch : PatchWorkflow(s, t, ops)
           \/ \E a \in DOMAIN artifact : CompactWorkflow(s, t, a)
    PROVE  ReadInv'
<1>1. /\ Workflow \subseteq WorkflowType /\ Patch \subseteq Seq(Operation)
  BY VersionsAssumption, Zenon
<1>2. NoWorkflow \in WorkflowType /\ <<>> \in Seq(Operation)
  BY NoRequestReads, Zenon DEF RequestReadOK, NoRequest
<1>3. ASSUME NEW r, Start(s, r), r.workflow \in WorkflowType, r.ops \in Seq(Operation),
             r.pc \in {"lookup", "resolve", "resolve_run", "readchain"}
      PROVE  ReadInv'
  <2>1. RequestReadOK(r)
    BY <1>3, Zenon DEF RequestReadOK
  <2> QED
    BY <1>3, <2>1, ReadsOnly, Zenon DEF Start
<1>4. ASSUME NEW w \in Workflow, CreateWorkflow(s, t, w) PROVE ReadInv'
  <2>1. PICK r : r = [NoRequest EXCEPT !.pc = "lookup", !.tag = t, !.workflow = w]
    BY Zenon
  <2>2. r.pc = "lookup" /\ r.workflow = w /\ r.ops = <<>>
    BY <2>1, Zenon DEF NoRequest
  <2> QED
    BY <1>1, <1>2, <1>3, <1>4, <2>1, <2>2, Zenon DEF CreateWorkflow
<1>5. ASSUME NEW ops \in Patch, PatchWorkflow(s, t, ops) PROVE ReadInv'
  <2>1. PICK r : r = [NoRequest EXCEPT !.pc = "resolve", !.tag = t, !.ops = ops]
    BY Zenon
  <2>2. r.pc = "resolve" /\ r.workflow = NoWorkflow /\ r.ops = ops
    BY <2>1, Zenon DEF NoRequest
  <2> QED
    BY <1>1, <1>2, <1>3, <1>5, <2>1, <2>2, Zenon DEF PatchWorkflow
<1>6. ASSUME CreateRun(s, t) PROVE ReadInv'
  <2>1. PICK r : r = [NoRequest EXCEPT !.pc = "resolve_run", !.tag = t]
    BY Zenon
  <2>2. r.pc = "resolve_run" /\ r.workflow = NoWorkflow /\ r.ops = <<>>
    BY <2>1, Zenon DEF NoRequest
  <2> QED
    BY <1>1, <1>2, <1>3, <1>6, <2>1, <2>2, Zenon DEF CreateRun
<1>7. ASSUME NEW a, CompactWorkflow(s, t, a) PROVE ReadInv'
  <2>1. PICK r : r = [NoRequest EXCEPT !.pc = "readchain", !.tag = t, !.target = a]
    BY Zenon
  <2>2. r.pc = "readchain" /\ r.workflow = NoWorkflow /\ r.ops = <<>>
    BY <2>1, Zenon DEF NoRequest
  <2> QED
    BY <1>1, <1>2, <1>3, <1>7, <2>1, <2>2, Zenon DEF CompactWorkflow
<1> QED
  BY <1>4, <1>5, <1>6, <1>7, Zenon

\* A request that goes on with what it has.
LEMMA GoesOnReads ==
    ASSUME IInv, ReadInv, NEW s \in Slot, UNCHANGED <<artifact, chain>>, NEW r,
           req' = [req EXCEPT ![s] = r], r.workflow = req[s].workflow, r.ops = req[s].ops,
           r.pc \notin {"reresolve", "patch", "chain", "member"}
    PROVE  ReadInv'
<1>1. RequestReadOK(r)
  BY Zenon DEF ReadInv, RequestReadOK
<1> QED
  BY <1>1, ReadsOnly, Zenon

\* The tag is looked up, moved, inserted; a DAG is looked up; the run is
\* inserted.
LEMMA TagReads ==
    ASSUME IInv, ReadInv, NEW s \in Slot,
           \/ CreateOrMoveTag(s) \/ MoveTag(s) \/ CreateTag(s) \/ GetByVersionHash(s)
           \/ InsertRun(s) \/ MigrateTagToCompactedBase(s) \/ Abort(s)
    PROVE  ReadInv'
<1>0. IsRequest(req[s])
  BY RequestFacts, Zenon DEF IInv
<1>1. ASSUME NEW r, \/ \E pc \in {"move", "create", "artifact"} : r = [req[s] EXCEPT !.pc = pc]
                    \/ \E a : r = [req[s] EXCEPT !.pc = "exists", !.art = a]
      PROVE  /\ r.workflow = req[s].workflow /\ r.ops = req[s].ops
             /\ r.pc \in {"move", "create", "artifact", "exists"}
  BY <1>0, <1>1, Zenon DEF IsRequest, RequestType
<1>2. /\ UNCHANGED <<artifact, chain>>
      /\ \/ req' = [req EXCEPT ![s] = NoRequest]
         \/ \E pc \in {"move", "create", "artifact"} : req' = [req EXCEPT ![s] = [req[s] EXCEPT !.pc = pc]]
         \/ \E a : req' = [req EXCEPT ![s] = [req[s] EXCEPT !.pc = "exists", !.art = a]]
  <2>1. CASE CreateOrMoveTag(s)
    BY <2>1, Zenon DEF CreateOrMoveTag, Continue
  <2>2. CASE MoveTag(s) \/ CreateTag(s) \/ InsertRun(s) \/ Abort(s)
    BY <2>2, Zenon DEF MoveTag, CreateTag, InsertRun, Abort, Finish, Continue
  <2>3. CASE GetByVersionHash(s)
    BY <2>3, Zenon DEF GetByVersionHash, Continue
  <2>4. CASE MigrateTagToCompactedBase(s)
    BY <2>4, Zenon DEF MigrateTagToCompactedBase, Finish, Continue
  <2> QED
    BY <2>1, <2>2, <2>3, <2>4, Zenon
<1>3. CASE req' = [req EXCEPT ![s] = NoRequest]
  BY <1>2, <1>3, ReadEnds, Zenon
<1>4. CASE req' # [req EXCEPT ![s] = NoRequest]
  <2>1. PICK r : /\ req' = [req EXCEPT ![s] = r]
                 /\ r.workflow = req[s].workflow /\ r.ops = req[s].ops
                 /\ r.pc \in {"move", "create", "artifact", "exists"}
    BY <1>1, <1>2, <1>4, Zenon
  <2> QED
    BY <1>2, <2>1, GoesOnReads, Zenon
<1> QED
  BY <1>3, <1>4, Zenon

\* The tag is resolved.
LEMMA ResolveReads ==
    ASSUME IInv, ReadInv, NEW s \in Slot, NEW pc, NEW next \in {"validate", "patch", "materialize"},
           ResolveTag(s, pc, next), next = "patch" => pc = "reresolve"
    PROVE  ReadInv'
<1>0. IsRequest(req[s]) /\ RequestReadOK(req[s]) /\ req[s].pc = pc
  BY RequestFacts, Zenon DEF IInv, ReadInv, ResolveTag, At
<1>1. PICK r : r = [Resolved(s) EXCEPT !.pc = next]
  BY Zenon
<1>2. /\ UNCHANGED <<artifact, chain>>
      /\ req' = [req EXCEPT ![s] = NoRequest] \/ req' = [req EXCEPT ![s] = r]
  BY <1>1, Zenon DEF ResolveTag, Continue, Finish
<1>3. CASE req' = [req EXCEPT ![s] = NoRequest]
  BY <1>2, <1>3, ReadEnds, Zenon
<1>4. CASE req' = [req EXCEPT ![s] = r]
  <2>1. /\ r.pc = next /\ r.workflow = req[s].workflow /\ r.ops = req[s].ops
        /\ r.checked = req[s].checked
    BY <1>0, <1>1, Zenon DEF IsRequest, RequestType, Resolved
  <2>2. RequestReadOK(r)
    BY <1>0, <2>1, Zenon DEF RequestReadOK
  <2> QED
    BY <1>2, <1>4, <2>2, ReadsOnly, Zenon
<1> QED
  BY <1>2, <1>3, <1>4, Zenon

\* The operations have been tried on the version that was resolved.
LEMMA ValidateReads ==
    ASSUME IInv, ReadInv, NEW s \in Slot, ValidatePatch(s)
    PROVE  ReadInv'
<1>0. /\ IsRequest(req[s]) /\ RequestReadOK(req[s]) /\ Whole(req[s].target)
      /\ UNCHANGED <<artifact, chain>>
  BY RequestFacts, Zenon DEF IInv, ReadInv, RequestOK, TargetOK, ValidatePatch, At
<1>1. PICK r, b : r = [req[s] EXCEPT !.pc = "reresolve", !.checked = req[s].target] /\ b = req[s].target
  BY Zenon
<1>2. CASE req' = [req EXCEPT ![s] = NoRequest]
  BY <1>0, <1>2, ReadEnds, Zenon
<1>3. CASE req' # [req EXCEPT ![s] = NoRequest]
  <2>1. PICK current : current = Materialize(GetWorkflowComponents(b))
    BY Zenon
  <2>2. /\ req' = [req EXCEPT ![s] = r]
        /\ current.ok /\ ApplyJSONPatchToWorkflow(current.workflow, req[s].ops).ok
    BY <1>1, <1>3, <2>1, Zenon DEF ValidatePatch, Continue, Finish
  <2>3. /\ r.pc = "reresolve" /\ r.workflow = req[s].workflow /\ r.ops = req[s].ops /\ r.checked = b
    BY <1>0, <1>1, Zenon DEF IsRequest, RequestType
  <2>4. MaterializesTo(b, current.workflow)
    BY <2>1, <2>2, Zenon DEF MaterializesTo, GetWorkflow, WorkflowResponse
  <2>5. Validated(b, req[s].ops)
    BY <1>0, <1>1, <2>2, <2>4, Zenon DEF Validated, MaterializesTo
  <2>6. RequestReadOK(r)
    BY <1>0, <2>3, <2>5, Zenon DEF RequestReadOK
  <2> QED
    BY <1>0, <2>2, <2>6, ReadsOnly, Zenon
<1> QED
  BY <1>2, <1>3, Zenon

\* The new head is put on the version that was resolved last.
LEMMA CreatePatchReads ==
    ASSUME IInv, ReadInv, NEW s \in Slot, CreatePatchArtifact(s)
    PROVE  ReadInv'
<1>0. /\ IsRequest(req[s]) /\ RequestReadOK(req[s]) /\ Whole(req[s].target) /\ req[s].pc = "patch"
  BY RequestFacts, Zenon DEF IInv, ReadInv, RequestOK, TargetOK, CreatePatchArtifact, At
<1>1. PICK b, base, depth, n :
        /\ b = req[s].target /\ n = NewArtifact
        /\ base = IF IsDAGVersion(b) THEN b ELSE artifact[b].base
        /\ depth = IF IsDAGVersion(b) THEN 1 ELSE artifact[b].depth + 1
  BY Zenon
<1>2. PICK r0, r, a : /\ r0 = [req[s] EXCEPT !.base = base, !.depth = depth]
                      /\ r = [r0 EXCEPT !.pc = "chain", !.art = n]
                      /\ a = PatchSet(r0)
  BY Zenon
<1>3. req' = [req EXCEPT ![s] = r] /\ Create(a)
  BY <1>1, <1>2, Zenon DEF CreatePatchArtifact, Continue
<1>4. /\ r.pc = "chain" /\ r.art = n /\ r.target = b
      /\ r.workflow = req[s].workflow /\ r.ops = req[s].ops
  BY <1>0, <1>1, <1>2, ZenonT(60) DEF IsRequest, RequestType
<1>5. /\ a.kind = "patch_set" /\ a.base = base /\ a.depth = depth /\ a.on = b
      /\ a.checked = req[s].checked /\ a.ops = req[s].ops /\ a.workflow = NoWorkflow
  BY <1>0, <1>1, <1>2, ZenonT(60) DEF PatchSet, IsRequest, RequestType
<1>6. NoWorkflow \in WorkflowType
  BY NoRequestReads, Zenon DEF RequestReadOK, NoRequest
<1>7. Validated(a.checked, a.ops) /\ r.workflow \in WorkflowType /\ r.ops \in Seq(Operation)
  BY <1>0, <1>4, <1>5, Zenon DEF RequestReadOK
<1> QED
  BY <1>0, <1>1, <1>3, <1>4, <1>5, <1>6, <1>7, ReadsAndCreates, ZenonT(60)

\* The chain of that version is read.
LEMMA PreviousChainReads ==
    ASSUME IInv, ReadInv, NEW s \in Slot, GetPreviousChain(s)
    PROVE  ReadInv'
<1>0. /\ IsRequest(req[s]) /\ RequestReadOK(req[s]) /\ req[s].pc = "chain"
      /\ UNCHANGED <<artifact, chain>>
  BY RequestFacts, Zenon DEF IInv, ReadInv, GetPreviousChain, At
<1>1. PICK members, r : /\ r = [req[s] EXCEPT !.pc = "member", !.members = members]
                        /\ req' = [req EXCEPT ![s] = r]
  BY Zenon DEF GetPreviousChain, Continue
<1>2. /\ r.pc = "member" /\ r.workflow = req[s].workflow /\ r.ops = req[s].ops
      /\ r.art = req[s].art /\ r.target = req[s].target
  BY <1>0, <1>1, Zenon DEF IsRequest, RequestType
<1>3. RequestReadOK(r)
  BY <1>0, <1>2, Zenon DEF RequestReadOK
<1> QED
  BY <1>0, <1>1, <1>3, ReadsOnly, Zenon

\* What a version materialises to is a workflow.
LEMMA MaterializeReads ==
    ASSUME IInv, ReadInv, NEW s \in Slot, MaterializeForRun(s) \/ MaterializeChain(s)
    PROVE  ReadInv'
<1>0. /\ IsRequest(req[s]) /\ RequestReadOK(req[s]) /\ UNCHANGED <<artifact, chain>>
  BY RequestFacts, Zenon DEF IInv, ReadInv, MaterializeForRun, MaterializeChain
<1>1. CASE req' = [req EXCEPT ![s] = NoRequest]
  BY <1>0, <1>1, ReadEnds, Zenon
<1>2. ASSUME NEW c \in Components, NEW pc \in {"freeze", "compact"}, NEW members,
             \/ req' = [req EXCEPT ![s] = [req[s] EXCEPT !.pc = pc, !.workflow = Materialize(c).workflow]]
             \/ req' = [req EXCEPT ![s] = [req[s] EXCEPT !.pc = pc, !.members = members,
                                                       !.workflow = Materialize(c).workflow]]
      PROVE  ReadInv'
  <2>1. PICK w : w = Materialize(c).workflow
    BY Zenon
  <2>2. w \in WorkflowType
    BY <2>1, MaterializeType, Zenon DEF ResultType
  <2>3. PICK r : /\ req' = [req EXCEPT ![s] = r]
                 /\ \/ r = [req[s] EXCEPT !.pc = pc, !.workflow = w]
                    \/ r = [req[s] EXCEPT !.pc = pc, !.members = members, !.workflow = w]
    BY <1>2, <2>1, Zenon
  <2>4. r.pc = pc /\ r.workflow = w /\ r.ops = req[s].ops
    BY <1>0, <2>3, Zenon DEF IsRequest, RequestType
  <2>5. RequestReadOK(r)
    BY <1>0, <2>2, <2>4, Zenon DEF RequestReadOK
  <2> QED
    BY <1>0, <2>3, <2>5, ReadsOnly, Zenon
<1>3. CASE MaterializeForRun(s) /\ req' # [req EXCEPT ![s] = NoRequest]
  <2>1. req[s].target \in Rows
    BY <1>3, Zenon DEF MaterializeForRun, At, IInv, RequestOK, TargetOK, Whole
  <2>2. PICK c : c = GetWorkflowComponents(req[s].target)
    BY Zenon
  <2>3. req' = [req EXCEPT ![s] = [req[s] EXCEPT !.pc = "freeze", !.workflow = Materialize(c).workflow]]
    BY <1>3, <2>2, Zenon DEF MaterializeForRun, Continue, Finish
  <2> QED
    BY <1>2, <2>1, <2>2, <2>3, ComponentsType, Zenon
<1>4. CASE MaterializeChain(s) /\ req' # [req EXCEPT ![s] = NoRequest]
  <2>1. req[s].target \in Rows /\ IsPatchSet(req[s].target)
    BY <1>4, Zenon DEF MaterializeChain, At, IInv, RequestOK, TargetOK
  <2>2. PICK c, members : c = loadPatchSetComponents(req[s].target, chain[req[s].target])
                          /\ members = chain[req[s].target]
    BY Zenon
  <2>3. req' = [req EXCEPT ![s] = [req[s] EXCEPT !.pc = "compact", !.members = members,
                                              !.workflow = Materialize(c).workflow]]
    BY <1>4, <2>2, Zenon DEF MaterializeChain, Continue, Finish, GetPatchChain
  <2> QED
    BY <1>2, <2>1, <2>2, <2>3, ComponentsType, Zenon
<1> QED
  BY <1>1, <1>3, <1>4, Zenon

\* A DAG is stored.
LEMMA CreateDAGReads ==
    ASSUME IInv, ReadInv, NEW s \in Slot,
           CreateDAGVersion(s) \/ FreezeForRun(s) \/ CreateCompactedBase(s)
    PROVE  ReadInv'
<1>0. IsRequest(req[s]) /\ RequestReadOK(req[s])
  BY RequestFacts, Zenon DEF IInv, ReadInv
<1>1. SUFFICES ASSUME NEW pc \in {"exists", "run", "migrate"}, NEW from, NEW patches,
                      req' = [req EXCEPT ![s] = [req[s] EXCEPT !.pc = pc, !.art = NewArtifact]],
                      Create(DAGVersion(req[s].workflow, from, patches))
               PROVE  ReadInv'
  <2>1. CASE CreateDAGVersion(s)
    BY <2>1, Zenon DEF CreateDAGVersion, Continue
  <2>2. CASE FreezeForRun(s)
    BY <2>2, Zenon DEF FreezeForRun, Continue
  <2>3. CASE CreateCompactedBase(s)
    BY <2>3, Zenon DEF CreateCompactedBase, Continue
  <2> QED
    BY <2>1, <2>2, <2>3, Zenon
<1>2. PICK r, a : /\ r = [req[s] EXCEPT !.pc = pc, !.art = NewArtifact]
                  /\ a = DAGVersion(req[s].workflow, from, patches)
  BY Zenon
<1>3. r.pc = pc /\ r.workflow = req[s].workflow /\ r.ops = req[s].ops
  BY <1>0, <1>2, Zenon DEF IsRequest, RequestType
<1>4. a.kind = "dag_version" /\ a.workflow = req[s].workflow /\ a.ops = <<>>
  BY <1>2, Zenon DEF DAGVersion
<1>5. <<>> \in Seq(Operation)
  OBVIOUS
<1>6. r.workflow \in WorkflowType /\ r.ops \in Seq(Operation)
  BY <1>0, <1>3, Zenon DEF RequestReadOK
<1>7. a.kind # "patch_set" /\ r.pc \notin {"reresolve", "patch", "member", "chain"}
  BY <1>1, <1>3, <1>4
<1> QED
  BY <1>1, <1>2, <1>3, <1>4, <1>5, <1>6, <1>7, ReadsAndCreates, ZenonT(60)

\* The first version is a DAG, and nobody works on it.
LEMMA InitReads == Init => ReadInv
<1> SUFFICES ASSUME Init PROVE ReadInv
  OBVIOUS
<1>1. PICK w \in Workflow : artifact = <<DAGVersion(w, 0, 0)>>
  BY Zenon DEF Init
<1>2. PICK a : a = DAGVersion(w, 0, 0)
  BY Zenon
<1>3. Rows = {1} /\ artifact[1] = a
  BY <1>1, <1>2 DEF Rows
<1>4. a.kind # "patch_set" /\ a.workflow = w /\ a.ops = <<>>
  BY <1>2 DEF DAGVersion
<1>5. w \in WorkflowType /\ <<>> \in Seq(Operation)
  BY VersionsAssumption, NoRequestReads, Zenon DEF RequestReadOK, NoRequest
<1>6. RowReadOK(1)
  BY <1>3, <1>4, <1>5, Zenon DEF RowReadOK, IsPatchSet
<1>7. \A s \in Slot : req[s] = NoRequest
  BY Zenon DEF Init
<1> QED
  BY <1>3, <1>6, <1>7, NoRequestReads, Zenon DEF ReadInv

\* Every step keeps it.
LEMMA NextReads == IInv /\ ReadInv /\ [Next]_vars => ReadInv'
<1> SUFFICES ASSUME IInv, ReadInv, [Next]_vars PROVE ReadInv'
  OBVIOUS
<1>1. ASSUME NEW s \in Slot, NEW t \in Tag,
             \/ CreateRun(s, t)
             \/ \E w \in Workflow : CreateWorkflow(s, t, w)
             \/ \E ops \in Patch : PatchWorkflow(s, t, ops)
             \/ \E a \in DOMAIN artifact : CompactWorkflow(s, t, a)
      PROVE  ReadInv'
  BY <1>1, StartReads, Zenon
<1>2. ASSUME NEW s \in Slot,
             \/ CreateOrMoveTag(s) \/ MoveTag(s) \/ CreateTag(s) \/ GetByVersionHash(s)
             \/ InsertRun(s) \/ MigrateTagToCompactedBase(s) \/ Abort(s)
      PROVE  ReadInv'
  BY <1>2, TagReads, Zenon
<1>3. ASSUME NEW s \in Slot, CreateDAGVersion(s) \/ FreezeForRun(s) \/ CreateCompactedBase(s)
      PROVE  ReadInv'
  BY <1>3, CreateDAGReads, Zenon
<1>4. ASSUME NEW s \in Slot,
             \/ ResolveTag(s, "resolve", "validate")
             \/ ResolveTag(s, "reresolve", "patch")
             \/ ResolveTag(s, "resolve_run", "materialize")
      PROVE  ReadInv'
  <2>1. CASE ResolveTag(s, "resolve", "validate")
    BY <2>1, ResolveReads
  <2>2. CASE ResolveTag(s, "reresolve", "patch")
    BY <2>2, ResolveReads
  <2>3. CASE ResolveTag(s, "resolve_run", "materialize")
    BY <2>3, ResolveReads
  <2> QED
    BY <1>4, <2>1, <2>2, <2>3, Zenon
<1>5. ASSUME NEW s \in Slot, ValidatePatch(s) PROVE ReadInv'
  BY <1>5, ValidateReads, Zenon
<1>6. ASSUME NEW s \in Slot, CreatePatchArtifact(s) PROVE ReadInv'
  BY <1>6, CreatePatchReads, Zenon
<1>7. ASSUME NEW s \in Slot, GetPreviousChain(s) PROVE ReadInv'
  BY <1>7, PreviousChainReads, Zenon
<1>8. ASSUME NEW s \in Slot, InsertPatchChain(s) PROVE ReadInv'
  BY <1>8, InsertReads, Zenon
<1>9. ASSUME NEW s \in Slot, MaterializeForRun(s) \/ MaterializeChain(s) PROVE ReadInv'
  BY <1>9, MaterializeReads, Zenon
<1>10. ASSUME NEW t \in Tag, DeleteWorkflow(t) PROVE ReadInv'
  BY <1>10, StillReads, Zenon DEF DeleteWorkflow
<1>11. CASE UNCHANGED vars
  BY <1>11, StillReads, Zenon DEF vars
<1> QED
  BY <1>1, <1>2, <1>3, <1>4, <1>5, <1>6, <1>7, <1>8, <1>9, <1>10, <1>11, Zenon DEF Next

\* A whole head is made of what the version it was put on is made of, and its
\* own operations.
LEMMA HeadComponents ==
    ASSUME IInv, ReadInv, NEW a, NEW b, Whole(a), IsPatchSet(a), PutOn(a, b)
    PROVE  GetWorkflowComponents(a) =
              [base    |-> GetWorkflowComponents(b).base,
               patches |-> Append(GetWorkflowComponents(b).patches, artifact[a].ops)]
<1>0. /\ ReferencesOK /\ TablesOK /\ a \in Rows /\ b \in Rows /\ Whole(b) /\ Extends(a, b)
      /\ Len(chain[a]) = artifact[a].depth
  BY Zenon DEF IInv, PutOn, Whole
<1>1. /\ artifact[a].depth \in Nat /\ chain[b] \in Seq(Nat) /\ a \in Nat
  BY <1>0, RowFacts
<1>2. \A i \in 1..(artifact[a].depth - 1) : i \in 1..artifact[a].depth /\ i < artifact[a].depth
  BY <1>1
<1>3. chain[a] = Append(chain[b], a)
  <2>1. \A i \in 1..(artifact[a].depth - 1) : chain[a][i] = chain[b][i]
    BY <1>0, <1>2, Zenon DEF PutOn
  <2> QED
    BY <1>0, <2>1, HeadIsOneMore, Zenon
<1>4. /\ ~IsDAGVersion(a)
      /\ IsDAGVersion(b) => chain[b] = <<>> /\ artifact[a].base = b
      /\ ~IsDAGVersion(b) => artifact[a].base = artifact[b].base
  <2>1. ~IsDAGVersion(a)
    BY DEF IsDAGVersion, IsPatchSet
  <2> QED
    BY <1>0, <2>1, Zenon DEF TablesOK, ChainOK, Extends
<1>5. PICK q, p : /\ q = [i \in DOMAIN chain[a] |-> artifact[chain[a][i]].ops]
                  /\ p = [i \in DOMAIN chain[b] |-> artifact[chain[b][i]].ops]
  BY Zenon
<1>6. q = Append(p, artifact[a].ops)
  <2>1. PICK c, n, f : /\ c = chain[b] /\ n = Len(c)
                       /\ f = [m \in Nat |-> artifact[m].ops]
    BY Zenon
  <2>2. /\ n \in Nat /\ DOMAIN c = 1..n /\ \A i \in 1..n : c[i] \in Nat
    BY <1>1, <2>1
  <2>3. /\ DOMAIN chain[a] = 1..(n + 1) /\ chain[a][n + 1] = a
        /\ \A i \in 1..n : chain[a][i] = c[i]
    BY <1>1, <1>3, <2>1
  <2>4. p = [i \in 1..n |-> f[c[i]]] /\ f[a] = artifact[a].ops
    BY <1>1, <1>5, <2>1, <2>2, Zenon
  <2>5. q = [i \in 1..(n + 1) |-> f[chain[a][i]]]
    <3>1. \A i \in 1..(n + 1) : chain[a][i] \in Nat
      BY <1>1, <2>2, <2>3
    <3> QED
      BY <1>5, <2>1, <2>3, <3>1, Zenon
  <2>6. PICK g : g = chain[a]
    BY Zenon
  <2>7. q = [i \in 1..(n + 1) |-> IF i = n + 1 THEN f[a] ELSE f[c[i]]]
    <3>1. \A i \in 1..(n + 1) : i = n + 1 \/ i \in 1..n
      BY <2>2
    <3>2. \A i \in 1..(n + 1) : f[chain[a][i]] = IF i = n + 1 THEN f[a] ELSE f[c[i]]
      BY <2>3, <3>1, Zenon
    <3> QED
      BY <2>5, <3>2, Zenon
  <2>8. PICK e : e = artifact[a].ops
    BY Zenon
  <2>9. q = Append(p, e)
    <3>1. PICK h : h = [i \in 1..n |-> f[c[i]]]
      BY Zenon
    <3>2. /\ p = h /\ e = f[a] /\ \A i \in 1..n : h[i] = f[c[i]]
      BY <2>4, <2>8, <3>1, Zenon
    <3>3. PICK T : T = {h[i] : i \in 1..n} \cup {e}
      BY Zenon
    <3>4. h \in Seq(T) /\ Len(h) = n /\ e \in T
      BY <2>2, <3>1, <3>3
    <3>5. PICK k : k = Append(h, e)
      BY Zenon
    <3>6. /\ k \in Seq(T) /\ Len(k) = n + 1 /\ k[n + 1] = e /\ \A i \in 1..n : k[i] = h[i]
      BY <3>4, <3>5, AppendFacts
    <3>7. k = [i \in 1..(n + 1) |-> k[i]]
      BY <2>2, <3>6
    <3>8. k = [i \in 1..(n + 1) |-> IF i = n + 1 THEN e ELSE h[i]]
      <4>1. \A i \in 1..(n + 1) : i = n + 1 \/ i \in 1..n
        BY <2>2
      <4> QED
        BY <3>6, <3>7, <4>1, Zenon
    <3>9. q = [i \in 1..(n + 1) |-> IF i = n + 1 THEN e ELSE h[i]]
      <4>1. \A i \in 1..(n + 1) : i = n + 1 \/ i \in 1..n
        BY <2>2
      <4> QED
        BY <2>7, <3>2, <4>1, Zenon
    <3> QED
      BY <3>2, <3>5, <3>8, <3>9, Zenon
  <2> QED
    BY <2>8, <2>9, Zenon
<1>7. GetWorkflowComponents(a) = [base |-> artifact[artifact[a].base].workflow, patches |-> q]
  BY <1>4, <1>5, Zenon DEF GetWorkflowComponents, loadPatchSetComponents, GetPatchChain
<1>8. GetWorkflowComponents(b) = [base |-> artifact[artifact[a].base].workflow, patches |-> p]
  <2>1. CASE IsDAGVersion(b)
    <3>1. chain[b] = <<>>
      BY <1>4, <2>1
    <3>2. p = <<>>
      BY <1>5, <3>1
    <3> QED
      BY <1>4, <2>1, <3>2, Zenon DEF GetWorkflowComponents
  <2>2. CASE ~IsDAGVersion(b)
    BY <1>4, <1>5, <2>2, Zenon DEF GetWorkflowComponents, loadPatchSetComponents, GetPatchChain
  <2> QED
    BY <2>1, <2>2, Zenon
<1>9. PICK w, c : w = artifact[artifact[a].base].workflow /\ c = [base |-> w, patches |-> p]
  BY Zenon
<1>10. c.base = w /\ c.patches = p
  BY <1>9, Zenon
<1> QED
  BY <1>6, <1>7, <1>8, <1>9, <1>10, Zenon

\* A whole head whose operations were validated against the version it was put
\* on can be read, if its DAG has both arrays and its paths are JSON pointers.
LEMMA HeadReads ==
    ASSUME IInv, ReadInv, NEW a, Whole(a), IsPatchSet(a), artifact[a].on = artifact[a].checked,
           Rooted(artifact[a].ops), BothArrays(artifact[artifact[a].base].workflow)
    PROVE  GetWorkflow(a).workflow.ok
<1>0. /\ a \in Rows /\ RowReadOK(a)
  BY Zenon DEF Whole, ReadInv
<1>1. PICK b, ops : /\ b = artifact[a].on /\ ops = artifact[a].ops
                    /\ ops \in Seq(Operation) /\ PutOn(a, b) /\ Validated(b, ops)
  BY <1>0, Zenon DEF RowReadOK
<1>2. PICK c, d : c = GetWorkflowComponents(b) /\ d = GetWorkflowComponents(a)
  BY Zenon
<1>3. b \in Rows /\ c \in Components /\ d = [base |-> c.base, patches |-> Append(c.patches, ops)]
  <2>1. b \in Rows
    BY <1>1, Zenon DEF PutOn, Whole
  <2> QED
    BY <1>1, <1>2, <2>1, ComponentsType, HeadComponents, Zenon
<1>4. BothArrays(c.base)
  <2>1. ~IsDAGVersion(a)
    BY DEF IsDAGVersion, IsPatchSet
  <2>2. d.base = artifact[artifact[a].base].workflow
    BY <1>2, <2>1, Zenon DEF GetWorkflowComponents, loadPatchSetComponents
  <2> QED
    BY <1>3, <2>2, Zenon
<1>5. PICK w : MaterializesTo(b, w) /\ ApplyJSONPatchToWorkflow(w, ops).ok
  BY <1>1, Zenon DEF Validated, MaterializesTo
<1>6. Materialize(c).ok /\ Materialize(c).workflow = w
  BY <1>2, <1>5, Zenon DEF MaterializesTo, GetWorkflow, WorkflowResponse
<1>7. /\ Materialize(c) \in ResultType /\ w \in WorkflowType /\ BothArrays(w)
  BY <1>3, <1>4, <1>6, MaterializeType, Zenon DEF ResultType
<1>8. Materialize(c) = Result(w)
  BY <1>6, <1>7 DEF ResultType, Result
<1>9. applyPatch(Result(w), ops).ok
  BY <1>1, <1>5, <1>7, ValidatedApplies, Zenon
<1>10. Materialize(d) = applyPatch(Materialize(c), ops)
  BY <1>1, <1>3, MaterializeAppend, Zenon
<1> QED
  BY <1>2, <1>8, <1>9, <1>10, Zenon DEF GetWorkflow, WorkflowResponse

\* A patched version can be read if its last patch was validated against the
\* version it was put on, the paths of that patch are JSON pointers and the DAG has
\* both arrays.
THEOREM ReadableHolds == Spec => []ReadableIfValidated
<1>1. Spec => []ReadInv
  BY InitReads, NextReads, Invariant, PTL DEF Spec
<1>2. IInv /\ ReadInv => ReadableIfValidated
  <2> SUFFICES ASSUME IInv, ReadInv, NEW a \in DOMAIN artifact, IsPatchSet(a), Complete(a),
                      artifact[a].on = artifact[a].checked, Rooted(artifact[a].ops),
                      artifact[artifact[a].base].workflow.nodes.has,
                      artifact[artifact[a].base].workflow.edges.has
               PROVE  GetWorkflow(a).workflow.ok
    BY Zenon DEF ReadableIfValidated
  <2>1. ReferencesOK /\ TablesOK /\ a \in Rows /\ ~IsDAGVersion(a)
    BY DEF IInv, Rows, IsDAGVersion, IsPatchSet
  <2>2. Whole(a)
    BY <2>1, CompleteIsWhole, Zenon DEF Complete
  <2> QED
    BY <2>2, HeadReads, Zenon DEF BothArrays
<1> QED
  BY <1>1, <1>2, Invariant, PTL

=============================================================================
