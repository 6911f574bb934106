-------------------------- MODULE RunPatchesProofs --------------------------
(***************************************************************************)
(* Proofs about the patches of a run, for any number of POSTs and reloads, *)
(* any contents and any number of faults: the numbers are 1..n, an answer  *)
(* stands, a reload covers the answered patches, and the tables implement  *)
(* the append-only log of module PatchLog.                                 *)
(***************************************************************************)
EXTENDS RunPatches, FiniteSetTheorems, TLAPS

\* What holds between the statements of request p: the number it read is at
\* most one past the last row's, and the rows it has written so far are there.
PostOK(p) ==
    /\ post[p].pc \in {"seq", "store", "artifact", "insert", "stored"} => post[p].ops \in Content
    /\ post[p].pc \in {"store", "artifact", "insert", "stored"} =>
          post[p].seq \in 1..(Cardinality(rows) + 1)
    /\ post[p].pc \in {"artifact", "insert", "stored"} => post[p].ops \in cas
    /\ post[p].pc \in {"insert", "stored"} =>
          post[p].art \in DOMAIN artifact /\ artifact[post[p].art] = NewArtifact(p)
    /\ post[p].pc = "stored" => NewRow(p) \in rows
    /\ post[p].reply = "ok" => post[p].pc = "stored"

UniqueSeqs == \A r, s \in rows : r.seq = s.seq => r = s

\* The first patches of the run.
IsFirst(view) ==
    /\ Len(view) <= Cardinality(rows)
    /\ \A i \in DOMAIN view : view[i] = GetRunPatchesWithOperations[i]

ReloadOK(r) ==
    /\ IsFirst(reload[r].view)
    /\ \A p \in reload[r].acked : post[p].reply = "ok" /\ post[p].seq \in DOMAIN reload[r].view
    /\ reload[r].pc = "compiled" => MaterializeWorkflowForRun(reload[r].view)

IInv ==
    /\ TypeOK
    /\ SeqsContiguous
    /\ UniqueSeqs
    /\ RowsReadable
    /\ \A p \in Poster : PostOK(p)
    /\ \A r \in Reader : ReloadOK(r)
    /\ IRIsPrefix

\* Every row was inserted by a request that knows it (no fault loses a row's
\* owner), and without faults a refused request met another's row.
OwnersInv ==
    /\ \A r \in rows : \E q \in Poster : post[q].pc = "stored" /\ NewRow(q) = r
    /\ faults = 0 => \A p \in Poster :
          /\ ~post[p].failed
          /\ post[p].reply = "error" => post[p].pc = "refused"
          /\ (post[p].pc = "refused" /\ post[p].ops # <<>>) =>
                \E q \in Poster : post[q].pc = "stored" /\ post[q].seq = post[p].seq

-----------------------------------------------------------------------------
(* The tables. *)

\* COALESCE(MAX(seq), 0) over the numbers 1..n is n.
LEMMA MaxSeq ==
    ASSUME NEW n \in Nat
    PROVE  Max((1..n) \cup {0}) = n
<1> DEFINE S == (1..n) \cup {0}
<1>1. n \in S /\ \A y \in S : n >= y
  OBVIOUS
<1>2. \A x \in S : (\A y \in S : x >= y) => x = n
  OBVIOUS
<1> QED BY <1>1, <1>2 DEF Max

\* A record put at the end of a table keeps it a table.
LEMMA AppendType ==
    ASSUME NEW S, NEW s \in Seq(S), NEW x \in S
    PROVE  /\ Append(s, x) \in Seq(S)
           /\ Len(Append(s, x)) = Len(s) + 1
           /\ \A i \in DOMAIN s : i \in DOMAIN Append(s, x) /\ Append(s, x)[i] = s[i]
           /\ Len(s) + 1 \in DOMAIN Append(s, x)
           /\ Append(s, x)[Len(s) + 1] = x
OBVIOUS

TablesOK == TypeOK /\ SeqsContiguous /\ UniqueSeqs /\ RowsReadable

ListOK ==
    /\ Cardinality(rows) \in Nat
    /\ GetRunPatchesWithOperations \in Seq(Content)
    /\ Len(GetRunPatchesWithOperations) = Cardinality(rows)
    /\ DOMAIN GetRunPatchesWithOperations = 1..Cardinality(rows)
    /\ \A r \in rows : GetRunPatchesWithOperations[r.seq] = artifact[r.art].cas

\* The list of the patches is a sequence with one entry per row, at the row's
\* number (GetByRunIDWithDetails).
LEMMA ListIsLog == TablesOK => ListOK
<1> SUFFICES ASSUME TablesOK PROVE ListOK
  OBVIOUS
<1> DEFINE n == Cardinality(rows)
           At(i) == artifact[(CHOOSE r \in rows : r.seq = i).art].cas
<1>1. n \in Nat
  BY FS_CardinalityType DEF TablesOK, TypeOK
<1>2. Seqs = 1..n
  BY DEF TablesOK, SeqsContiguous
<1>3. \A i \in Seqs : \E r \in rows : r.seq = i
  BY DEF Seqs
<1>4. \A i \in Seqs : At(i) \in Content
  <2> TAKE i \in Seqs
  <2> DEFINE c == CHOOSE r \in rows : r.seq = i
  <2>1. c \in rows
    BY <1>3
  <2>2. c.art \in DOMAIN artifact
    BY <2>1 DEF TablesOK, RowsReadable
  <2> HIDE DEF c
  <2>3. artifact[c.art] \in Artifact
    BY <2>2 DEF TablesOK, TypeOK
  <2> QED BY <2>3 DEF Artifact, c
<1>5. \A r \in rows : r.seq \in Seqs /\ At(r.seq) = artifact[r.art].cas
  <2> TAKE r \in rows
  <2>1. r.seq \in Seqs
    BY DEF Seqs
  <2> DEFINE c == CHOOSE x \in rows : x.seq = r.seq
  <2>2. c \in rows /\ c.seq = r.seq
    OBVIOUS
  <2>3. c = r
    BY <2>2 DEF TablesOK, UniqueSeqs
  <2> QED BY <2>1, <2>3, Zenon
<1>6. GetRunPatchesWithOperations = [i \in Seqs |-> At(i)]
  BY DEF GetRunPatchesWithOperations
<1> HIDE DEF At, n
<1>7. [i \in 1..n |-> At(i)] \in Seq(Content) /\ Len([i \in 1..n |-> At(i)]) = n
  BY <1>1, <1>2, <1>4
<1> QED BY <1>1, <1>2, <1>5, <1>6, <1>7 DEF n, ListOK

\* A step that inserts no row leaves the list as it is.
LEMMA SameList ==
    ASSUME TablesOK, rows' = rows,
           \A i \in DOMAIN artifact : artifact'[i] = artifact[i]
    PROVE  GetRunPatchesWithOperations' = GetRunPatchesWithOperations
<1>1. Seqs' = Seqs
  BY DEF Seqs
<1>2. ASSUME NEW i \in Seqs
      PROVE  artifact'[(CHOOSE r \in rows : r.seq = i).art]
               = artifact[(CHOOSE r \in rows : r.seq = i).art]
  <2>1. PICK r \in rows : r.seq = i
    BY DEF Seqs
  <2>2. (CHOOSE x \in rows : x.seq = i) \in rows
    BY <2>1
  <2> QED BY <2>2 DEF TablesOK, RowsReadable
<1> QED BY <1>1, <1>2 DEF GetRunPatchesWithOperations

\* A row with the next number goes to the end of the list.
LEMMA InsertAppends ==
    ASSUME TablesOK, NEW row \in Row, row.seq \notin Seqs, row.seq \in 1..(Cardinality(rows) + 1),
           rows' = rows \cup {row}, artifact' = artifact, cas' = cas,
           row.art \in DOMAIN artifact, artifact[row.art].cas \in cas,
           artifact[row.art].depth = row.seq, TypeOK'
    PROVE  /\ row.seq = Cardinality(rows) + 1
           /\ Cardinality(rows') = Cardinality(rows) + 1
           /\ TablesOK'
           /\ GetRunPatchesWithOperations'
                = Append(GetRunPatchesWithOperations, artifact[row.art].cas)
<1> DEFINE n == Cardinality(rows)
<1>1. n \in Nat /\ Seqs = 1..n
  BY ListIsLog DEF TablesOK, SeqsContiguous, ListOK
<1>2. row.seq = n + 1
  BY <1>1
<1>3. row \notin rows
  BY DEF Seqs
<1>4. Cardinality(rows') = n + 1
  BY <1>3, FS_AddElement DEF TablesOK, TypeOK
<1>5. Seqs' = 1..(n + 1)
  <2>1. Seqs' = Seqs \cup {row.seq}
    BY DEF Seqs
  <2> QED BY <1>1, <1>2, <2>1
<1>6. UniqueSeqs'
  BY DEF TablesOK, UniqueSeqs, Seqs
<1>7. RowsReadable'
  BY DEF TablesOK, RowsReadable
<1>8. TablesOK'
  BY <1>4, <1>5, <1>6, <1>7 DEF TablesOK, SeqsContiguous
<1> DEFINE old == GetRunPatchesWithOperations
           new == GetRunPatchesWithOperations'
<1>9. /\ old \in Seq(Content) /\ Len(old) = n
      /\ \A r \in rows : old[r.seq] = artifact[r.art].cas
  BY ListIsLog DEF ListOK
<1>10. /\ new \in Seq(Content) /\ Len(new) = n + 1
       /\ \A r \in rows \cup {row} : new[r.seq] = artifact[r.art].cas
  <2>1. (TablesOK => ListOK)'
    BY ListIsLog, PTL
  <2> QED BY <1>4, <1>8, <2>1, Zenon DEF ListOK
<1>11. ASSUME NEW i \in 1..n PROVE new[i] = old[i]
  <2>1. PICK r \in rows : r.seq = i
    BY <1>1 DEF Seqs
  <2> QED BY <2>1, <1>9, <1>10
<1>12. new[n + 1] = artifact[row.art].cas
  BY <1>2, <1>10
<1>13. artifact[row.art].cas \in Content
  <2>1. artifact[row.art] \in Artifact
    BY DEF TablesOK, TypeOK
  <2> QED BY <2>1 DEF Artifact
<1> HIDE DEF old, new, n
<1>14. new = Append(old, artifact[row.art].cas)
  BY <1>1, <1>9, <1>10, <1>11, <1>12, <1>13
<1> QED BY <1>2, <1>4, <1>8, <1>14 DEF old, new, n

-----------------------------------------------------------------------------
(* Typing. *)

\* A statement of request p keeps the types (CreateRunPatch).
LEMMA PostTypes ==
    ASSUME IInv, NEW p \in Poster,
           \/ \E ops \in Content : apply_run_patch(p, ops)
           \/ GetNextSeq(p) \/ StoreContent(p) \/ CreateArtifact(p) \/ InsertRow(p)
           \/ Reply(p) \/ StatementFails(p) \/ ClientTimeout(p)
    PROVE  TypeOK'
<1> USE DEF TypeOK
<1>1. TypeOK /\ PostOK(p) /\ post[p] \in Post /\ Cardinality(rows) \in Nat
  BY FS_CardinalityType DEF IInv
<1>2. ASSUME NEW ops \in Content, apply_run_patch(p, ops) PROVE TypeOK'
  BY <1>1, <1>2, Zenon DEF apply_run_patch, Post, PostPc
<1>3. CASE GetNextSeq(p)
  <2>1. Max(Seqs \cup {0}) + 1 \in Nat
    BY <1>1, MaxSeq DEF IInv, SeqsContiguous
  <2> QED BY <1>1, <1>3, <2>1, Zenon DEF GetNextSeq, Post, PostPc
<1>4. CASE StoreContent(p)
  <2>1. post[p].ops \in Content
    BY <1>1, <1>4 DEF StoreContent, PostOK
  <2> QED BY <1>1, <1>4, <2>1, Zenon DEF StoreContent, Post, PostPc
<1>5. ASSUME post[p].pc = "artifact"
      PROVE  /\ Append(artifact, NewArtifact(p)) \in Seq(Artifact)
             /\ Len(artifact) + 1 \in Nat
  <2>1. NewArtifact(p) \in Artifact
    BY <1>1, <1>5 DEF NewArtifact, Artifact, PostOK
  <2>2. artifact \in Seq(Artifact)
    BY <1>1
  <2> QED BY <2>1, <2>2, AppendType
<1>6. CASE CreateArtifact(p)
  <2>1. post' \in [Poster -> Post]
    BY <1>1, <1>5, <1>6, Zenon DEF CreateArtifact, Post, PostPc
  <2> QED BY <1>1, <1>5, <1>6, <2>1 DEF CreateArtifact
<1>7. ASSUME post[p].pc = "insert"
      PROVE  /\ rows \cup {NewRow(p)} \subseteq Row
             /\ IsFiniteSet(rows \cup {NewRow(p)})
  <2>1. NewRow(p) \in Row
    BY <1>1, <1>7 DEF NewRow, Row, PostOK
  <2> QED BY <1>1, <2>1, FS_AddElement, Zenon
<1>8. CASE InsertRow(p)
  <2>1. post' \in [Poster -> Post]
    <3>1. \/ post' = [post EXCEPT ![p].pc = "stored"]
          \/ post' = [post EXCEPT ![p].pc = "refused"]
      BY <1>8 DEF InsertRow
    <3>2. [post EXCEPT ![p].pc = "stored"] \in [Poster -> Post]
      BY <1>1, Zenon DEF Post, PostPc
    <3>3. [post EXCEPT ![p].pc = "refused"] \in [Poster -> Post]
      BY <1>1, Zenon DEF Post, PostPc
    <3> QED BY <3>1, <3>2, <3>3
  <2> QED BY <1>1, <1>7, <1>8, <2>1, Zenon DEF InsertRow
<1>9. CASE Reply(p)
  BY <1>1, <1>9, Zenon DEF Reply, Post, PostPc
<1>10. CASE StatementFails(p)
  <2>1. post' \in [Poster -> Post]
    <3>1. \/ post' = [post EXCEPT ![p].pc = "refused"]
          \/ post' = [post EXCEPT ![p].pc = "stored", ![p].failed = TRUE]
      BY <1>10, Zenon DEF StatementFails
    <3>2. [post EXCEPT ![p].pc = "refused"] \in [Poster -> Post]
      BY <1>1, Zenon DEF Post, PostPc
    <3>3. [post EXCEPT ![p].pc = "stored", ![p].failed = TRUE] \in [Poster -> Post]
      BY <1>1, Zenon DEF Post, PostPc
    <3> QED BY <3>1, <3>2, <3>3, Zenon
  <2>2. faults' \in 0..MaxFaults
    BY <1>1, <1>10, PatchFaultsAssumption DEF StatementFails, Fault, NoFault
  <2>3. /\ cas' \subseteq Content /\ artifact' \in Seq(Artifact)
        /\ rows' \subseteq Row /\ IsFiniteSet(rows')
    BY <1>1, <1>5, <1>7, <1>10, Zenon DEF StatementFails, PostOK
  <2> QED BY <1>1, <1>10, <2>1, <2>2, <2>3 DEF StatementFails
<1>11. CASE ClientTimeout(p)
  <2>1. post' \in [Poster -> Post]
    <3>1. post' = [post EXCEPT ![p].reply = "error"]
      BY <1>11 DEF ClientTimeout
    <3> QED BY <1>1, <3>1, Zenon DEF Post, PostPc
  <2>2. faults' \in 0..MaxFaults
    BY <1>1, <1>11, PatchFaultsAssumption DEF ClientTimeout, Fault
  <2> QED BY <1>1, <1>11, <2>1, <2>2 DEF ClientTimeout
<1> QED BY <1>2, <1>3, <1>4, <1>6, <1>8, <1>9, <1>10, <1>11

\* A step of a reload keeps the types (reloadIRIfPatched).
LEMMA ReloadTypes ==
    ASSUME IInv, NEW r \in Reader,
           ListPatches(r) \/ Materialize(r) \/ StoreIR(r) \/ ReloadFails(r)
    PROVE  TypeOK'
<1> USE DEF TypeOK
<1>1. TypeOK /\ reload[r] \in Reload /\ GetRunPatchesWithOperations \in Seq(Content)
  BY ListIsLog DEF IInv, TablesOK, ListOK
<1>2. NoReload \in Reload
  BY DEF NoReload, Reload
<1>3. CASE ListPatches(r)
  <2> DEFINE new == [pc |-> "listed", view |-> GetRunPatchesWithOperations,
                     acked |-> {p \in Poster : post[p].reply = "ok"}]
  <2>1. new \in Reload
    BY <1>1 DEF Reload
  <2>2. reload' = [reload EXCEPT ![r] = new]
    BY <1>3 DEF ListPatches
  <2> HIDE DEF new
  <2> QED BY <1>1, <1>3, <2>1, <2>2, Zenon DEF ListPatches
<1>4. CASE Materialize(r)
  <2>1. reload' \in [Reader -> Reload]
    <3> DEFINE view == GetRunPatchesWithOperations
    <3>1. \/ reload' = [reload EXCEPT ![r].view = view, ![r].pc = "compiled"]
          \/ reload' = [reload EXCEPT ![r] = NoReload]
      BY <1>4 DEF Materialize
    <3> HIDE DEF view
    <3>2. [reload EXCEPT ![r].view = view, ![r].pc = "compiled"] \in [Reader -> Reload]
      BY <1>1, Zenon DEF Reload, view
    <3> QED BY <1>1, <1>2, <3>1, <3>2, Zenon
  <2> QED BY <1>1, <1>4, <2>1 DEF Materialize
<1>5. CASE StoreIR(r)
  <2>1. reload[r].view \in Seq(Content)
    BY <1>1 DEF Reload
  <2> QED BY <1>1, <1>2, <1>5, <2>1 DEF StoreIR
<1>6. CASE ReloadFails(r)
  <2>1. faults' \in 0..MaxFaults
    BY <1>1, <1>6, PatchFaultsAssumption DEF ReloadFails, Fault
  <2> QED BY <1>1, <1>2, <1>6, <2>1 DEF ReloadFails
<1> QED BY <1>3, <1>4, <1>5, <1>6

\* Every step keeps the types.
LEMMA NextTypes ==
    ASSUME IInv, [Next]_vars
    PROVE  TypeOK'
<1>1. CASE UNCHANGED vars
  BY <1>1 DEF IInv, TypeOK, vars
<1>2. CASE Next
  BY <1>2, PostTypes, ReloadTypes DEF Next
<1> QED BY <1>1, <1>2

-----------------------------------------------------------------------------
(* The tables only grow, and the list with them. *)

\* Request p's insert, when its number is free.
LEMMA Insertion ==
    ASSUME IInv, TypeOK', NEW p \in Poster, post[p].pc = "insert", post[p].seq \notin Seqs,
           rows' = rows \cup {NewRow(p)}, artifact' = artifact, cas' = cas
    PROVE  /\ TablesOK'
           /\ post[p].seq = Cardinality(rows) + 1
           /\ Cardinality(rows') = Cardinality(rows) + 1
           /\ GetRunPatchesWithOperations' = Append(GetRunPatchesWithOperations, post[p].ops)
<1> DEFINE row == NewRow(p)
<1>1. PostOK(p) /\ post[p] \in Post
  BY DEF IInv, TypeOK
<1>2. /\ row.seq = post[p].seq /\ row.art = post[p].art
      /\ row.art \in DOMAIN artifact
      /\ artifact[row.art].cas = post[p].ops /\ artifact[row.art].depth = row.seq
  BY <1>1 DEF PostOK, NewRow, NewArtifact
<1>3. row \in Row
  BY DEF TypeOK
<1>4. row.seq \in 1..(Cardinality(rows) + 1) /\ post[p].ops \in cas
  BY <1>1, <1>2, Zenon DEF PostOK
<1>5. TablesOK
  BY DEF IInv, TablesOK
<1> HIDE DEF row
<1> QED BY <1>2, <1>3, <1>4, <1>5, InsertAppends, Zenon DEF row

\* Any other statement of a request, or a step of a reload.
LEMMA NoInsertion ==
    ASSUME IInv, TypeOK', rows' = rows, cas \subseteq cas',
           \A i \in DOMAIN artifact : i \in DOMAIN artifact' /\ artifact'[i] = artifact[i]
    PROVE  /\ TablesOK'
           /\ Cardinality(rows') = Cardinality(rows)
           /\ GetRunPatchesWithOperations' = GetRunPatchesWithOperations
<1>1. TablesOK
  BY DEF IInv, TablesOK
<1>2. Seqs' = Seqs
  BY DEF Seqs
<1>3. SeqsContiguous' /\ UniqueSeqs' /\ RowsReadable'
  BY <1>1, <1>2 DEF TablesOK, SeqsContiguous, UniqueSeqs, RowsReadable
<1> QED BY <1>1, <1>3, SameList DEF TablesOK

\* The statements that write nothing but the request, the blobs and the
\* artifacts; and the ones that insert the row of request p.
Inserts(p) ==
    /\ post[p].pc = "insert" /\ post[p].seq \notin Seqs
    /\ rows' = rows \cup {NewRow(p)} /\ artifact' = artifact /\ cas' = cas
    /\ post'[p].pc = "stored" /\ post'[p].reply = post[p].reply
    /\ post'[p].seq = post[p].seq /\ post'[p].art = post[p].art

InsertsNothing ==
    /\ rows' = rows
    /\ cas \subseteq cas'
    /\ \A i \in DOMAIN artifact : i \in DOMAIN artifact' /\ artifact'[i] = artifact[i]

\* A step inserts the row of one request or leaves run_patches alone.
LEMMA StepKinds ==
    ASSUME IInv, [Next]_vars
    PROVE  InsertsNothing \/ \E p \in Poster : Inserts(p)
<1>1. /\ artifact \in Seq(Artifact) /\ post \in [Poster -> Post]
      /\ \A p \in Poster : PostOK(p)
      /\ Cardinality(rows) \in Nat
  BY FS_CardinalityType DEF IInv, TypeOK
<1>2. ASSUME NEW p \in Poster, post[p].pc = "artifact"
      PROVE  LET new == Append(artifact, NewArtifact(p))
             IN  \A i \in DOMAIN artifact : i \in DOMAIN new /\ new[i] = artifact[i]
  <2>1. post[p].ops \in Content /\ post[p].seq \in Nat \ {0}
    BY <1>1, <1>2 DEF PostOK
  <2>2. NewArtifact(p) \in Artifact
    BY <2>1 DEF NewArtifact, Artifact
  <2> QED BY <1>1, <2>2, AppendType
<1>3. CASE UNCHANGED vars
  BY <1>3 DEF vars, InsertsNothing
<1>4. ASSUME NEW p \in Poster, NEW ops \in Content, apply_run_patch(p, ops) PROVE InsertsNothing
  BY <1>4 DEF apply_run_patch, InsertsNothing
<1>5. ASSUME NEW p \in Poster, GetNextSeq(p) \/ StoreContent(p) \/ Reply(p) \/ ClientTimeout(p)
      PROVE  InsertsNothing
  BY <1>5 DEF GetNextSeq, StoreContent, Reply, ClientTimeout, InsertsNothing
<1>6. ASSUME NEW p \in Poster, CreateArtifact(p) PROVE InsertsNothing
  BY <1>2, <1>6 DEF CreateArtifact, InsertsNothing
<1>7. ASSUME NEW p \in Poster, InsertRow(p) PROVE InsertsNothing \/ Inserts(p)
  <2>1. CASE post[p].seq \in Seqs
    BY <1>7, <2>1 DEF InsertRow, InsertsNothing
  <2>2. CASE post[p].seq \notin Seqs
    <3>1. post' = [post EXCEPT ![p].pc = "stored"]
      BY <1>7, <2>2 DEF InsertRow
    <3>2. /\ post'[p].pc = "stored" /\ post'[p].reply = post[p].reply
          /\ post'[p].seq = post[p].seq /\ post'[p].art = post[p].art
      BY <1>1, <3>1 DEF Post
    <3> QED BY <1>7, <2>2, <3>2 DEF InsertRow, Inserts
  <2> QED BY <2>1, <2>2
<1>8. ASSUME NEW p \in Poster, StatementFails(p) PROVE InsertsNothing \/ Inserts(p)
  <2>1. CASE rows' = rows
    BY <1>2, <1>8, <2>1 DEF StatementFails, InsertsNothing
  <2>2. CASE rows' # rows
    <3>1. post' = [post EXCEPT ![p].pc = "stored", ![p].failed = TRUE]
      BY <1>8, <2>2 DEF StatementFails
    <3>2. /\ post'[p].pc = "stored" /\ post'[p].reply = post[p].reply
          /\ post'[p].seq = post[p].seq /\ post'[p].art = post[p].art
      BY <1>1, <3>1 DEF Post
    <3> QED BY <1>8, <2>2, <3>2 DEF StatementFails, Inserts
  <2> QED BY <2>1, <2>2
<1>9. ASSUME NEW r \in Reader, ListPatches(r) \/ Materialize(r) \/ StoreIR(r) \/ ReloadFails(r)
      PROVE  InsertsNothing
  BY <1>9 DEF ListPatches, Materialize, StoreIR, ReloadFails, InsertsNothing
<1> QED BY <1>3, <1>4, <1>5, <1>6, <1>7, <1>8, <1>9 DEF Next

\* What a step does to the tables and to the list, for the lemmas below.
TablesGrow ==
    /\ TablesOK'
    /\ cas \subseteq cas' /\ rows \subseteq rows'
    /\ Cardinality(rows) \in Nat /\ Cardinality(rows') \in Nat
    /\ Cardinality(rows) <= Cardinality(rows')
    /\ \A i \in DOMAIN artifact : i \in DOMAIN artifact' /\ artifact'[i] = artifact[i]
    /\ \A i \in 1..Cardinality(rows) :
          GetRunPatchesWithOperations'[i] = GetRunPatchesWithOperations[i]

\* Rows, blobs and artifacts are never changed or removed, and the list keeps
\* what it has.
LEMMA StepGrows ==
    ASSUME IInv, [Next]_vars
    PROVE  TablesGrow
<1>1. TypeOK'
  BY NextTypes
<1>2. ListOK
  BY ListIsLog DEF IInv, TablesOK
<1>3. CASE InsertsNothing
  BY <1>1, <1>2, <1>3, NoInsertion DEF InsertsNothing, TablesGrow, ListOK
<1>4. ASSUME NEW p \in Poster, Inserts(p) PROVE TablesGrow
  <2>1. /\ TablesOK'
        /\ Cardinality(rows') = Cardinality(rows) + 1
        /\ GetRunPatchesWithOperations' = Append(GetRunPatchesWithOperations, post[p].ops)
    BY <1>1, <1>4, Insertion, Zenon DEF Inserts
  <2>2. post[p].ops \in Content
    BY <1>4 DEF Inserts, IInv, PostOK
  <2> DEFINE old == GetRunPatchesWithOperations
  <2>3. old \in Seq(Content) /\ DOMAIN old = 1..Cardinality(rows)
    BY <1>2 DEF ListOK
  <2> HIDE DEF old
  <2>4. \A i \in 1..Cardinality(rows) : Append(old, post[p].ops)[i] = old[i]
    <3> TAKE i \in 1..Cardinality(rows)
    <3>1. i \in DOMAIN old
      BY <2>3
    <3> DEFINE c == post[p].ops
    <3>2. c \in Content
      BY <2>2
    <3> HIDE DEF c
    <3>3. Append(old, c)[i] = old[i]
      <4>1. old \in Seq(Content)
        BY <2>3
      <4> QED BY <3>1, <3>2, <4>1, AppendType
    <3> QED BY <3>3 DEF c
  <2> QED BY <1>2, <1>4, <2>1, <2>4 DEF Inserts, TablesGrow, ListOK, old
<1> QED BY <1>3, <1>4, StepKinds

-----------------------------------------------------------------------------
(* The requests. *)

\* A request that a step does not touch keeps its facts while the tables grow.
LEMMA OtherPosts ==
    ASSUME IInv, TablesGrow, NEW p \in Poster, post'[p] = post[p]
    PROVE  PostOK(p)'
BY DEF IInv, TypeOK, TablesGrow, PostOK, NewArtifact, NewRow

\* Each statement of CreateRunPatch leaves request p with the facts its next
\* statement needs.
LEMMA PostSteps ==
    ASSUME IInv, [Next]_vars, NEW p \in Poster
    PROVE  PostOK(p)'
<1>1. /\ PostOK(p) /\ post \in [Poster -> Post] /\ artifact \in Seq(Artifact)
      /\ TablesGrow /\ SeqsContiguous
  BY StepGrows DEF IInv, TypeOK
<1>2. CASE post'[p] = post[p]
  BY <1>1, <1>2, OtherPosts
<1>3. ASSUME NEW q \in Poster \ {p},
              \/ \E ops \in Content : apply_run_patch(q, ops)
              \/ GetNextSeq(q) \/ StoreContent(q) \/ CreateArtifact(q) \/ InsertRow(q)
              \/ Reply(q) \/ StatementFails(q) \/ ClientTimeout(q)
       PROVE  post'[p] = post[p]
  BY <1>1, <1>3, Zenon DEF apply_run_patch, GetNextSeq, StoreContent, CreateArtifact, InsertRow,
                     Reply, StatementFails, ClientTimeout
<1>4. ASSUME NEW r \in Reader, ListPatches(r) \/ Materialize(r) \/ StoreIR(r) \/ ReloadFails(r)
       PROVE  post'[p] = post[p]
  BY <1>4 DEF ListPatches, Materialize, StoreIR, ReloadFails
<1>5. ASSUME NEW ops \in Content, apply_run_patch(p, ops) PROVE PostOK(p)'
  <2>1. post'[p] = [post[p] EXCEPT !.ops = ops, !.pc = IF ops = <<>> THEN "refused" ELSE "seq"]
    BY <1>1, <1>5 DEF apply_run_patch
  <2> QED BY <1>1, <1>5, <2>1 DEF PostOK, Post, apply_run_patch
<1>6. CASE GetNextSeq(p)
  <2>1. Max(Seqs \cup {0}) = Cardinality(rows)
    BY <1>1, MaxSeq DEF TablesGrow, SeqsContiguous
  <2>2. post'[p] = [post[p] EXCEPT !.pc = "store", !.seq = Cardinality(rows) + 1]
    BY <1>1, <1>6, <2>1, Zenon DEF GetNextSeq
  <2>3. /\ post'[p].pc = "store" /\ post'[p].seq = Cardinality(rows) + 1
        /\ post'[p].ops = post[p].ops /\ post'[p].reply = post[p].reply
    BY <1>1, <2>2 DEF Post
  <2>4. post[p].ops \in Content /\ post[p].reply # "ok" /\ rows' = rows
    BY <1>1, <1>6 DEF PostOK, GetNextSeq
  <2> QED BY <1>1, <2>3, <2>4 DEF PostOK, TablesGrow
<1>7. CASE StoreContent(p)
  <2>1. post'[p] = [post[p] EXCEPT !.pc = "artifact"] /\ post[p].ops \in cas'
    BY <1>1, <1>7 DEF StoreContent
  <2> QED BY <1>1, <1>7, <2>1 DEF PostOK, Post, StoreContent, TablesGrow
<1>8. CASE CreateArtifact(p)
  <2>1. post'[p] = [post[p] EXCEPT !.pc = "insert", !.art = Len(artifact) + 1]
    BY <1>1, <1>8 DEF CreateArtifact
  <2>2. post[p].ops \in Content /\ post[p].seq \in Nat \ {0}
    BY <1>1, <1>8 DEF PostOK, CreateArtifact, TablesGrow
  <2>3. NewArtifact(p) \in Artifact /\ NewArtifact(p)' = NewArtifact(p)
    BY <1>1, <2>1, <2>2 DEF NewArtifact, Artifact, Post
  <2>4. Len(artifact) + 1 \in DOMAIN artifact' /\ artifact'[Len(artifact) + 1] = NewArtifact(p)
    BY <1>1, <1>8, <2>3, AppendType DEF CreateArtifact
  <2> QED BY <1>1, <1>8, <2>1, <2>3, <2>4 DEF PostOK, Post, CreateArtifact, TablesGrow
<1>9. ASSUME Inserts(p) PROVE PostOK(p)'
  <2>1. /\ post'[p].pc = "stored" /\ post'[p].reply = post[p].reply
        /\ post'[p].ops = post[p].ops /\ post'[p].seq = post[p].seq /\ post'[p].art = post[p].art
    <3>1. Next
      BY <1>9 DEF Inserts, vars
    <3>2. InsertRow(p) \/ StatementFails(p)
      <4>1. rows' # rows /\ post'[p] # post[p]
        <5>1. NewRow(p) \notin rows
          BY <1>9 DEF Inserts, NewRow, Seqs
        <5> QED BY <1>9, <5>1 DEF Inserts
      <4>2. ~ \E ops \in Content : apply_run_patch(p, ops)
        BY <4>1, Zenon DEF apply_run_patch
      <4>3. ~(GetNextSeq(p) \/ StoreContent(p) \/ CreateArtifact(p) \/ Reply(p) \/ ClientTimeout(p))
        BY <4>1 DEF GetNextSeq, StoreContent, CreateArtifact, Reply, ClientTimeout
      <4> QED BY <1>3, <1>4, <3>1, <4>1, <4>2, <4>3, Zenon DEF Next
    <3> QED BY <1>1, <1>9, <3>2 DEF InsertRow, StatementFails, Inserts, Post
  <2>2. NewRow(p)' = NewRow(p) /\ NewArtifact(p)' = NewArtifact(p)
    BY <2>1, Zenon DEF NewRow, NewArtifact
  <2>3. NewRow(p) \in rows' /\ artifact' = artifact /\ cas' = cas
    BY <1>9 DEF Inserts
  <2> QED BY <1>1, <1>9, <2>1, <2>2, <2>3 DEF PostOK, Inserts, TablesGrow
<1>10. CASE InsertRow(p) /\ ~Inserts(p)
  <2>1. post'[p] = [post[p] EXCEPT !.pc = "refused"]
    BY <1>1, <1>10, ZenonT(60) DEF InsertRow, Inserts, Post
  <2> QED BY <1>1, <1>10, <2>1 DEF PostOK, Post, InsertRow
<1>11. CASE StatementFails(p) /\ ~Inserts(p)
  <2>1. post'[p] = [post[p] EXCEPT !.pc = "refused"]
    <3>1. CASE post' = [post EXCEPT ![p].pc = "refused"]
      BY <1>1, <3>1
    <3>2. CASE post' = [post EXCEPT ![p].pc = "stored", ![p].failed = TRUE]
      <4>1. /\ post'[p].pc = "stored" /\ post'[p].reply = post[p].reply
            /\ post'[p].seq = post[p].seq /\ post'[p].art = post[p].art
        BY <1>1, <3>2 DEF Post
      <4>2. rows' = rows \cup {NewRow(p)} /\ post[p].pc = "insert" /\ post[p].seq \notin Seqs
            /\ artifact' = artifact /\ cas' = cas
        BY <1>1, <1>11, <4>1 DEF StatementFails, Post
      <4> QED BY <1>11, <4>1, <4>2 DEF Inserts
    <3> QED BY <1>11, <3>1, <3>2 DEF StatementFails
  <2> QED BY <1>1, <1>11, <2>1 DEF PostOK, Post, StatementFails
<1>12. CASE Reply(p)
  <2>1. /\ post'[p].pc = post[p].pc /\ post'[p].ops = post[p].ops /\ post'[p].seq = post[p].seq
        /\ post'[p].art = post[p].art
        /\ post'[p].reply = "ok" => post[p].pc = "stored"
    BY <1>1, <1>12 DEF Reply, Post
  <2> QED BY <1>1, <2>1 DEF PostOK, TablesGrow, NewArtifact, NewRow
<1>13. CASE ClientTimeout(p)
  <2>1. post'[p] = [post[p] EXCEPT !.reply = "error"]
    BY <1>1, <1>13 DEF ClientTimeout
  <2> QED BY <1>1, <2>1 DEF PostOK, Post, TablesGrow, NewArtifact, NewRow
<1>14. CASE UNCHANGED vars
  BY <1>2, <1>14 DEF vars
<1> QED BY <1>2, <1>5, <1>6, <1>7, <1>8, <1>9, <1>10, <1>11, <1>12, <1>13, <1>3, <1>4, <1>14, Zenon DEF Next

-----------------------------------------------------------------------------
(* The reloads and the IR. *)

\* The first patches of the run after the step.
IsFirstNext(view) ==
    /\ Len(view) <= Cardinality(rows')
    /\ \A i \in DOMAIN view : view[i] = GetRunPatchesWithOperations'[i]

\* The first patches stay the first patches while the list grows.
LEMMA FirstStaysFirst ==
    ASSUME IInv, TablesGrow, NEW STATE view, view \in Seq(Content), IsFirst(view)
    PROVE  IsFirstNext(view)
<1>1. Len(view) \in Nat /\ DOMAIN view = 1..Len(view)
  OBVIOUS
<1>2. \A i \in DOMAIN view : i \in 1..Cardinality(rows)
  BY <1>1 DEF IsFirst, TablesGrow
<1>3. Cardinality(rows) \in Nat /\ Cardinality(rows') \in Nat /\ Cardinality(rows) <= Cardinality(rows')
  BY DEF TablesGrow
<1> QED BY <1>1, <1>2, <1>3 DEF IsFirst, IsFirstNext, TablesGrow

\* An answer never changes, nor does the number of an answered request.
LEMMA AnswersStand ==
    ASSUME IInv, [Next]_vars, NEW p \in Poster, post[p].reply = "ok"
    PROVE  post'[p] = post[p]
<1>1. post[p].pc = "stored" /\ post \in [Poster -> Post]
  BY DEF IInv, PostOK, TypeOK
<1>2. CASE UNCHANGED vars
  BY <1>2 DEF vars
<1>3. ASSUME NEW q \in Poster, NEW ops \in Content, apply_run_patch(q, ops)
      PROVE  post'[p] = post[p]
  BY <1>1, <1>3 DEF apply_run_patch
<1>4. ASSUME NEW q \in Poster, GetNextSeq(q) \/ StoreContent(q) \/ CreateArtifact(q) \/ InsertRow(q)
      PROVE  post'[p] = post[p]
  BY <1>1, <1>4 DEF GetNextSeq, StoreContent, CreateArtifact, InsertRow
<1>5. ASSUME NEW q \in Poster, Reply(q) \/ StatementFails(q) \/ ClientTimeout(q)
      PROVE  post'[p] = post[p]
  BY <1>1, <1>5 DEF Reply, StatementFails, ClientTimeout
<1>6. ASSUME NEW r \in Reader, ListPatches(r) \/ Materialize(r) \/ StoreIR(r) \/ ReloadFails(r)
      PROVE  post'[p] = post[p]
  BY <1>6 DEF ListPatches, Materialize, StoreIR, ReloadFails
<1> QED BY <1>2, <1>3, <1>4, <1>5, <1>6, Zenon DEF Next

\* The whole list is a first part of itself.
LEMMA ListIsFirst ==
    ASSUME IInv
    PROVE  /\ GetRunPatchesWithOperations \in Seq(Content)
           /\ IsFirst(GetRunPatchesWithOperations)
           /\ \A p \in Poster : post[p].reply = "ok" =>
                 post[p].seq \in DOMAIN GetRunPatchesWithOperations
<1>1. ListOK /\ Seqs = 1..Cardinality(rows)
  BY ListIsLog DEF IInv, TablesOK, SeqsContiguous
<1>2. ASSUME NEW p \in Poster, post[p].reply = "ok" PROVE post[p].seq \in Seqs
  <2>1. NewRow(p) \in rows
    BY <1>2 DEF IInv, PostOK
  <2>2. NewRow(p).seq = post[p].seq
    BY DEF NewRow
  <2> QED BY <2>1, <2>2 DEF Seqs
<1> QED BY <1>1, <1>2 DEF ListOK, IsFirst

\* A reload's view is a first part of the list that covers the answered
\* patches, in every step of reloadIRIfPatched and of anyone else.
LEMMA ReloadSteps ==
    ASSUME IInv, [Next]_vars, NEW r \in Reader
    PROVE  ReloadOK(r)'
<1>1. TablesGrow /\ ReloadOK(r) /\ reload \in [Reader -> Reload]
  BY StepGrows DEF IInv, TypeOK
<1>2. reload[r].view \in Seq(Content) /\ reload[r].acked \subseteq Poster
  BY <1>1 DEF Reload
<1>3. \A p \in Poster : post[p].reply = "ok" => post'[p] = post[p]
  BY AnswersStand
<1> DEFINE all == GetRunPatchesWithOperations
<1>4. all \in Seq(Content) /\ IsFirstNext(all) /\ IsFirstNext(reload[r].view)
  BY <1>1, <1>2, ListIsFirst, FirstStaysFirst, Zenon DEF ReloadOK
<1>5. \A p \in Poster : post[p].reply = "ok" => post[p].seq \in DOMAIN all
  BY ListIsFirst
<1> HIDE DEF all
<1>6. CASE reload'[r] = reload[r]
  BY <1>1, <1>2, <1>3, <1>4, <1>6, Zenon DEF ReloadOK, IsFirst, IsFirstNext
<1>7. CASE reload'[r] = NoReload
  <2>1. reload'[r].view = <<>> /\ reload'[r].acked = {} /\ reload'[r].pc = "idle"
    BY <1>7 DEF NoReload
  <2> QED BY <1>1, <2>1 DEF ReloadOK, IsFirst, TablesGrow
<1>8. CASE ListPatches(r)
  <2>1. /\ reload'[r].view = all /\ reload'[r].pc = "listed"
        /\ reload'[r].acked = {p \in Poster : post[p].reply = "ok"}
    BY <1>1, <1>8, Zenon DEF ListPatches, all
  <2> QED BY <1>3, <1>4, <1>5, <2>1 DEF ReloadOK, IsFirst, IsFirstNext
<1>9. CASE Materialize(r) /\ reload'[r] # NoReload
  <2>1. /\ reload'[r].view = all /\ reload'[r].pc = "compiled"
        /\ reload'[r].acked = reload[r].acked /\ MaterializeWorkflowForRun(all)
    BY <1>1, <1>9 DEF Materialize, Reload, all
  <2>2. \A p \in reload[r].acked : post[p].reply = "ok"
    BY <1>1 DEF ReloadOK
  <2> QED BY <1>2, <1>3, <1>4, <1>5, <2>1, <2>2 DEF ReloadOK, IsFirst, IsFirstNext,
      MaterializeWorkflowForRun, Applies
<1>10. CASE StoreIR(r) \/ ReloadFails(r)
  BY <1>1, <1>7, <1>10 DEF StoreIR, ReloadFails
<1>11. ASSUME NEW q \in Reader \ {r},
              ListPatches(q) \/ Materialize(q) \/ StoreIR(q) \/ ReloadFails(q)
       PROVE  reload'[r] = reload[r]
  BY <1>1, <1>11 DEF ListPatches, Materialize, StoreIR, ReloadFails
<1>12. ASSUME NEW p \in Poster,
              \/ \E ops \in Content : apply_run_patch(p, ops)
              \/ GetNextSeq(p) \/ StoreContent(p) \/ CreateArtifact(p) \/ InsertRow(p)
              \/ Reply(p) \/ StatementFails(p) \/ ClientTimeout(p)
       PROVE  reload'[r] = reload[r]
  BY <1>12, Zenon DEF apply_run_patch, GetNextSeq, StoreContent, CreateArtifact, InsertRow, Reply,
               StatementFails, ClientTimeout
<1>13. CASE UNCHANGED vars
  BY <1>6, <1>13 DEF vars
<1> QED BY <1>6, <1>7, <1>8, <1>9, <1>10, <1>11, <1>12, <1>13, Zenon DEF Next

\* SET ir:<run> stores a first part of the list whose patches all apply.
LEMMA IRSteps ==
    ASSUME IInv, [Next]_vars
    PROVE  IRIsPrefix'
<1>1. TablesGrow /\ ir \in Seq(Content) /\ reload \in [Reader -> Reload]
  BY StepGrows DEF IInv, TypeOK
<1>2. IsFirst(ir) /\ \A i \in DOMAIN ir : Applies(ir[i])
  BY DEF IInv, IRIsPrefix, IsFirst
<1>3. ASSUME NEW STATE view, view \in Seq(Content), IsFirst(view),
             MaterializeWorkflowForRun(view), ir' = view
      PROVE  IRIsPrefix'
  <2>1. IsFirstNext(view)
    BY <1>1, <1>3, FirstStaysFirst
  <2> QED BY <1>3, <2>1 DEF IsFirstNext, MaterializeWorkflowForRun, IRIsPrefix, Applies
<1>4. CASE ir' = ir
  BY <1>1, <1>2, <1>3, <1>4 DEF MaterializeWorkflowForRun
<1>5. ASSUME NEW r \in Reader, StoreIR(r) PROVE IRIsPrefix'
  <2>1. reload[r].view \in Seq(Content)
    BY <1>1 DEF Reload
  <2>2. IsFirst(reload[r].view) /\ MaterializeWorkflowForRun(reload[r].view)
    BY <1>5 DEF IInv, ReloadOK, StoreIR
  <2> QED BY <1>3, <1>5, <2>1, <2>2 DEF StoreIR
<1>6. ASSUME NEW p \in Poster, NEW ops \in Content, apply_run_patch(p, ops) PROVE ir' = ir
  BY <1>6 DEF apply_run_patch
<1>7. ASSUME NEW p \in Poster,
             \/ GetNextSeq(p) \/ StoreContent(p) \/ CreateArtifact(p) \/ InsertRow(p)
             \/ Reply(p) \/ StatementFails(p) \/ ClientTimeout(p)
      PROVE  ir' = ir
  BY <1>7, Zenon DEF GetNextSeq, StoreContent, CreateArtifact, InsertRow, Reply, StatementFails,
              ClientTimeout
<1>8. ASSUME NEW r \in Reader, ListPatches(r) \/ Materialize(r) \/ ReloadFails(r) PROVE ir' = ir
  BY <1>8 DEF ListPatches, Materialize, ReloadFails
<1> QED BY <1>4, <1>5, <1>6, <1>7, <1>8 DEF Next, vars

-----------------------------------------------------------------------------
(* The invariants. *)

\* The inductive invariant holds initially.
LEMMA InitInv == Init => IInv
<1> SUFFICES ASSUME Init PROVE IInv
  OBVIOUS
<1>1. Cardinality(rows) = 0 /\ IsFiniteSet(rows) /\ Seqs = {}
  BY FS_EmptySet DEF Init, Seqs
<1>2. 0 \in 0..MaxFaults /\ <<>> \in Seq(Content) /\ <<>> \in Seq(Artifact)
  BY PatchFaultsAssumption
<1>3. NoReload \in Reload
  BY <1>2 DEF NoReload, Reload
<1>4. TypeOK
  BY <1>1, <1>2, <1>3 DEF Init, TypeOK, Post, PostPc
<1>5. SeqsContiguous /\ UniqueSeqs /\ RowsReadable /\ IRIsPrefix
  BY <1>1 DEF Init, SeqsContiguous, UniqueSeqs, RowsReadable, IRIsPrefix
<1>6. \A p \in Poster : PostOK(p)
  BY DEF Init, PostOK
<1>7. \A r \in Reader : ReloadOK(r)
  BY <1>1 DEF Init, ReloadOK, NoReload, IsFirst
<1> QED BY <1>4, <1>5, <1>6, <1>7 DEF IInv

\* Every step keeps it.
LEMMA NextInv == IInv /\ [Next]_vars => IInv'
<1> SUFFICES ASSUME IInv, [Next]_vars PROVE IInv'
  OBVIOUS
<1>1. TypeOK' /\ TablesOK'
  BY NextTypes, StepGrows DEF TablesGrow
<1>2. (\A p \in Poster : PostOK(p))' /\ (\A r \in Reader : ReloadOK(r))' /\ IRIsPrefix'
  BY PostSteps, ReloadSteps, IRSteps
<1> QED BY <1>1, <1>2 DEF IInv, TablesOK

\* Spec keeps the inductive invariant.
LEMMA Invariance == Spec => []IInv
BY InitInv, NextInv, PTL DEF Spec

\* However the statements of concurrent CreateRunPatch calls interleave and
\* fail, the tables stay well typed.
THEOREM PatchTypes == Spec => []TypeOK
<1>1. IInv => TypeOK
  BY DEF IInv
<1> QED BY <1>1, Invariance, PTL

\* The n patches of a run are numbered 1..n, for any number of concurrent
\* POSTs: GetNextSeq's stale read and the unique index together skip nothing.
THEOREM PatchesContiguous == Spec => []SeqsContiguous
<1>1. IInv => SeqsContiguous
  BY DEF IInv
<1> QED BY <1>1, Invariance, PTL

\* GetRunPatchesWithOperations never meets a row without artifact or blob.
THEOREM PatchesReadable == Spec => []RowsReadable
<1>1. IInv => RowsReadable
  BY DEF IInv
<1> QED BY <1>1, Invariance, PTL

\* A request whose row is there is found at its number.
LEMMA StoredInLog ==
    ASSUME IInv, NEW p \in Poster, post[p].pc = "stored"
    PROVE  /\ post[p].seq \in Seqs
           /\ GetRunPatchesWithOperations[post[p].seq] = post[p].ops
<1>1. /\ NewRow(p) \in rows /\ artifact[post[p].art] = NewArtifact(p)
      /\ ListOK
  BY ListIsLog, Zenon DEF IInv, PostOK, TablesOK
<1>2. NewRow(p).seq = post[p].seq /\ NewRow(p).art = post[p].art
  BY DEF NewRow
<1>3. NewArtifact(p).cas = post[p].ops
  BY DEF NewArtifact
<1>4. post[p].seq \in Seqs
  BY <1>1, <1>2 DEF Seqs
<1> DEFINE r == CHOOSE x \in rows : x.seq = post[p].seq
<1>5. r \in rows /\ r.seq = post[p].seq
  BY <1>1, <1>2
<1>6. r = NewRow(p)
  BY <1>1, <1>2, <1>5, Zenon DEF IInv, UniqueSeqs
<1>7. GetRunPatchesWithOperations[post[p].seq] = artifact[r.art].cas
  BY <1>4, Zenon DEF GetRunPatchesWithOperations
<1> QED BY <1>1, <1>2, <1>3, <1>4, <1>6, <1>7, Zenon

\* A 201 stands: the client's operations are at its number for ever.
THEOREM AnswersInLog == Spec => []AckedInLog
<1>1. IInv => AckedInLog
  BY StoredInLog, Zenon DEF IInv, PostOK, AckedInLog
<1> QED BY <1>1, Invariance, PTL

\* A reload about to write the IR has the patches of all the agents that had
\* their answer when it began.
THEOREM ReloadsCoverAnswers == Spec => []ReloadCoversAcked
<1>1. ASSUME IInv PROVE ReloadCoversAcked
  <2> SUFFICES ASSUME NEW r \in Reader, NEW p \in reload[r].acked
               PROVE  /\ post[p].seq \in DOMAIN reload[r].view
                      /\ reload[r].view[post[p].seq] = post[p].ops
    BY DEF ReloadCoversAcked
  <2>1. p \in Poster
    BY <1>1 DEF IInv, TypeOK, Reload
  <2>2. ReloadOK(r) /\ PostOK(p)
    BY <1>1, <2>1 DEF IInv
  <2>3. post[p].seq \in DOMAIN reload[r].view /\ post[p].pc = "stored"
    BY <2>2, Zenon DEF ReloadOK, PostOK
  <2> QED BY <1>1, <2>1, <2>2, <2>3, StoredInLog, Zenon DEF ReloadOK, IsFirst
<1> QED BY <1>1, Invariance, PTL

\* ir:<run> is always compiled from the first k patches of the run, for some k.
THEOREM IRFromPrefix == Spec => []IRIsPrefix
<1>1. IInv => IRIsPrefix
  BY DEF IInv
<1> QED BY <1>1, Invariance, PTL

-----------------------------------------------------------------------------
(* The refused request. *)

\* A request that has its row keeps it.
LEMMA StoredStays ==
    ASSUME IInv, [Next]_vars, NEW p \in Poster, post[p].pc = "stored"
    PROVE  post'[p].pc = "stored" /\ post'[p].seq = post[p].seq /\ post'[p].art = post[p].art
<1>1. post \in [Poster -> Post]
  BY DEF IInv, TypeOK
<1>2. ASSUME NEW q \in Poster, NEW ops \in Content, apply_run_patch(q, ops)
      PROVE  post'[p] = post[p]
  BY <1>1, <1>2 DEF apply_run_patch
<1>3. ASSUME NEW q \in Poster, GetNextSeq(q) \/ StoreContent(q) \/ CreateArtifact(q) \/ InsertRow(q)
      PROVE  post'[p] = post[p]
  BY <1>1, <1>3 DEF GetNextSeq, StoreContent, CreateArtifact, InsertRow
<1>4. ASSUME NEW q \in Poster, Reply(q) \/ ClientTimeout(q)
      PROVE  post'[p].pc = "stored" /\ post'[p].seq = post[p].seq /\ post'[p].art = post[p].art
  <2>1. \E x : post' = [post EXCEPT ![q].reply = x]
    BY <1>4 DEF Reply, ClientTimeout
  <2> QED BY <1>1, <2>1 DEF Post
<1>5. ASSUME NEW q \in Poster, StatementFails(q) PROVE post'[p] = post[p]
  BY <1>1, <1>5 DEF StatementFails
<1>6. ASSUME NEW r \in Reader, ListPatches(r) \/ Materialize(r) \/ StoreIR(r) \/ ReloadFails(r)
      PROVE  post'[p] = post[p]
  BY <1>6 DEF ListPatches, Materialize, StoreIR, ReloadFails
<1> QED BY <1>2, <1>3, <1>4, <1>5, <1>6, Zenon DEF Next, vars

\* Every row of run_patches has the request that inserted it.
LEMMA RowsOwned ==
    ASSUME IInv, [Next]_vars, OwnersInv
    PROVE  \A r \in rows' : \E q \in Poster : post'[q].pc = "stored" /\ NewRow(q)' = r
<1>1. ASSUME NEW r \in rows
      PROVE  \E q \in Poster : post'[q].pc = "stored" /\ NewRow(q)' = r
  <2>1. PICK q \in Poster : post[q].pc = "stored" /\ NewRow(q) = r
    BY DEF OwnersInv
  <2> QED BY <2>1, StoredStays, Zenon DEF NewRow
<1>2. CASE InsertsNothing
  BY <1>1, <1>2 DEF InsertsNothing
<1>3. ASSUME NEW p \in Poster, Inserts(p)
      PROVE  \A r \in rows' : \E q \in Poster : post'[q].pc = "stored" /\ NewRow(q)' = r
  BY <1>1, <1>3, Zenon DEF Inserts, NewRow
<1> QED BY <1>2, <1>3, StepKinds

\* Without faults only the unique index refuses a request.
LEMMA RefusedByIndex ==
    ASSUME IInv, [Next]_vars, OwnersInv, faults' = 0, NEW p \in Poster
    PROVE  /\ ~post'[p].failed
           /\ post'[p].reply = "error" => post'[p].pc = "refused"
           /\ (post'[p].pc = "refused" /\ post'[p].ops # <<>>) =>
                 \E q \in Poster : post'[q].pc = "stored" /\ post'[q].seq = post'[p].seq
<1> DEFINE Goal == /\ ~post'[p].failed
                   /\ post'[p].reply = "error" => post'[p].pc = "refused"
                   /\ (post'[p].pc = "refused" /\ post'[p].ops # <<>>) =>
                         \E q \in Poster : post'[q].pc = "stored" /\ post'[q].seq = post'[p].seq
<1> SUFFICES Goal
  OBVIOUS
<1>1. post \in [Poster -> Post] /\ faults \in Nat /\ \A q \in Poster : PostOK(q)
  BY DEF IInv, TypeOK
<1>2. faults = 0
  <2>1. faults' = faults \/ faults' = faults + 1
    BY ZenonT(60) DEF Next, vars, apply_run_patch, GetNextSeq, StoreContent, CreateArtifact, InsertRow, Reply,
           StatementFails, ClientTimeout, ListPatches, Materialize, StoreIR, ReloadFails, Fault, NoFault
  <2> QED BY <1>1, <2>1
<1>3. /\ ~post[p].failed
      /\ post[p].reply = "error" => post[p].pc = "refused"
      /\ (post[p].pc = "refused" /\ post[p].ops # <<>>) =>
            \E q \in Poster : post[q].pc = "stored" /\ post[q].seq = post[p].seq
  BY <1>2, Zenon DEF OwnersInv
<1>4. \A q \in Poster : post[q].pc = "stored" => post'[q].pc = "stored" /\ post'[q].seq = post[q].seq
  BY StoredStays
<1>5. CASE post'[p] = post[p]
  BY <1>3, <1>4, <1>5, Zenon
<1>6. ASSUME NEW ops \in Content, apply_run_patch(p, ops) PROVE Goal
  <2>1. post'[p].ops = ops /\ post'[p].pc = (IF ops = <<>> THEN "refused" ELSE "seq")
        /\ post'[p].reply = post[p].reply /\ post[p].pc = "idle"
        /\ post'[p].failed = post[p].failed
    BY <1>1, <1>6 DEF apply_run_patch, Post
  <2> QED BY <1>3, <2>1, Zenon
<1>7. CASE GetNextSeq(p) \/ StoreContent(p) \/ CreateArtifact(p)
  <2>1. post'[p].pc \in {"store", "artifact", "insert"} /\ post'[p].reply = post[p].reply
        /\ post[p].pc \in {"seq", "store", "artifact"} /\ post'[p].failed = post[p].failed
    BY <1>1, <1>7 DEF GetNextSeq, StoreContent, CreateArtifact, Post
  <2> QED BY <1>3, <2>1, Zenon
<1>8. CASE InsertRow(p)
  <2>1. /\ post'[p].reply = post[p].reply /\ post'[p].seq = post[p].seq /\ post[p].pc = "insert"
        /\ post'[p].failed = post[p].failed
        /\ \/ post'[p].pc = "stored"
           \/ post'[p].pc = "refused" /\ post[p].seq \in Seqs
    BY <1>1, <1>8 DEF InsertRow, Post
  <2>2. ASSUME post[p].seq \in Seqs
        PROVE  \E q \in Poster : post'[q].pc = "stored" /\ post'[q].seq = post[p].seq
    <3>1. PICK r \in rows : r.seq = post[p].seq
      BY <2>2 DEF Seqs
    <3>2. PICK q \in Poster : post[q].pc = "stored" /\ NewRow(q) = r
      BY DEF OwnersInv
    <3> QED BY <1>4, <3>1, <3>2, Zenon DEF NewRow
  <2> QED BY <1>3, <2>1, <2>2, Zenon
<1>9. CASE Reply(p)
  <2>1. /\ post'[p].pc = post[p].pc /\ post'[p].seq = post[p].seq /\ post'[p].ops = post[p].ops
        /\ post[p].pc \in {"stored", "refused"} /\ post'[p].failed = post[p].failed
        /\ post[p].pc = "stored" /\ ~post[p].failed => post'[p].reply = "ok"
    BY <1>1, <1>9 DEF Reply, Post
  <2>2. ~post[p].failed
    BY <1>2, Zenon DEF OwnersInv
  <2> QED BY <1>3, <1>4, <2>1, <2>2, Zenon
<1>10. ~StatementFails(p) /\ ~ClientTimeout(p)
  BY <1>2, <1>3 DEF StatementFails, ClientTimeout, Fault
<1>11. ASSUME NEW q \in Poster \ {p},
              \/ \E ops \in Content : apply_run_patch(q, ops)
              \/ GetNextSeq(q) \/ StoreContent(q) \/ CreateArtifact(q) \/ InsertRow(q)
              \/ Reply(q) \/ StatementFails(q) \/ ClientTimeout(q)
       PROVE  post'[p] = post[p]
  BY <1>1, <1>11, Zenon DEF apply_run_patch, GetNextSeq, StoreContent, CreateArtifact, InsertRow, Reply,
                     StatementFails, ClientTimeout
<1>12. ASSUME NEW r \in Reader, ListPatches(r) \/ Materialize(r) \/ StoreIR(r) \/ ReloadFails(r)
       PROVE  post'[p] = post[p]
  BY <1>12 DEF ListPatches, Materialize, StoreIR, ReloadFails
<1>13. CASE UNCHANGED vars
  BY <1>5, <1>13, Zenon DEF vars
<1> HIDE DEF Goal
<1>14. CASE Next
  BY <1>5, <1>6, <1>7, <1>8, <1>9, <1>10, <1>11, <1>12, <1>14, ZenonT(60) DEF Next
<1> QED BY <1>13, <1>14

\* Without faults, a refused POST lost its number to another POST that got
\* through: for any number of clients some patch always makes it.
THEOREM LosersSawWinners == Spec => []LoserSawWinner
<1>1. Init => OwnersInv
  BY DEF Init, OwnersInv
<1>2. ASSUME IInv, [Next]_vars, OwnersInv PROVE OwnersInv'
  BY <1>2, RowsOwned, RefusedByIndex, Zenon DEF OwnersInv
<1>3. OwnersInv => LoserSawWinner
  BY DEF OwnersInv, LoserSawWinner
<1> QED BY <1>1, <1>2, <1>3, Invariance, PTL DEF Spec

-----------------------------------------------------------------------------
(* The tables implement the log. *)

\* A step that leaves the list, one client and every view alone is a stutter
\* of the log, or the step of that client's record.
LEMMA ClientStep ==
    ASSUME IInv, [Next]_vars, InsertsNothing, NEW p \in Poster,
           \A q \in Poster \ {p} : post'[q] = post[q], reload' = reload
    PROVE  /\ GetRunPatchesWithOperations' = GetRunPatchesWithOperations
           /\ [q \in Poster |-> LogClient(q)]'
                 = [[q \in Poster |-> LogClient(q)] EXCEPT ![p] = LogClient(p)']
           /\ [r \in Reader |-> reload[r].view]' = [r \in Reader |-> reload[r].view]
<1>1. GetRunPatchesWithOperations' = GetRunPatchesWithOperations
  BY NextTypes, NoInsertion, Zenon DEF InsertsNothing
<1>2. \A q \in Poster \ {p} : LogClient(q)' = LogClient(q)
  BY DEF LogClient
<1>3. [q \in Poster |-> LogClient(q)]' = [q \in Poster |-> LogClient(q)']
  OBVIOUS
<1> QED BY <1>1, <1>2, <1>3, Zenon

Client(pc, ops, at, reply) == [pc |-> pc, ops |-> ops, at |-> at, reply |-> reply]

\* What an assignment to one field makes of a client's record.
LEMMA ClientExcept ==
    ASSUME NEW a, NEW o, NEW n, NEW y, NEW x
    PROVE  /\ [Client(a, o, n, y) EXCEPT !.at = x] = Client(a, o, x, y)
           /\ [Client(a, o, n, y) EXCEPT !.reply = x] = Client(a, o, n, x)
           /\ Client(a, o, n, y).pc = a /\ Client(a, o, n, y).ops = o
           /\ Client(a, o, n, y).at = n /\ Client(a, o, n, y).reply = y
BY DEF Client

\* The insert of request p is the append of its patch to the log, at the
\* number the request read.
LEMMA InsertIsAppend ==
    ASSUME IInv, [Next]_vars, NEW p \in Poster, Inserts(p), reload' = reload,
           post'[p].ops = post[p].ops, \A q \in Poster \ {p} : post'[q] = post[q]
    PROVE  Log!AppendPatch(p)
<1> DEFINE log == GetRunPatchesWithOperations
           client == [q \in Poster |-> LogClient(q)]
<1>1. log' = Append(log, post[p].ops) /\ post[p].seq = Cardinality(rows) + 1
  BY NextTypes, Insertion, Zenon DEF Inserts
<1>2. Len(log) = Cardinality(rows)
  BY ListIsLog, Zenon DEF IInv, TablesOK, ListOK
<1>3. client[p] = LogClient(p) /\ post[p].pc = "insert" /\ post'[p].pc = "stored"
      /\ post'[p].seq = post[p].seq /\ post'[p].reply = post[p].reply
  BY DEF Inserts
<1>4. LogClient(p) = Client("sent", post[p].ops, 0, post[p].reply)
  BY <1>3, Zenon DEF LogClient, Client
<1>5. LogClient(p)' = Client("sent", post[p].ops, post[p].seq, post[p].reply)
  BY <1>3, Zenon DEF LogClient, Client
<1>6. \A q \in Poster \ {p} : LogClient(q)' = LogClient(q)
  BY DEF LogClient
<1>7. client' = [client EXCEPT ![p].at = Len(log) + 1]
  <2>0. Len(log) + 1 = post[p].seq
    BY <1>1, <1>2
  <2> HIDE DEF log
  <2>1. [LogClient(p) EXCEPT !.at = Len(log) + 1] = LogClient(p)'
    BY <1>4, <1>5, <2>0, ClientExcept
  <2>2. client' = [q \in Poster |-> LogClient(q)']
    OBVIOUS
  <2>3. [client EXCEPT ![p].at = Len(log) + 1] = [client EXCEPT ![p] = LogClient(p)']
    BY <1>3, <2>1, Zenon
  <2>4. [client EXCEPT ![p] = LogClient(p)'] = [q \in Poster |-> LogClient(q)']
    BY <1>6, Zenon
  <2> QED BY <2>2, <2>3, <2>4
<1>8. [r \in Reader |-> reload[r].view]' = [r \in Reader |-> reload[r].view]
  BY Zenon
<1> QED BY <1>1, <1>3, <1>4, <1>7, <1>8, ClientExcept DEF Log!AppendPatch

\* What each answer does to the log: nothing but tell the client.
LEMMA ReplyIsAnswer ==
    ASSUME IInv, [Next]_vars, NEW p \in Poster, Reply(p) \/ ClientTimeout(p)
    PROVE  Log!AnswerOk(p) \/ Log!AnswerError(p)
<1> DEFINE client == [q \in Poster |-> LogClient(q)]
           at == IF post[p].pc = "stored" THEN post[p].seq ELSE 0
<1>1. post \in [Poster -> Post] /\ PostOK(p)
  BY DEF IInv, TypeOK
<1>2. PICK x \in {"ok", "error"} :
         /\ post' = [post EXCEPT ![p].reply = x]
         /\ x = "ok" => post[p].pc = "stored"
  BY DEF Reply, ClientTimeout
<1>3. /\ post[p].reply = "none" /\ post[p].pc # "idle" /\ reload' = reload /\ InsertsNothing
  BY DEF Reply, ClientTimeout, InsertsNothing
<1>4. /\ post'[p].pc = post[p].pc /\ post'[p].ops = post[p].ops /\ post'[p].seq = post[p].seq
      /\ post'[p].reply = x
  BY <1>1, <1>2 DEF Post
<1>5. \A q \in Poster \ {p} : post'[q] = post[q]
  BY <1>1, <1>2
<1>6. LogClient(p) = Client("sent", post[p].ops, at, "none")
  BY <1>3, Zenon DEF LogClient, Client
<1>7. LogClient(p)' = Client("sent", post[p].ops, at, x)
  BY <1>3, <1>4, Zenon DEF LogClient, Client
<1>8. x = "ok" => at > 0
  BY <1>1, <1>2 DEF PostOK
<1> HIDE DEF at
<1>9. [LogClient(p) EXCEPT !.reply = x] = LogClient(p)'
  BY <1>6, <1>7, ClientExcept
<1>10. /\ client' = [client EXCEPT ![p] = LogClient(p)']
       /\ client[p] = LogClient(p)
       /\ UNCHANGED <<GetRunPatchesWithOperations, [r \in Reader |-> reload[r].view]>>
  BY <1>3, <1>5, ClientStep, Zenon
<1>11. client' = [client EXCEPT ![p].reply = x]
  BY <1>9, <1>10, Zenon
<1>12. client[p].pc = "sent" /\ client[p].at = at /\ client[p].reply = "none"
  BY <1>6, <1>10, ClientExcept
<1>13. CASE x = "ok"
  BY <1>8, <1>10, <1>11, <1>12, <1>13 DEF Log!AnswerOk
<1>14. CASE x = "error"
  BY <1>10, <1>11, <1>12, <1>14 DEF Log!AnswerError
<1> QED BY <1>13, <1>14

\* apply_run_patch sends the operations, whatever becomes of them.
LEMMA PostIsSend ==
    ASSUME IInv, [Next]_vars, NEW p \in Poster, NEW ops \in Content, apply_run_patch(p, ops)
    PROVE  Log!Send(p, ops)
<1> DEFINE client == [q \in Poster |-> LogClient(q)]
<1>1. post \in [Poster -> Post] /\ reload' = reload /\ InsertsNothing
  BY DEF IInv, TypeOK, apply_run_patch, InsertsNothing
<1>2. /\ post[p].pc = "idle" /\ post'[p].pc \in {"refused", "seq"}
      /\ post'[p].ops = ops /\ post'[p].reply = post[p].reply
      /\ \A q \in Poster \ {p} : post'[q] = post[q]
  BY <1>1 DEF apply_run_patch, Post
<1>3. LogClient(p) = Client("idle", post[p].ops, 0, post[p].reply)
  BY <1>2, Zenon DEF LogClient, Client
<1>4. LogClient(p)' = Client("sent", ops, 0, post[p].reply)
  BY <1>2, Zenon DEF LogClient, Client
<1>5. /\ client' = [client EXCEPT ![p] = LogClient(p)']
      /\ client[p] = LogClient(p)
      /\ UNCHANGED <<GetRunPatchesWithOperations, [r \in Reader |-> reload[r].view]>>
  BY <1>1, <1>2, ClientStep, Zenon
<1>6. LogClient(p)' = [pc |-> "sent", ops |-> ops, at |-> 0, reply |-> client[p].reply]
  BY <1>3, <1>4, <1>5, ClientExcept DEF Client
<1> QED BY <1>3, <1>5, <1>6, ClientExcept DEF Log!Send

\* The statements before the insert, and a refused insert, do not show.
LEMMA SilentSteps ==
    ASSUME IInv, [Next]_vars, NEW p \in Poster, InsertsNothing, reload' = reload,
           \A q \in Poster \ {p} : post'[q] = post[q],
           post[p].pc \notin {"idle", "stored"}, post'[p].pc \notin {"idle", "stored"},
           post'[p].ops = post[p].ops, post'[p].reply = post[p].reply
    PROVE  UNCHANGED Log!vars
<1>1. LogClient(p)' = LogClient(p)
  BY DEF LogClient
<1> QED BY <1>1, ClientStep, Zenon DEF Log!vars

\* A reload reads the whole log or forgets what it read.
LEMMA ReloadIsRead ==
    ASSUME IInv, [Next]_vars, NEW r \in Reader,
           ListPatches(r) \/ Materialize(r) \/ StoreIR(r) \/ ReloadFails(r)
    PROVE  Log!Read(r) \/ Log!Forget(r)
<1> DEFINE log == GetRunPatchesWithOperations
           view == [q \in Reader |-> reload[q].view]
<1>1. reload \in [Reader -> Reload] /\ post' = post /\ InsertsNothing
  BY DEF IInv, TypeOK, ListPatches, Materialize, StoreIR, ReloadFails, InsertsNothing
<1>2. log' = log /\ [q \in Poster |-> LogClient(q)]' = [q \in Poster |-> LogClient(q)]
  BY <1>1, NextTypes, NoInsertion, Zenon DEF InsertsNothing, LogClient
<1>3. /\ reload'[r].view = log \/ reload'[r].view = <<>>
      /\ \A q \in Reader \ {r} : reload'[q] = reload[q]
      /\ reload' \in [Reader -> Reload]
  <2>1. reload' \in [Reader -> Reload]
    BY NextTypes DEF TypeOK
  <2> HIDE DEF log
  <2>2. CASE ListPatches(r)
    BY <1>1, <2>1, <2>2, Zenon DEF ListPatches, log
  <2>3. CASE Materialize(r)
    BY <1>1, <2>1, <2>3 DEF Materialize, NoReload, Reload, log
  <2>4. CASE StoreIR(r) \/ ReloadFails(r)
    BY <1>1, <2>1, <2>4 DEF StoreIR, ReloadFails, NoReload
  <2> QED BY <2>2, <2>3, <2>4, Zenon
<1> HIDE DEF log
<1>4. view' = [view EXCEPT ![r] = log] \/ view' = [view EXCEPT ![r] = <<>>]
  BY <1>3, Zenon
<1> QED BY <1>2, <1>4, Zenon DEF Log!Read, Log!Forget, log

\* Every step of the requests and the reloads is a step of the log or none.
LEMMA LogStep ==
    ASSUME IInv, [Next]_vars
    PROVE  [Log!Next]_(Log!vars)
<1>1. post \in [Poster -> Post] /\ TypeOK'
  BY NextTypes, Zenon DEF IInv, TypeOK
<1>2. CASE UNCHANGED vars
  <2>1. InsertsNothing /\ post' = post /\ reload' = reload
    BY <1>2 DEF vars, InsertsNothing
  <2> QED BY <1>1, <2>1, NoInsertion, Zenon DEF InsertsNothing, Log!vars, LogClient
<1>3. ASSUME NEW p \in Poster, NEW ops \in Content, apply_run_patch(p, ops) PROVE Log!Next
  BY <1>3, PostIsSend DEF Log!Next
<1>4. ASSUME NEW p \in Poster, GetNextSeq(p) \/ StoreContent(p) \/ CreateArtifact(p)
      PROVE  UNCHANGED Log!vars
  <2>1. InsertsNothing
    <3>1. CASE InsertsNothing
      BY <3>1
    <3>2. ASSUME NEW q \in Poster, Inserts(q) PROVE InsertsNothing
      BY <1>4, <3>2 DEF Inserts, GetNextSeq, StoreContent, CreateArtifact, InsertsNothing
    <3> QED BY <3>1, <3>2, StepKinds
  <2>2. /\ post[p].pc \in {"seq", "store", "artifact"}
        /\ post'[p].pc \in {"store", "artifact", "insert"}
        /\ post'[p].ops = post[p].ops /\ post'[p].reply = post[p].reply
        /\ \A q \in Poster \ {p} : post'[q] = post[q]
        /\ reload' = reload
    BY <1>1, <1>4 DEF GetNextSeq, StoreContent, CreateArtifact, Post
  <2> QED BY <2>1, <2>2, SilentSteps, Zenon
<1>5. ASSUME NEW p \in Poster, InsertRow(p) \/ StatementFails(p)
      PROVE  Log!Next \/ UNCHANGED Log!vars
  <2>1. /\ post[p].pc \notin {"idle", "stored"}
        /\ post'[p].pc \in {"stored", "refused"}
        /\ post'[p].ops = post[p].ops /\ post'[p].reply = post[p].reply
        /\ reload' = reload
    BY <1>1, <1>5 DEF InsertRow, StatementFails, Post
  <2>2. \A q \in Poster \ {p} : post'[q] = post[q]
    BY <1>1, <1>5 DEF InsertRow, StatementFails
  <2>3. CASE \E q \in Poster : Inserts(q)
    <3>1. PICK q \in Poster : Inserts(q)
      BY <2>3
    <3>2. q = p
      BY <2>2, <3>1, Zenon DEF Inserts
    <3> QED BY <2>1, <2>2, <3>1, <3>2, InsertIsAppend, Zenon DEF Log!Next
  <2>4. CASE InsertsNothing
    <3>1. post'[p].pc # "stored"
      <4>1. post'[p].pc = "stored" => NewRow(p) \in rows' /\ post[p].seq \notin Seqs
        BY <1>1, <1>5 DEF InsertRow, StatementFails, Post
      <4>2. NewRow(p) \in rows => post[p].seq \in Seqs
        <5>1. NewRow(p).seq = post[p].seq
          BY DEF NewRow
        <5> QED BY <5>1 DEF Seqs
      <4> QED BY <2>4, <4>1, <4>2, Zenon DEF InsertsNothing
    <3> QED BY <2>1, <2>2, <2>4, <3>1, SilentSteps, Zenon
  <2> QED BY <2>3, <2>4, StepKinds
<1>6. ASSUME NEW p \in Poster, Reply(p) \/ ClientTimeout(p) PROVE Log!Next
  BY <1>6, ReplyIsAnswer DEF Log!Next
<1>7. ASSUME NEW r \in Reader, ListPatches(r) \/ Materialize(r) \/ StoreIR(r) \/ ReloadFails(r)
      PROVE  Log!Next
  BY <1>7, ReloadIsRead DEF Log!Next
<1> QED BY <1>2, <1>3, <1>4, <1>5, <1>6, <1>7, Zenon DEF Next

\* Concurrent POSTs on three tables, with their stale number and their
\* failures, implement an append-only log: for any number of clients.
THEOREM TablesImplementLog == Spec => ImplementsPatchLog
<1>1. Init => Log!Init
  <2> SUFFICES ASSUME Init PROVE Log!Init
    OBVIOUS
  <2>1. Seqs = {}
    BY DEF Init, Seqs
  <2>2. GetRunPatchesWithOperations = <<>>
    BY <2>1 DEF GetRunPatchesWithOperations
  <2>3. \A p \in Poster : LogClient(p) = [pc |-> "idle", ops |-> <<>>, at |-> 0, reply |-> "none"]
    BY DEF Init, LogClient
  <2>4. \A r \in Reader : reload[r].view = <<>>
    BY DEF Init, NoReload
  <2> QED BY <2>2, <2>3, <2>4, Zenon DEF Log!Init
<1>2. IInv /\ [Next]_vars => [Log!Next]_(Log!vars)
  BY LogStep
<1> QED BY <1>1, <1>2, Invariance, PTL DEF Spec, ImplementsPatchLog, Log!Spec

=============================================================================
