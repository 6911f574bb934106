------------------------------ MODULE PatchLog ------------------------------
(***************************************************************************)
(* What the run-patch API promises the agents and the coordinator of one   *)
(* run: an append-only log of patches.                                     *)
(*                                                                         *)
(* A patch that was posted is appended at most once, at a position that    *)
(* never changes.  The poster is told "ok" only for a patch in the log; an *)
(* error says nothing, the patch may be in the log or arrive later.  A     *)
(* reader gets the whole log as it was at one instant of its request.      *)
(***************************************************************************)
EXTENDS Naturals, Sequences

CONSTANTS Poster, Reader, Content

VARIABLES
    log,     \* the patches, in the order in which they are applied
    client,  \* what each poster sent, where it is in the log (0: nowhere), its answer
    view     \* what each reader got and has not used yet

vars == <<log, client, view>>

Init ==
    /\ log = <<>>
    /\ client = [p \in Poster |-> [pc |-> "idle", ops |-> <<>>, at |-> 0, reply |-> "none"]]
    /\ view = [r \in Reader |-> <<>>]

Send(p, ops) ==
    /\ client[p].pc = "idle"
    /\ client' = [client EXCEPT ![p] =
                     [pc |-> "sent", ops |-> ops, at |-> 0, reply |-> client[p].reply]]
    /\ UNCHANGED <<log, view>>

AppendPatch(p) ==
    /\ client[p].pc = "sent"
    /\ client[p].at = 0
    /\ log' = Append(log, client[p].ops)
    /\ client' = [client EXCEPT ![p].at = Len(log) + 1]
    /\ UNCHANGED view

AnswerOk(p) ==
    /\ client[p].at > 0
    /\ client[p].reply = "none"
    /\ client' = [client EXCEPT ![p].reply = "ok"]
    /\ UNCHANGED <<log, view>>

AnswerError(p) ==
    /\ client[p].pc = "sent"
    /\ client[p].reply = "none"
    /\ client' = [client EXCEPT ![p].reply = "error"]
    /\ UNCHANGED <<log, view>>

Read(r) ==
    /\ view' = [view EXCEPT ![r] = log]
    /\ UNCHANGED <<log, client>>

Forget(r) ==
    /\ view' = [view EXCEPT ![r] = <<>>]
    /\ UNCHANGED <<log, client>>

Next ==
    \/ \E p \in Poster :
          \/ \E ops \in Content : Send(p, ops)
          \/ AppendPatch(p)
          \/ AnswerOk(p)
          \/ AnswerError(p)
    \/ \E r \in Reader : Read(r) \/ Forget(r)

Spec == Init /\ [][Next]_vars

=============================================================================
