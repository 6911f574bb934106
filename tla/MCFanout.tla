------------------------------ MODULE MCFanout ------------------------------
(***************************************************************************)
(* Two connections of one user.                                            *)
(***************************************************************************)
EXTENDS Fanout

CONSTANTS c1, c2, u1

OneUser == {u1}
Connections == {c1, c2}
MCUsername == [c \in Connections |-> u1]

=============================================================================
