------------------------------ MODULE MCReactor -----------------------------
(* Three clients: the first may leave, the third sends nothing.            *)
EXTENDS Reactor, TLC

CONSTANTS c1, c2, c3

MCClients == {c1, c2, c3}
MCLeavers == {c1}
MCMaxUnits == (c1 :> 2) @@ (c2 :> 1) @@ (c3 :> 0)

=============================================================================
