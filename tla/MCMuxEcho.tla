------------------------------ MODULE MCMuxEcho -----------------------------
(* Four clients and three descriptors, in one of two scenes.  "crowd": two *)
(* clients send and leave, two more connect and stay, and nobody comes     *)
(* back; who comes first of two that are alike is fixed.  "churn": one     *)
(* client sends, the two that send nothing come and go without end.        *)
EXTENDS MuxEcho, TLC

CONSTANTS c1, c2, c3, c4

VARIABLE scene

MCClients == {c1, c2, c3, c4}
MCMaxMsgs == (c1 :> 1) @@ (c2 :> 1) @@ (c3 :> 0) @@ (c4 :> 0)

MCInit == Init /\ scene \in {"crowd", "churn"}

MCNext ==
    /\ Next /\ UNCHANGED scene
    /\ CASE scene = "crowd" -> /\ pc = "down" \/ (cl'[c3] # "left" /\ cl'[c4] # "left")
                               /\ cl[c1] = "new" => cl'[c2] = "new"
                               /\ cl[c3] = "new" => cl'[c4] = "new"
         [] scene = "churn" -> cl'[c2] = "new"

MCSpec == MCInit /\ [][MCNext]_<<vars, scene>> /\ Fairness

=============================================================================
