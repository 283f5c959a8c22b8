------------------------------ MODULE MCBPTree ------------------------------
(* Small instances of BPTree. *)
EXTENDS BPTree

Descending(n) == [i \in 1..n |-> n - i]
Ascending(n) == [i \in 1..n |-> i - 1]
MCKeys == 0..23
MCLoads == {<<7>>, Descending(14), Descending(23), Ascending(24)}
=============================================================================
