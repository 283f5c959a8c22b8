--------------------------- MODULE BoundedBuffer ---------------------------
(***************************************************************************)
(* What the bounded warehouses of process/ipc/codes/produce-consume        *)
(* promise (readme.md, section 1): at most Capacity products, taken out in *)
(* the order they were put in, each exactly once.  Products are numbered   *)
(* in the order of production, modulo Ids.                                 *)
(***************************************************************************)
EXTENDS Naturals, Sequences

CONSTANTS Capacity, Ids

VARIABLES
    queue,   \* the products in the warehouse, oldest first
    produced \* the number of the next product

Init == queue = <<>> /\ produced = 0

Put ==
    /\ Len(queue) < Capacity
    /\ queue' = Append(queue, produced)
    /\ produced' = (produced + 1) % Ids

Get ==
    /\ queue # <<>>
    /\ queue' = Tail(queue)
    /\ UNCHANGED produced

Next == Put \/ Get

Spec == Init /\ [][Next]_<<queue, produced>>

=============================================================================
