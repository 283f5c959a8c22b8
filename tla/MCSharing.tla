----------------------------- MODULE MCSharing -----------------------------
(* The two programs whose processes share kernel objects and memory, each  *)
(* on its own from the start: the FIFO of fifo.c with two producer and two *)
(* consumer processes over two blocks, or multicopy.c with a few processes *)
(* and a file of a few bytes.                                              *)
EXTENDS ShmFifo

CONSTANTS p1, p2, c1, c2, CopyN, Size

VARIABLES running, offset, dest, cpc, i, clean

TwoProducers == {p1, p2}
TwoConsumers == {c1, c2}

Multi == INSTANCE MultiCopy WITH N <- CopyN, pc <- cpc

ASSUME CopySizes == Multi!CopyConstants

cvars == <<offset, dest, cpc, i, clean>>

(* A FIFO that does not run is the one that was set up before.             *)
MCInit ==
    /\ running \in {"fifo", "multicopy"}
    /\ Init /\ Multi!Init
    /\ running # "fifo" => warm

MCNext ==
    \/ running = "fifo" /\ Next /\ UNCHANGED <<running, cvars>>
    \/ running = "multicopy" /\ Multi!Next /\ UNCHANGED <<running, vars>>

(* The fairness of ShmFifo while it runs; MultiCopy states none.           *)
MCFairness == \A p \in Procs : WF_vars(running = "fifo" /\ (fifo_init(p) \/ fifo_op(p)))

MCSpec == MCInit /\ [][MCNext]_<<running, vars, cvars>> /\ MCFairness

(* fifo.c: with as many consumers as producers, in a FIFO that was set up  *)
(* and with nobody killed, everybody gets done.                            *)
ProcessesDone == running = "fifo" => EverybodyDone

(* multicopy.c: the ranges of the processes do not overlap.                *)
WrittenOnce == Multi!WrittenOnce

(* multicopy.c: without interference between lseek and read the copy is    *)
(* exact, and the parent returns after every child was reaped.             *)
UndisturbedCopyExact == Multi!UndisturbedCopyExact

=============================================================================
