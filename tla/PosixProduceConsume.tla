------------------------ MODULE PosixProduceConsume ------------------------
(***************************************************************************)
(* produce-consume/posix-produce-consume.c: producer and consumer threads  *)
(* over a ring of BUFFER_ELEMENTS ints, guarded by two counting semaphores *)
(* and a mutex.  Every access to shared memory between lock and unlock is  *)
(* a step of its own, so that the mutex has something to protect.          *)
(*                                                                         *)
(* main creates the threads one after the other; a thread that does not    *)
(* exist yet is one that has not been scheduled yet.                       *)
(***************************************************************************)
EXTENDS Integers, FiniteSets, Sequences

CONSTANTS
    Producers, Consumers, \* the threads
    N,                    \* BUFFER_ELEMENTS
    Ids                   \* product ids are kept modulo Ids; more than N

ASSUME ThreadsAssumption == IsFiniteSet(Producers \cup Consumers) /\ Producers \cap Consumers = {}
ASSUME BufferNonEmpty == N \in Nat \ {0}
ASSUME IdsEnough == Ids \in Nat /\ Ids > N

Threads == Producers \cup Consumers
None == "none"

ASSUME NoneIsNoThread == None \notin Threads

VARIABLES
    buf, rd_index, wr_index, produce_id,
    sem_produce, sem_consume,
    mutex, \* the thread that holds it, or None
    pc     \* the next statement of each thread

vars == <<buf, rd_index, wr_index, produce_id, sem_produce, sem_consume, mutex, pc>>

Slots == 0..(N - 1)
Empty == -1

(* sem_wait, mutex_lock, buf[..] = .., index = .., mutex_unlock, sem_post. *)
PCs == {"sem", "lock", "body", "advance", "unlock", "post"}
Critical == {t \in Threads : pc[t] \in {"body", "advance", "unlock"}}

Go(t, from, to) == pc[t] = from /\ pc' = [pc EXCEPT ![t] = to]

-----------------------------------------------------------------------------
(* Mutant: the lock does not exclude.                                      *)
pthread_mutex_lock_Broken(t) == mutex' = t

pthread_mutex_lock(t) == mutex = None /\ mutex' = t

Lock(t) ==
    /\ Go(t, "lock", "body")
    /\ pthread_mutex_lock(t)
    /\ UNCHANGED <<buf, rd_index, wr_index, produce_id, sem_produce, sem_consume>>

Unlock(t) ==
    /\ Go(t, "unlock", "post")
    /\ mutex' = None
    /\ UNCHANGED <<buf, rd_index, wr_index, produce_id, sem_produce, sem_consume>>

(* Lines 85 and 141.                                                       *)
Advance(i) == (i + 1) % N

-----------------------------------------------------------------------------
(* handle_consume.  Lines 63-79 only print, line 79 a wrong number: it     *)
(* takes produce_id for the id of the product in the slot.                 *)

WaitConsume(c) ==
    /\ Go(c, "sem", "lock")
    /\ sem_consume > 0
    /\ sem_consume' = sem_consume - 1
    /\ UNCHANGED <<buf, rd_index, wr_index, produce_id, sem_produce, mutex>>

Clear(c) ==
    /\ Go(c, "body", "advance")
    /\ buf' = [buf EXCEPT ![rd_index] = Empty]
    /\ UNCHANGED <<rd_index, wr_index, produce_id, sem_produce, sem_consume, mutex>>

AdvanceRead(c) ==
    /\ Go(c, "advance", "unlock")
    /\ rd_index' = Advance(rd_index)
    /\ UNCHANGED <<buf, wr_index, produce_id, sem_produce, sem_consume, mutex>>

PostProduce(c) ==
    /\ Go(c, "post", "sem")
    /\ sem_produce' = sem_produce + 1
    /\ UNCHANGED <<buf, rd_index, wr_index, produce_id, sem_consume, mutex>>

handle_consume(c) ==
    WaitConsume(c) \/ Lock(c) \/ Clear(c) \/ AdvanceRead(c) \/ Unlock(c) \/ PostProduce(c)

-----------------------------------------------------------------------------
(* handle_produce.                                                         *)

WaitProduce(p) ==
    /\ Go(p, "sem", "lock")
    /\ sem_produce > 0
    /\ sem_produce' = sem_produce - 1
    /\ UNCHANGED <<buf, rd_index, wr_index, produce_id, sem_consume, mutex>>

Store(p) ==
    /\ Go(p, "body", "advance")
    /\ buf' = [buf EXCEPT ![wr_index] = produce_id]
    /\ produce_id' = (produce_id + 1) % Ids
    /\ UNCHANGED <<rd_index, wr_index, sem_produce, sem_consume, mutex>>

AdvanceWrite(p) ==
    /\ Go(p, "advance", "unlock")
    /\ wr_index' = Advance(wr_index)
    /\ UNCHANGED <<buf, rd_index, produce_id, sem_produce, sem_consume, mutex>>

(* Mutant: the consumers are not told of the product.                      *)
PostConsume_Missing(p) ==
    /\ Go(p, "post", "sem")
    /\ UNCHANGED <<buf, rd_index, wr_index, produce_id, sem_produce, sem_consume, mutex>>

PostConsume(p) ==
    /\ Go(p, "post", "sem")
    /\ sem_consume' = sem_consume + 1
    /\ UNCHANGED <<buf, rd_index, wr_index, produce_id, sem_produce, mutex>>

handle_produce(p) ==
    WaitProduce(p) \/ Lock(p) \/ Store(p) \/ AdvanceWrite(p) \/ Unlock(p) \/ PostConsume(p)

-----------------------------------------------------------------------------
(* Mutant: one slot too many.                                              *)
FreeSlots_OffByOne == N + 1

(* Line 162.                                                               *)
FreeSlots == N

(* main, lines 159-169.                                                    *)
Init ==
    /\ buf = [i \in Slots |-> Empty]
    /\ rd_index = 0 /\ wr_index = 0 /\ produce_id = 0
    /\ sem_produce = FreeSlots /\ sem_consume = 0
    /\ mutex = None
    /\ pc = [t \in Threads |-> "sem"]

Next == (\E c \in Consumers : handle_consume(c)) \/ (\E p \in Producers : handle_produce(p))

(* Every thread is scheduled; a thread that can take a semaphore or the    *)
(* mutex from some point on eventually takes it.                           *)
Fairness ==
    /\ \A c \in Consumers : WF_vars(handle_consume(c))
    /\ \A p \in Producers : WF_vars(handle_produce(p))

Spec == Init /\ [][Next]_vars /\ Fairness

-----------------------------------------------------------------------------
(* Types; in particular the indices stay within the buffer.                *)
TypeOK ==
    /\ buf \in [Slots -> (0..(Ids - 1)) \cup {Empty}]
    /\ rd_index \in Slots /\ wr_index \in Slots
    /\ produce_id \in 0..(Ids - 1)
    /\ sem_produce \in Nat /\ sem_consume \in Nat
    /\ mutex \in Threads \cup {None}
    /\ pc \in [Threads -> PCs]

(* Whoever works on the warehouse holds the mutex.                         *)
MutualExclusion == Critical = IF mutex = None THEN {} ELSE {mutex}

(* A slot is free, full, or on its way in the hands of one thread: the two *)
(* semaphores and the threads between wait and post account for all of N,  *)
(* and one thread at a time works on the warehouse (readme.md, line 12).   *)
TokensConserved ==
    /\ TypeOK /\ MutualExclusion
    /\ sem_produce + sem_consume + Cardinality({t \in Threads : pc[t] # "sem"}) = N

(* The products now in the buffer, oldest first: a consumer that cleared   *)
(* its slot has not moved rd_index yet.                                    *)
Front == IF \E c \in Consumers : pc[c] = "advance" THEN Advance(rd_index) ELSE rd_index
Stored == Cardinality({i \in Slots : buf[i] # Empty})
Contents == [k \in 1..Stored |-> buf[(Front + k - 1) % N]]

Warehouse == INSTANCE BoundedBuffer
    WITH Capacity <- N, queue <- Contents, produced <- produce_id

(* The ring implements the bounded FIFO warehouse.                         *)
ImplementsWarehouse == Warehouse!Spec

(* No product stays in the warehouse for ever.                             *)
ProductsConsumed == \A i \in Slots : buf[i] # Empty ~> buf[i] = Empty

=============================================================================
