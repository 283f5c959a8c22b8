------------------------------ MODULE ShmFifo ------------------------------
(***************************************************************************)
(* produce-consume/fifo.c, sem.c, produce.c and consume.c: processes that  *)
(* share a ring of blocks in System V shared memory, guarded by three      *)
(* System V semaphores.  Whoever finds no shared memory creates everything;*)
(* the others attach to what is there.  The kernel objects (shm, sem,      *)
(* head, payload) outlive the processes, and semop is called without       *)
(* SEM_UNDO, so a process that dies gives nothing back.                    *)
(***************************************************************************)
EXTENDS Integers, FiniteSets, Sequences

CONSTANTS
    Producers, Consumers, \* processes running produce.c and consume.c
    N,                    \* block_total, the third argument of fifo_init
    Rounds,               \* how many products each process handles (5)
    MaxCrashes            \* how many processes may be killed

ASSUME ProcsFinite == IsFiniteSet(Producers \cup Consumers)
ASSUME ProcsDisjoint == Producers \cap Consumers = {}
ASSUME SizesAssumption == N \in Nat \ {0} /\ Rounds \in Nat \ {0} /\ MaxCrashes \in Nat

VARIABLES
    warm,    \* was the FIFO set up before these processes started?
    shm,     \* does the shared memory segment exist?
    sem,     \* value of each semaphore, or Absent
    head,    \* Shmhead; zero-filled when the segment is created
    payload, \* the blocks
    pc, left,\* per process: next statement; products still to handle
    got,     \* per consumer: the product in its buffer
    nput, nget, \* how many times wr_index and rd_index were advanced
    early,   \* did somebody copy before the header was filled? (history)
    crashes

vars == <<warm, shm, sem, head, payload, pc, left, got, nput, nget, early, crashes>>

Procs == Producers \cup Consumers
Slots == 0..(N - 1)
Absent == -1
Nothing == -1

(* The semaphores in the order in which fifo_init makes and opens them:    *)
(* sem_mutex, sem_produce, sem_consume.                                    *)
Mutex == 1
Free == 2
Full == 3
Sems == {Mutex, Free, Full}
InitVal == <<1, N, 0>>

(* Program points: of fifo_init, <<name, i>> for the statement about the   *)
(* i-th semaphore or header field; of fifo_produce and fifo_consume.       *)
InitPCs == {<<"shmget", 0>>, <<"shmcreat", 0>>} \cup
           ({"create", "setval", "open"} \X Sems) \cup ({"header"} \X (1..4))
OpPCs == {"wait", "mutex", "body", "advance", "vmutex", "post"} \X {0}
EndPCs == {"done", "failed", "killed"} \X {0}

At(p, name) == pc[p] = <<name, 0>>
Goto(p, name, i) == pc' = [pc EXCEPT ![p] = <<name, i>>]
Running(p) == pc[p] \notin EndPCs

-----------------------------------------------------------------------------
(* fifo_init.                                                              *)

(* Line 13.                                                                *)
ShmGet(p) ==
    /\ At(p, "shmget")
    /\ IF shm THEN Goto(p, "open", Mutex) ELSE Goto(p, "shmcreat", 0)
    /\ UNCHANGED <<warm, shm, sem, head, payload, left, got, nput, nget, early, crashes>>

(* Line 18: IPC_CREAT without IPC_EXCL.                                    *)
ShmCreate(p) ==
    /\ At(p, "shmcreat")
    /\ shm' = TRUE
    /\ Goto(p, "create", Mutex)
    /\ UNCHANGED <<warm, sem, head, payload, left, got, nput, nget, early, crashes>>

(* Mutant: semget without IPC_EXCL opens an existing set.                  *)
sem_create_NoExcl(p, i) ==
    /\ sem' = IF sem[i] = Absent THEN [sem EXCEPT ![i] = 0] ELSE sem
    /\ Goto(p, "setval", i)

(* sem.c 13: IPC_CREAT|IPC_EXCL; a new semaphore is 0, an old one is fatal.*)
sem_create(p, i) ==
    IF sem[i] = Absent
    THEN sem' = [sem EXCEPT ![i] = 0] /\ Goto(p, "setval", i)
    ELSE UNCHANGED sem /\ Goto(p, "failed", 0)

CreateSem(p, i) ==
    /\ pc[p] = <<"create", i>>
    /\ sem_create(p, i)
    /\ UNCHANGED <<warm, shm, head, payload, left, got, nput, nget, early, crashes>>

(* Lines 35, 38, 41: after the last one, fill the header.                  *)
SetVal(p, i) ==
    /\ pc[p] = <<"setval", i>>
    /\ sem' = [sem EXCEPT ![i] = InitVal[i]]
    /\ IF i = Full THEN Goto(p, "header", 1) ELSE Goto(p, "create", i + 1)
    /\ UNCHANGED <<warm, shm, head, payload, left, got, nput, nget, early, crashes>>

(* Lines 44-50: block_size (its presence), block_total, rd_index, wr_index.*)
HeaderField == <<"sized", "block_total", "rd_index", "wr_index">>
HeaderVal == <<1, N, 0, 0>>

Header(p, i) ==
    /\ pc[p] = <<"header", i>>
    /\ head' = [head EXCEPT ![HeaderField[i]] = HeaderVal[i]]
    /\ IF i = 4 THEN Goto(p, "wait", 0) ELSE Goto(p, "header", i + 1)
    /\ UNCHANGED <<warm, shm, sem, payload, left, got, nput, nget, early, crashes>>

(* Lines 68, 70, 72: sem_open of a set that does not exist is fatal.       *)
OpenSem(p, i) ==
    /\ pc[p] = <<"open", i>>
    /\ IF sem[i] = Absent THEN Goto(p, "failed", 0)
       ELSE IF i = Full THEN Goto(p, "wait", 0) ELSE Goto(p, "open", i + 1)
    /\ UNCHANGED <<warm, shm, sem, head, payload, left, got, nput, nget, early, crashes>>

fifo_init(p) ==
    \/ ShmGet(p)
    \/ ShmCreate(p)
    \/ \E i \in Sems : CreateSem(p, i) \/ SetVal(p, i) \/ OpenSem(p, i)
    \/ \E i \in 1..4 : Header(p, i)

-----------------------------------------------------------------------------
(* fifo_produce and fifo_consume.                                          *)

sem_p(i) == sem[i] > 0 /\ sem' = [sem EXCEPT ![i] = @ - 1]
sem_v(i) == sem' = [sem EXCEPT ![i] = @ + 1]

(* Lines 86 and 110: the semaphore a process waits for first.              *)
WaitsFor(p) == IF p \in Producers THEN Free ELSE Full

(* Mutant: a consumer gives back what it took.                             *)
Posts_Same(p) == WaitsFor(p)

(* Lines 100 and 124: the semaphore it posts in the end.                   *)
Posts(p) == IF p \in Producers THEN Full ELSE Free

Wait(p) ==
    /\ At(p, "wait")
    /\ sem_p(WaitsFor(p))
    /\ Goto(p, "mutex", 0)
    /\ UNCHANGED <<warm, shm, head, payload, left, got, nput, nget, early, crashes>>

TakeMutex(p) ==
    /\ At(p, "mutex")
    /\ sem_p(Mutex)
    /\ Goto(p, "body", 0)
    /\ UNCHANGED <<warm, shm, head, payload, left, got, nput, nget, early, crashes>>

(* fifo_init has stored all of the header that it will ever store.         *)
HeaderFilled ==
    head.block_total # 0 /\ \A q \in Procs : pc[q] \notin {"header"} \X (1..4)

(* Mutant: a consumer copies the block where the next product goes.        *)
BlockOf_Write(p) == head.wr_index

(* Lines 91 and 115.                                                       *)
BlockOf(p) == IF p \in Producers THEN head.wr_index ELSE head.rd_index

(* Lines 91-94 and 115-118: memcpy of block_size bytes, none if it is 0.   *)
(* A product is known by its number.                                       *)
Copy(p) ==
    /\ At(p, "body")
    /\ Goto(p, "advance", 0)
    /\ IF p \in Producers
       THEN /\ payload' = IF head.sized = 1 THEN [payload EXCEPT ![BlockOf(p)] = nput] ELSE payload
            /\ UNCHANGED got
       ELSE /\ got' = IF head.sized = 1 THEN [got EXCEPT ![p] = payload[BlockOf(p)]] ELSE got
            /\ UNCHANGED payload
    /\ early' = (early \/ ~HeaderFilled)
    /\ UNCHANGED <<warm, shm, sem, head, left, nput, nget, crashes>>

Wrap(i) == i % head.block_total

(* Mutant: a product that was fetched stays the one to be read.            *)
Advanced_KeepsRd(p) ==
    IF p \in Producers THEN [head EXCEPT !.wr_index = Wrap(@ + 1)] ELSE head

(* Lines 96 and 120: the header with the next index.                       *)
Advanced(p) ==
    IF p \in Producers THEN [head EXCEPT !.wr_index = Wrap(@ + 1)]
    ELSE [head EXCEPT !.rd_index = Wrap(@ + 1)]

(* The division by an unset block_total is SIGFPE.                         *)
AdvanceIndex(p) ==
    /\ At(p, "advance")
    /\ IF head.block_total = 0
       THEN Goto(p, "failed", 0) /\ UNCHANGED <<head, nput, nget>>
       ELSE /\ Goto(p, "vmutex", 0)
            /\ head' = Advanced(p)
            /\ nput' = IF p \in Producers THEN nput + 1 ELSE nput
            /\ nget' = IF p \in Producers THEN nget ELSE nget + 1
    /\ UNCHANGED <<warm, shm, sem, payload, left, got, early, crashes>>

GiveMutex(p) ==
    /\ At(p, "vmutex")
    /\ sem_v(Mutex)
    /\ Goto(p, "post", 0)
    /\ UNCHANGED <<warm, shm, head, payload, left, got, nput, nget, early, crashes>>

(* Lines 100 and 124, and the loop of main.                                *)
Post(p) ==
    /\ At(p, "post")
    /\ sem_v(Posts(p))
    /\ left' = [left EXCEPT ![p] = @ - 1]
    /\ IF left[p] = 1 THEN Goto(p, "done", 0) ELSE Goto(p, "wait", 0)
    /\ UNCHANGED <<warm, shm, head, payload, got, nput, nget, early, crashes>>

fifo_op(p) ==
    Wait(p) \/ TakeMutex(p) \/ Copy(p) \/ AdvanceIndex(p) \/ GiveMutex(p) \/ Post(p)

(* A process is killed: the kernel gives back nothing it holds.            *)
Crash(p) ==
    /\ Running(p) /\ crashes < MaxCrashes
    /\ crashes' = crashes + 1
    /\ Goto(p, "killed", 0)
    /\ UNCHANGED <<warm, shm, sem, head, payload, left, got, nput, nget, early>>

-----------------------------------------------------------------------------
(* Either nothing exists (rm.sh), or an earlier fifo_init made everything. *)
Init ==
    /\ warm \in BOOLEAN
    /\ shm = warm
    /\ sem = [i \in Sems |-> IF warm THEN InitVal[i] ELSE Absent]
    /\ head = IF warm THEN [sized |-> 1, block_total |-> N, rd_index |-> 0, wr_index |-> 0]
              ELSE [sized |-> 0, block_total |-> 0, rd_index |-> 0, wr_index |-> 0]
    /\ payload = [s \in Slots |-> Nothing]
    /\ pc = [p \in Procs |-> <<"shmget", 0>>]
    /\ left = [p \in Procs |-> Rounds]
    /\ got = [c \in Consumers |-> Nothing]
    /\ nput = 0 /\ nget = 0 /\ early = FALSE
    /\ crashes = 0

Next == \E p \in Procs : fifo_init(p) \/ fifo_op(p) \/ Crash(p)

(* The kernel schedules every process; nobody is forced to be killed.      *)
Fairness == \A p \in Procs : WF_vars(fifo_init(p) \/ fifo_op(p))

Spec == Init /\ [][Next]_vars /\ Fairness

-----------------------------------------------------------------------------
(* Types; the indices address a block.                                     *)
TypeOK ==
    /\ warm \in BOOLEAN /\ shm \in BOOLEAN /\ sem \in [Sems -> Nat \cup {Absent}]
    /\ head \in [sized : {0, 1}, block_total : {0, N}, rd_index : Slots, wr_index : Slots]
    /\ payload \in [Slots -> Nat \cup {Nothing}]
    /\ pc \in [Procs -> InitPCs \cup OpPCs \cup EndPCs]
    /\ left \in [Procs -> 0..Rounds]
    /\ got \in [Consumers -> Nat \cup {Nothing}]
    /\ nput \in Nat /\ nget \in Nat /\ early \in BOOLEAN /\ crashes \in 0..MaxCrashes

(* In a FIFO that nobody used before its header was filled: the block at   *)
(* wr_index, where a producer is about to copy, holds no product that is   *)
(* still to be fetched, the block at rd_index holds the oldest such        *)
(* product when a consumer is about to copy it, and this is the product it *)
(* has when it advances rd_index; wherever others were killed.             *)
NothingOverwritten ==
    ~early => \A p \in Procs :
        /\ p \in Producers /\ At(p, "body") => payload[head.wr_index] \notin nget..(nput - 1)
        /\ p \in Producers /\ At(p, "advance") => payload[head.wr_index] = nput
        /\ p \in Consumers /\ At(p, "body") => nget < nput /\ payload[head.rd_index] = nget
        /\ p \in Consumers /\ At(p, "advance") => nget < nput /\ got[p] = nget

(* The processes that are setting the FIFO up.                             *)
Creating == {p \in Procs : pc[p] \in ({"setval"} \X Sems) \cup ({"create"} \X {Free, Full})
                                       \cup ({"header"} \X (1..4))}

(* One process at a time is inside the warehouse (readme.md, line 12),     *)
(* wherever others were killed, and the indices address a block.  Two      *)
(* processes that both found no shared memory never both set it up: the    *)
(* loser dies at sem_create, before it can reset a semaphore.              *)
OneInside ==
    /\ TypeOK
    /\ Cardinality({p \in Procs : pc[p] \in {"body", "advance", "vmutex"} \X {0}}) <= 1
    /\ Cardinality(Creating) <= 1

(* The products: the blocks from rd_index on, as many as were put in and   *)
(* not yet taken out.  A FIFO used too early is not looked at.             *)
Products == IF early THEN <<>>
            ELSE [k \in 1..(nput - nget) |-> payload[(head.rd_index + k - 1) % N]]

Warehouse == INSTANCE BoundedBuffer
    WITH Capacity <- N, queue <- Products, produced <- IF early THEN 0 ELSE nput,
         Ids <- Rounds * Cardinality(Producers) + 1

(* The consumer that advances rd_index has fetched the oldest product.     *)
TakesOldest ==
    \A c \in Consumers : At(c, "advance") /\ pc'[c] = <<"vmutex", 0>> /\ ~early =>
        Products # <<>> /\ got[c] = Head(Products) /\ Products' = Tail(Products)

(* Unless somebody used it before its header was filled, the ring between  *)
(* rd_index and wr_index implements the bounded warehouse, and what a      *)
(* consumer has in its buffer is what was taken out of it, even when       *)
(* processes are killed between any two statements.                        *)
ImplementsWarehouse == Warehouse!Spec /\ [][TakesOldest]_vars

(* With as many consumers as producers, in a FIFO that was set up and with *)
(* nobody killed, everybody gets done.                                     *)
EverybodyDone == warm /\ [](crashes = 0) => <>(\A p \in Procs : At(p, "done"))

=============================================================================
