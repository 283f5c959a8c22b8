# TLA+ models of the programs in computer_science_notes

The repository is a collection of notes with small complete programs beside
them: C programs on System V and POSIX inter-process communication, threads and
sockets, Python programs on threads and servers, and a B+ tree in C++. What
they have in common, and what is hard to test in them, is concurrency: threads
on a condition variable, processes on shared memory and semaphores that outlive
them, signal handlers, servers that fork. This directory models them in TLA+,
checks the models with TLC and proves theorems about them with TLAPS.

Paths below are relative to `src/process/ipc/codes/` unless they start with
`network/`, `thread/` with a Python file, or `data_structure/`.

## 1. Inventory

| Part | State it keeps | Operations | What is hard |
|---|---|---|---|
| `threadpool/` | linked task list, `count`, `idle`, `quit`, one mutex and condition variable | worker loop, `threadpool_add_task`, `threadpool_destroy`, `main` as the client | timeouts that race with signals, two kinds of waiters on one condition variable, counters read by one side to decide about the other, the process ending under its threads |
| `produce-consume/posix-produce-consume.c` | ring, two indices, two semaphores, a mutex | producer and consumer threads | the accesses inside the critical section, semaphores that must agree with the ring |
| `produce-consume/fifo.c`, `sem.c`, `produce.c`, `consume.c` | ring and header in shared memory, three System V semaphores | `fifo_init`, `fifo_produce`, `fifo_consume` | several processes that create at once, attaching to what is half made, dying with a semaphore taken |
| `produce-consume/cond-produce-consume.c` | a counter, mutex, condition variable | producers, consumers | lost wake-ups, a woken consumer overtaken by another |
| `dinner/dinner.c` | a semaphore per fork | philosophers | deadlock, forks of a dead process |
| `multicopy/multicopy.c` | destination mapping, the source's file offset | fork loop, `lseek`+`read`, `wait` loop | one file offset shared by all processes |
| `network/socket/codes/mq-echo/` | one message queue of two messages | server, clients | requests and answers in one queue, answers to dead clients |
| `posix-mq/mq-notify.c`, `mq-send.c` | a POSIX queue, a one-shot registration | signal handler, senders | a message between signal, registration and receive |
| `network/socket/codes/echo/server.c`, `client.c` | connections, descriptors per process, children, SIGCHLD | accept, fork, handler, echo, client | signals that do not queue, inherited descriptors, failing fork, short reads |
| `print/`, `semtool/`, `mmap-ipc/`, `shm-rw/`, `shared-rw/`, `posix-shm/`, `interface/`, `thread/` | one kernel object each | one call per program | little; see section 7 |
| `network/socket/codes/{chat,fixed-length,readline}` | two processes per side, a byte stream, a record buffer | keyboard and socket loops, `readn`, `writen`, `recv_peek`, `readline`, SIGUSR1 | either side or either process ending first, short reads and writes, a line as long as the buffer |
| `network/socket/codes/echo/{select,poll,epoll,shutdown}_server.c`, `{select,shutdown}_client.c` | client table, `max_pos`, ready set and its count, one buffer | accept, read, echo in one process | stale or uninitialised readiness, one client's failure ending the service, leftovers in the buffer |
| `network/socket/codes/epoll-reactor/epoll.c` | event table with call-backs, time of last activity | `acceptconn`, `recvdata`, `senddata`, the sweep | entries that change hands, full table, time-outs, short sends, a terminator written over `len` |
| `thread/*.py` at the top of the repository | locks, a flag, a counter, a queue | thread bodies | a home-made lock, lock order, time-outs, a size that is stale when used |
| `data_structure/bptree.cpp` | a file of nodes | `build`, `insert`, `query`, `remove` | splitting, borrowing and merging on the way down, separators that must stay exact |
| `network/udp/tftp`, `network/socket/codes/udp-echo` | block number, file | request, data, acknowledgement | lost and duplicated datagrams |
| `network/tcp`, `network/http`, `coroutine`, `mqtt`, ... | little | one handler each | section 7 |

The programs are independent of each other. Within one, the parts interact
through the state named above; there are no calls between rows. `sem.c` is
shared by `produce.c` and `consume.c` only.

`PROJECT.json` repeats this list under `components`, with the hazards at their
lines and the source lines each definition models under `map`.

## 2. Modules

| Module | Models | Actions and the code they stand for |
|---|---|---|
| `ThreadPool` | `threadpool.c`, `condition.c`, `main.c` | a worker's critical sections (`LoopTop`, `Woken`, `TimedOut`, `Relock`), `RunTask`, `Timeout`, `SpuriousWakeup`, `threadpool_add_task`, `threadpool_destroy`, `DestroyWoken`, `MainReturns` |
| `BoundedBuffer` | abstract | what a bounded warehouse promises: `Put` and `Get` on a FIFO of limited size |
| `PosixProduceConsume` | `posix-produce-consume.c` | one action per statement that touches shared state |
| `ShmFifo` | `fifo.c`, `sem.c`, `produce.c`, `consume.c` | one action per kernel call or shared store; `Crash` kills a process between any two |
| `CondProduceConsume` | `cond-produce-consume.c` | `Produce`, `Consume` (a critical section each), the sleeps, `SpuriousWakeup` |
| `Dinner` | `dinner.c` | `GetHungry`, `wait_for_forks`, `return_forks`, `Kill` |
| `MultiCopy` | `multicopy.c` | `Fork`, `ForkFails`, `Seek`, `Read`, `Wait`, `Return` |
| `MqEcho` | `mq-echo/server.c`, `client.c` | receive and send of both sides, end of input, `Kill` |
| `MqNotify` | `mq-notify.c`, `mq-send.c` | `mq_send`, `Start`, `Signal`, `Reregister`, `Receive` |
| `ForkEcho` | `echo/server.c`, `echo/client.c` | the parent's statements, the three phases of the handler, a child's read, write and exit, the client's calls |
| `PyLocks` | the seven programs of `thread/` on shared data | each program is the sequence of steps of its threads; one action per kind of step |
| `Chat` | `chat`, `fixed-length`, `readline` | `recv_keyboard`, `writen`, `recv_socket` by `ReadRaw`, `readn` or `readline`, `SeesEnd`, `SeesError`, `handle_sigusr1`, end of input, ^C, SIGPIPE; a failed `fork` leaves a parent without a child from the start |
| `MuxEcho` | the multiplexing servers and their clients | `Wait`, `Accept`, `Read`, `ReadEnd`, `ReadFails`, `Write`, `AcceptFails`; the clients' `Connect` (again after `Leave`, for those in `Returning`), `Send`, `Receive`, `Leave`, `ServerClosed` |
| `Reactor` | `epoll-reactor/epoll.c` | `SweepIdle`, `epoll_wait`, `acceptconn`, `recvdata`, `senddata`, `AcceptFails`, `BrokenPipe`, `WaitFails` (the exit when `epoll_wait` is interrupted); `Tick` and the clients |
| `BPTree` | `data_structure/bptree.cpp` | `Load`, `InsertKey`, `RemoveKey`: whole calls; `insert`, `split`, `query`, `remove` with its cases A to Q are operators on the file |

| Proof module | Extends | Proves about |
|---|---|---|
| `ThreadPoolProofs` | `ThreadPool` | the pool: types, counters, list, order of tasks |
| `ThreadsProofs` | `MCThreads` | the ring of threads: semaphores, implementation of `BoundedBuffer`; `CondProduceConsume`: no lost wake-up; `PyLocks`: no lost addition, nobody stuck |
| `ShmFifoProofs` | `ShmFifo` | the ring of processes: exclusion, nothing overwritten |
| `MultiCopyProofs` | `MCSharing` | `MultiCopy`: ranges, exact copy |
| `ProcessesProofs` | `MCProcesses` | `Dinner`, `MqNotify`, `MqEcho` |
| `ChatProofs` | `Chat` | the chat in its three framings: what is printed, why a child leaves |
| `MuxEchoProofs` | `MuxEcho` | the multiplexing servers: no blocking, own data, reasons to exit |
| `ReactorProofs` | `Reactor` | the reactor: order of the echo, reasons to close |

Three `MC` modules put together programs of one kind, so that one run checks
them: `MCThreads` (`PosixProduceConsume`, `CondProduceConsume`, `PyLocks`),
`MCSharing` (`ShmFifo`, `MultiCopy`), `MCProcesses` (`Dinner`, `MqEcho`,
`MqNotify`, `ForkEcho`). The programs do not interact: `running` picks one at
the start and only its actions happen, so the states are those of the programs
one by one. The fairness of the sum is the fairness of each module while its
program runs. The sets and sizes of the programs (`CondConsumers`, `EchoClients`,
`CopyN`, ...) are constants of the `MC` modules and get their small values in the
configurations only. A proof about a program that such a module instantiates
extends the `MC` module, so that it speaks of the very definition the run
checks, and holds for any value of these constants that satisfies the predicate
the component states about them (`CondConstants`, `PyConstants`, `EchoConstants`,
`NotifyConstants`, `CopyConstants`), which the `MC` module assumes and TLC
evaluates.

Three variants of a program are one module where they differ in a few places:
`Chat` has the framing as `mode`, `MuxEcho` the readiness call as `kind`,
`PyLocks` the program. The copies of a function in `server.c` and `client.c` of
`chat`, `fixed-length` and `readline` are the same but for comments; `map`
names one copy for each definition, and `Parent`, `Child` and `Become` the
places where the programs are put together. `shutdown_server.c` is
`select_server.c` with a pause between read and write, which the model has
anyway.

Two modules are INSTANCEs of one abstract specification: `PosixProduceConsume`
and `ShmFifo` both implement `BoundedBuffer`, with the products in the ring, in
ring order from the reading index on, as its queue. In `ShmFifo` a product is
known by its number, the history variables `nput` and `nget` count how often
`wr_index` and `rd_index` were advanced, and `early` records that somebody
copied while `fifo_init` was still to store a field of the header.

**What is one step.** Where every access to the shared fields is under one
mutex (`ThreadPool`, `CondProduceConsume`) a critical section is one step, and
waiting on the condition variable ends it. Where the mutex itself is what has to
be shown right (`PosixProduceConsume`, `ShmFifo`) every statement is a step. A
system call is a step where the kernel makes it one (`semop` on two semaphores,
`read` on a regular file, `msgrcv`).

**Definitions with a suffix** (`FreeSlots_OffByOne`, `LastOut_Late`) are plausible
bugs in the definition they precede. Nothing uses them; putting one in
place of its original must make a property fail, which shows that the property
depends on that piece of code.

## 3. Runs

| Run | Bounds | What it shows |
|---|---|---|
| `threadpool` | 3 thread slots, at most 2 threads, 4 tasks | `CountersMatch`, `NoStrandedTask`, `ListIntact`, `FifoOnce`: however time-outs, signals and spurious wake-ups fall, the counters are exact, a queued task has a thread, the list is well formed and tasks start once and in order. `TasksRun`, `DestroyReturns`: every task is run, and a destroy that waits returns |
| `threadpool_destroy` | 2 slots, 2 threads, 3 tasks | violation: with one idle and one busy thread, destroy does not wait |
| `threads` | 3 producers, 2 consumers, 3 slots; 2 producers, 3 consumers, at most 4 products; the Python programs with 2 and 3 additions, 3 consumers and 2 producers | ring: `TokensConserved` (semaphores account for every slot, one thread inside), refinement of `BoundedBuffer`, every product consumed. Condition variable: no lost wake-up, no consumption from an empty warehouse, waiting consumers served. Python: `UpdatesKept` (the mutex keeps every addition; the home-made lock does unless both threads passed its test), `StuckOnlyInEmbrace` (only `deadlock.py` gets stuck, in the one way, and no consumer ever finds the queue empty), `EndsOrGoesRound` |
| `sharing` | 2 producers, 2 consumers, 2 blocks, 2 products each, one death, with and without a FIFO at the start; 4 copying processes, 9 bytes | `OneInside`: the survivors of a death may block, but two are never inside and at most one process sets up the FIFO. Unless somebody copied before the header was filled (section 4, item 6): `NothingOverwritten` (the block at `wr_index` holds nothing still to be fetched when a producer copies into it, the one at `rd_index` the oldest product when a consumer copies it), and `ImplementsWarehouse` (refinement of `BoundedBuffer`; what a consumer has in its buffer is what was taken out). In a FIFO that was set up everybody is done if nobody is killed. Copy: ranges disjoint and complete, parent leaves last |
| `multicopy_faithful` | 2 processes, 5 bytes | violation: the copy differs from the source |
| `processes` | 5 philosophers, one killed; 3 clients, queue of 2, two killed; queue of 3, 12 messages; 2 clients, 2 lines of 2 units | forks are exclusive and a hungry philosopher eats, or a living neighbour does, or the victim is next to it; mq-echo: one message under way per waiting client, own text back, the documented deadlock is the only way not to be answered and takes more clients than the queue holds messages; mq-notify: the handler never blocks, the registration is neither lost nor doubled; forking server: zombies reaped, waiting clients answered or told the end, connections let go of |
| `mq_notify_all` | the session of the readme, 4 messages | violation: not all messages are received |
| `chat` | buffers of 3 units, lines of 2 to 4, two lines one way and one the other, in each of the three framings | `RecordsKept`: what is printed is what was typed, in the units the framing promises. `LeavesForReason`: a child ends the conversation only when the peer has gone - or, in `readline`, when a line was longer than the buffer. `EndsTogether`: when one side has left, both processes of the other end, except a parent whose child failed on an error or was never made, `fork` having failed |
| `mux_echo` | 4 clients, 3 descriptors, buffers of 2 units, each kind of server; two scenes: a crowd of four clients that come once, or one client beside two that connect and leave without end | `NeverBlocks`: `poll_server`, which reads an uninitialised `revents`, never blocks in `read`, thanks to its counting down of `nready`. `OwnDataBack`: what goes to a client is its own, or, after a short read, leftovers (zeroes in `epoll_server`). `DownForReason`: the service ends only for a client that left before it was answered or for want of a descriptor. `EverybodyServed`: what a connected client writes is read and answered in full, unless rounds are dropped for ever before they come to its entry |
| `reactor` | 3 clients, 2 entries swept one at a time, descriptors for 2 or 3 connections, buffers of 2 units | `EchoedInOrder`, `ClosedForReason`, `IdleClosed`: entries change hands, tables fill up and sends are short, but a client is sent only its own data in order, is closed for a reason of its own, and a silent one is closed in the end; the reactor ends only for a client that left unanswered, or when `epoll_wait` was interrupted |
| `bptree` | `MAX_KEY` 5 as in the code, trees of up to 24 keys and three levels, then any 3 calls | `QueryCorrect`: queries answer as a dictionary that went through the same calls; `TreeSound`: keys ordered, leaves equally deep and chained, separators exact, nodes filled, and only an empty tree makes `remove` recurse for ever - all this unless some `remove` went through case F at the first key of a node (section 4) |
| `bptree_stray` | the same trees, one call | violation: a key in a leaf that the search does not reach |

**Why the bounds are enough.** Each is the smallest instance in which the
interesting case happens, and one more: more tasks than threads and a slot to
spare for a thread that is created while another leaves; a ring that wraps; more
products than consumers; more clients than messages in the queue; two deaths
on one signal; a line that comes back in two parts; a remainder in the copy; lines
shorter than the buffer, as long and longer; more clients than descriptors and
more connections than table entries; trees deep enough for every case A to Q. The
constants of `producer_consumer.py` keep their relation, consumers together
eating no more than the limit they look at, at its edge. `Ids`
(product numbers modulo a value larger than the ring), `MaxTotal`, `MaxSends`,
`MaxLines`, `MaxMsgs`, `MaxUnits`, `Leavers`, `Returning`, `MaxOps`, `MaxKills` and `MaxCrashes` are bounds of the models, not of
the code.

**CHECK_DEADLOCK FALSE** stands only in configurations of programs that end or
whose clients may all be gone, or (ShmFifo with deaths) that really block; there
the properties say what may block. In `MCThreads` and `MCProcesses` deadlock is
checked: only programs that may really stop, the Python ones and those that
wait for users, stutter by an explicit disjunct.

**Fairness.** Weak fairness of each thread or process: the kernel schedules it,
and a sleep ends. Nothing is assumed of users (typing, connecting, running
`mq-send`), of failures (`ForkFails`, `AcceptFails`), of deaths or of spurious
wake-ups. No strong fairness is used: a semaphore may be taken by others again
and again, and the liveness properties hold all the same. The exception is what
`Progress` of `Dinner` does not claim: that a particular philosopher eats.
`Chat`, `MuxEcho` and `Reactor` are fair to the programs' own processes, to time
(`Tick`) and to clients that receive, not to users who type, connect,
leave or come back, nor to what interrupts `epoll_wait`.
In `ForkEcho` a pending signal is delivered eventually; in `MqNotify` the
counterexample is one in which the process runs whenever it can.

**The network of the socket models** is a loopback connection: data arrive at
once and in order, in any pieces; closing with unread data, or being sent data
after closing, resets the connection at once; the first call after a reset fails
and the next write raises SIGPIPE. Socket buffers do not fill up.

## 4. Disagreements with the documentation

Shown by a run:

1. `threadpool_destroy` waits only in the `else` of `if (idle > 0)`; the readme
   has the wait as a step of its own. With an idle and a busy thread it returns
   at once and `main` ends the process under the running task.
2. `multicopy.c` treats the offset of the source as private to each process; it
   is shared after `fork`.
3. `mq-notify` does not receive all messages of the readme's session when two
   arrive close together.

4. `remove` of the B+ tree, case F: the key to remove is a separator, the first
   of its node, and the inner child before it has no key to spare. Line 525
   replaces the separator by its predecessor; borrowing from the right sibling
   (617) or merging with it (647) then moves that predecessor into the child, and
   the recursion goes past it into what came from the sibling. The key is not
   found there and stays in its leaf, which the search no longer reaches,
   against the comment in line 704. `misled` records that it happened. Whether
   the sequence of calls in `main` runs into it was not examined.

Met while modelling:

5. A consumer in `posix-produce-consume.c` prints `produce_id` (line 79), the
   number of the next product, as the one it consumes. Nothing depends on it.
6. `fifo_init` opens semaphores that its comments (lines 67-71) call initialised
   while their creator may not have got there. A process that attaches then can
   pass the semaphores before `block_size` is stored and copy 0 bytes, or be
   killed by the division by `block_total` (lines 96, 120), or store a product
   whose index the creator resets (lines 48, 50), so that the next producer
   overwrites it. `NothingOverwritten` and `ImplementsWarehouse` are therefore
   stated for a FIFO that nobody used so early (`early`); without that condition
   TLC violates both. `OneInside` is stated without it.
7. `threadpool_destroy` does not repeat its wait, so a spurious wake-up ends it
   early (`SpuriousWakeup` of `ThreadPool`).
8. `readline` takes a line longer than its buffer for the end of the conversation
   (`LeavesForReason`); `chat` prints what lies behind a full buffer
   (`RecordsKept`); a child that fails on an error leaves its parent reading the
   keyboard, and so does `fork() = -1`, which `main` does not test: the parent
   sends what is typed and never learns that the peer has left (`EndsTogether`).
9. The multiplexing servers write the whole buffer after a short read, and
   `select_server.c` never clears `allset`, so that its count of events can be
   one out and `read` may block (`NeverBlocks` excepts it). All three leave the
   round when a client has left (`select_server.c:188`, `poll_server.c:182`), so
   that clients who come and go in the entries before a connection can starve
   it. `EverybodyServed` excepts only this: for `select` and `poll` ends in
   entries before it, for `epoll`, whose order of events is open, any ends.
10. The reactor loses a connection accepted into a full table or whose `fcntl`
   fails (`IdleClosed` excepts it), leaves its loop when `epoll_wait` is
   interrupted (`epoll.c:251`; being stopped and continued is enough), ends by
   SIGPIPE when it sends on a connection reset before, forgets what a short
   `send` left, and closes a connection whose data filled the buffer, since
   the terminator falls on `len` (`ClosedForReason`, `EchoedInOrder`).

The deadlock of `mq-echo` is documented in its readme, so it is not on this
list: the model shows when it happens (`Stuck`) and that nothing else does.

## 5. Proofs

`tlapm` checks these for every value of the constants.

`ThreadPoolProofs`, from the assumptions that `Workers` is finite, `MaxThreads`
positive and `NumTasks` a natural number:

* `PoolInv == TypeOK /\ CountersMatch /\ NoStrandedTask` is inductive. The parts
  need each other: `idle` and `count` stay natural numbers only because they
  are the sizes of the sets of idling and of live threads, and a decrement
  happens in a thread that is in its set. `NoStrandedTask` follows the one place
  where a thread leaves, which requires an empty list, and the one place
  where a task is added, which finds `count > 0` or creates a thread or ends the
  process. From it: `TypeCorrect`, `CountersCorrect`, `TasksHaveThreads`.
* `ListInv` adds that tasks are created in order, `ListIntact` and `OneRunner`.
  As far as tasks are concerned a step takes the head, finishes a running task,
  appends one, or does nothing (`StepKinds`); each is treated by a lemma. From
  it: `ListCorrect`, `RunnersExclusive` and, as an action property,
  `TasksInOrder`.

`ThreadsProofs`, the ring, for a finite set of threads, any ring of at least one
slot, and product numbers that go round later than the ring does:

* `TokensConserved` is strengthened to `RingInv`: `Arranged` says that the
  products lie behind the reading index without a gap up to the writing index,
  allowing for the thread inside that has not moved its index yet; `Counted` that
  each semaphore together with the threads that have passed it accounts for the
  slots of its kind. Without `Arranged` nothing says that the slot a producer writes is
  free; without `Counted` nothing says that the one a consumer reads is full.
  The index arithmetic is in lemmas of its own (`BehindIs`, `BehindFacts`: N
  steps round the ring visit N slots and come back).
* `TokensAccounted`, and `RingImplementsWarehouse`: the initial state of the ring
  maps to an empty `BoundedBuffer`; storing maps to `Put`, fetching to
  `Get`, every other statement to a stutter.

`ThreadsProofs`, the condition variable, for finitely many consumers: `NoLostWakeup` is inductive as it
stands (`NoWakeupLost`). A signal turns a waiter into a woken consumer as long
as there is a waiter; a consumer that was not woken and takes a product leaves
the woken ones more than they need; a spurious wake-up adds one.

`ThreadsProofs`, the Python programs, for any number of additions of each thread,
any number of producers and consumers and any batch sizes of which all
consumers' together are at most one more than `Low` (5 times 5 and 50 in the code;
one more and a consumer can find the queue empty). `PyInv` has a part for each
program:

* `MoneyInv`: the step a thread comes to, the additions it has done and whether
  it is inside the lock are functions of the number of its steps (`OpAt`, `Did`,
  `InLock`; `MoneyCode` shows that the function of the thread is this table,
  `TableMoves` what one step does to it). `money` and what a thread has read and
  not yet assigned are at most the sum of the additions done, and equal to it
  while the lock works: in `lock_mutex` always, because who is inside owns the
  mutex; in `lock_my` until `money_lock` is taken while it is taken. Theorem
  `AdditionsKept`.
* `EmbraceInv`, `TimeoutInv`: who holds which lock is where the two threads are;
  with the time-out only that a lock in the other's hands is about to be
  released. `BallInv`: in `synchronize` a thread has the ball or a lock is free.
  `QueueInv`: the set `Pending` of portions that consumers who have looked have
  yet to take is not larger than the queue; a consumer that looks now adds its
  batch, but all batches together fit into what it has seen. Theorem
  `OnlyTheEmbraceIsStuck`.

`ShmFifoProofs`, for finitely many processes, any number of blocks, rounds and
deaths, with or without a FIFO at the start. `ShmInv` joins the types with
`SetUp`, the order in which `fifo_init` makes the semaphores exist and who is
between which calls, and `Bounds`, inequalities between the semaphores and the
blocks in somebody's hands. They are inequalities because a killed process keeps
what it had: an account by equations, as in the ring of threads, is destroyed by the first
death, and what survives is that nobody ever gets more than there is. `SetUp` is
needed because a process may pass the semaphores before the creator has set
their values. Theorem `OneProcessInside`. What the indices address is a second
layer, `RingInv == ShmInv /\ Ring`. `Filling`: the creator stores the header in
order, once. Unless `early`, `Blocks`: `wr_index` is `nput % N`, `rd_index`
is `nget % N`, product k from `nget` to `nput - 1` is in block `k % N`; and
`NotEarly`: whoever has copied did so after the header was filled, and has
in its hands, or put into its block, the product its index stands for. A
producer about to copy finds `nput - nget < N` by `Bounds`, so its block is that
of no product still there (`OtherBlock`: two numbers less than N apart have
different remainders; `Division`, `Quotient` and `NextBlock` are the arithmetic under it).
Theorem `NoneOverwritten`.

`MultiCopyProofs`, for any number of processes and any size, both positive. The
ranges `Base(p)..Base(p) + Count(p) - 1` lie in the file and in order, the
parent's with the remainder last (`RangesOrdered`, which needs multiplication
and division in lemmas of their own), and every byte lies in one of them.
`CopyInv` says that what has been written lies in the parts of processes that have
read, that these parts are the source if nobody moved the offset between
another's `lseek` and `read`, and, through the parent's loop counter, how many
children exist or are reaped: the parent leaves the wait loop last. Theorems `CopyWritesOnce`
and `CopyExact`.

`ProcessesProofs`:

* `dinner.c`, for any number of philosophers from two on and any deaths:
  `TypeOK /\ ForksExclusive` is inductive. Two forks of one philosopher are
  different forks of the table (`TwoForks`, arithmetic modulo N); a fork in a
  hand is 0, so no neighbour's `semop` passes; putting it back makes it 1.
  Theorems `TypeCorrect` and `ForksAreExclusive`.
* `mq-notify.c`, for any capacity and any number of messages: `NeverDeaf` needs
  to know that no signal is pending while the handler runs, because the kernel
  notifies of the first message in an empty queue only. Theorem
  `NotificationKept`.
* `mq-echo`, for any clients, lines and capacity, any of the clients killed at any
  time: in `EchoInv` every message, in the queue or in the server's hands, is a
  request or an answer of a client that waits for it or was killed, no two
  belong to one client, and a waiting client has one. `msgrcv` takes messages
  out of the middle of the queue; a step that only moves messages is treated
  once, by a lemma with a function from new places to old ones
  (`MessagesMoved`). Theorem `EchoOneUnderWay`.

`ChatProofs`, for any lines, a `recv_buf` of more than one unit, and a head that
can express its length, however `read` and `write` cut the stream up and whoever
dies. The units of a side's input are numbered in the model, so that "what was
typed, one line after the other" is stated without a recursive concatenation.
`ChatInv` follows the data from keyboard to screen:

* `Keyboard`: the records given to `write` are what was typed, but for what is
  still in `stdin`, and none is longer than `fgets` allows.
* `Plain`, for `chat` and `readline`: what is in the child's buffer, the socket
  and the peer's hands, in this order, follows what was printed, and is complete
  unless the peer's parent is gone. `Framed`, for `fixed-length`: it is a part of
  the packed records that starts at the packet the child is reading; the length
  in the head is the length of what follows it, because `ntohl` undoes `htonl`.
* `Printed`: what was printed are records or lines that were typed, in order,
  and more than that only behind a record that fills `recv_buf` and has no
  terminator. Theorem `RecordsKeptHolds`.
* `Connection` says when an end or an error can be seen at all; with `Plain` a
  full `recv_buf` without a newline is part of a typed line that is longer than
  it. Theorem `LeavesForReasonHolds`.

`MuxEchoProofs`, for any clients, any number of descriptors, any positive buffer
size and each of the three readiness calls:

* `PollNeverBlocks`. `Countdown` says what makes the counting of `poll_server`
  right: there is a set of reported descriptors not yet visited, `nready` is its
  size, each of them still has something to read, and each lies in the table
  before any entry that was accepted in this round and has an uninitialised
  `revents`. A visited descriptor leaves the set, and the round ends when it is
  empty.
* `AnswersOwn`. `InOrder` cuts the units of a client that stays into answered,
  held between read and write, and unread; as long as every read fills the
  buffer, writing all of `recv_buf` moves exactly the held ones. After a short
  read only the owner of the data is kept track of, and only in `epoll_server`.
* `ExitsForReason`. `Left` says that whoever left while data of its were unread,
  held or answered by a reset is in `dirty`, so that a failing read and SIGPIPE
  have such a client. `Places` (a connection is in one entry or one place of the
  queue) is needed for all three.

`ReactorProofs`, for any clients, table, buffer, time-out and descriptor limit. `ReactorInv`
has the table (an entry in use belongs to one open connection), the queue, the
batch (what was reported ready is still so when its turn comes: a call-back may
have closed or changed only its own entry), the stream of each client and, for
each entry, what `recvdata` has left in it for `senddata`. The units sent
back are numbered in rising order and end before those in hand; without gaps as
long as no send was short. Theorems `EchoOrdered` and, as an action property,
`ConnectionsClosedForReason`.

**Only model-checked.**

* All liveness properties, and with them the properties of `ForkEcho`: the prover
  has no fairness and no ENABLED.
* `QueryCorrect` and `TreeSound` of `BPTree`: operators on trees are recursive, and
  what they compute needs induction over data.
* The refinement of `BoundedBuffer` by `ShmFifo`: that product numbers do not go
  round within the ring depends on the rounds of all processes together, a sum
  over a set.

## 6. Plan

1. (done) Thread pool with proofs; the warehouses; philosophers with proofs;
   multicopy; the message queues; the forking server.
2. (done) Chat with its framings; the multiplexing servers; the reactor; the
   Python lock examples; the B+ tree.
3. (done) Proofs of the invariants of `PosixProduceConsume`, with its
   implementation of `BoundedBuffer`, of `CondProduceConsume`, `PyLocks`, `ShmFifo`,
   `MultiCopy`, `MqNotify`, `MqEcho`, `Chat`, `MuxEcho` and `Reactor`.
4. TFTP over a network that loses and duplicates, with a model of the server.

## 7. Not modelled

* Failing `epoll_ctl` in the reactor, which would leave an entry without events.
* `multicopy.c:38` keeps `st_size` in an `int`: files of 2 GiB and more, of which
  it would copy the truncated size or fail, are outside the model.
* Failing set-up calls (`open`, `mmap`, `socket`, `semget` by the first process)
  that end a program before anything is shared.
* What is printed.
* Programs of one system call (`semtool`, `interface`, the queue and
  shared-memory tools): the models contain what they do to the kernel object.
* TFTP and `udp-echo`: nothing in the client answers a loss; what a repetition
  does depends on a server that is not in the repository.
* The thread-per-connection server, descriptor passing, the Python TCP and HTTP
  servers: their handlers share nothing, or repeat a modelled program.
* Full socket buffers: a multiplexing server and a client that both write without
  reading can block each other.
* The unused `handle_client` and `handle_sigchld` in the multiplexing servers.
* Crawlers, notebooks, notes,
  pictures and configuration files, which are not programs with state.
* The server of `mq-echo` being killed: nobody restarts it, and every client
  then waits for ever.
* Data races outside the critical sections do not occur in the modelled C threads:
  all shared variables are accessed under the lock or are semaphores. Reads of
  uninitialised memory (`poll_server.c`, `select_server.c`) and writes past a
  buffer (`epoll.c`) are choices over what the build can do.
