----------------------------- MODULE ThreadPool -----------------------------
(***************************************************************************)
(* The thread pool of process/ipc/codes/threadpool: threadpool.c (workers, *)
(* threadpool_add_task, threadpool_destroy), condition.c (one mutex and    *)
(* one condition variable) and main.c (the only client: it adds tasks,     *)
(* destroys the pool and returns, which ends the process).                 *)
(*                                                                         *)
(* All shared fields are read and written under pool->ready's mutex, so a  *)
(* critical section, from condition_lock to condition_unlock or to a wait  *)
(* on the condition variable, is one step.  Running a task, being signalled*)
(* and timing out are steps of their own, because other threads run then.  *)
(***************************************************************************)
EXTENDS Naturals, FiniteSets

CONSTANTS
    Workers,     \* thread slots the operating system can give to the pool
    MaxThreads,  \* pool->max_threads, the argument of threadpool_init
    NumTasks     \* how many tasks main adds

ASSUME WorkersFinite == IsFiniteSet(Workers)
ASSUME MaxThreadsPositive == MaxThreads \in Nat \ {0}
ASSUME NumTasksNat == NumTasks \in Nat

VARIABLES
    first, last, \* head and tail of the task list; NULL when it is empty
    next,        \* task->next
    state,       \* life of a task_t: new, queued, running, freed
    count,       \* pool->count: threads of the pool
    idle,        \* pool->idle: threads between idle++ and idle--
    quit,        \* pool->quit
    wpc,         \* where each worker is in handle_thread
    task,        \* p_task of a worker that runs a task
    timeout_flag,\* timeout_flag of a worker
    mpc,         \* where main is
    submitted    \* tasks 1..submitted have been passed to threadpool_add_task

list == <<first, last, next>>
vars == <<list, state, count, idle, quit, wpc, task, timeout_flag, mpc, submitted>>

NULL == 0
Tasks == 1..NumTasks

(* A worker slot is "none" when there is no thread; "top" before line 28;  *)
(* "wait" blocked in condition_timedwait; "woken" and "timedout" when that *)
(* call has returned 0 or ETIMEDOUT but the mutex is not reacquired;       *)
(* "run" at line 77; "relock" before line 81.                              *)
WorkerPC == {"none", "top", "wait", "woken", "timedout", "run", "relock"}
MainPC == {"adding", "wait", "woken", "spurious", "returned", "exited", "failed"}

Live == {w \in Workers : wpc[w] # "none"}
Idling == {w \in Workers : wpc[w] \in {"wait", "woken", "timedout"}}
Queued == {t \in Tasks : state[t] = "queued"}

(* The process is alive until main returns or pthread_create fails.        *)
Alive == mpc \notin {"exited", "failed"}

-----------------------------------------------------------------------------
(* condition.c.                                                            *)

WaitQueue == {w \in Workers : wpc[w] = "wait"}

(* pthread_cond_signal wakes one waiter, of either kind, if there is one;  *)
(* it is called with wpc already being upd, the caller's own move.         *)
condition_signal(upd) ==
    \/ \E w \in WaitQueue :
           /\ wpc' = [upd EXCEPT ![w] = "woken"]
           /\ UNCHANGED mpc
    \/ /\ mpc = "wait"
       /\ wpc' = upd
       /\ mpc' = "woken"
    \/ /\ WaitQueue = {} /\ mpc # "wait"
       /\ wpc' = upd
       /\ UNCHANGED mpc

condition_broadcast ==
    wpc' = [w \in Workers |-> IF w \in WaitQueue THEN "woken" ELSE wpc[w]]

-----------------------------------------------------------------------------
(* handle_thread.                                                          *)

(* Line 33.                                                                *)
MustWait == first = NULL /\ quit = 0

(* Line 30.                                                                *)
EnterIdle == idle' = idle + 1

(* Mutant: every pop empties the list.                                     *)
PopHead_Drops == first' = NULL /\ last' = NULL /\ UNCHANGED next

(* Lines 60-73: unlink the head of the list.                               *)
PopHead ==
    /\ IF first = last
       THEN first' = NULL /\ last' = NULL
       ELSE first' = next[first] /\ UNCHANGED last
    /\ UNCHANGED next

(* Lines 57-75: take the head of the list and leave the critical section.  *)
PopTask(w, flag) ==
    /\ first # NULL
    /\ PopHead
    /\ state' = [state EXCEPT ![first] = "running"]
    /\ task' = [task EXCEPT ![w] = first]
    /\ timeout_flag' = [timeout_flag EXCEPT ![w] = flag]
    /\ wpc' = [wpc EXCEPT ![w] = "run"]
    /\ UNCHANGED <<count, quit, mpc, submitted>>

(* Mutant: a thread leaves although the list is not empty.                 *)
Leaves_WithTasks(flag) == quit = 1 \/ flag

(* Lines 84 and 98: the thread leaves the pool.                            *)
Leaves(flag) == first = NULL /\ (quit = 1 \/ flag)

(* Mutant: the test precedes count--.                                      *)
LastOut_Late == count = 0

(* Lines 88-90 and 102-104: count is 0 once this thread has left.          *)
LastOut == count = 1

(* Lines 84-113: leave the pool, telling a waiting destroyer when this was *)
(* the last thread, or unlock and loop.                                    *)
LeaveOrLoop(w, flag) ==
    /\ IF Leaves(flag)
       THEN /\ count' = count - 1
            /\ IF LastOut
               THEN condition_signal([wpc EXCEPT ![w] = "none"])
               ELSE wpc' = [wpc EXCEPT ![w] = "none"] /\ UNCHANGED mpc
       ELSE /\ wpc' = [wpc EXCEPT ![w] = "top"]
            /\ UNCHANGED <<count, mpc>>
    /\ UNCHANGED <<list, state, quit, task, timeout_flag, submitted>>

(* Lines 57-113, reached once the wait loop is over.                       *)
AfterWait(w, flag) ==
    \/ PopTask(w, flag)
    \/ first = NULL /\ LeaveOrLoop(w, flag)

(* Lines 26-40 and, when there is nothing to wait for, on to AfterWait:    *)
(* idle++ and idle-- then cancel out in the same critical section.         *)
LoopTop(w) ==
    /\ Alive /\ wpc[w] = "top"
    /\ \/ /\ MustWait
          /\ EnterIdle
          /\ wpc' = [wpc EXCEPT ![w] = "wait"]
          /\ UNCHANGED <<list, state, count, quit, task, timeout_flag, mpc, submitted>>
       \/ /\ ~MustWait
          /\ UNCHANGED idle
          /\ AfterWait(w, FALSE)

(* condition_timedwait returned 0: test line 33 again.                     *)
Woken(w) ==
    /\ Alive /\ wpc[w] = "woken"
    /\ \/ /\ MustWait
          /\ wpc' = [wpc EXCEPT ![w] = "wait"]
          /\ UNCHANGED <<list, state, count, idle, quit, task, timeout_flag, mpc, submitted>>
       \/ /\ ~MustWait
          /\ idle' = idle - 1
          /\ AfterWait(w, FALSE)

(* condition_timedwait returned ETIMEDOUT: lines 43-55 and on.             *)
TimedOut(w) ==
    /\ Alive /\ wpc[w] = "timedout"
    /\ idle' = idle - 1
    /\ AfterWait(w, TRUE)

(* Lines 77-79: the task runs to its end, without the mutex, and is freed. *)
RunTask(w) ==
    /\ Alive /\ wpc[w] = "run"
    /\ state' = [state EXCEPT ![task[w]] = "freed"]
    /\ task' = [task EXCEPT ![w] = NULL]
    /\ wpc' = [wpc EXCEPT ![w] = "relock"]
    /\ UNCHANGED <<list, count, idle, quit, timeout_flag, mpc, submitted>>

(* Lines 81-113 after a task.                                              *)
Relock(w) ==
    /\ Alive /\ wpc[w] = "relock"
    /\ UNCHANGED idle
    /\ LeaveOrLoop(w, timeout_flag[w])

-----------------------------------------------------------------------------
(* The operating system.  abstime.tv_sec = 2 is an absolute time of 1970,  *)
(* so a timed wait may time out at any moment.                             *)

Timeout(w) ==
    /\ Alive /\ wpc[w] = "wait"
    /\ wpc' = [wpc EXCEPT ![w] = "timedout"]
    /\ UNCHANGED <<list, state, count, idle, quit, task, timeout_flag, mpc, submitted>>

SpuriousWakeup ==
    /\ Alive
    /\ \/ \E w \in WaitQueue : wpc' = [wpc EXCEPT ![w] = "woken"] /\ UNCHANGED mpc
       \/ mpc = "wait" /\ mpc' = "spurious" /\ UNCHANGED wpc
    /\ UNCHANGED <<list, state, count, idle, quit, task, timeout_flag, submitted>>

-----------------------------------------------------------------------------
(* main.c, the client of the pool.                                         *)

(* Mutant: the new task goes to the head of the list.                      *)
Enqueue_AtHead(t) ==
    /\ first' = t /\ next' = [next EXCEPT ![t] = first]
    /\ last' = IF first = NULL THEN t ELSE last
    /\ state' = [state EXCEPT ![t] = "queued"]
    /\ submitted' = t

(* Lines 136-157 of threadpool_add_task: link a new task at the tail.      *)
Enqueue(t) ==
    /\ IF first = NULL
       THEN first' = t /\ next' = [next EXCEPT ![t] = NULL]
       ELSE UNCHANGED first /\ next' = [next EXCEPT ![last] = t, ![t] = NULL]
    /\ last' = t
    /\ state' = [state EXCEPT ![t] = "queued"]
    /\ submitted' = t

(* Mutant: off by one.                                                     *)
MayCreate_OffByOne == idle = 0 /\ count <= MaxThreads

(* Line 165.                                                               *)
MayCreate == idle = 0 /\ count < MaxThreads

(* threadpool_add_task; pthread_create can fail, which ends the process.   *)
threadpool_add_task ==
    /\ mpc = "adding" /\ submitted < NumTasks
    /\ Enqueue(submitted + 1)
    /\ \/ /\ idle > 0
          /\ condition_signal(wpc)
          /\ UNCHANGED <<count, timeout_flag>>
       \/ /\ MayCreate
          /\ \E w \in Workers \ Live :
                 /\ wpc' = [wpc EXCEPT ![w] = "top"]
                 /\ timeout_flag' = [timeout_flag EXCEPT ![w] = FALSE]
          /\ count' = count + 1
          /\ UNCHANGED mpc
       \/ /\ MayCreate
          /\ mpc' = "failed"
          /\ UNCHANGED <<count, wpc, timeout_flag>>
       \/ /\ idle = 0 /\ ~MayCreate
          /\ UNCHANGED <<count, wpc, timeout_flag, mpc>>
    /\ UNCHANGED <<idle, quit, task>>

(* threadpool_destroy, up to its return or to its wait.                    *)
threadpool_destroy ==
    /\ mpc = "adding" /\ submitted = NumTasks
    /\ quit' = 1
    /\ IF quit = 0 /\ count > 0
       THEN IF idle > 0
            THEN condition_broadcast /\ mpc' = "returned"
            ELSE mpc' = "wait" /\ UNCHANGED wpc
       ELSE mpc' = "returned" /\ UNCHANGED wpc
    /\ UNCHANGED <<list, state, count, idle, task, timeout_flag, submitted>>

(* condition_wait has returned: reacquire the mutex, unlock, return.       *)
DestroyWoken ==
    /\ mpc \in {"woken", "spurious"}
    /\ mpc' = "returned"
    /\ UNCHANGED <<list, state, count, idle, quit, wpc, task, timeout_flag, submitted>>

(* return 0 of main: exit() ends every thread of the process.              *)
MainReturns ==
    /\ mpc = "returned"
    /\ mpc' = "exited"
    /\ UNCHANGED <<list, state, count, idle, quit, wpc, task, timeout_flag, submitted>>

Terminated == ~Alive /\ UNCHANGED vars

-----------------------------------------------------------------------------
(* threadpool_init.                                                        *)
Init ==
    /\ first = NULL /\ last = NULL
    /\ next = [t \in Tasks |-> NULL]
    /\ state = [t \in Tasks |-> "new"]
    /\ count = 0 /\ idle = 0 /\ quit = 0
    /\ wpc = [w \in Workers |-> "none"]
    /\ task = [w \in Workers |-> NULL]
    /\ timeout_flag = [w \in Workers |-> FALSE]
    /\ mpc = "adding"
    /\ submitted = 0

handle_thread(w) == LoopTop(w) \/ Woken(w) \/ TimedOut(w) \/ RunTask(w) \/ Relock(w)
Main == threadpool_add_task \/ threadpool_destroy \/ DestroyWoken \/ MainReturns

Next ==
    \/ \E w \in Workers : handle_thread(w)
    \/ \E w \in Workers : Timeout(w)
    \/ SpuriousWakeup
    \/ Main
    \/ Terminated

(* Threads are scheduled, a task returns, an expired wait times out.  When *)
(* main destroys the pool, and whether it does, is its own business.       *)
Fairness ==
    /\ \A w \in Workers : WF_vars(handle_thread(w)) /\ WF_vars(Timeout(w))
    /\ WF_vars(DestroyWoken)

Spec == Init /\ [][Next]_vars /\ Fairness

-----------------------------------------------------------------------------
(* Types of the variables; idle never becomes negative.                    *)
TypeOK ==
    /\ first \in Tasks \cup {NULL} /\ last \in Tasks \cup {NULL}
    /\ next \in [Tasks -> Tasks \cup {NULL}]
    /\ state \in [Tasks -> {"new", "queued", "running", "freed"}]
    /\ count \in Nat /\ idle \in Nat /\ quit \in {0, 1}
    /\ wpc \in [Workers -> WorkerPC]
    /\ task \in [Workers -> Tasks \cup {NULL}]
    /\ timeout_flag \in [Workers -> BOOLEAN]
    /\ mpc \in MainPC
    /\ submitted \in 0..NumTasks

(* The counters the decisions are taken on are the truth: pool->count is   *)
(* the number of threads, never above max_threads, and pool->idle that of  *)
(* the threads in the wait loop, timeouts and wake-ups in flight included. *)
CountersMatch ==
    /\ count = Cardinality(Live)
    /\ count <= MaxThreads
    /\ idle = Cardinality(Idling)

(* A queued task always has a thread that will come for it: a timeout that *)
(* races threadpool_add_task never leaves a task in a pool without thread. *)
NoStrandedTask == Alive /\ first # NULL => Live # {}

(* The list is well formed: it holds exactly the queued tasks in the order *)
(* of submission, and last, which threadpool_add_task writes through, is   *)
(* never a task that was already taken or freed.                           *)
ListIntact ==
    /\ first = NULL => last = NULL /\ Queued = {}
    /\ first # NULL =>
           /\ first <= last /\ last = submitted /\ next[last] = NULL
           /\ Queued = first..last
           /\ \A t \in first..(last - 1) : next[t] = t + 1

(* A task that runs has exactly one worker: no two workers ever hold the   *)
(* same task_t, so none runs or frees it twice.                            *)
OneRunner ==
    /\ \A w \in Workers : wpc[w] = "run" => task[w] # NULL /\ state[task[w]] = "running"
    /\ \A v, w \in Workers : wpc[v] = "run" /\ wpc[w] = "run" /\ task[v] = task[w] => v = w

(* Tasks go new, queued, running, freed, each step once, and a task never  *)
(* starts before one that was submitted earlier.                           *)
FifoOnce ==
    [][\A t \in Tasks :
          /\ state'[t] # state[t] =>
                 <<state[t], state'[t]>> \in {<<"new", "queued">>, <<"queued", "running">>,
                                              <<"running", "freed">>}
          /\ state[t] = "queued" /\ state'[t] = "running" =>
                 \A s \in 1..(t - 1) : state[s] \in {"running", "freed"}]_vars

(* Every task that was queued runs to its end unless the process ends.     *)
TasksRun == \A t \in Tasks : state[t] = "queued" ~> (state[t] = "freed" \/ ~Alive)

(* threadpool_destroy never blocks for ever: the last thread's signal is   *)
(* not lost.                                                               *)
DestroyReturns == mpc = "wait" ~> mpc = "returned"

(* readme.md of the pool, 36-43: destroying it tells the waiting threads   *)
(* to leave and, if there still are busy threads, waits for the signal of  *)
(* the last one.  So a destroyer that did not wait leaves no busy thread.  *)
DestroyWaitsForBusyThreads ==
    [][mpc = "adding" /\ mpc' = "returned" => \A w \in Workers : wpc[w] # "run"]_vars

=============================================================================
