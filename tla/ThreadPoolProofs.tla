-------------------------- MODULE ThreadPoolProofs --------------------------
(***************************************************************************)
(* Proofs about ThreadPool for any number of thread slots, any max_threads *)
(* and any number of tasks.                                                *)
(***************************************************************************)
EXTENDS ThreadPool, FiniteSetTheorems, TLAPS

USE DEF NULL

-----------------------------------------------------------------------------
(* The counters.                                                           *)

(* Live and Idling are finite sets, and the counters equal to their sizes  *)
(* are positive as soon as the sets have an element.                       *)
LEMMA Finiteness ==
    /\ IsFiniteSet(Live) /\ IsFiniteSet(Idling)
    /\ Cardinality(Live) \in Nat /\ Cardinality(Idling) \in Nat
    /\ Cardinality(Live) = 0 <=> Live = {}
    /\ Cardinality(Idling) = 0 <=> Idling = {}
<1>1. Live \subseteq Workers /\ Idling \subseteq Workers
  BY DEF Live, Idling
<1>2. IsFiniteSet(Live) /\ IsFiniteSet(Idling)
  BY <1>1, FS_Subset, WorkersFinite
<1>3. QED
  BY <1>2, FS_CardinalityType, FS_EmptySet

(* A signal moves at most one waiter, from "wait" to "woken": with respect *)
(* to the caller's own move, no thread starts, ends, or changes idleness.  *)
LEMMA SignalEffect ==
    ASSUME TypeOK, NEW upd \in [Workers -> WorkerPC],
           \A x \in WaitQueue : upd[x] = "wait", condition_signal(upd)
    PROVE  /\ wpc' \in [Workers -> WorkerPC]
           /\ Live' = {x \in Workers : upd[x] # "none"}
           /\ Idling' = {x \in Workers : upd[x] \in {"wait", "woken", "timedout"}}
           /\ mpc' = mpc \/ (mpc = "wait" /\ mpc' = "woken")
           /\ \A x \in Workers : wpc'[x] = upd[x] \/ (upd[x] = "wait" /\ wpc'[x] = "woken")
<1>1. wpc' = upd \/ \E x \in WaitQueue : wpc' = [upd EXCEPT ![x] = "woken"]
  BY DEF condition_signal
<1>2. mpc' = mpc \/ (mpc = "wait" /\ mpc' = "woken")
  BY DEF condition_signal
<1>3. /\ wpc' \in [Workers -> WorkerPC]
      /\ \A x \in Workers : wpc'[x] = upd[x] \/ (upd[x] = "wait" /\ wpc'[x] = "woken")
  BY <1>1 DEF WorkerPC, WaitQueue
<1>4. /\ Live' = {x \in Workers : upd[x] # "none"}
      /\ Idling' = {x \in Workers : upd[x] \in {"wait", "woken", "timedout"}}
  BY <1>3 DEF Live, Idling
<1>5. QED
  BY <1>2, <1>3, <1>4

(* What a worker that is not waiting does to the pool when it leaves or    *)
(* loops (lines 84-113).                                                   *)
LEMMA LeaveOrLoopEffect ==
    ASSUME TypeOK, NEW w \in Workers, NEW flag \in BOOLEAN,
           wpc[w] \notin {"none", "wait"}, LeaveOrLoop(w, flag)
    PROVE  /\ wpc' \in [Workers -> WorkerPC]
           /\ Idling' = Idling \ {w}
           /\ \/ Live' = Live \ {w} /\ count' = count - 1 /\ first = NULL
              \/ Live' = Live /\ count' = count
           /\ mpc' = mpc \/ (mpc = "wait" /\ mpc' = "woken" /\ LastOut)
           /\ \A x \in Workers : wpc'[x] = "run" <=> wpc[x] = "run" /\ x # w
<1> DEFINE upd == [wpc EXCEPT ![w] = "none"]
<1>1. CASE Leaves(flag)
  <2>1. /\ upd \in [Workers -> WorkerPC]
        /\ \A x \in WaitQueue : upd[x] = "wait"
        /\ {x \in Workers : upd[x] # "none"} = Live \ {w}
        /\ {x \in Workers : upd[x] \in {"wait", "woken", "timedout"}} = Idling \ {w}
    BY DEF TypeOK, WorkerPC, WaitQueue, Live, Idling
  <2>2. count' = count - 1 /\ first = NULL
    BY <1>1 DEF LeaveOrLoop, Leaves
  <2>3. CASE LastOut
    <3>1. condition_signal(upd)
      BY <1>1, <2>3 DEF LeaveOrLoop
    <3> HIDE DEF upd
    <3>2. /\ wpc' \in [Workers -> WorkerPC]
          /\ Live' = {x \in Workers : upd[x] # "none"}
          /\ Idling' = {x \in Workers : upd[x] \in {"wait", "woken", "timedout"}}
          /\ mpc' = mpc \/ (mpc = "wait" /\ mpc' = "woken")
          /\ \A x \in Workers : wpc'[x] = upd[x] \/ (upd[x] = "wait" /\ wpc'[x] = "woken")
      BY <2>1, <3>1, SignalEffect
    <3>3. \A x \in Workers : wpc'[x] = "run" <=> wpc[x] = "run" /\ x # w
      BY <3>2 DEF upd, TypeOK
    <3>4. QED
      BY <2>1, <2>2, <2>3, <3>2, <3>3
  <2>4. CASE ~LastOut
    <3>1. wpc' = upd /\ mpc' = mpc
      BY <1>1, <2>4 DEF LeaveOrLoop
    <3>2. Live' = Live \ {w} /\ Idling' = Idling \ {w}
      BY <2>1, <3>1 DEF Live, Idling
    <3>3. \A x \in Workers : wpc'[x] = "run" <=> wpc[x] = "run" /\ x # w
      BY <3>1 DEF TypeOK
    <3>4. QED
      BY <2>1, <2>2, <3>1, <3>2, <3>3
  <2>5. QED
    BY <2>3, <2>4
<1>2. CASE ~Leaves(flag)
  <2>1. wpc' = [wpc EXCEPT ![w] = "top"] /\ count' = count /\ mpc' = mpc
    BY <1>2 DEF LeaveOrLoop
  <2>2. QED
    BY <2>1 DEF TypeOK, WorkerPC, Live, Idling
<1>3. QED
  BY <1>1, <1>2

(* Taking the head of the list keeps the worker a thread of the pool.      *)
LEMMA PopTaskEffect ==
    ASSUME TypeOK, NEW w \in Workers, NEW flag \in BOOLEAN,
           wpc[w] # "none", PopTask(w, flag), idle' \in Nat
    PROVE  /\ TypeOK'
           /\ Idling' = Idling \ {w}
           /\ Live' = Live /\ count' = count /\ w \in Live /\ mpc' = mpc
<1>1. first' \in Tasks \cup {NULL} /\ last' \in Tasks \cup {NULL} /\ next' = next
  BY DEF PopTask, PopHead, TypeOK
<1>2. /\ state' \in [Tasks -> {"new", "queued", "running", "freed"}]
      /\ task' \in [Workers -> Tasks \cup {NULL}]
      /\ timeout_flag' \in [Workers -> BOOLEAN]
      /\ wpc' = [wpc EXCEPT ![w] = "run"]
      /\ wpc' \in [Workers -> WorkerPC]
  BY DEF PopTask, TypeOK, WorkerPC
<1>3. UNCHANGED <<count, quit, mpc, submitted>>
  BY DEF PopTask
<1>4. Idling' = Idling \ {w} /\ Live' = Live /\ w \in Live
  BY <1>2 DEF TypeOK, Idling, Live
<1>5. QED
  BY <1>1, <1>2, <1>3, <1>4 DEF TypeOK

(* Lines 57-113: the worker stops idling; it stays in the pool, or leaves  *)
(* it when the list is empty.                                              *)
LEMMA AfterWaitEffect ==
    ASSUME TypeOK, CountersMatch, NEW w \in Workers, NEW flag \in BOOLEAN,
           wpc[w] \notin {"none", "wait"}, AfterWait(w, flag), idle' \in Nat
    PROVE  /\ TypeOK'
           /\ Idling' = Idling \ {w}
           /\ count' = Cardinality(Live') /\ count' <= MaxThreads
           /\ first' # NULL => Live' # {}
<1>1. w \in Live
  BY DEF Live
<1>2. CASE PopTask(w, flag)
  BY <1>1, <1>2, PopTaskEffect DEF CountersMatch
<1>3. CASE first = NULL /\ LeaveOrLoop(w, flag)
  <2>1. UNCHANGED <<list, state, quit, task, timeout_flag, submitted>>
    BY <1>3 DEF LeaveOrLoop
  <2>2. /\ wpc' \in [Workers -> WorkerPC]
        /\ Idling' = Idling \ {w}
        /\ \/ Live' = Live \ {w} /\ count' = count - 1
           \/ Live' = Live /\ count' = count
        /\ mpc' = mpc \/ mpc' = "woken"
    BY <1>3, LeaveOrLoopEffect
  <2>3. /\ Cardinality(Live \ {w}) = Cardinality(Live) - 1
        /\ Cardinality(Live) \in Nat /\ Cardinality(Live) # 0
    BY <1>1, Finiteness, FS_RemoveElement
  <2>4. /\ count' = Cardinality(Live') /\ count' <= MaxThreads
        /\ count' \in Nat
    <3>1. CASE Live' = Live \ {w} /\ count' = count - 1
      <4>1. Cardinality(Live') = Cardinality(Live) - 1
        BY <2>3, <3>1
      <4>2. QED
        BY <2>3, <3>1, <4>1, MaxThreadsPositive DEF CountersMatch
    <3>2. CASE Live' = Live /\ count' = count
      <4>1. Cardinality(Live') = Cardinality(Live)
        BY <3>2
      <4>2. QED
        BY <2>3, <3>2, <4>1, MaxThreadsPositive DEF CountersMatch
    <3>3. QED
      BY <2>2, <3>1, <3>2
  <2>5. TypeOK'
    BY <2>1, <2>2, <2>4 DEF TypeOK, list, MainPC
  <2>6. first' = NULL
    BY <1>3, <2>1 DEF list
  <2>7. QED
    BY <2>2, <2>4, <2>5, <2>6
<1>4. QED
  BY <1>2, <1>3 DEF AfterWait

(* An idling worker is counted: line 55 never makes idle negative.         *)
LEMMA IdleDecrement ==
    ASSUME CountersMatch, NEW w \in Idling
    PROVE  idle - 1 \in Nat /\ idle - 1 = Cardinality(Idling \ {w})
<1>1. /\ Cardinality(Idling \ {w}) = Cardinality(Idling) - 1
      /\ Cardinality(Idling) \in Nat /\ Cardinality(Idling) # 0
  BY Finiteness, FS_RemoveElement
<1>2. QED
  BY <1>1 DEF CountersMatch

(* TypeOK and CountersMatch support each other: the types need positive    *)
(* counters.  NoStrandedTask rides on them.                                *)
PoolInv == TypeOK /\ CountersMatch /\ NoStrandedTask

LEMMA PoolInvInit == Init => PoolInv
<1> SUFFICES ASSUME Init PROVE PoolInv
  OBVIOUS
<1>1. TypeOK
  BY NumTasksNat DEF Init, TypeOK, WorkerPC, MainPC, Tasks
<1>2. Live = {} /\ Idling = {}
  BY DEF Init, Live, Idling
<1>3. CountersMatch
  BY <1>2, FS_EmptySet, MaxThreadsPositive DEF Init, CountersMatch
<1>4. NoStrandedTask
  BY DEF Init, NoStrandedTask
<1>5. QED
  BY <1>1, <1>3, <1>4 DEF PoolInv

(* A step of a worker preserves the invariant.                             *)
LEMMA PoolInvWorker ==
    ASSUME PoolInv, NEW w \in Workers, handle_thread(w)
    PROVE  PoolInv'
<1> USE DEF PoolInv
<1>1. CASE LoopTop(w)
  <2>1. CASE MustWait /\ EnterIdle /\ wpc' = [wpc EXCEPT ![w] = "wait"]
             /\ UNCHANGED <<list, state, count, quit, task, timeout_flag, mpc, submitted>>
    <3>1. wpc[w] = "top" /\ first' = NULL
      BY <1>1, <2>1 DEF LoopTop, MustWait, list
    <3>2. Live' = Live /\ Idling' = Idling \cup {w} /\ w \notin Idling
      BY <2>1, <3>1 DEF Live, Idling, TypeOK
    <3>3. Cardinality(Idling') = Cardinality(Idling) + 1
      BY <3>2, Finiteness, FS_AddElement
    <3>4. CountersMatch'
      BY <2>1, <3>2, <3>3 DEF CountersMatch, EnterIdle
    <3>5. TypeOK'
      BY <2>1 DEF TypeOK, list, WorkerPC, EnterIdle
    <3>6. QED
      BY <3>1, <3>4, <3>5 DEF NoStrandedTask
  <2>2. CASE ~MustWait /\ UNCHANGED idle /\ AfterWait(w, FALSE)
    <3>1. wpc[w] = "top" /\ idle' = idle /\ idle' \in Nat
      BY <1>1, <2>2 DEF LoopTop, TypeOK
    <3>2. Idling \ {w} = Idling
      BY <3>1 DEF Idling
    <3>3. QED
      BY <2>2, <3>1, <3>2, AfterWaitEffect DEF CountersMatch, NoStrandedTask
  <2>3. QED
    BY <1>1, <2>1, <2>2 DEF LoopTop
<1>2. CASE Woken(w)
  <2>1. w \in Idling /\ wpc[w] = "woken"
    BY <1>2 DEF Woken, Idling
  <2>2. CASE MustWait /\ wpc' = [wpc EXCEPT ![w] = "wait"]
             /\ UNCHANGED <<list, state, count, idle, quit, task, timeout_flag, mpc, submitted>>
    <3>1. Live' = Live /\ Idling' = Idling
      BY <2>1, <2>2 DEF Live, Idling, TypeOK
    <3>2. TypeOK'
      BY <2>2 DEF TypeOK, list, WorkerPC
    <3>3. QED
      BY <2>2, <3>1, <3>2 DEF CountersMatch, NoStrandedTask, MustWait, list
  <2>3. CASE ~MustWait /\ idle' = idle - 1 /\ AfterWait(w, FALSE)
    <3>1. idle' \in Nat /\ idle' = Cardinality(Idling \ {w})
      BY <2>1, <2>3, IdleDecrement
    <3>2. QED
      BY <2>1, <2>3, <3>1, AfterWaitEffect DEF CountersMatch, NoStrandedTask
  <2>4. QED
    BY <1>2, <2>2, <2>3 DEF Woken
<1>3. CASE TimedOut(w)
  <2>1. w \in Idling /\ wpc[w] = "timedout" /\ idle' = idle - 1 /\ AfterWait(w, TRUE)
    BY <1>3 DEF TimedOut, Idling
  <2>2. idle' \in Nat /\ idle' = Cardinality(Idling \ {w})
    BY <2>1, IdleDecrement
  <2>3. QED
    BY <2>1, <2>2, AfterWaitEffect DEF CountersMatch, NoStrandedTask
<1>4. CASE RunTask(w)
  <2>1. wpc[w] = "run" /\ wpc' = [wpc EXCEPT ![w] = "relock"]
        /\ UNCHANGED <<list, count, idle, quit, timeout_flag, mpc, submitted>>
    BY <1>4 DEF RunTask
  <2>2. Live' = Live /\ Idling' = Idling
    BY <2>1 DEF Live, Idling, TypeOK
  <2>3. TypeOK'
    BY <1>4 DEF RunTask, TypeOK, list, WorkerPC
  <2>4. QED
    BY <2>1, <2>2, <2>3 DEF CountersMatch, NoStrandedTask, Alive, list
<1>5. CASE Relock(w)
  <2>1. wpc[w] = "relock" /\ idle' = idle /\ LeaveOrLoop(w, timeout_flag[w])
        /\ timeout_flag[w] \in BOOLEAN
    BY <1>5 DEF Relock, TypeOK
  <2>2. UNCHANGED <<list, state, quit, task, timeout_flag, submitted>>
    BY <2>1 DEF LeaveOrLoop
  <2>3. /\ wpc' \in [Workers -> WorkerPC]
        /\ Idling' = Idling \ {w}
        /\ \/ Live' = Live \ {w} /\ count' = count - 1 /\ first = NULL
           \/ Live' = Live /\ count' = count
        /\ mpc' = mpc \/ (mpc = "wait" /\ mpc' = "woken" /\ LastOut)
    BY <2>1, LeaveOrLoopEffect
  <2>4. w \in Live /\ Idling \ {w} = Idling
    BY <2>1 DEF Live, Idling
  <2>5. /\ Cardinality(Live \ {w}) = Cardinality(Live) - 1
        /\ Cardinality(Live) \in Nat /\ Cardinality(Live) # 0
    BY <2>4, Finiteness, FS_RemoveElement
  <2>6. CountersMatch' /\ count' \in Nat
    BY <2>1, <2>3, <2>4, <2>5, MaxThreadsPositive DEF CountersMatch
  <2>7. TypeOK'
    BY <2>1, <2>2, <2>3, <2>6 DEF TypeOK, list, MainPC
  <2>8. NoStrandedTask'
    BY <2>2, <2>3, <2>4 DEF NoStrandedTask, list
  <2>9. QED
    BY <2>6, <2>7, <2>8
<1>6. QED
  BY <1>1, <1>2, <1>3, <1>4, <1>5 DEF handle_thread

(* Timeouts and spurious wake-ups move idling workers within Idling.       *)
LEMMA PoolInvSystem ==
    ASSUME PoolInv, SpuriousWakeup \/ \E w \in Workers : Timeout(w)
    PROVE  PoolInv'
<1> USE DEF PoolInv
<1>1. UNCHANGED <<list, state, count, idle, quit, task, timeout_flag, submitted>>
  BY DEF SpuriousWakeup, Timeout
<1>2. /\ Alive /\ (mpc' = mpc \/ mpc' = "spurious")
      /\ \/ wpc' = wpc
         \/ \E w \in WaitQueue : wpc' = [wpc EXCEPT ![w] = "woken"]
         \/ \E w \in WaitQueue : wpc' = [wpc EXCEPT ![w] = "timedout"]
  BY DEF SpuriousWakeup, Timeout, WaitQueue
<1>3. Live' = Live /\ Idling' = Idling /\ wpc' \in [Workers -> WorkerPC]
  BY <1>2 DEF TypeOK, Live, Idling, WaitQueue, WorkerPC
<1>4. TypeOK'
  BY <1>1, <1>2, <1>3 DEF TypeOK, list, MainPC
<1>5. QED
  BY <1>1, <1>2, <1>3, <1>4 DEF CountersMatch, NoStrandedTask, list

(* Enqueue keeps the types and leaves a task in the list.                  *)
LEMMA EnqueueType ==
    ASSUME TypeOK, submitted < NumTasks, Enqueue(submitted + 1)
    PROVE  /\ first' \in Tasks \cup {NULL} /\ last' \in Tasks \cup {NULL}
           /\ next' \in [Tasks -> Tasks \cup {NULL}]
           /\ state' \in [Tasks -> {"new", "queued", "running", "freed"}]
           /\ submitted' \in 0..NumTasks
<1>1. submitted + 1 \in Tasks /\ submitted + 1 \in 0..NumTasks
  BY NumTasksNat DEF TypeOK, Tasks
<1>2. QED
  BY <1>1 DEF Enqueue, TypeOK

(* The steps of main preserve the invariant.                               *)
LEMMA PoolInvMain ==
    ASSUME PoolInv, Main
    PROVE  PoolInv'
<1> USE DEF PoolInv
<1>1. CASE threadpool_add_task
  <2>1. /\ mpc = "adding" /\ submitted < NumTasks /\ Enqueue(submitted + 1)
        /\ UNCHANGED <<idle, quit, task>>
    BY <1>1 DEF threadpool_add_task
  <2>2. CASE idle > 0 /\ condition_signal(wpc) /\ UNCHANGED <<count, timeout_flag>>
    <3>1. /\ wpc' \in [Workers -> WorkerPC] /\ Live' = Live /\ Idling' = Idling
          /\ mpc' = mpc \/ mpc' = "woken"
      BY <2>2, SignalEffect DEF TypeOK, WaitQueue, Live, Idling
    <3>2. Idling # {} /\ Idling \subseteq Live
      BY <2>2, Finiteness DEF CountersMatch, Idling, Live
    <3>3. TypeOK'
      BY <2>1, <2>2, <3>1, EnqueueType DEF TypeOK, MainPC
    <3>4. QED
      BY <2>1, <2>2, <3>1, <3>2, <3>3 DEF CountersMatch, NoStrandedTask
  <2>3. ASSUME MayCreate, NEW w \in Workers \ Live,
               wpc' = [wpc EXCEPT ![w] = "top"],
               timeout_flag' = [timeout_flag EXCEPT ![w] = FALSE],
               count' = count + 1, UNCHANGED mpc
        PROVE  PoolInv'
    <3>1. Live' = Live \cup {w} /\ Idling' = Idling /\ wpc' \in [Workers -> WorkerPC]
      BY <2>3 DEF TypeOK, Live, Idling, WorkerPC
    <3>2. Cardinality(Live') = Cardinality(Live) + 1
      BY <2>3, <3>1, Finiteness, FS_AddElement
    <3>3. CountersMatch'
      <4>1. idle' = Cardinality(Idling')
        BY <2>1, <3>1 DEF CountersMatch
      <4>2. count' = Cardinality(Live')
        BY <2>3, <3>2 DEF CountersMatch
      <4>3. count' <= MaxThreads
        BY <2>3, MaxThreadsPositive DEF MayCreate, TypeOK
      <4>4. QED
        BY <4>1, <4>2, <4>3 DEF CountersMatch
    <3>4. TypeOK'
      BY <2>1, <2>3, <3>1, EnqueueType DEF TypeOK
    <3>5. QED
      BY <3>1, <3>3, <3>4 DEF NoStrandedTask
  <2>4. CASE MayCreate /\ mpc' = "failed" /\ UNCHANGED <<count, wpc, timeout_flag>>
    <3>1. Live' = Live /\ Idling' = Idling
      BY <2>4 DEF Live, Idling
    <3>2. TypeOK'
      BY <2>1, <2>4, EnqueueType DEF TypeOK, MainPC
    <3>3. QED
      BY <2>1, <2>4, <3>1, <3>2 DEF CountersMatch, NoStrandedTask, Alive
  <2>5. CASE idle = 0 /\ ~MayCreate /\ UNCHANGED <<count, wpc, timeout_flag, mpc>>
    <3>1. Live' = Live /\ Idling' = Idling
      BY <2>5 DEF Live, Idling
    <3>2. count # 0
      BY <2>5, MaxThreadsPositive DEF MayCreate, TypeOK
    <3>3. Live # {}
      BY <3>2, Finiteness DEF CountersMatch
    <3>4. TypeOK'
      BY <2>1, <2>5, EnqueueType DEF TypeOK
    <3>5. QED
      BY <2>1, <2>5, <3>1, <3>3, <3>4 DEF CountersMatch, NoStrandedTask
  <2>6. QED
    BY <1>1, <2>2, <2>3, <2>4, <2>5 DEF threadpool_add_task
<1>2. CASE threadpool_destroy
  <2>1. /\ UNCHANGED <<list, state, count, idle, task, timeout_flag, submitted>>
        /\ quit' = 1 /\ mpc = "adding" /\ mpc' \in {"returned", "wait"}
        /\ wpc' = wpc \/ condition_broadcast
    BY <1>2 DEF threadpool_destroy
  <2>2. Live' = Live /\ Idling' = Idling /\ wpc' \in [Workers -> WorkerPC]
    BY <2>1 DEF condition_broadcast, WaitQueue, Live, Idling, TypeOK, WorkerPC
  <2>3. TypeOK'
    BY <2>1, <2>2 DEF TypeOK, list, MainPC
  <2>4. QED
    BY <2>1, <2>2, <2>3 DEF CountersMatch, NoStrandedTask, Alive, list
<1>3. CASE DestroyWoken \/ MainReturns
  <2>1. /\ UNCHANGED <<list, state, count, idle, quit, wpc, task, timeout_flag, submitted>>
        /\ mpc \in {"woken", "spurious", "returned"} /\ mpc' \in {"returned", "exited"}
    BY <1>3 DEF DestroyWoken, MainReturns
  <2>2. Live' = Live /\ Idling' = Idling
    BY <2>1 DEF Live, Idling
  <2>3. TypeOK'
    BY <2>1 DEF TypeOK, list, MainPC
  <2>4. QED
    BY <2>1, <2>2, <2>3 DEF CountersMatch, NoStrandedTask, Alive, list
<1>4. QED
  BY <1>1, <1>2, <1>3 DEF Main

LEMMA PoolInvStep == PoolInv /\ [Next]_vars => PoolInv'
<1> SUFFICES ASSUME PoolInv, [Next]_vars PROVE PoolInv'
  OBVIOUS
<1>1. CASE UNCHANGED vars
  <2>1. Live' = Live /\ Idling' = Idling
    BY <1>1 DEF vars, Live, Idling
  <2>2. QED
    BY <1>1, <2>1 DEF PoolInv, TypeOK, CountersMatch, NoStrandedTask, Alive, vars, list
<1>2. QED
  BY <1>1, PoolInvWorker, PoolInvSystem, PoolInvMain DEF Next, Terminated

(* Types, in every reachable state.                                        *)
THEOREM TypeCorrect == Spec => []TypeOK
<1>1. Spec => []PoolInv
  BY PoolInvInit, PoolInvStep, PTL DEF Spec
<1>2. PoolInv => TypeOK
  BY DEF PoolInv
<1>3. QED
  BY <1>1, <1>2, PTL

(* pool->count and pool->idle count the threads they claim to count.       *)
THEOREM CountersCorrect == Spec => []CountersMatch
<1>1. Spec => []PoolInv
  BY PoolInvInit, PoolInvStep, PTL DEF Spec
<1>2. PoolInv => CountersMatch
  BY DEF PoolInv
<1>3. QED
  BY <1>1, <1>2, PTL

(* A queued task always has a thread to run it.                            *)
THEOREM TasksHaveThreads == Spec => []NoStrandedTask
<1>1. Spec => []PoolInv
  BY PoolInvInit, PoolInvStep, PTL DEF Spec
<1>2. PoolInv => NoStrandedTask
  BY DEF PoolInv
<1>3. QED
  BY <1>1, <1>2, PTL

-----------------------------------------------------------------------------
(* The list of tasks.                                                      *)

(* Tasks are created in order; with it the two list invariants are         *)
(* inductive.                                                              *)
ListInv ==
    /\ ListIntact /\ OneRunner
    /\ \A t \in Tasks : state[t] = "new" <=> t > submitted

(* No worker starts running.                                               *)
NoNewRunner == \A x \in Workers : wpc'[x] = "run" => wpc[x] = "run"

(* As far as the tasks are concerned, a step takes one, finishes one, adds *)
(* one or does nothing.                                                    *)
LEMMA StepKinds ==
    ASSUME PoolInv, [Next]_vars
    PROVE  \/ UNCHANGED <<list, state, task, submitted>> /\ NoNewRunner
           \/ \E w \in Workers, flag \in BOOLEAN : PopTask(w, flag)
           \/ \E w \in Workers : RunTask(w)
           \/ /\ submitted < NumTasks /\ Enqueue(submitted + 1)
              /\ UNCHANGED task /\ NoNewRunner
<1> DEFINE Quiet == UNCHANGED <<list, state, task, submitted>> /\ NoNewRunner
<1> USE DEF PoolInv
<1>1. ASSUME NEW w \in Workers, NEW flag \in BOOLEAN,
             wpc[w] \notin {"none", "wait"}, LeaveOrLoop(w, flag)
      PROVE  Quiet
  <2>1. UNCHANGED <<list, state, task, submitted>>
    BY <1>1 DEF LeaveOrLoop
  <2>2. \A x \in Workers : wpc'[x] = "run" <=> wpc[x] = "run" /\ x # w
    BY <1>1, LeaveOrLoopEffect
  <2>3. QED
    BY <2>1, <2>2 DEF NoNewRunner
<1>2. ASSUME NEW w \in Workers, handle_thread(w)
      PROVE  Quiet \/ (\E flag \in BOOLEAN : PopTask(w, flag)) \/ RunTask(w)
  <2>1. CASE LoopTop(w) /\ MustWait
    BY <2>1 DEF LoopTop, NoNewRunner, TypeOK
  <2>2. CASE LoopTop(w) /\ ~MustWait
    BY <1>1, <2>2 DEF LoopTop, AfterWait
  <2>3. CASE Woken(w) /\ MustWait
    BY <2>3 DEF Woken, NoNewRunner, TypeOK
  <2>4. CASE Woken(w) /\ ~MustWait
    BY <1>1, <2>4 DEF Woken, AfterWait
  <2>5. CASE TimedOut(w)
    BY <1>1, <2>5 DEF TimedOut, AfterWait
  <2>6. CASE Relock(w)
    BY <1>1, <2>6 DEF Relock, TypeOK
  <2>7. QED
    BY <1>2, <2>1, <2>2, <2>3, <2>4, <2>5, <2>6 DEF handle_thread
<1>3. ASSUME SpuriousWakeup \/ \E w \in Workers : Timeout(w)
      PROVE  Quiet
  BY <1>3 DEF SpuriousWakeup, Timeout, WaitQueue, NoNewRunner, TypeOK
<1>4. ASSUME threadpool_add_task
      PROVE  /\ submitted < NumTasks /\ Enqueue(submitted + 1)
             /\ UNCHANGED task /\ NoNewRunner
  <2>1. submitted < NumTasks /\ Enqueue(submitted + 1) /\ UNCHANGED task
    BY <1>4 DEF threadpool_add_task
  <2>2. CASE condition_signal(wpc)
    BY <2>1, <2>2, SignalEffect DEF TypeOK, WaitQueue, NoNewRunner
  <2>3. CASE \E w \in Workers \ Live : wpc' = [wpc EXCEPT ![w] = "top"]
    BY <2>1, <2>3 DEF TypeOK, NoNewRunner
  <2>4. CASE UNCHANGED wpc
    BY <2>1, <2>4 DEF NoNewRunner
  <2>5. QED
    BY <1>4, <2>1, <2>2, <2>3, <2>4 DEF threadpool_add_task
<1>5. ASSUME threadpool_destroy \/ DestroyWoken \/ MainReturns \/ UNCHANGED vars
      PROVE  Quiet
  BY <1>5 DEF threadpool_destroy, condition_broadcast, DestroyWoken, MainReturns,
              vars, NoNewRunner, TypeOK
<1>6. QED
  BY <1>2, <1>3, <1>4, <1>5 DEF Next, Main, Terminated

(* Taking the head: the queue keeps its order, the task gets one worker,   *)
(* and every task submitted before it has been taken.                      *)
LEMMA ListInvPop ==
    ASSUME PoolInv, ListInv, NEW w \in Workers, NEW flag \in BOOLEAN, PopTask(w, flag)
    PROVE  /\ ListInv'
           /\ first \in Tasks /\ state[first] = "queued"
           /\ \A s \in 1..(first - 1) : state[s] \in {"running", "freed"}
<1> USE DEF PoolInv, ListInv
<1>1. /\ first \in Tasks /\ last \in Tasks /\ first # NULL
      /\ first <= last /\ last = submitted /\ next[last] = NULL
      /\ Queued = first..last
      /\ \A t \in first..(last - 1) : next[t] = t + 1
  BY NumTasksNat DEF PopTask, TypeOK, Tasks, ListIntact
<1>2. Tasks \subseteq Nat /\ 0 \notin Tasks /\ submitted \in Nat
      /\ \A t \in Nat : t > 0 /\ t <= last => t \in Tasks
  BY <1>1, NumTasksNat DEF Tasks, TypeOK
<1>3. state[first] = "queued"
  BY <1>1, <1>2 DEF Queued
<1>4. \A s \in 1..(first - 1) : state[s] \in {"running", "freed"}
  <2> TAKE s \in 1..(first - 1)
  <2>1. s \in Tasks /\ s <= submitted /\ s \notin Queued
    BY <1>1, <1>2
  <2>2. state[s] # "new" /\ state[s] # "queued"
    BY <1>2, <2>1 DEF Queued
  <2>3. QED
    BY <2>1, <2>2 DEF TypeOK
<1>5. /\ state' = [state EXCEPT ![first] = "running"]
      /\ task' = [task EXCEPT ![w] = first]
      /\ wpc' = [wpc EXCEPT ![w] = "run"]
      /\ submitted' = submitted /\ next' = next
  BY DEF PopTask, PopHead
<1>6. Queued' = (first + 1)..last
  <2>1. Queued' = Queued \ {first}
    BY <1>1, <1>5 DEF Queued, TypeOK
  <2>2. QED
    BY <1>1, <1>2, <2>1
<1>7. ListIntact'
  <2>1. CASE first = last
    <3>1. first' = NULL /\ last' = NULL
      BY <2>1 DEF PopTask, PopHead
    <3>2. QED
      BY <1>1, <1>2, <1>6, <2>1, <3>1 DEF ListIntact
  <2>2. CASE first # last
    <3>1. first' = first + 1 /\ last' = last
      BY <1>1, <1>2, <2>2 DEF PopTask, PopHead
    <3>2. first' # NULL /\ first' <= last'
      BY <1>1, <1>2, <2>2, <3>1
    <3>3. QED
      BY <1>1, <1>2, <1>5, <1>6, <3>1, <3>2 DEF ListIntact
  <2>3. QED
    BY <2>1, <2>2
<1>8. OneRunner'
  BY <1>1, <1>3, <1>5 DEF OneRunner, TypeOK
<1>9. (\A t \in Tasks : state[t] = "new" <=> t > submitted)'
  BY <1>3, <1>5 DEF TypeOK
<1>10. QED
  BY <1>1, <1>3, <1>4, <1>7, <1>8, <1>9

(* Finishing a task, which has only this worker.                           *)
LEMMA ListInvRun ==
    ASSUME PoolInv, ListInv, NEW w \in Workers, RunTask(w)
    PROVE  ListInv' /\ task[w] \in Tasks /\ state[task[w]] = "running"
<1> USE DEF PoolInv, ListInv
<1>1. task[w] \in Tasks /\ state[task[w]] = "running" /\ wpc[w] = "run"
  BY DEF RunTask, OneRunner, TypeOK
<1>2. /\ state' = [state EXCEPT ![task[w]] = "freed"]
      /\ task' = [task EXCEPT ![w] = NULL]
      /\ wpc' = [wpc EXCEPT ![w] = "relock"]
      /\ first' = first /\ last' = last /\ next' = next /\ submitted' = submitted
  BY DEF RunTask, list
<1>3. Queued' = Queued
  BY <1>1, <1>2 DEF Queued, TypeOK
<1>4. ListIntact'
  BY <1>2, <1>3 DEF ListIntact
<1>5. OneRunner'
  BY <1>1, <1>2 DEF OneRunner, TypeOK
<1>6. (\A t \in Tasks : state[t] = "new" <=> t > submitted)'
  BY <1>1, <1>2 DEF TypeOK
<1>7. QED
  BY <1>1, <1>4, <1>5, <1>6

(* Adding a task at the tail.                                              *)
LEMMA ListInvAdd ==
    ASSUME PoolInv, ListInv, submitted < NumTasks, Enqueue(submitted + 1),
           UNCHANGED task, NoNewRunner
    PROVE  ListInv'
<1> DEFINE t == submitted + 1
<1> USE DEF PoolInv, ListInv
<1>1. /\ t \in Tasks /\ t \in Nat /\ t # NULL /\ submitted \in Nat
      /\ Tasks \subseteq Nat /\ state[t] = "new"
  BY NumTasksNat DEF TypeOK, Tasks
<1>2. last' = t /\ submitted' = t /\ state' = [state EXCEPT ![t] = "queued"]
  BY DEF Enqueue
<1>3. Queued' = Queued \cup {t}
  BY <1>1, <1>2 DEF Queued, TypeOK
<1>4. ListIntact'
  <2>1. CASE first = NULL
    <3>1. first' = t /\ next' = [next EXCEPT ![t] = NULL]
      BY <2>1 DEF Enqueue
    <3>2. Queued' = {t}
      BY <1>3, <2>1 DEF ListIntact
    <3>3. QED
      BY <1>1, <1>2, <3>1, <3>2 DEF ListIntact, TypeOK
  <2>2. CASE first # NULL
    <3>1. first' = first /\ next' = [next EXCEPT ![last] = t, ![t] = NULL]
      BY <2>2 DEF Enqueue
    <3>2. /\ last = submitted /\ first <= last /\ first \in Nat /\ last \in Tasks
          /\ Queued = first..last
          /\ \A s \in first..(last - 1) : next[s] = s + 1
      BY <1>1, <2>2 DEF ListIntact, TypeOK
    <3>3. Queued' = first'..last'
      BY <1>1, <1>2, <1>3, <3>1, <3>2
    <3>4. first' <= last' /\ next'[last'] = NULL
      BY <1>1, <1>2, <3>1, <3>2 DEF TypeOK
    <3>5. ASSUME NEW s \in first'..(last' - 1)
          PROVE  next'[s] = s + 1
      <4>1. s \in Nat /\ first <= s /\ s <= last /\ s # t /\ s \in Tasks
        <5>1. s \in first..submitted /\ first \in Nat \ {0} /\ NumTasks \in Nat
          BY <1>1, <1>2, <2>2, <3>1, <3>2, NumTasksNat
        <5>2. QED
          BY <1>1, <3>2, <5>1 DEF Tasks
      <4>2. CASE s = last
        BY <1>1, <3>1, <3>2, <4>1, <4>2 DEF TypeOK
      <4>3. CASE s # last
        BY <1>1, <3>1, <3>2, <4>1, <4>3 DEF TypeOK
      <4>4. QED
        BY <4>2, <4>3
    <3>6. QED
      BY <1>1, <1>2, <2>2, <3>1, <3>3, <3>4, <3>5 DEF ListIntact
  <2>3. QED
    BY <2>1, <2>2
<1>5. OneRunner'
  <2>1. \A w \in Workers : wpc[w] = "run" => task[w] # t
    BY <1>1 DEF OneRunner
  <2>2. QED
    BY <1>1, <1>2, <2>1 DEF OneRunner, NoNewRunner, TypeOK
<1>6. (\A s \in Tasks : state[s] = "new" <=> s > submitted)'
  BY <1>1, <1>2 DEF TypeOK
<1>7. QED
  BY <1>4, <1>5, <1>6

(* What one step does to the state of a task, given the invariants.        *)
FifoStep ==
    \A t \in Tasks :
        /\ state'[t] # state[t] =>
               <<state[t], state'[t]>> \in {<<"new", "queued">>, <<"queued", "running">>,
                                            <<"running", "freed">>}
        /\ state[t] = "queued" /\ state'[t] = "running" =>
               \A s \in 1..(t - 1) : state[s] \in {"running", "freed"}

LEMMA ListInvStep == PoolInv /\ ListInv /\ [Next]_vars => ListInv' /\ FifoStep
<1> SUFFICES ASSUME PoolInv, ListInv, [Next]_vars PROVE ListInv' /\ FifoStep
  OBVIOUS
<1>1. CASE UNCHANGED <<list, state, task, submitted>> /\ NoNewRunner
  <2>1. Queued' = Queued
    BY <1>1 DEF Queued
  <2>2. ListIntact' /\ OneRunner'
    BY <1>1, <2>1 DEF ListInv, ListIntact, OneRunner, list, NoNewRunner
  <2>3. QED
    BY <1>1, <2>2 DEF ListInv, FifoStep
<1>2. CASE \E w \in Workers, flag \in BOOLEAN : PopTask(w, flag)
  <2>1. PICK w \in Workers, flag \in BOOLEAN : PopTask(w, flag)
    BY <1>2
  <2>2. /\ ListInv' /\ first \in Tasks /\ state[first] = "queued"
        /\ \A s \in 1..(first - 1) : state[s] \in {"running", "freed"}
    BY <2>1, ListInvPop
  <2>3. state' = [state EXCEPT ![first] = "running"]
    BY <2>1 DEF PopTask
  <2>4. QED
    BY <2>2, <2>3 DEF FifoStep, PoolInv, TypeOK
<1>3. CASE \E w \in Workers : RunTask(w)
  <2>1. PICK w \in Workers : RunTask(w)
    BY <1>3
  <2>2. ListInv' /\ task[w] \in Tasks /\ state[task[w]] = "running"
    BY <2>1, ListInvRun
  <2>3. state' = [state EXCEPT ![task[w]] = "freed"]
    BY <2>1 DEF RunTask
  <2>4. QED
    BY <2>2, <2>3 DEF FifoStep, PoolInv, TypeOK
<1>4. CASE /\ submitted < NumTasks /\ Enqueue(submitted + 1)
           /\ UNCHANGED task /\ NoNewRunner
  <2>1. ListInv'
    BY <1>4, ListInvAdd
  <2>2. submitted + 1 \in Tasks /\ state[submitted + 1] = "new"
    BY <1>4, NumTasksNat DEF PoolInv, TypeOK, Tasks, ListInv
  <2>3. state' = [state EXCEPT ![submitted + 1] = "queued"]
    BY <1>4 DEF Enqueue
  <2>4. QED
    BY <2>1, <2>2, <2>3 DEF FifoStep, PoolInv, TypeOK
<1>5. QED
  BY <1>1, <1>2, <1>3, <1>4, StepKinds

LEMMA ListInvInit == Init => ListInv
  BY NumTasksNat DEF Init, ListInv, ListIntact, OneRunner, Queued, Tasks

LEMMA Invariance == Spec => [](PoolInv /\ ListInv)
<1>1. Init => PoolInv /\ ListInv
  BY PoolInvInit, ListInvInit
<1>2. PoolInv /\ ListInv /\ [Next]_vars => PoolInv' /\ ListInv'
  BY PoolInvStep, ListInvStep
<1>3. QED
  BY <1>1, <1>2, PTL DEF Spec

(* The linked list holds the queued tasks in order, and threadpool_add_task*)
(* never writes through the pointer to a task that was taken.              *)
THEOREM ListCorrect == Spec => []ListIntact
<1>1. ListInv => ListIntact
  BY DEF ListInv
<1>2. QED
  BY <1>1, Invariance, PTL

(* No task is run, or freed, by two workers.                               *)
THEOREM RunnersExclusive == Spec => []OneRunner
<1>1. ListInv => OneRunner
  BY DEF ListInv
<1>2. QED
  BY <1>1, Invariance, PTL

(* Tasks start in the order of submission, and each one only once.         *)
THEOREM TasksInOrder == Spec => FifoOnce
<1>1. PoolInv /\ ListInv /\ [Next]_vars => [FifoStep]_vars
  BY ListInvStep
<1>2. Spec => [][FifoStep]_vars
  BY <1>1, Invariance, PTL DEF Spec
<1>3. QED
  BY <1>2 DEF FifoOnce, FifoStep

=============================================================================
