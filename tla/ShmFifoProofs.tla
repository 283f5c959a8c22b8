--------------------------- MODULE ShmFifoProofs ---------------------------
(***************************************************************************)
(* Proofs about the warehouse in shared memory (fifo.c, sem.c), for any    *)
(* number of processes, blocks, rounds and crashes: while it is set up and *)
(* used, and whoever is killed where, one process at a time is inside; and *)
(* when nobody uses it before its header is filled, no product is          *)
(* overwritten in its block and the oldest is the one that is fetched.     *)
(***************************************************************************)
EXTENDS ShmFifo, FiniteSetTheorems, TLAPS

-----------------------------------------------------------------------------
(* The inductive invariant.                                                *)

(* The processes between P and V of the mutex.                             *)
Inside == {p \in Procs : pc[p] \in {"body", "advance", "vmutex"} \X {0}}

(* A process holds a free block until it has filled it and gone past it, a *)
(* full one until it has emptied it; one that is killed holds it for ever, *)
(* and is not counted.                                                     *)
HoldsFree(p, at) ==
    \/ p \in Producers /\ at \in {"mutex", "body", "advance"} \X {0}
    \/ p \notin Producers /\ at \in {"vmutex", "post"} \X {0}
HoldsFull(p, at) ==
    \/ p \notin Producers /\ at \in {"mutex", "body", "advance"} \X {0}
    \/ p \in Producers /\ at \in {"vmutex", "post"} \X {0}
FreeHands == {p \in Procs : HoldsFree(p, pc[p])}
FullHands == {p \in Procs : HoldsFull(p, pc[p])}

(* What the semaphores may still grant and what is in somebody's hands.    *)
Bounds ==
    /\ sem[Mutex] + Cardinality(Inside) <= 1
    /\ sem[Free] + Cardinality(FreeHands) + (nput - nget) <= N
    /\ sem[Full] + Cardinality(FullHands) <= nput - nget

Headers == {"header"} \X (1..4)

(* The semaphores exist in the order in which they are made: all of them   *)
(* before a process leaves fifo_init, and those behind the one that is     *)
(* being made do not.                                                      *)
Stage(p) ==
    /\ pc[p] \in OpPCs \cup Headers => sem[Full] # Absent
    /\ \A i \in Sems : pc[p] = <<"setval", i>> =>
          sem[i] # Absent /\ \A j \in Sems : j > i => sem[j] = Absent
    /\ \A i \in Sems : i > Mutex /\ pc[p] = <<"create", i>> =>
          sem[i - 1] # Absent /\ \A j \in Sems : j >= i => sem[j] = Absent
    /\ pc[p] \notin EndPCs => left[p] > 0

SetUp ==
    /\ \A p \in Procs : Stage(p)
    /\ \A i, j \in Sems : i < j /\ sem[j] # Absent => sem[i] # Absent
    /\ \A p, q \in Creating : p = q
    /\ sem[Full] = Absent => nput = 0 /\ nget = 0

ShmInv == TypeOK /\ SetUp /\ Bounds

-----------------------------------------------------------------------------
(* Sets of processes.                                                      *)

LEMMA SomeProcs ==
    ASSUME NEW S, S \subseteq Procs
    PROVE  IsFiniteSet(S) /\ Cardinality(S) \in Nat
BY ProcsFinite, FS_Subset, FS_CardinalityType DEF Procs

LEMMA OneMoves ==
    ASSUME NEW A, NEW B, NEW p \in Procs, A \subseteq Procs, B \subseteq Procs,
           \A q \in Procs : q # p => (q \in A <=> q \in B)
    PROVE  /\ Cardinality(A) \in Nat /\ Cardinality(B) \in Nat
           /\ p \notin A /\ p \in B => Cardinality(B) = Cardinality(A) + 1
           /\ p \in A /\ p \notin B => Cardinality(B) = Cardinality(A) - 1
           /\ (p \in A <=> p \in B) => Cardinality(B) = Cardinality(A)
           /\ p \in A => Cardinality(A) > 0
<1>1. IsFiniteSet(A) /\ Cardinality(A) \in Nat /\ Cardinality(B) \in Nat
  BY SomeProcs
<1>2. ASSUME p \notin A, p \in B
      PROVE  Cardinality(B) = Cardinality(A) + 1
  <2>1. B = A \cup {p}
    BY <1>2
  <2> QED
    BY <1>1, <1>2, <2>1, FS_AddElement
<1>3. ASSUME p \in A, p \notin B
      PROVE  Cardinality(B) = Cardinality(A) - 1
  <2>1. B = A \ {p}
    BY <1>3
  <2> QED
    BY <1>1, <1>3, <2>1, FS_RemoveElement
<1>4. ASSUME p \in A <=> p \in B
      PROVE  A = B
  BY <1>4
<1>5. ASSUME p \in A
      PROVE  Cardinality(A) > 0
  <2>1. A # {}
    BY <1>5
  <2>2. Cardinality(A) # 0
    BY <1>1, <2>1, FS_EmptySet
  <2> QED
    BY <1>1, <2>2
<1> QED
  BY <1>1, <1>2, <1>3, <1>4, <1>5

(* A set without two members has at most one.                              *)
LEMMA AtMostOne ==
    ASSUME NEW A, IsFiniteSet(A), \A p, q \in A : p = q
    PROVE  Cardinality(A) <= 1
<1>1. CASE A = {}
  BY <1>1, FS_EmptySet
<1>2. CASE A # {}
  <2>1. PICK p : p \in A
    BY <1>2
  <2>2. A = {p}
    BY <2>1
  <2> QED
    BY <2>2, FS_Singleton
<1> QED
  BY <1>1, <1>2

Moves(p, a, b) == pc[p] = a /\ pc' = [pc EXCEPT ![p] = b]

LEMMA HandsMove ==
    ASSUME TypeOK, NEW p \in Procs, NEW a, NEW b, Moves(p, a, b)
    PROVE  /\ Cardinality(Inside) \in Nat /\ Cardinality(Inside') \in Nat
           /\ Cardinality(FreeHands) \in Nat /\ Cardinality(FreeHands') \in Nat
           /\ Cardinality(FullHands) \in Nat /\ Cardinality(FullHands') \in Nat
           /\ LET in == {"body", "advance", "vmutex"} \X {0}
              IN  /\ a \notin in /\ b \in in => Cardinality(Inside') = Cardinality(Inside) + 1
                  /\ a \in in /\ b \notin in => Cardinality(Inside') = Cardinality(Inside) - 1
                  /\ (a \in in <=> b \in in) => Cardinality(Inside') = Cardinality(Inside)
           /\ ~HoldsFree(p, a) /\ HoldsFree(p, b)
                 => Cardinality(FreeHands') = Cardinality(FreeHands) + 1
           /\ HoldsFree(p, a) /\ ~HoldsFree(p, b)
                 => Cardinality(FreeHands') = Cardinality(FreeHands) - 1
           /\ (HoldsFree(p, a) <=> HoldsFree(p, b))
                 => Cardinality(FreeHands') = Cardinality(FreeHands)
           /\ ~HoldsFull(p, a) /\ HoldsFull(p, b)
                 => Cardinality(FullHands') = Cardinality(FullHands) + 1
           /\ HoldsFull(p, a) /\ ~HoldsFull(p, b)
                 => Cardinality(FullHands') = Cardinality(FullHands) - 1
           /\ (HoldsFull(p, a) <=> HoldsFull(p, b))
                 => Cardinality(FullHands') = Cardinality(FullHands)
<1> DEFINE in == {"body", "advance", "vmutex"} \X {0}
<1>1. pc[p] = a /\ pc'[p] = b /\ \A q \in Procs : q # p => pc'[q] = pc[q]
  BY DEF TypeOK, Moves
<1>2. /\ FreeHands \subseteq Procs /\ FreeHands' \subseteq Procs
      /\ \A q \in Procs : q # p => (q \in FreeHands <=> q \in FreeHands')
      /\ p \in FreeHands <=> HoldsFree(p, a)
      /\ p \in FreeHands' <=> HoldsFree(p, b)
  BY <1>1 DEF FreeHands, HoldsFree
<1>3. /\ FullHands \subseteq Procs /\ FullHands' \subseteq Procs
      /\ \A q \in Procs : q # p => (q \in FullHands <=> q \in FullHands')
      /\ p \in FullHands <=> HoldsFull(p, a)
      /\ p \in FullHands' <=> HoldsFull(p, b)
  BY <1>1 DEF FullHands, HoldsFull
<1>4. /\ Inside \subseteq Procs /\ Inside' \subseteq Procs
      /\ \A q \in Procs : q # p => (q \in Inside <=> q \in Inside')
      /\ p \in Inside <=> a \in in
      /\ p \in Inside' <=> b \in in
  BY <1>1 DEF Inside
<1>5. /\ Cardinality(FreeHands) \in Nat /\ Cardinality(FreeHands') \in Nat
      /\ p \notin FreeHands /\ p \in FreeHands' => Cardinality(FreeHands') = Cardinality(FreeHands) + 1
      /\ p \in FreeHands /\ p \notin FreeHands' => Cardinality(FreeHands') = Cardinality(FreeHands) - 1
      /\ (p \in FreeHands <=> p \in FreeHands') => Cardinality(FreeHands') = Cardinality(FreeHands)
  BY <1>2, OneMoves
<1>6. /\ Cardinality(FullHands) \in Nat /\ Cardinality(FullHands') \in Nat
      /\ p \notin FullHands /\ p \in FullHands' => Cardinality(FullHands') = Cardinality(FullHands) + 1
      /\ p \in FullHands /\ p \notin FullHands' => Cardinality(FullHands') = Cardinality(FullHands) - 1
      /\ (p \in FullHands <=> p \in FullHands') => Cardinality(FullHands') = Cardinality(FullHands)
  BY <1>3, OneMoves
<1>7. /\ Cardinality(Inside) \in Nat /\ Cardinality(Inside') \in Nat
      /\ p \notin Inside /\ p \in Inside' => Cardinality(Inside') = Cardinality(Inside) + 1
      /\ p \in Inside /\ p \notin Inside' => Cardinality(Inside') = Cardinality(Inside) - 1
      /\ (p \in Inside <=> p \in Inside') => Cardinality(Inside') = Cardinality(Inside)
  BY <1>4, OneMoves
<1> HIDE DEF in
<1>8. /\ a \notin in /\ b \in in => Cardinality(Inside') = Cardinality(Inside) + 1
      /\ a \in in /\ b \notin in => Cardinality(Inside') = Cardinality(Inside) - 1
      /\ (a \in in <=> b \in in) => Cardinality(Inside') = Cardinality(Inside)
  BY <1>4, <1>7
<1> USE DEF in
<1> QED
  BY <1>2, <1>3, <1>5, <1>6, <1>7, <1>8

-----------------------------------------------------------------------------
(* What a step keeps.                                                      *)

PCs == InitPCs \cup OpPCs \cup EndPCs
CreatingPCs == ({"setval"} \X Sems) \cup ({"create"} \X {Free, Full}) \cup Headers
InsidePCs == {"body", "advance", "vmutex"} \X {0}

(* Stage of a process at `at', that has l products to go.                  *)
StageAt(at, l) ==
    /\ at \in OpPCs \cup Headers => sem[Full] # Absent
    /\ \A i \in Sems : at = <<"setval", i>> =>
          sem[i] # Absent /\ \A j \in Sems : j > i => sem[j] = Absent
    /\ \A i \in Sems : i > Mutex /\ at = <<"create", i>> =>
          sem[i - 1] # Absent /\ \A j \in Sems : j >= i => sem[j] = Absent
    /\ at \notin EndPCs => l > 0

LEMMA Moved ==
    ASSUME TypeOK, NEW p \in Procs, NEW a, NEW b, Moves(p, a, b)
    PROVE  /\ pc[p] = a /\ pc'[p] = b /\ \A q \in Procs : q # p => pc'[q] = pc[q]
           /\ b \in PCs => pc' \in [Procs -> PCs]
           /\ p \in Creating <=> a \in CreatingPCs
           /\ p \in Creating' <=> b \in CreatingPCs
           /\ \A q \in Procs : q # p => (q \in Creating' <=> q \in Creating)
<1>1. pc[p] = a /\ pc'[p] = b /\ \A q \in Procs : q # p => pc'[q] = pc[q]
  BY DEF TypeOK, Moves
<1>2. b \in PCs => pc' \in [Procs -> PCs]
  BY DEF TypeOK, Moves, PCs
<1>3. /\ Creating = {q \in Procs : pc[q] \in CreatingPCs}
      /\ Creating' = {q \in Procs : pc'[q] \in CreatingPCs}
  BY DEF Creating, CreatingPCs, Headers
<1> QED
  BY <1>1, <1>2, <1>3

(* A step that makes no semaphore.                                         *)
LEMMA SetUpKept ==
    ASSUME ShmInv, NEW p \in Procs, NEW a, NEW b, Moves(p, a, b),
           \A i \in Sems : sem'[i] = Absent <=> sem[i] = Absent,
           \A q \in Procs : q # p => left'[q] = left[q],
           StageAt(b, left'[p]), b \in CreatingPCs => a \in CreatingPCs,
           sem[Full] = Absent => nput' = nput /\ nget' = nget
    PROVE  SetUp'
<1>1. /\ pc[p] = a /\ pc'[p] = b /\ \A q \in Procs : q # p => pc'[q] = pc[q]
      /\ p \in Creating <=> a \in CreatingPCs
      /\ p \in Creating' <=> b \in CreatingPCs
      /\ \A q \in Procs : q # p => (q \in Creating' <=> q \in Creating)
  BY Moved DEF ShmInv
<1>2. Full \in Sems
  BY DEF Full, Sems
<1>3. ASSUME NEW q \in Procs
      PROVE  Stage(q)'
  <2>1. \A i \in Sems : i > Mutex => i - 1 \in Sems
    BY DEF Sems, Mutex, Free, Full
  <2>2. CASE q = p
    BY <1>1, <1>2, <2>1, <2>2 DEF Stage, StageAt
  <2>3. CASE q # p
    <3>1. Stage(q) /\ pc'[q] = pc[q] /\ left'[q] = left[q]
      BY <1>1, <2>3 DEF ShmInv, SetUp
    <3> QED
      BY <1>2, <2>1, <3>1 DEF Stage
  <2> QED
    BY <2>2, <2>3
<1>4. Creating' \subseteq Creating
  BY <1>1 DEF Creating
<1>5. \A q, r \in Creating' : q = r
  BY <1>4 DEF ShmInv, SetUp
<1>6. \A i, j \in Sems : i < j /\ sem'[j] # Absent => sem'[i] # Absent
  BY DEF ShmInv, SetUp
<1>7. sem'[Full] = Absent => nput' = 0 /\ nget' = 0
  BY <1>2 DEF ShmInv, SetUp
<1> QED
  BY <1>3, <1>5, <1>6, <1>7 DEF SetUp

(* A step that takes nothing and lets nobody in.                           *)
LEMMA BoundsKept ==
    ASSUME ShmInv, NEW p \in Procs, NEW a, NEW b, Moves(p, a, b),
           \A i \in Sems : sem'[i] \in Int /\ sem'[i] <= sem[i],
           b \in InsidePCs => a \in InsidePCs,
           HoldsFree(p, b) => HoldsFree(p, a), HoldsFull(p, b) => HoldsFull(p, a),
           nput' = nput, nget' = nget
    PROVE  Bounds'
<1>1. TypeOK /\ Bounds
  BY DEF ShmInv
<1>2. /\ Cardinality(Inside) \in Nat /\ Cardinality(Inside') \in Nat
      /\ Cardinality(FreeHands) \in Nat /\ Cardinality(FreeHands') \in Nat
      /\ Cardinality(FullHands) \in Nat /\ Cardinality(FullHands') \in Nat
  BY <1>1, HandsMove
<1>3. /\ Cardinality(Inside') <= Cardinality(Inside)
  BY <1>1, <1>2, HandsMove DEF InsidePCs
<1>4. Cardinality(FreeHands') <= Cardinality(FreeHands)
  BY <1>1, <1>2, HandsMove
<1>5. Cardinality(FullHands') <= Cardinality(FullHands)
  BY <1>1, <1>2, HandsMove
<1>6. \A i \in Sems : sem[i] \in Int /\ sem'[i] \in Int /\ sem'[i] <= sem[i]
  BY <1>1 DEF TypeOK, Absent
<1>7. Mutex \in Sems /\ Free \in Sems /\ Full \in Sems
  BY DEF Mutex, Free, Full, Sems
<1>8. nput \in Nat /\ nget \in Nat /\ N \in Nat
  BY <1>1, SizesAssumption DEF TypeOK
<1>9. sem'[Mutex] + Cardinality(Inside') <= 1
  BY <1>1, <1>2, <1>3, <1>6, <1>7 DEF Bounds
<1>10. sem'[Free] + Cardinality(FreeHands') + (nput' - nget') <= N
  BY <1>1, <1>2, <1>4, <1>6, <1>7, <1>8 DEF Bounds
<1>11. sem'[Full] + Cardinality(FullHands') <= nput' - nget'
  BY <1>1, <1>2, <1>5, <1>6, <1>7, <1>8 DEF Bounds
<1> QED
  BY <1>9, <1>10, <1>11 DEF Bounds, Mutex, Free, Full

(* Before the last semaphore exists nobody uses the FIFO.                  *)
LEMMA Quiet ==
    ASSUME ShmInv, sem[Full] = Absent
    PROVE  /\ Cardinality(Inside) = 0 /\ Cardinality(FreeHands) = 0 /\ Cardinality(FullHands) = 0
           /\ nput = 0 /\ nget = 0
<1>1. \A p \in Procs : pc[p] \notin OpPCs
  BY DEF ShmInv, SetUp, Stage
<1>2. Inside = {} /\ FreeHands = {} /\ FullHands = {}
  BY <1>1 DEF Inside, FreeHands, FullHands, HoldsFree, HoldsFull, OpPCs
<1> QED
  BY <1>2, FS_EmptySet DEF ShmInv, SetUp

LEMMA ShmInit == Init => ShmInv
<1> SUFFICES ASSUME Init
             PROVE  ShmInv
  OBVIOUS
<1>1. <<"shmget", 0>> \in PCs /\ <<"shmget", 0>> \notin OpPCs \cup Headers \cup CreatingPCs \cup EndPCs
  BY DEF PCs, InitPCs, OpPCs, EndPCs, CreatingPCs, Headers
<1>2. /\ sem = [i \in Sems |-> IF warm THEN InitVal[i] ELSE Absent] /\ warm \in BOOLEAN
      /\ InitVal[1] = 1 /\ InitVal[2] = N /\ InitVal[3] = 0 /\ Sems = {1, 2, 3} /\ N \in Nat /\ N > 0
  BY SizesAssumption DEF Init, InitVal, Sems, Mutex, Free, Full
<1>3. sem \in [Sems -> Nat \cup {Absent}]
  BY <1>2
<1>4. TypeOK
  <2>1. head \in [sized : {0, 1}, block_total : {0, N}, rd_index : Slots, wr_index : Slots]
    BY <1>2 DEF Init, Slots
  <2>2. pc \in [Procs -> InitPCs \cup OpPCs \cup EndPCs]
    BY <1>1 DEF Init, PCs
  <2>3. /\ warm \in BOOLEAN /\ shm \in BOOLEAN /\ early \in BOOLEAN
        /\ nput \in Nat /\ nget \in Nat /\ crashes \in 0..MaxCrashes
    <3>1. warm \in BOOLEAN /\ shm = warm /\ early = FALSE /\ nput = 0 /\ nget = 0 /\ crashes = 0
      BY DEF Init
    <3>2. shm \in BOOLEAN /\ early \in BOOLEAN
      BY <3>1, Zenon
    <3> QED
      BY <3>1, <3>2, SizesAssumption
  <2>4. /\ payload \in [Slots -> Nat \cup {Nothing}] /\ left \in [Procs -> 0..Rounds]
        /\ got \in [Consumers -> Nat \cup {Nothing}]
    BY SizesAssumption DEF Init
  <2> QED
    BY <1>3, <2>1, <2>2, <2>3, <2>4 DEF TypeOK
<1>5. SetUp
  <2>1. \A p \in Procs : Stage(p)
    BY <1>1, <1>2, SizesAssumption DEF Init, Stage, CreatingPCs, Headers, Mutex, Free, Full
  <2>2. Creating = {}
    BY <1>1 DEF Init, Creating, CreatingPCs, Headers
  <2>3. \A i, j \in Sems : i < j /\ sem[j] # Absent => sem[i] # Absent
    BY <1>2 DEF Absent
  <2> QED
    BY <2>1, <2>2, <2>3 DEF Init, SetUp
<1>6. Inside = {} /\ FreeHands = {} /\ FullHands = {}
  BY <1>1 DEF Init, Inside, FreeHands, FullHands, HoldsFree, HoldsFull, OpPCs
<1>7. Bounds
  BY <1>2, <1>6, FS_EmptySet DEF Init, Bounds, Mutex, Free, Full, Absent
<1> QED
  BY <1>4, <1>5, <1>7 DEF ShmInv

-----------------------------------------------------------------------------
(* The steps of fifo_init.                                                 *)

(* A step of p from a to b that leaves the semaphores and counts alone.    *)
LEMMA PlainStep ==
    ASSUME ShmInv, NEW p \in Procs, NEW a, NEW b \in PCs, Moves(p, a, b),
           UNCHANGED <<warm, sem, payload, left, got, nput, nget, early>>,
           shm' \in BOOLEAN, crashes' \in 0..MaxCrashes,
           head' \in [sized : {0, 1}, block_total : {0, N}, rd_index : Slots, wr_index : Slots],
           StageAt(b, left[p]), b \in CreatingPCs => a \in CreatingPCs,
           b \in InsidePCs => a \in InsidePCs,
           HoldsFree(p, b) => HoldsFree(p, a), HoldsFull(p, b) => HoldsFull(p, a)
    PROVE  ShmInv'
<1>1. TypeOK
  BY DEF ShmInv
<1>2. pc' \in [Procs -> PCs]
  BY <1>1, Moved
<1>3. TypeOK'
  BY <1>1, <1>2 DEF TypeOK, PCs
<1>4. SetUp'
  BY SetUpKept
<1>5. \A i \in Sems : sem'[i] \in Int /\ sem'[i] <= sem[i]
  BY <1>1 DEF TypeOK, Absent
<1>6. Bounds'
  BY <1>5, BoundsKept
<1> QED
  BY <1>3, <1>4, <1>6 DEF ShmInv

(* Program points outside fifo_produce and fifo_consume hold nothing.      *)
LEMMA HoldsNothing ==
    ASSUME NEW p, NEW at, at \notin OpPCs
    PROVE  at \notin InsidePCs /\ ~HoldsFree(p, at) /\ ~HoldsFull(p, at)
BY DEF OpPCs, InsidePCs, HoldsFree, HoldsFull

(* shmget and shmat, and every way to end.                                 *)
LEMMA AttachSteps ==
    ASSUME ShmInv, NEW p \in Procs, ShmGet(p) \/ ShmCreate(p) \/ Crash(p)
    PROVE  ShmInv'
<1>1. TypeOK /\ Stage(p)
  BY DEF ShmInv, SetUp
<1>2. /\ <<"open", 1>> \in PCs /\ <<"open", 1>> \notin OpPCs \cup Headers \cup CreatingPCs
      /\ <<"shmcreat", 0>> \in PCs /\ <<"shmcreat", 0>> \notin OpPCs \cup Headers \cup CreatingPCs
      /\ <<"create", 1>> \in PCs /\ <<"create", 1>> \notin OpPCs \cup Headers \cup CreatingPCs
      /\ <<"killed", 0>> \in PCs /\ <<"killed", 0>> \notin OpPCs \cup Headers \cup CreatingPCs
      /\ <<"killed", 0>> \in EndPCs
  BY DEF PCs, InitPCs, OpPCs, EndPCs, CreatingPCs, Headers, Sems, Mutex, Free, Full
<1>3. /\ head \in [sized : {0, 1}, block_total : {0, N}, rd_index : Slots, wr_index : Slots]
      /\ shm \in BOOLEAN /\ crashes \in 0..MaxCrashes
  BY <1>1 DEF TypeOK
<1>4. \A l : /\ l > 0 => StageAt(<<"open", 1>>, l)
             /\ l > 0 => StageAt(<<"shmcreat", 0>>, l)
             /\ l > 0 => StageAt(<<"create", 1>>, l)
             /\ StageAt(<<"killed", 0>>, l)
  BY <1>2 DEF StageAt, Mutex
<1>5. CASE ShmGet(p)
  <2>1. pc[p] = <<"shmget", 0>> /\ left[p] > 0
    BY <1>1, <1>5 DEF ShmGet, At, Stage, EndPCs
  <2>2. \E b \in {<<"open", 1>>, <<"shmcreat", 0>>} : Moves(p, <<"shmget", 0>>, b)
    BY <1>5, <2>1 DEF ShmGet, Goto, Moves, Mutex
  <2> QED
    BY <1>2, <1>3, <1>4, <1>5, <2>1, <2>2, PlainStep, HoldsNothing DEF ShmGet
<1>6. CASE ShmCreate(p)
  <2>1. pc[p] = <<"shmcreat", 0>> /\ left[p] > 0
    BY <1>1, <1>6 DEF ShmCreate, At, Stage, EndPCs
  <2>2. Moves(p, <<"shmcreat", 0>>, <<"create", 1>>)
    BY <1>6, <2>1 DEF ShmCreate, Goto, Moves, Mutex
  <2> QED
    BY <1>2, <1>3, <1>4, <1>6, <2>1, <2>2, PlainStep, HoldsNothing DEF ShmCreate
<1>7. CASE Crash(p)
  <2>1. Moves(p, pc[p], <<"killed", 0>>)
    BY <1>7 DEF Crash, Goto, Moves
  <2>2. crashes' \in 0..MaxCrashes
    BY <1>3, <1>7, SizesAssumption DEF Crash
  <2> QED
    BY <1>2, <1>3, <1>4, <1>7, <2>1, <2>2, PlainStep, HoldsNothing DEF Crash
<1> QED
  BY <1>5, <1>6, <1>7

LEMMA OpenStep ==
    ASSUME ShmInv, NEW p \in Procs, NEW i \in Sems, OpenSem(p, i)
    PROVE  ShmInv'
<1>1. TypeOK /\ Stage(p)
  BY DEF ShmInv, SetUp
<1>2. /\ <<"open", 2>> \in PCs /\ <<"open", 2>> \notin OpPCs \cup Headers \cup CreatingPCs
      /\ <<"open", 3>> \in PCs /\ <<"open", 3>> \notin OpPCs \cup Headers \cup CreatingPCs
      /\ <<"failed", 0>> \in PCs /\ <<"failed", 0>> \notin OpPCs \cup Headers \cup CreatingPCs
      /\ <<"failed", 0>> \in EndPCs
      /\ <<"wait", 0>> \in PCs /\ <<"wait", 0>> \notin Headers \cup CreatingPCs
  BY DEF PCs, InitPCs, OpPCs, EndPCs, CreatingPCs, Headers, Sems, Mutex, Free, Full
<1>3. /\ head \in [sized : {0, 1}, block_total : {0, N}, rd_index : Slots, wr_index : Slots]
      /\ shm \in BOOLEAN /\ crashes \in 0..MaxCrashes
  BY <1>1 DEF TypeOK
<1>4. \A l : /\ l > 0 => StageAt(<<"open", 2>>, l)
             /\ l > 0 => StageAt(<<"open", 3>>, l)
             /\ l > 0 /\ sem[Full] # Absent => StageAt(<<"wait", 0>>, l)
             /\ StageAt(<<"failed", 0>>, l)
  BY <1>2 DEF StageAt
<1>5. pc[p] = <<"open", i>> /\ left[p] > 0
  BY <1>1 DEF OpenSem, Stage, EndPCs
<1>6. \/ Moves(p, <<"open", i>>, <<"failed", 0>>)
      \/ sem[Full] # Absent /\ Moves(p, <<"open", i>>, <<"wait", 0>>)
      \/ Moves(p, <<"open", i>>, <<"open", 2>>)
      \/ Moves(p, <<"open", i>>, <<"open", 3>>)
  <2>1. i = 1 \/ i = 2 \/ i = 3
    BY DEF Sems, Mutex, Free, Full
  <2> QED
    BY <1>5, <2>1 DEF OpenSem, Goto, Moves, Full
<1>7. <<"wait", 0>> \notin InsidePCs /\ ~HoldsFree(p, <<"wait", 0>>) /\ ~HoldsFull(p, <<"wait", 0>>)
  BY DEF InsidePCs, HoldsFree, HoldsFull
<1>8. UNCHANGED <<warm, shm, sem, head, payload, left, got, nput, nget, early, crashes>>
  BY DEF OpenSem
<1>9. CASE Moves(p, <<"open", i>>, <<"failed", 0>>)
  BY <1>2, <1>3, <1>4, <1>8, <1>9, PlainStep, HoldsNothing
<1>10. CASE sem[Full] # Absent /\ Moves(p, <<"open", i>>, <<"wait", 0>>)
  BY <1>2, <1>3, <1>4, <1>5, <1>7, <1>8, <1>10, PlainStep
<1>11. CASE Moves(p, <<"open", i>>, <<"open", 2>>)
  BY <1>2, <1>3, <1>4, <1>5, <1>8, <1>11, PlainStep, HoldsNothing
<1>12. CASE Moves(p, <<"open", i>>, <<"open", 3>>)
  BY <1>2, <1>3, <1>4, <1>5, <1>8, <1>12, PlainStep, HoldsNothing
<1> QED
  BY <1>6, <1>9, <1>10, <1>11, <1>12

LEMMA HeaderStep ==
    ASSUME ShmInv, NEW p \in Procs, NEW i \in 1..4, Header(p, i)
    PROVE  ShmInv'
<1>1. TypeOK /\ Stage(p)
  BY DEF ShmInv, SetUp
<1>2. /\ \A j \in 1..4 : <<"header", j>> \in PCs /\ <<"header", j>> \notin OpPCs /\ <<"header", j>> \in Headers
                         /\ <<"header", j>> \in CreatingPCs /\ <<"header", j>> \notin EndPCs
      /\ <<"wait", 0>> \in PCs /\ <<"wait", 0>> \notin Headers \cup CreatingPCs
  BY DEF PCs, InitPCs, OpPCs, EndPCs, CreatingPCs, Headers, Sems
<1>3. pc[p] = <<"header", i>> /\ left[p] > 0 /\ sem[Full] # Absent
  BY <1>1, <1>2 DEF Header, Stage
<1>4. \A l : l > 0 /\ sem[Full] # Absent =>
         StageAt(<<"wait", 0>>, l) /\ \A j \in 1..4 : StageAt(<<"header", j>>, l)
  BY DEF StageAt
<1>5. head' \in [sized : {0, 1}, block_total : {0, N}, rd_index : Slots, wr_index : Slots]
  <2>1. /\ head \in [sized : {0, 1}, block_total : {0, N}, rd_index : Slots, wr_index : Slots]
        /\ 0 \in Slots
    BY <1>1, SizesAssumption DEF TypeOK, Slots
  <2>2. head' = [head EXCEPT ![HeaderField[i]] = HeaderVal[i]]
    BY DEF Header
  <2>3. i = 1 \/ i = 2 \/ i = 3 \/ i = 4
    OBVIOUS
  <2>4. CASE i = 1
    BY <2>1, <2>2, <2>4 DEF HeaderField, HeaderVal
  <2>5. CASE i = 2
    BY <2>1, <2>2, <2>5 DEF HeaderField, HeaderVal
  <2>6. CASE i = 3
    BY <2>1, <2>2, <2>6 DEF HeaderField, HeaderVal
  <2>7. CASE i = 4
    BY <2>1, <2>2, <2>7 DEF HeaderField, HeaderVal
  <2> QED
    BY <2>3, <2>4, <2>5, <2>6, <2>7
<1>6. shm \in BOOLEAN /\ crashes \in 0..MaxCrashes /\ UNCHANGED <<warm, shm, sem, payload, left, got, nput, nget, early, crashes>>
  BY <1>1 DEF TypeOK, Header
<1>7. CASE i = 4
  <2>1. Moves(p, <<"header", i>>, <<"wait", 0>>)
    BY <1>3, <1>7 DEF Header, Goto, Moves
  <2>2. <<"wait", 0>> \notin InsidePCs /\ ~HoldsFree(p, <<"wait", 0>>) /\ ~HoldsFull(p, <<"wait", 0>>)
    BY DEF InsidePCs, HoldsFree, HoldsFull
  <2> QED
    BY <1>2, <1>3, <1>4, <1>5, <1>6, <2>1, <2>2, PlainStep
<1>8. CASE i # 4
  <2>1. Moves(p, <<"header", i>>, <<"header", i + 1>>) /\ i + 1 \in 1..4
    BY <1>3, <1>8 DEF Header, Goto, Moves
  <2> QED
    BY <1>2, <1>3, <1>4, <1>5, <1>6, <2>1, PlainStep, HoldsNothing
<1> QED
  BY <1>7, <1>8

(* sem_create: the one that makes sem_mutex is the only one to go on.      *)
LEMMA CreateStep ==
    ASSUME ShmInv, NEW p \in Procs, NEW i \in Sems, CreateSem(p, i)
    PROVE  ShmInv'
<1>1. TypeOK /\ Stage(p) /\ SetUp /\ Bounds
  BY DEF ShmInv, SetUp
<1>2. /\ <<"failed", 0>> \in PCs /\ <<"failed", 0>> \notin OpPCs \cup Headers \cup CreatingPCs
      /\ <<"failed", 0>> \in EndPCs
      /\ <<"setval", i>> \in PCs /\ <<"setval", i>> \in CreatingPCs
      /\ <<"setval", i>> \notin OpPCs \cup Headers \cup EndPCs
      /\ <<"create", i>> \notin OpPCs \cup Headers \cup EndPCs
      /\ i > Mutex => <<"create", i>> \in CreatingPCs
  BY DEF PCs, InitPCs, OpPCs, EndPCs, CreatingPCs, Headers, Sems, Mutex, Free, Full
<1>3. pc[p] = <<"create", i>> /\ left[p] > 0
  BY <1>1, <1>2 DEF CreateSem, Stage
<1>4. UNCHANGED <<warm, shm, head, payload, left, got, nput, nget, early, crashes>>
  BY DEF CreateSem
<1>5. CASE sem[i] # Absent
  <2>1. Moves(p, <<"create", i>>, <<"failed", 0>>) /\ UNCHANGED sem
    BY <1>3, <1>5 DEF CreateSem, sem_create, Goto, Moves
  <2>2. StageAt(<<"failed", 0>>, left[p])
    BY <1>2 DEF StageAt
  <2>3. /\ head \in [sized : {0, 1}, block_total : {0, N}, rd_index : Slots, wr_index : Slots]
        /\ shm \in BOOLEAN /\ crashes \in 0..MaxCrashes
    BY <1>1 DEF TypeOK
  <2> QED
    BY <1>2, <1>4, <2>1, <2>2, <2>3, PlainStep, HoldsNothing
<1>6. CASE sem[i] = Absent
  <2>1. Moves(p, <<"create", i>>, <<"setval", i>>) /\ sem' = [sem EXCEPT ![i] = 0]
    BY <1>3, <1>6 DEF CreateSem, sem_create, Goto, Moves
  <2>2. /\ sem \in [Sems -> Nat \cup {Absent}] /\ Absent \notin Nat
        /\ sem' \in [Sems -> Nat \cup {Absent}]
        /\ sem'[i] = 0 /\ \A j \in Sems : j # i => sem'[j] = sem[j]
    BY <1>1, <2>1 DEF TypeOK, Absent
  <2>3. /\ pc' \in [Procs -> PCs] /\ pc[p] = <<"create", i>> /\ pc'[p] = <<"setval", i>>
        /\ \A q \in Procs : q # p => pc'[q] = pc[q]
        /\ p \in Creating <=> <<"create", i>> \in CreatingPCs
        /\ \A q \in Procs : q # p => (q \in Creating' <=> q \in Creating)
    BY <1>1, <1>2, <2>1, Moved
  <2>4. TypeOK'
    BY <1>1, <1>4, <2>2, <2>3 DEF TypeOK, PCs
  <2>5. Sems = {1, 2, 3} /\ Mutex = 1 /\ Free = 2 /\ Full = 3
    BY DEF Sems, Mutex, Free, Full
  <2>6. \A j \in Sems : j > i => sem[j] = Absent
    BY <1>1, <1>6 DEF SetUp
  <2>7. sem[Full] = Absent
    BY <1>6, <2>5, <2>6
  <2>8. \A q \in Creating : q = p
    <3>1. CASE i > Mutex
      BY <1>1, <1>2, <2>3, <3>1 DEF SetUp
    <3>2. CASE ~(i > Mutex)
      <4>1. sem[1] = Absent /\ sem[2] = Absent /\ sem[3] = Absent
        BY <1>6, <2>5, <2>6, <3>2
      <4>2. ASSUME NEW q \in Creating
            PROVE  FALSE
        <5>1. q \in Procs /\ pc[q] \in CreatingPCs /\ Stage(q)
          BY <1>1 DEF Creating, CreatingPCs, Headers, SetUp
        <5>2. \/ pc[q] \in Headers
              \/ \E j \in Sems : pc[q] = <<"setval", j>>
              \/ \E j \in Sems : j > Mutex /\ pc[q] = <<"create", j>> /\ j - 1 \in Sems
          BY <2>5, <5>1 DEF CreatingPCs
        <5>3. \A j \in Sems : sem[j] = Absent
          BY <2>5, <4>1
        <5> QED
          BY <2>5, <5>1, <5>2, <5>3 DEF Stage
      <4> QED
        BY <4>2
    <3> QED
      BY <3>1, <3>2
  <2>9. \A q, r \in Creating' : q = r
    BY <2>3, <2>8 DEF Creating
  <2>10. ASSUME NEW q \in Procs
         PROVE  Stage(q)'
    <3>1. CASE q = p
      <4>1. \A j \in Sems : j > i => sem'[j] = Absent
        BY <2>2, <2>5, <2>6
      <4>2. sem'[i] # Absent
        BY <2>2 DEF Absent
      <4>3. left'[p] > 0
        BY <1>3, <1>4
      <4>4. \A j \in Sems : <<"setval", i>> = <<"setval", j>> => i = j
        OBVIOUS
      <4>5. \A j \in Sems : <<"setval", i>> # <<"create", j>>
        OBVIOUS
      <4> QED
        BY <1>2, <2>3, <3>1, <4>1, <4>2, <4>3, <4>4, <4>5 DEF Stage
    <3>2. CASE q # p
      <4>1. Stage(q) /\ pc'[q] = pc[q] /\ left'[q] = left[q]
        BY <1>1, <1>4, <2>3, <3>2 DEF SetUp
      <4>2. q \notin Creating
        BY <2>8, <3>2
      <4>3. pc[q] \notin CreatingPCs
        BY <4>2 DEF Creating, CreatingPCs, Headers
      <4>4. /\ pc[q] \notin Headers
            /\ \A j \in Sems : pc[q] # <<"setval", j>>
            /\ \A j \in Sems : j > Mutex => pc[q] # <<"create", j>>
        BY <2>5, <4>3 DEF CreatingPCs
      <4>5. pc[q] \notin OpPCs
        BY <2>7, <4>1 DEF Stage
      <4> QED
        BY <4>1, <4>4, <4>5 DEF Stage
    <3> QED
      BY <3>1, <3>2
  <2>11. \A j, k \in Sems : j < k /\ sem'[k] # Absent => sem'[j] # Absent
    <3>1. \A j \in Sems : j < i => sem[j] # Absent
      <4>1. CASE i = 1
        BY <2>5, <4>1
      <4>2. CASE i # 1
        <5>1. sem[i - 1] # Absent /\ i - 1 \in Sems
          BY <1>1, <1>3, <2>5, <4>2 DEF Stage
        <5> QED
          BY <1>1, <2>5, <5>1 DEF SetUp
      <4> QED
        BY <4>1, <4>2
    <3> QED
      BY <1>1, <2>2, <2>5, <2>6, <3>1 DEF SetUp, Absent
  <2>12. nput' = 0 /\ nget' = 0 /\ nput = 0 /\ nget = 0
    BY <1>4, <2>7, Quiet
  <2>13. SetUp'
    BY <2>9, <2>10, <2>11, <2>12 DEF SetUp
  <2>14. Cardinality(Inside') = 0 /\ Cardinality(FreeHands') = 0 /\ Cardinality(FullHands') = 0
    <3>1. /\ <<"create", i>> \notin InsidePCs /\ ~HoldsFree(p, <<"create", i>>) /\ ~HoldsFull(p, <<"create", i>>)
          /\ <<"setval", i>> \notin InsidePCs /\ ~HoldsFree(p, <<"setval", i>>) /\ ~HoldsFull(p, <<"setval", i>>)
      BY <1>2, HoldsNothing
    <3> QED
      BY <1>1, <2>1, <2>7, <3>1, HandsMove, Quiet DEF InsidePCs
  <2>15. Bounds'
    <3>1. sem'[1] \in Int /\ sem'[1] <= 1 /\ sem'[2] \in Int /\ sem'[2] <= N /\ sem'[3] \in Int /\ sem'[3] <= 0
      <4>1. sem[1] \in Int /\ sem[1] <= 1 /\ sem[2] \in Int /\ sem[2] <= N /\ sem[3] = -1 /\ N \in Nat
        BY <1>1, <2>2, <2>5, <2>7, Quiet, SizesAssumption DEF Bounds, Absent
      <4> QED
        BY <2>2, <2>5, <4>1
    <3> QED
      BY <2>5, <2>12, <2>14, <3>1, SizesAssumption DEF Bounds
  <2> QED
    BY <2>4, <2>13, <2>15 DEF ShmInv
<1> QED
  BY <1>5, <1>6

(* sem_setval: before the last semaphore exists there is nothing to lose,  *)
(* and the last one is set to 0, which grants nothing.                     *)
LEMMA SetValStep ==
    ASSUME ShmInv, NEW p \in Procs, NEW i \in Sems, SetVal(p, i)
    PROVE  ShmInv'
<1>1. TypeOK /\ Stage(p) /\ SetUp /\ Bounds
  BY DEF ShmInv, SetUp
<1>2. Sems = {1, 2, 3} /\ Mutex = 1 /\ Free = 2 /\ Full = 3 /\ N \in Nat
  BY SizesAssumption DEF Sems, Mutex, Free, Full
<1>3. /\ <<"setval", i>> \in CreatingPCs /\ <<"setval", i>> \notin OpPCs \cup EndPCs
      /\ <<"header", 1>> \in PCs /\ <<"header", 1>> \in Headers /\ <<"header", 1>> \notin OpPCs
      /\ i # 3 => /\ <<"create", i + 1>> \in PCs /\ <<"create", i + 1>> \in CreatingPCs
                  /\ <<"create", i + 1>> \notin OpPCs \cup Headers
  BY <1>2 DEF PCs, InitPCs, OpPCs, EndPCs, CreatingPCs, Headers
<1>4. /\ pc[p] = <<"setval", i>> /\ left[p] > 0
      /\ sem[i] # Absent /\ \A j \in Sems : j > i => sem[j] = Absent
  BY <1>1, <1>3 DEF SetVal, Stage
<1>5. UNCHANGED <<warm, shm, head, payload, left, got, nput, nget, early, crashes>>
  BY DEF SetVal
<1>6. PICK b \in PCs : /\ b = (IF i = 3 THEN <<"header", 1>> ELSE <<"create", i + 1>>)
                       /\ Moves(p, <<"setval", i>>, b) /\ b \notin OpPCs
  BY <1>2, <1>3, <1>4 DEF SetVal, Goto, Moves
<1>7. /\ sem' \in [Sems -> Nat \cup {Absent}]
      /\ sem'[i] = InitVal[i] /\ InitVal[i] \in Nat /\ \A j \in Sems : j # i => sem'[j] = sem[j]
  BY <1>1, <1>2 DEF SetVal, TypeOK, InitVal
<1>8. TypeOK'
  <2>1. pc' \in [Procs -> PCs]
    BY <1>1, <1>6, Moved
  <2> QED
    BY <1>1, <1>5, <1>7, <2>1 DEF TypeOK, PCs
<1>9. SetUp'
  <2>1. \A j \in Sems : sem'[j] = Absent <=> sem[j] = Absent
    BY <1>4, <1>7 DEF Absent
  <2>2. StageAt(b, left'[p])
    <3>1. CASE i = 3
      BY <1>2, <1>4, <1>5, <1>6, <3>1 DEF StageAt
    <3>2. CASE i # 3
      <4>1. b = <<"create", i + 1>> /\ b \notin OpPCs \cup Headers
        BY <1>3, <1>6, <3>2
      <4>2. \A j \in Sems : b = <<"create", j>> => j = i + 1
        BY <4>1
      <4>3. \A j \in Sems : b # <<"setval", j>>
        BY <4>1
      <4>4. (i + 1) - 1 = i /\ \A j \in Sems : j >= i + 1 => j > i
        BY <1>2
      <4> QED
        BY <1>4, <1>5, <4>1, <4>2, <4>3, <4>4 DEF StageAt
    <3> QED
      BY <3>1, <3>2
  <2> QED
    BY <1>3, <1>5, <1>6, <2>1, <2>2, SetUpKept
<1>10. /\ b \notin InsidePCs /\ ~HoldsFree(p, b) /\ ~HoldsFull(p, b)
       /\ <<"setval", i>> \notin InsidePCs
       /\ ~HoldsFree(p, <<"setval", i>>) /\ ~HoldsFull(p, <<"setval", i>>)
  BY <1>3, <1>6, HoldsNothing
<1>11. CASE i = 3
  <2>1. \A j \in Sems : sem'[j] \in Int /\ sem'[j] <= sem[j]
    BY <1>1, <1>2, <1>4, <1>7, <1>11 DEF TypeOK, InitVal, Absent
  <2>2. Bounds'
    BY <1>5, <1>6, <1>10, <2>1, BoundsKept
  <2> QED
    BY <1>8, <1>9, <2>2 DEF ShmInv
<1>12. CASE i # 3
  <2>1. sem[Full] = Absent
    BY <1>2, <1>4, <1>12
  <2>2. /\ Cardinality(Inside) = 0 /\ Cardinality(FreeHands) = 0 /\ Cardinality(FullHands) = 0
        /\ nput = 0 /\ nget = 0
    BY <2>1, Quiet
  <2>3. Cardinality(Inside') = 0 /\ Cardinality(FreeHands') = 0 /\ Cardinality(FullHands') = 0
    BY <1>1, <1>6, <1>10, <2>2, HandsMove DEF InsidePCs
  <2>4. sem[1] \in Int /\ sem[1] <= 1 /\ sem[2] \in Int /\ sem[2] <= N /\ sem[3] = -1
    BY <1>1, <1>2, <2>1, <2>2 DEF Bounds, TypeOK, Absent
  <2>5. sem'[1] \in Int /\ sem'[1] <= 1 /\ sem'[2] \in Int /\ sem'[2] <= N /\ sem'[3] = -1
    BY <1>2, <1>7, <1>12, <2>4 DEF InitVal
  <2>6. Bounds'
    BY <1>2, <1>5, <2>2, <2>3, <2>5 DEF Bounds
  <2> QED
    BY <1>8, <1>9, <2>6 DEF ShmInv
<1> QED
  BY <1>11, <1>12

-----------------------------------------------------------------------------
(* The steps of fifo_produce and fifo_consume.                             *)

(* A step of p from a to b once the FIFO can be used: the semaphores only  *)
(* have to stay natural numbers.                                           *)
LEMMA UseStep ==
    ASSUME ShmInv, NEW p \in Procs, NEW a \in OpPCs, NEW b \in OpPCs \cup EndPCs, Moves(p, a, b),
           UNCHANGED <<warm, shm, crashes>>, early' \in BOOLEAN,
           sem' \in [Sems -> Nat \cup {Absent}],
           \A i \in Sems : sem'[i] = Absent <=> sem[i] = Absent,
           head' \in [sized : {0, 1}, block_total : {0, N}, rd_index : Slots, wr_index : Slots],
           payload' \in [Slots -> Nat \cup {Nothing}],
           left' \in [Procs -> 0..Rounds], \A q \in Procs : q # p => left'[q] = left[q],
           b \notin EndPCs => left'[p] > 0,
           got' \in [Consumers -> Nat \cup {Nothing}], nput' \in Nat, nget' \in Nat,
           Bounds'
    PROVE  ShmInv'
<1>1. TypeOK /\ Stage(p)
  BY DEF ShmInv, SetUp
<1>2. a = pc[p] /\ sem[Full] # Absent
  BY <1>1 DEF Stage, Moves
<1>3. b \in PCs /\ b \notin CreatingPCs
  BY DEF PCs, OpPCs, EndPCs, CreatingPCs, Headers
<1>4. TypeOK'
  <2>1. pc' \in [Procs -> PCs]
    BY <1>1, <1>3, Moved
  <2> QED
    BY <1>1, <2>1 DEF TypeOK, PCs
<1>5. StageAt(b, left'[p])
  <2>1. \A j : b # <<"setval", j>> /\ b # <<"create", j>>
    BY DEF OpPCs, EndPCs
  <2> QED
    BY <1>2, <2>1 DEF StageAt
<1>6. SetUp'
  BY <1>2, <1>3, <1>5, SetUpKept
<1> QED
  BY <1>4, <1>6 DEF ShmInv

(* What the steps below start from.                                        *)
LEMMA InUse ==
    ASSUME ShmInv, NEW p \in Procs, pc[p] \in OpPCs
    PROVE  /\ sem \in [Sems -> Nat \cup {Absent}] /\ Sems = {1, 2, 3} /\ Absent = -1
           /\ sem[1] \in Nat /\ sem[2] \in Nat /\ sem[3] \in Nat
           /\ head \in [sized : {0, 1}, block_total : {0, N}, rd_index : Slots, wr_index : Slots]
           /\ payload \in [Slots -> Nat \cup {Nothing}]
           /\ left \in [Procs -> 0..Rounds] /\ left[p] > 0
           /\ got \in [Consumers -> Nat \cup {Nothing}] /\ nput \in Nat /\ nget \in Nat
           /\ early \in BOOLEAN /\ N \in Nat /\ N > 0 /\ Rounds \in Nat
           /\ Mutex = 1 /\ Free = 2 /\ Full = 3
           /\ sem[1] + Cardinality(Inside) <= 1
           /\ sem[2] + Cardinality(FreeHands) + (nput - nget) <= N
           /\ sem[3] + Cardinality(FullHands) <= nput - nget
<1>1. TypeOK /\ Stage(p) /\ SetUp /\ Bounds
  BY DEF ShmInv, SetUp
<1>2. Sems = {1, 2, 3} /\ Mutex = 1 /\ Free = 2 /\ Full = 3 /\ N \in Nat /\ N > 0 /\ Rounds \in Nat
  BY SizesAssumption DEF Sems, Mutex, Free, Full
<1>3. sem[3] # Absent /\ sem[2] # Absent /\ sem[1] # Absent
  BY <1>1, <1>2 DEF Stage, SetUp
<1>4. left[p] > 0
  BY <1>1 DEF Stage, OpPCs, EndPCs
<1> QED
  BY <1>1, <1>2, <1>3, <1>4 DEF TypeOK, Bounds, Absent

LEMMA WaitStep ==
    ASSUME ShmInv, NEW p \in Procs, Wait(p)
    PROVE  ShmInv'
<1>1. Moves(p, <<"wait", 0>>, <<"mutex", 0>>) /\ <<"wait", 0>> \in OpPCs /\ <<"mutex", 0>> \in OpPCs
  BY DEF Wait, At, Goto, Moves, OpPCs
<1>2. pc[p] \in OpPCs
  BY <1>1 DEF Moves
<1>3. /\ <<"wait", 0>> \notin InsidePCs /\ <<"mutex", 0>> \notin InsidePCs
      /\ ~HoldsFree(p, <<"wait", 0>>) /\ ~HoldsFull(p, <<"wait", 0>>)
      /\ HoldsFree(p, <<"mutex", 0>>) <=> p \in Producers
      /\ HoldsFull(p, <<"mutex", 0>>) <=> p \notin Producers
  BY DEF InsidePCs, HoldsFree, HoldsFull
<1>4. /\ Cardinality(Inside) \in Nat /\ Cardinality(FreeHands) \in Nat /\ Cardinality(FullHands) \in Nat
      /\ Cardinality(Inside') = Cardinality(Inside)
      /\ Cardinality(FreeHands') = Cardinality(FreeHands) + (IF p \in Producers THEN 1 ELSE 0)
      /\ Cardinality(FullHands') = Cardinality(FullHands) + (IF p \in Producers THEN 0 ELSE 1)
  BY <1>1, <1>3, HandsMove DEF ShmInv, InsidePCs
<1>5. UNCHANGED <<warm, shm, head, payload, left, got, nput, nget, early, crashes>>
  BY DEF Wait
<1>6. PICK k \in {2, 3} : k = (IF p \in Producers THEN 2 ELSE 3)
  OBVIOUS
<1>7. /\ sem[k] > 0 /\ sem' = [sem EXCEPT ![k] = sem[k] - 1]
      /\ sem' \in [Sems -> Nat \cup {Absent}]
      /\ \A i \in Sems : sem'[i] = Absent <=> sem[i] = Absent
      /\ sem'[1] = sem[1] /\ sem'[k] = sem[k] - 1 /\ \A i \in Sems : i # k => sem'[i] = sem[i]
  <2>1. sem[k] > 0 /\ sem' = [sem EXCEPT ![k] = sem[k] - 1]
    BY <1>6 DEF Wait, sem_p, WaitsFor, Free, Full
  <2> QED
    BY <1>2, <1>6, <2>1, InUse
<1>8. Bounds'
  <2>1. CASE p \in Producers
    <3>1. /\ sem'[1] = sem[1] /\ sem'[2] = sem[2] - 1 /\ sem'[3] = sem[3]
      BY <1>2, <1>6, <1>7, <2>1, InUse
    <3>2. /\ Cardinality(Inside') = Cardinality(Inside)
          /\ Cardinality(FreeHands') = Cardinality(FreeHands) + 1
          /\ Cardinality(FullHands') = Cardinality(FullHands)
      BY <1>4, <2>1
    <3> QED
      BY <1>2, <1>4, <1>5, <3>1, <3>2, InUse DEF Bounds
  <2>2. CASE p \notin Producers
    <3>1. /\ sem'[1] = sem[1] /\ sem'[2] = sem[2] /\ sem'[3] = sem[3] - 1
      BY <1>2, <1>6, <1>7, <2>2, InUse
    <3>2. /\ Cardinality(Inside') = Cardinality(Inside)
          /\ Cardinality(FreeHands') = Cardinality(FreeHands)
          /\ Cardinality(FullHands') = Cardinality(FullHands) + 1
      BY <1>4, <2>2
    <3> QED
      BY <1>2, <1>4, <1>5, <3>1, <3>2, InUse DEF Bounds
  <2> QED
    BY <2>1, <2>2
<1> QED
  BY <1>1, <1>2, <1>5, <1>7, <1>8, InUse, UseStep

LEMMA MutexSteps ==
    ASSUME ShmInv, NEW p \in Procs, TakeMutex(p) \/ GiveMutex(p)
    PROVE  ShmInv'
<1>1. /\ <<"mutex", 0>> \in OpPCs /\ <<"body", 0>> \in OpPCs /\ <<"vmutex", 0>> \in OpPCs /\ <<"post", 0>> \in OpPCs
      /\ <<"mutex", 0>> \notin InsidePCs /\ <<"body", 0>> \in InsidePCs
      /\ <<"vmutex", 0>> \in InsidePCs /\ <<"post", 0>> \notin InsidePCs
      /\ HoldsFree(p, <<"mutex", 0>>) <=> HoldsFree(p, <<"body", 0>>)
      /\ HoldsFull(p, <<"mutex", 0>>) <=> HoldsFull(p, <<"body", 0>>)
      /\ HoldsFree(p, <<"vmutex", 0>>) <=> HoldsFree(p, <<"post", 0>>)
      /\ HoldsFull(p, <<"vmutex", 0>>) <=> HoldsFull(p, <<"post", 0>>)
  BY DEF OpPCs, InsidePCs, HoldsFree, HoldsFull
<1>2. UNCHANGED <<warm, shm, head, payload, left, got, nput, nget, early, crashes>>
  BY DEF TakeMutex, GiveMutex
<1>3. CASE TakeMutex(p)
  <2>1. Moves(p, <<"mutex", 0>>, <<"body", 0>>) /\ pc[p] \in OpPCs
    BY <1>1, <1>3 DEF TakeMutex, At, Goto, Moves
  <2>2. /\ Cardinality(Inside) \in Nat /\ Cardinality(FreeHands) \in Nat /\ Cardinality(FullHands) \in Nat
        /\ Cardinality(Inside') = Cardinality(Inside) + 1
        /\ Cardinality(FreeHands') = Cardinality(FreeHands)
        /\ Cardinality(FullHands') = Cardinality(FullHands)
    BY <1>1, <2>1, HandsMove DEF ShmInv, InsidePCs
  <2>3. sem[1] > 0 /\ sem' = [sem EXCEPT ![1] = sem[1] - 1]
    BY <1>3 DEF TakeMutex, sem_p, Mutex
  <2>4. /\ sem' \in [Sems -> Nat \cup {Absent}]
        /\ \A i \in Sems : sem'[i] = Absent <=> sem[i] = Absent
        /\ sem'[1] = sem[1] - 1 /\ sem'[2] = sem[2] /\ sem'[3] = sem[3]
    BY <2>1, <2>3, InUse
  <2>5. Bounds'
    BY <1>2, <2>1, <2>2, <2>4, InUse DEF Bounds
  <2> QED
    BY <1>1, <1>2, <2>1, <2>4, <2>5, InUse, UseStep
<1>4. CASE GiveMutex(p)
  <2>1. Moves(p, <<"vmutex", 0>>, <<"post", 0>>) /\ pc[p] \in OpPCs
    BY <1>1, <1>4 DEF GiveMutex, At, Goto, Moves
  <2>2. /\ Cardinality(Inside) \in Nat /\ Cardinality(FreeHands) \in Nat /\ Cardinality(FullHands) \in Nat
        /\ Cardinality(Inside') = Cardinality(Inside) - 1
        /\ Cardinality(FreeHands') = Cardinality(FreeHands)
        /\ Cardinality(FullHands') = Cardinality(FullHands)
    BY <1>1, <2>1, HandsMove DEF ShmInv, InsidePCs
  <2>3. sem' = [sem EXCEPT ![1] = sem[1] + 1]
    BY <1>4 DEF GiveMutex, sem_v, Mutex
  <2>4. /\ sem' \in [Sems -> Nat \cup {Absent}]
        /\ \A i \in Sems : sem'[i] = Absent <=> sem[i] = Absent
        /\ sem'[1] = sem[1] + 1 /\ sem'[2] = sem[2] /\ sem'[3] = sem[3]
    BY <2>1, <2>3, InUse
  <2>5. Bounds'
    BY <1>2, <2>1, <2>2, <2>4, InUse DEF Bounds
  <2> QED
    BY <1>1, <1>2, <2>1, <2>4, <2>5, InUse, UseStep
<1> QED
  BY <1>3, <1>4

LEMMA CopyStep ==
    ASSUME ShmInv, NEW p \in Procs, Copy(p)
    PROVE  ShmInv'
<1>1. Moves(p, <<"body", 0>>, <<"advance", 0>>) /\ <<"body", 0>> \in OpPCs /\ <<"advance", 0>> \in OpPCs
  BY DEF Copy, At, Goto, Moves, OpPCs
<1>2. pc[p] \in OpPCs
  BY <1>1 DEF Moves
<1>3. UNCHANGED <<warm, shm, sem, head, left, nput, nget, crashes>> /\ early' \in BOOLEAN
  BY DEF Copy
<1>4. /\ <<"advance", 0>> \in InsidePCs => <<"body", 0>> \in InsidePCs
      /\ HoldsFree(p, <<"advance", 0>>) => HoldsFree(p, <<"body", 0>>)
      /\ HoldsFull(p, <<"advance", 0>>) => HoldsFull(p, <<"body", 0>>)
  BY DEF InsidePCs, HoldsFree, HoldsFull
<1>5. \A i \in Sems : sem'[i] \in Int /\ sem'[i] <= sem[i]
  BY <1>2, <1>3, InUse
<1>6. Bounds'
  BY <1>1, <1>3, <1>4, <1>5, BoundsKept
<1>7. payload' \in [Slots -> Nat \cup {Nothing}] /\ got' \in [Consumers -> Nat \cup {Nothing}]
  <2>1. CASE p \in Producers
    <3>1. /\ payload' = IF head.sized = 1 THEN [payload EXCEPT ![head.wr_index] = nput] ELSE payload
          /\ UNCHANGED got
      BY <2>1 DEF Copy, BlockOf
    <3> QED
      BY <1>2, <3>1, InUse
  <2>2. CASE p \notin Producers
    <3>1. /\ got' = IF head.sized = 1 THEN [got EXCEPT ![p] = payload[head.rd_index]] ELSE got
          /\ UNCHANGED payload
      BY <2>2 DEF Copy, BlockOf
    <3>2. payload[head.rd_index] \in Nat \cup {Nothing}
      BY <1>2, InUse
    <3> QED
      BY <1>2, <3>1, <3>2, InUse
  <2> QED
    BY <2>1, <2>2
<1> QED
  BY <1>1, <1>2, <1>3, <1>6, <1>7, InUse, UseStep

(* A product is put in or taken out when the index is advanced.            *)
LEMMA AdvanceStep ==
    ASSUME ShmInv, NEW p \in Procs, AdvanceIndex(p)
    PROVE  ShmInv'
<1>1. pc[p] = <<"advance", 0>> /\ pc[p] \in OpPCs
  BY DEF AdvanceIndex, At, OpPCs
<1>2. UNCHANGED <<warm, shm, sem, payload, left, got, early, crashes>>
  BY DEF AdvanceIndex
<1>3. /\ <<"advance", 0>> \in InsidePCs /\ <<"vmutex", 0>> \in InsidePCs /\ <<"advance", 0>> \in OpPCs
      /\ <<"vmutex", 0>> \in OpPCs /\ <<"vmutex", 0>> \notin EndPCs
      /\ HoldsFree(p, <<"advance", 0>>) <=> p \in Producers
      /\ HoldsFull(p, <<"advance", 0>>) <=> p \notin Producers
      /\ HoldsFree(p, <<"vmutex", 0>>) <=> p \notin Producers
      /\ HoldsFull(p, <<"vmutex", 0>>) <=> p \in Producers
      /\ <<"failed", 0>> \notin OpPCs /\ <<"failed", 0>> \in EndPCs
  BY DEF InsidePCs, OpPCs, EndPCs, HoldsFree, HoldsFull
<1>4. head \in [sized : {0, 1}, block_total : {0, N}, rd_index : Slots, wr_index : Slots]
  BY <1>1, InUse
<1>5. CASE head.block_total = 0
  <2>1. Moves(p, <<"advance", 0>>, <<"failed", 0>>) /\ UNCHANGED <<head, nput, nget>>
    BY <1>1, <1>5 DEF AdvanceIndex, Goto, Moves
  <2>2. \A i \in Sems : sem'[i] \in Int /\ sem'[i] <= sem[i]
    BY <1>1, <1>2, InUse
  <2>3. Bounds'
    BY <1>2, <1>3, <2>1, <2>2, BoundsKept, HoldsNothing
  <2> QED
    BY <1>1, <1>2, <1>3, <1>4, <2>1, <2>3, InUse, UseStep
<1>6. CASE head.block_total # 0
  <2>1. /\ Moves(p, <<"advance", 0>>, <<"vmutex", 0>>) /\ head' = Advanced(p)
        /\ nput' = (IF p \in Producers THEN nput + 1 ELSE nput)
        /\ nget' = (IF p \in Producers THEN nget ELSE nget + 1)
    BY <1>1, <1>6 DEF AdvanceIndex, Goto, Moves
  <2>2. head' \in [sized : {0, 1}, block_total : {0, N}, rd_index : Slots, wr_index : Slots]
    <3>1. ASSUME NEW i \in Slots
          PROVE  (i + 1) % N \in Slots
      <4>1. N \in Nat /\ N > 0 /\ i + 1 \in Nat
        BY SizesAssumption DEF Slots
      <4> QED
        BY <4>1 DEF Slots
    <3>2. head.block_total = N
      BY <1>4, <1>6
    <3>3. head' = IF p \in Producers THEN [head EXCEPT !.wr_index = (head.wr_index + 1) % N]
                  ELSE [head EXCEPT !.rd_index = (head.rd_index + 1) % N]
      BY <2>1, <3>2 DEF Advanced, Wrap
    <3>4. (head.wr_index + 1) % N \in Slots /\ (head.rd_index + 1) % N \in Slots
      BY <1>4, <3>1
    <3> HIDE DEF Slots
    <3> QED
      BY <1>4, <3>3, <3>4
  <2>3. /\ Cardinality(Inside) \in Nat /\ Cardinality(FreeHands) \in Nat /\ Cardinality(FullHands) \in Nat
        /\ Cardinality(Inside') = Cardinality(Inside)
        /\ p \in Producers => /\ Cardinality(FreeHands') = Cardinality(FreeHands) - 1
                              /\ Cardinality(FullHands') = Cardinality(FullHands) + 1
        /\ p \notin Producers => /\ Cardinality(FreeHands') = Cardinality(FreeHands) + 1
                                 /\ Cardinality(FullHands') = Cardinality(FullHands) - 1
    BY <1>3, <2>1, HandsMove DEF ShmInv, InsidePCs
  <2>4. Bounds'
    <3>1. CASE p \in Producers
      BY <1>1, <1>2, <2>1, <2>3, <3>1, InUse DEF Bounds
    <3>2. CASE p \notin Producers
      BY <1>1, <1>2, <2>1, <2>3, <3>2, InUse DEF Bounds
    <3> QED
      BY <3>1, <3>2
  <2>5. nput' \in Nat /\ nget' \in Nat
    BY <1>1, <2>1, InUse
  <2> QED
    BY <1>1, <1>2, <1>3, <2>1, <2>2, <2>4, <2>5, InUse, UseStep
<1> QED
  BY <1>5, <1>6

LEMMA PostStep ==
    ASSUME ShmInv, NEW p \in Procs, Post(p)
    PROVE  ShmInv'
<1>1. pc[p] = <<"post", 0>> /\ pc[p] \in OpPCs /\ <<"post", 0>> \in OpPCs
  BY DEF Post, At, OpPCs
<1>2. UNCHANGED <<warm, shm, head, payload, got, nput, nget, early, crashes>>
  BY DEF Post
<1>3. PICK b \in {<<"done", 0>>, <<"wait", 0>>} :
          Moves(p, <<"post", 0>>, b) /\ (b = <<"done", 0>> <=> left[p] = 1)
  BY <1>1 DEF Post, Goto, Moves
<1>4. /\ <<"done", 0>> \in EndPCs /\ <<"wait", 0>> \in OpPCs
      /\ b \notin InsidePCs /\ <<"post", 0>> \notin InsidePCs
      /\ ~HoldsFree(p, b) /\ ~HoldsFull(p, b)
      /\ HoldsFree(p, <<"post", 0>>) <=> p \notin Producers
      /\ HoldsFull(p, <<"post", 0>>) <=> p \in Producers
  BY <1>3 DEF EndPCs, OpPCs, InsidePCs, HoldsFree, HoldsFull
<1>5. /\ Cardinality(Inside) \in Nat /\ Cardinality(FreeHands) \in Nat /\ Cardinality(FullHands) \in Nat
      /\ Cardinality(Inside') = Cardinality(Inside)
      /\ p \in Producers => /\ Cardinality(FreeHands') = Cardinality(FreeHands)
                            /\ Cardinality(FullHands') = Cardinality(FullHands) - 1
      /\ p \notin Producers => /\ Cardinality(FreeHands') = Cardinality(FreeHands) - 1
                               /\ Cardinality(FullHands') = Cardinality(FullHands)
  BY <1>3, <1>4, HandsMove DEF ShmInv, InsidePCs
<1>6. /\ left' \in [Procs -> 0..Rounds] /\ \A q \in Procs : q # p => left'[q] = left[q]
      /\ b \notin EndPCs => left'[p] > 0
  <2>1. left' = [left EXCEPT ![p] = left[p] - 1]
    BY DEF Post
  <2>2. left \in [Procs -> 0..Rounds] /\ left[p] > 0 /\ Rounds \in Nat
    BY <1>1, InUse
  <2>3. left[p] - 1 \in 0..Rounds
    BY <2>2
  <2> QED
    BY <1>3, <1>4, <2>1, <2>2, <2>3
<1>7. CASE p \in Producers
  <2>1. sem' = [sem EXCEPT ![3] = sem[3] + 1]
    BY <1>7 DEF Post, sem_v, Posts, Full
  <2>2. /\ sem' \in [Sems -> Nat \cup {Absent}]
        /\ \A i \in Sems : sem'[i] = Absent <=> sem[i] = Absent
        /\ sem'[1] = sem[1] /\ sem'[2] = sem[2] /\ sem'[3] = sem[3] + 1
    BY <1>1, <2>1, InUse
  <2>3. Bounds'
    BY <1>1, <1>2, <1>5, <1>7, <2>2, InUse DEF Bounds
  <2> QED
    BY <1>1, <1>2, <1>3, <1>4, <1>6, <2>2, <2>3, InUse, UseStep
<1>8. CASE p \notin Producers
  <2>1. sem' = [sem EXCEPT ![2] = sem[2] + 1]
    BY <1>8 DEF Post, sem_v, Posts, Free
  <2>2. /\ sem' \in [Sems -> Nat \cup {Absent}]
        /\ \A i \in Sems : sem'[i] = Absent <=> sem[i] = Absent
        /\ sem'[1] = sem[1] /\ sem'[2] = sem[2] + 1 /\ sem'[3] = sem[3]
    BY <1>1, <2>1, InUse
  <2>3. Bounds'
    BY <1>1, <1>2, <1>5, <1>8, <2>2, InUse DEF Bounds
  <2> QED
    BY <1>1, <1>2, <1>3, <1>4, <1>6, <2>2, <2>3, InUse, UseStep
<1> QED
  BY <1>7, <1>8

-----------------------------------------------------------------------------
(* One process inside.                                                     *)

LEMMA ShmStep == ShmInv /\ [Next]_vars => ShmInv'
<1> SUFFICES ASSUME ShmInv, [Next]_vars
             PROVE  ShmInv'
  OBVIOUS
<1>1. CASE UNCHANGED vars
  BY <1>1 DEF vars, ShmInv, TypeOK, SetUp, Stage, Creating, Bounds, Inside, FreeHands, FullHands
<1>2. ASSUME NEW p \in Procs, fifo_init(p)
      PROVE  ShmInv'
  BY <1>2, AttachSteps, CreateStep, SetValStep, OpenStep, HeaderStep DEF fifo_init
<1>3. ASSUME NEW p \in Procs, fifo_op(p)
      PROVE  ShmInv'
  BY <1>3, WaitStep, MutexSteps, CopyStep, AdvanceStep, PostStep DEF fifo_op
<1>4. ASSUME NEW p \in Procs, Crash(p)
      PROVE  ShmInv'
  BY <1>4, AttachSteps
<1> QED
  BY <1>1, <1>2, <1>3, <1>4 DEF Next

LEMMA InvOneInside == ShmInv => OneInside
<1> SUFFICES ASSUME ShmInv
             PROVE  OneInside
  OBVIOUS
<1>1. TypeOK /\ SetUp /\ Bounds
  BY DEF ShmInv
<1>2. Cardinality(Inside) <= 1
  <2>1. Inside \subseteq Procs
    BY DEF Inside
  <2>2. Cardinality(Inside) \in Nat
    BY <2>1, SomeProcs
  <2>3. CASE Inside = {}
    BY <2>3, FS_EmptySet
  <2>4. CASE Inside # {}
    <3>1. PICK p \in Procs : pc[p] \in OpPCs
      BY <2>4 DEF Inside, OpPCs
    <3> QED
      BY <2>2, <3>1, InUse
  <2> QED
    BY <2>3, <2>4
<1>3. Cardinality(Creating) <= 1
  <2>1. Creating \subseteq Procs
    BY DEF Creating
  <2>2. IsFiniteSet(Creating)
    BY <2>1, SomeProcs
  <2> QED
    BY <1>1, <2>2, AtMostOne DEF SetUp
<1> QED
  BY <1>1, <1>2, <1>3 DEF OneInside, Inside

(* fifo.c, sem.c: while the FIFO is being set up by whoever comes first,   *)
(* and wherever processes are killed, at most one process is between P and *)
(* V of the mutex, at most one sets the semaphores, and the indices        *)
(* address a block.                                                        *)
THEOREM OneProcessInside == Spec => []OneInside
BY ShmInit, ShmStep, InvOneInside, PTL DEF Spec

-----------------------------------------------------------------------------
(* The ring: what the indices address and what the blocks hold.            *)

(* fifo_init fills the header once, in the order of its statements: when   *)
(* block_total is there, nobody sets the FIFO up any more except for the   *)
(* two indices.                                                            *)
Filling ==
    /\ head.block_total # 0 =>
          /\ head.sized = 1 /\ sem[Full] # Absent
          /\ \A p \in Procs : pc[p] \in CreatingPCs => pc[p] \in {<<"header", 3>>, <<"header", 4>>}
    /\ \A p \in Procs : pc[p] = <<"header", 2>> => head.sized = 1

(* The k-th product is in block k % N, from the oldest to the newest.      *)
Blocks ==
    /\ head.wr_index = nput % N /\ head.rd_index = nget % N
    /\ \A s \in Slots : payload[s] # Nothing => payload[s] % N = s
    /\ \A k \in Nat : nget <= k /\ k < nput => payload[k % N] = k

(* Nobody has copied before the header was filled.                         *)
NotEarly ==
    /\ nput > 0 => HeaderFilled
    /\ \A p \in Procs : At(p, "advance") =>
          /\ HeaderFilled
          /\ p \in Producers => payload[head.wr_index] = nput
          /\ p \notin Producers => got[p] = nget

Ring == Filling /\ (early \/ (Blocks /\ NotEarly))

(* The block of the next product, and of products less than a round apart. *)
LEMMA Division ==
    ASSUME NEW n \in Nat
    PROVE  \E q \in Nat : \E r \in Slots : n = q * N + r /\ n % N = r
<1>1. N \in Nat \ {0}
  BY SizesAssumption
<1>2. \A d \in Nat \ {0} : n \div d \in Nat /\ (n \div d) * d <= n /\ n < (n \div d) * d + d
  OBVIOUS
<1>3. PICK q \in Nat : q * N <= n /\ n < q * N + N
  BY <1>1, <1>2
<1>4. q * N \in Nat
  BY <1>1
<1>5. PICK r \in Nat : r < N /\ n = q * N + r
  <2>1. n - q * N \in Nat /\ n - q * N < N /\ n = q * N + (n - q * N)
    BY <1>1, <1>3, <1>4
  <2> QED
    BY <2>1
<1>6. r \in Slots
  BY <1>1, <1>5 DEF Slots
<1>7. (q * N + r) % N = r
  BY <1>1, <1>5
<1> QED
  BY <1>5, <1>6, <1>7

LEMMA Quotient ==
    ASSUME NEW p \in Nat, NEW q \in Nat, NEW r \in Slots, NEW s \in Slots, p * N + r = q * N + s
    PROVE  p = q /\ r = s
<1>1. N \in Nat /\ N > 0 /\ r \in Nat /\ s \in Nat /\ r < N /\ s < N
  BY SizesAssumption DEF Slots
<1>2. \A x, y \in Nat : x < y => x * N + N <= y * N
  <2>1. \A x, y \in Nat : x < y => y = x + 1 + (y - x - 1) /\ y - x - 1 \in Nat
    OBVIOUS
  <2>2. \A x, d \in Nat : (x + 1 + d) * N = x * N + N + d * N /\ d * N \in Nat /\ x * N \in Nat
    BY <1>1, Z3
  <2> QED
    BY <1>1, <2>1, <2>2, Z3
<1>3. p * N \in Nat /\ q * N \in Nat
  BY <1>1, Z3
<1>4. ~(p < q) /\ ~(q < p)
  BY <1>1, <1>2, <1>3, Z3
<1>5. p = q
  BY <1>4
<1> QED
  BY <1>1, <1>3, <1>5

LEMMA NextBlock ==
    ASSUME NEW n \in Nat
    PROVE  ((n % N) + 1) % N = (n + 1) % N /\ n % N \in Slots
<1>1. N \in Nat /\ N > 0
  BY SizesAssumption
<1>2. PICK q \in Nat, r \in Slots : n = q * N + r /\ n % N = r
  BY Division
<1>3. PICK u \in Nat, v \in Slots : n + 1 = u * N + v /\ (n + 1) % N = v
  BY Division
<1>4. q * N \in Nat /\ u * N \in Nat /\ r \in Nat /\ v \in Nat
  BY <1>1, Z3 DEF Slots
<1>5. CASE r + 1 < N
  <2>1. r + 1 \in Slots
    BY <1>1, <1>4, <1>5 DEF Slots
  <2>2. q * N + (r + 1) = u * N + v
    BY <1>2, <1>3, <1>4
  <2>3. r + 1 = v
    BY <2>1, <2>2, Quotient
  <2>4. (r + 1) % N = r + 1
    BY <1>1, <1>4, <1>5
  <2> QED
    BY <1>2, <1>3, <2>3, <2>4
<1>6. CASE ~(r + 1 < N)
  <2>1. r + 1 = N
    BY <1>1, <1>4, <1>6 DEF Slots
  <2>2. (q + 1) * N = q * N + N
    BY <1>1, Z3
  <2>3. (q + 1) * N + 0 = u * N + v
    BY <1>1, <1>2, <1>3, <1>4, <2>1, <2>2
  <2>4. 0 \in Slots /\ q + 1 \in Nat
    BY <1>1 DEF Slots
  <2>5. v = 0
    BY <2>3, <2>4, Quotient
  <2>6. (r + 1) % N = 0
    BY <1>1, <2>1
  <2> QED
    BY <1>2, <1>3, <2>5, <2>6
<1> QED
  BY <1>2, <1>5, <1>6

LEMMA OtherBlock ==
    ASSUME NEW k \in Nat, NEW n \in Nat, k < n, n - k < N
    PROVE  k % N # n % N
<1>1. N \in Nat /\ N > 0
  BY SizesAssumption
<1>2. PICK q \in Nat, r \in Slots : k = q * N + r /\ k % N = r
  BY Division
<1>3. PICK u \in Nat, v \in Slots : n = u * N + v /\ n % N = v
  BY Division
<1>4. q * N \in Nat /\ u * N \in Nat /\ r \in Nat /\ v \in Nat /\ r < N
  BY <1>1, Z3 DEF Slots
<1>5. ASSUME r = v
      PROVE  FALSE
  <2>1. PICK d \in Nat : n = k + d /\ d > 0 /\ d < N
    <3>1. n - k \in Nat /\ n = k + (n - k) /\ n - k > 0
      OBVIOUS
    <3> QED
      BY <3>1
  <2>2. u * N = q * N + d
    BY <1>2, <1>3, <1>4, <1>5, <2>1
  <2>3. q * N + d = u * N + 0 /\ d \in Slots /\ 0 \in Slots
    BY <1>1, <1>4, <2>1, <2>2 DEF Slots
  <2>4. d = 0
    BY <2>3, Quotient
  <2> QED
    BY <2>1, <2>4
<1> QED
  BY <1>2, <1>3, <1>5

RingInv == ShmInv /\ Ring

LEMMA RingInit == Init => RingInv
<1> SUFFICES ASSUME Init
             PROVE  Ring
  BY ShmInit DEF RingInv
<1>1. /\ nput = 0 /\ nget = 0 /\ payload = [s \in Slots |-> Nothing] /\ N \in Nat /\ N > 0
      /\ \A p \in Procs : pc[p] = <<"shmget", 0>>
  BY SizesAssumption DEF Init
<1>2. \A p \in Procs : pc[p] \notin CreatingPCs /\ pc[p] # <<"header", 2>> /\ pc[p] # <<"advance", 0>>
  BY <1>1 DEF CreatingPCs, Headers
<1>3. head.wr_index = 0 /\ head.rd_index = 0 /\ (head.block_total # 0 => head.sized = 1 /\ sem[Full] # Absent)
  <2>1. Full \in Sems /\ InitVal[Full] = 0 /\ Absent # 0
    BY DEF Full, Sems, InitVal, Absent
  <2>2. CASE warm
    BY <2>1, <2>2 DEF Init
  <2>3. CASE ~warm
    BY <2>3 DEF Init
  <2> QED
    BY <2>2, <2>3
<1>4. 0 % N = 0
  BY <1>1
<1>5. Blocks
  BY <1>1, <1>3, <1>4 DEF Blocks
<1>6. NotEarly
  BY <1>1, <1>2 DEF NotEarly, At
<1>7. Filling
  BY <1>2, <1>3 DEF Filling
<1> QED
  BY <1>5, <1>6, <1>7 DEF Ring

(* Two processes inside are one.                                           *)
LEMMA SameInside ==
    ASSUME ShmInv, NEW p \in Procs, NEW q \in Procs, pc[p] \in InsidePCs, pc[q] \in InsidePCs
    PROVE  p = q
<1>1. Cardinality(Inside) <= 1
  BY InvOneInside DEF OneInside, Inside
<1>2. Inside \subseteq Procs /\ p \in Inside /\ q \in Inside
  BY DEF Inside, InsidePCs
<1>3. IsFiniteSet(Inside) /\ Cardinality(Inside) \in Nat
  BY <1>2, SomeProcs
<1>4. ASSUME p # q
      PROVE  FALSE
  <2>1. Cardinality(Inside \ {p}) = Cardinality(Inside) - 1 /\ IsFiniteSet(Inside \ {p})
    BY <1>2, <1>3, FS_RemoveElement
  <2>2. q \in Inside \ {p}
    BY <1>2, <1>4
  <2>3. Cardinality(Inside \ {p}) \in Nat /\ Cardinality(Inside \ {p}) # 0
    BY <2>1, <2>2, FS_EmptySet, FS_CardinalityType
  <2> QED
    BY <1>1, <1>3, <2>1, <2>3
<1> QED
  BY <1>4

(* What the semaphores and the hands say about the products stored.        *)
LEMMA Counted ==
    ASSUME ShmInv
    PROVE  /\ nput \in Nat /\ nget \in Nat /\ nget <= nput /\ N \in Nat /\ N > 0
           /\ \A p \in Procs : pc[p] \in {<<"body", 0>>, <<"advance", 0>>} =>
                 /\ p \in Producers => nput - nget < N
                 /\ p \notin Producers => nget < nput
<1>1. TypeOK /\ SetUp /\ Bounds
  BY DEF ShmInv
<1>2. nput \in Nat /\ nget \in Nat /\ N \in Nat /\ N > 0
  BY <1>1, SizesAssumption DEF TypeOK
<1>3. FreeHands \subseteq Procs /\ FullHands \subseteq Procs
  BY DEF FreeHands, FullHands
<1>4. Cardinality(FreeHands) \in Nat /\ Cardinality(FullHands) \in Nat
  BY <1>3, SomeProcs
<1>5. nget <= nput
  <2>1. CASE sem[Full] = Absent
    BY <1>1, <2>1 DEF SetUp
  <2>2. CASE sem[Full] # Absent
    <3>1. sem[Full] \in Nat
      BY <1>1, <2>2 DEF TypeOK, Sems
    <3> QED
      BY <1>1, <1>2, <1>4, <3>1 DEF Bounds
  <2> QED
    BY <2>1, <2>2
<1>6. ASSUME NEW p \in Procs, pc[p] \in {<<"body", 0>>, <<"advance", 0>>}
      PROVE  /\ p \in Producers => nput - nget < N
             /\ p \notin Producers => nget < nput
  <2>1. pc[p] \in OpPCs
    BY <1>6 DEF OpPCs
  <2>2. CASE p \in Producers
    <3>1. p \in FreeHands
      BY <1>6, <2>2 DEF FreeHands, HoldsFree
    <3>2. Cardinality(FreeHands) > 0
      BY <1>3, <3>1, OneMoves
    <3> QED
      BY <1>4, <2>1, <2>2, <3>2, InUse
  <2>3. CASE p \notin Producers
    <3>1. p \in FullHands
      BY <1>6, <2>3 DEF FullHands, HoldsFull
    <3>2. Cardinality(FullHands) > 0
      BY <1>3, <3>1, OneMoves
    <3> QED
      BY <1>4, <2>1, <2>3, <3>2, InUse
  <2> QED
    BY <2>2, <2>3
<1> QED
  BY <1>2, <1>5, <1>6

(* A step that copies nothing and moves no index.                          *)
LEMMA RingKept ==
    ASSUME RingInv, NEW p \in Procs, NEW a, NEW b, Moves(p, a, b),
           UNCHANGED <<head, payload, got, nput, nget, early>>,
           sem[Full] # Absent => sem'[Full] # Absent,
           b # <<"advance", 0>>, b # <<"header", 2>>, head.block_total # 0 => b \notin CreatingPCs
    PROVE  Ring'
<1>1. pc'[p] = b /\ \A q \in Procs : q # p => pc'[q] = pc[q]
  BY Moved DEF RingInv, ShmInv
<1>2. Filling'
  BY <1>1 DEF RingInv, Ring, Filling
<1>3. HeaderFilled => HeaderFilled'
  BY <1>1 DEF HeaderFilled, CreatingPCs, Headers
<1>4. Blocks => Blocks'
  BY DEF Blocks
<1>5. NotEarly => NotEarly'
  BY <1>1, <1>3 DEF NotEarly, At
<1>6. early \/ (Blocks /\ NotEarly)
  BY DEF RingInv, Ring
<1>7. early' \/ (Blocks' /\ NotEarly')
  BY <1>4, <1>5, <1>6
<1> QED
  BY <1>2, <1>7 DEF Ring

(* Attaching, making the semaphores, being killed.                         *)
LEMMA RingSetUp ==
    ASSUME RingInv, NEW p \in Procs,
           \/ ShmGet(p) \/ ShmCreate(p) \/ Crash(p)
           \/ \E i \in Sems : CreateSem(p, i) \/ SetVal(p, i) \/ OpenSem(p, i)
    PROVE  Ring'
<1>1. TypeOK /\ SetUp /\ Filling
  BY DEF RingInv, ShmInv, Ring
<1>2. Sems = {1, 2, 3} /\ Mutex = 1 /\ Free = 2 /\ Full = 3
  BY DEF Sems, Mutex, Free, Full
<1>3. CASE ShmGet(p) \/ ShmCreate(p) \/ Crash(p) \/ \E i \in Sems : OpenSem(p, i)
  <2>1. PICK b \in {<<"open", 1>>, <<"open", 2>>, <<"open", 3>>, <<"shmcreat", 0>>, <<"create", 1>>,
                    <<"killed", 0>>, <<"failed", 0>>, <<"wait", 0>>} : Moves(p, pc[p], b)
    <3>1. CASE ShmGet(p)
      BY <1>2, <3>1 DEF ShmGet, Goto, Moves
    <3>2. CASE ShmCreate(p)
      BY <1>2, <3>2 DEF ShmCreate, Goto, Moves
    <3>3. CASE Crash(p)
      BY <3>3 DEF Crash, Goto, Moves
    <3>4. ASSUME NEW i \in Sems, OpenSem(p, i)
          PROVE  \E b \in {<<"open", 2>>, <<"open", 3>>, <<"failed", 0>>, <<"wait", 0>>} : Moves(p, pc[p], b)
      <4>1. i = 1 \/ i = 2 \/ i = 3
        BY <1>2
      <4> QED
        BY <1>2, <3>4, <4>1 DEF OpenSem, Goto, Moves
    <3> QED
      BY <1>3, <3>1, <3>2, <3>3, <3>4
  <2>2. b # <<"advance", 0>> /\ b # <<"header", 2>> /\ b \notin CreatingPCs
    BY <1>2, <2>1 DEF CreatingPCs, Headers
  <2>3. UNCHANGED <<sem, head, payload, got, nput, nget, early>>
    BY <1>3 DEF ShmGet, ShmCreate, Crash, OpenSem
  <2> QED
    BY <2>1, <2>2, <2>3, RingKept
<1>4. ASSUME NEW i \in Sems, CreateSem(p, i)
      PROVE  Ring'
  <2>1. PICK b \in {<<"failed", 0>>, <<"setval", i>>} :
           Moves(p, pc[p], b) /\ (b = <<"setval", i>> => sem[i] = Absent)
    BY <1>4 DEF CreateSem, sem_create, Goto, Moves
  <2>2. b # <<"advance", 0>> /\ b # <<"header", 2>> /\ <<"failed", 0>> \notin CreatingPCs
    BY <2>1 DEF CreatingPCs, Headers
  <2>3. head.block_total # 0 => sem[i] # Absent
    BY <1>1, <1>2 DEF Filling, SetUp
  <2>4. UNCHANGED <<head, payload, got, nput, nget, early>>
    BY <1>4 DEF CreateSem
  <2>5. sem[Full] # Absent => sem'[Full] # Absent
    <3>1. sem' = sem \/ sem' = [sem EXCEPT ![i] = 0]
      BY <1>4 DEF CreateSem, sem_create
    <3> QED
      BY <1>1, <1>2, <3>1 DEF TypeOK, Absent
  <2> QED
    BY <2>1, <2>2, <2>3, <2>4, <2>5, RingKept
<1>5. ASSUME NEW i \in Sems, SetVal(p, i)
      PROVE  Ring'
  <2>1. pc[p] = <<"setval", i>>
    BY <1>5 DEF SetVal
  <2>2. head.block_total = 0
    <3>1. pc[p] \in CreatingPCs /\ pc[p] \notin {<<"header", 3>>, <<"header", 4>>}
      BY <2>1 DEF CreatingPCs
    <3> QED
      BY <1>1, <3>1 DEF Filling
  <2>3. PICK b \in {<<"header", 1>>, <<"create", i + 1>>} : Moves(p, pc[p], b)
    BY <1>5 DEF SetVal, Goto, Moves
  <2>4. b # <<"advance", 0>> /\ b # <<"header", 2>>
    BY <2>3
  <2>5. UNCHANGED <<head, payload, got, nput, nget, early>>
    BY <1>5 DEF SetVal
  <2>6. sem[Full] # Absent => sem'[Full] # Absent
    <3>1. sem' = [sem EXCEPT ![i] = InitVal[i]] /\ InitVal[i] \in Nat
      BY <1>2, <1>5, SizesAssumption DEF SetVal, InitVal
    <3> QED
      BY <1>1, <1>2, <3>1 DEF TypeOK, Absent
  <2> QED
    BY <2>2, <2>3, <2>4, <2>5, <2>6, RingKept
<1> QED
  BY <1>3, <1>4, <1>5

(* Waiting for and posting the semaphores.                                 *)
LEMMA RingUse ==
    ASSUME RingInv, NEW p \in Procs, Wait(p) \/ TakeMutex(p) \/ GiveMutex(p) \/ Post(p)
    PROVE  Ring'
<1>1. PICK b \in {<<"mutex", 0>>, <<"body", 0>>, <<"post", 0>>, <<"done", 0>>, <<"wait", 0>>} :
        Moves(p, pc[p], b)
  BY DEF Wait, TakeMutex, GiveMutex, Post, Goto, Moves
<1>2. b # <<"advance", 0>> /\ b # <<"header", 2>> /\ b \notin CreatingPCs
  BY <1>1 DEF CreatingPCs, Headers
<1>3. UNCHANGED <<head, payload, got, nput, nget, early>>
  BY DEF Wait, TakeMutex, GiveMutex, Post
<1>4. sem'[Full] # Absent
  <2>1. pc[p] \in OpPCs
    BY DEF Wait, TakeMutex, GiveMutex, Post, At, OpPCs
  <2>2. \E i \in Sems : (sem[i] > 0 /\ sem' = [sem EXCEPT ![i] = sem[i] - 1]) \/ sem' = [sem EXCEPT ![i] = sem[i] + 1]
    BY DEF Wait, TakeMutex, GiveMutex, Post, sem_p, sem_v, WaitsFor, Posts, Sems
  <2> QED
    BY <2>1, <2>2, InUse DEF RingInv
<1> QED
  BY <1>1, <1>2, <1>3, <1>4, RingKept

(* The header is filled once and before anybody has copied, or too late.   *)
LEMMA RingHeader ==
    ASSUME RingInv, NEW p \in Procs, NEW i \in 1..4, Header(p, i)
    PROVE  Ring'
<1>1. TypeOK /\ SetUp /\ Filling /\ Stage(p)
  BY DEF RingInv, ShmInv, Ring, SetUp
<1>2. /\ pc[p] = <<"header", i>> /\ pc[p] \in Headers /\ pc[p] \in CreatingPCs
      /\ head' = [head EXCEPT ![HeaderField[i]] = HeaderVal[i]]
      /\ UNCHANGED <<sem, payload, got, nput, nget, early>>
  BY DEF Header, Headers, CreatingPCs
<1>3. PICK b : Moves(p, pc[p], b) /\ b = (IF i = 4 THEN <<"wait", 0>> ELSE <<"header", i + 1>>)
  BY DEF Header, Goto, Moves
<1>4. /\ pc'[p] = b /\ \A q \in Procs : q # p => pc'[q] = pc[q]
      /\ \A q \in Procs : q # p => pc'[q] \notin CreatingPCs
  <2>1. pc'[p] = b /\ \A q \in Procs : q # p => pc'[q] = pc[q]
    BY <1>1, <1>3, Moved
  <2>2. p \in Creating /\ \A q \in Procs : pc[q] \in CreatingPCs => q \in Creating
    BY <1>2 DEF Creating, CreatingPCs, Headers
  <2> QED
    BY <1>1, <2>1, <2>2 DEF SetUp
<1>5. i = 1 \/ i = 2 \/ i = 3 \/ i = 4
  OBVIOUS
<1>6. head \in [sized : {0, 1}, block_total : {0, N}, rd_index : Slots, wr_index : Slots] /\ sem[Full] # Absent
  BY <1>1, <1>2 DEF TypeOK, Stage
<1>7. Filling'
  <2>1. CASE i = 1
    <3>1. head'.sized = 1 /\ head'.block_total = head.block_total
      BY <1>2, <1>6, <2>1 DEF HeaderField, HeaderVal
    <3>2. head.block_total = 0
      BY <1>1, <1>2, <2>1 DEF Filling
    <3>3. \A q \in Procs : pc'[q] = <<"header", 2>> => head'.sized = 1
      BY <3>1
    <3> QED
      BY <3>1, <3>2, <3>3 DEF Filling
  <2>2. CASE i = 2
    <3>1. head'.sized = head.sized /\ head.sized = 1
      BY <1>1, <1>2, <1>6, <2>2 DEF HeaderField, HeaderVal, Filling
    <3>2. b = <<"header", 3>>
      BY <1>3, <2>2
    <3>3. \A q \in Procs : pc'[q] \in CreatingPCs => pc'[q] \in {<<"header", 3>>, <<"header", 4>>}
      BY <1>4, <3>2
    <3> QED
      BY <1>2, <1>6, <3>1, <3>3 DEF Filling
  <2>3. CASE i = 3 \/ i = 4
    <3>1. head'.sized = head.sized /\ head'.block_total = head.block_total
      BY <1>2, <1>6, <2>3 DEF HeaderField, HeaderVal
    <3>2. b = <<"header", 4>> \/ b = <<"wait", 0>>
      BY <1>3, <2>3
    <3>3. <<"wait", 0>> \notin CreatingPCs
      BY DEF CreatingPCs, Headers
    <3>4. \A q \in Procs : pc'[q] \in CreatingPCs => pc'[q] \in {<<"header", 3>>, <<"header", 4>>}
      BY <1>4, <3>2, <3>3
    <3>5. \A q \in Procs : pc'[q] # <<"header", 2>>
      BY <3>4 DEF CreatingPCs, Headers
    <3> QED
      BY <1>1, <1>2, <1>6, <3>1, <3>4, <3>5 DEF Filling
  <2> QED
    BY <1>5, <2>1, <2>2, <2>3
<1>8. ASSUME Blocks, NotEarly
      PROVE  Blocks' /\ NotEarly'
  <2>1. ~HeaderFilled
    BY <1>2 DEF HeaderFilled, Headers
  <2>2. nput = 0 /\ nget = 0 /\ N \in Nat /\ N > 0
    BY <1>8, <2>1, Counted DEF NotEarly, RingInv
  <2>3. \A q \in Procs : pc[q] # <<"advance", 0>>
    BY <1>8, <2>1 DEF NotEarly, At
  <2>4. \A q \in Procs : pc'[q] # <<"advance", 0>>
    BY <1>3, <1>4, <2>3
  <2>5. 0 % N = 0
    BY <2>2
  <2>6. head'.wr_index = 0 /\ head'.rd_index = 0
    <3>1. head.wr_index = 0 /\ head.rd_index = 0
      BY <1>8, <2>2, <2>5 DEF Blocks
    <3> QED
      BY <1>2, <1>5, <1>6, <3>1 DEF HeaderField, HeaderVal
  <2>7. Blocks'
    BY <1>2, <1>8, <2>2, <2>5, <2>6 DEF Blocks
  <2>8. NotEarly'
    BY <1>2, <2>2, <2>4 DEF NotEarly, At
  <2> QED
    BY <2>7, <2>8
<1>9. early' \/ (Blocks' /\ NotEarly')
  BY <1>2, <1>8 DEF RingInv, Ring
<1> QED
  BY <1>7, <1>9 DEF Ring

(* A producer copies into a block no product is in, a consumer out of the  *)
(* block of the oldest.                                                    *)
LEMMA RingCopy ==
    ASSUME RingInv, NEW p \in Procs, Copy(p)
    PROVE  Ring'
<1>1. TypeOK /\ SetUp /\ Filling /\ ShmInv
  BY DEF RingInv, ShmInv, Ring
<1>2. /\ pc[p] = <<"body", 0>> /\ Moves(p, <<"body", 0>>, <<"advance", 0>>)
      /\ UNCHANGED <<sem, head, nput, nget>> /\ early' = (early \/ ~HeaderFilled)
  BY DEF Copy, At, Goto, Moves
<1>3. pc'[p] = <<"advance", 0>> /\ \A q \in Procs : q # p => pc'[q] = pc[q]
  BY <1>1, <1>2, Moved
<1>4. <<"advance", 0>> \notin CreatingPCs /\ <<"advance", 0>> \notin Headers /\ <<"advance", 0>> # <<"header", 2>>
  BY DEF CreatingPCs, Headers
<1>5. Filling'
  BY <1>1, <1>2, <1>3, <1>4 DEF Filling
<1>6. ASSUME ~early'
      PROVE  Blocks' /\ NotEarly'
  <2>1. HeaderFilled /\ Blocks /\ NotEarly
    BY <1>2, <1>6 DEF RingInv, Ring
  <2>2. HeaderFilled'
    BY <1>2, <1>3, <1>4, <2>1 DEF HeaderFilled, Headers
  <2>3. \A q \in Procs : pc'[q] = <<"advance", 0>> => q = p
    <3>1. <<"body", 0>> \in InsidePCs /\ <<"advance", 0>> \in InsidePCs
      BY DEF InsidePCs
    <3> QED
      BY <1>1, <1>2, <1>3, <3>1, SameInside
  <2>4. head.sized = 1
    BY <1>1, <2>1 DEF HeaderFilled, Filling
  <2>5. /\ nput \in Nat /\ nget \in Nat /\ N \in Nat /\ N > 0
        /\ p \in Producers => nput - nget < N
        /\ p \notin Producers => nget < nput
    BY <1>1, <1>2, Counted
  <2>6. /\ payload \in [Slots -> Nat \cup {Nothing}] /\ got \in [Consumers -> Nat \cup {Nothing}]
        /\ head.wr_index = nput % N /\ head.rd_index = nget % N
        /\ head.wr_index \in Slots /\ head.rd_index \in Slots
    BY <1>1, <2>1 DEF TypeOK, Blocks
  <2>7. CASE p \in Producers
    <3>1. payload' = [payload EXCEPT ![head.wr_index] = nput] /\ got' = got
      BY <2>4, <2>7 DEF Copy, BlockOf
    <3>2. payload'[head.wr_index] = nput /\ \A s \in Slots : s # head.wr_index => payload'[s] = payload[s]
      BY <2>6, <3>1
    <3>3. \A s \in Slots : payload'[s] # Nothing => payload'[s] % N = s
      BY <2>1, <2>6, <3>2 DEF Blocks
    <3>4. ASSUME NEW k \in Nat, nget <= k /\ k < nput
          PROVE  payload'[k % N] = k
      <4>1. nput - k < N
        BY <2>5, <2>7, <3>4
      <4>2. k % N # nput % N /\ k % N \in Slots
        BY <2>5, <3>4, <4>1, OtherBlock, NextBlock
      <4>3. payload[k % N] = k
        BY <2>1, <3>4 DEF Blocks
      <4> QED
        BY <2>6, <3>2, <4>2, <4>3
    <3>5. Blocks'
      BY <1>2, <2>6, <3>3, <3>4 DEF Blocks
    <3>6. NotEarly'
      BY <1>2, <2>2, <2>3, <2>7, <3>2 DEF NotEarly, At
    <3> QED
      BY <3>5, <3>6
  <2>8. CASE p \notin Producers
    <3>1. got' = [got EXCEPT ![p] = payload[head.rd_index]] /\ payload' = payload
      BY <2>4, <2>8 DEF Copy, BlockOf
    <3>2. p \in Consumers
      BY <2>8 DEF Procs
    <3>3. payload[head.rd_index] = nget
      <4>1. nget <= nget /\ nget < nput
        BY <2>5, <2>8
      <4> QED
        BY <2>1, <2>5, <2>6, <4>1 DEF Blocks
    <3>4. got'[p] = nget
      BY <2>6, <3>1, <3>2, <3>3
    <3>5. Blocks'
      BY <1>2, <2>1, <3>1 DEF Blocks
    <3>6. NotEarly'
      BY <1>2, <2>2, <2>3, <2>8, <3>4 DEF NotEarly, At
    <3> QED
      BY <3>5, <3>6
  <2> QED
    BY <2>7, <2>8
<1> QED
  BY <1>5, <1>6 DEF Ring

(* The index goes on to the block of the next product.                     *)
LEMMA RingAdvance ==
    ASSUME RingInv, NEW p \in Procs, AdvanceIndex(p)
    PROVE  Ring'
<1>1. TypeOK /\ SetUp /\ Filling /\ ShmInv
  BY DEF RingInv, ShmInv, Ring
<1>2. pc[p] = <<"advance", 0>> /\ UNCHANGED <<sem, payload, got, early>>
  BY DEF AdvanceIndex, At
<1>3. PICK b \in {<<"failed", 0>>, <<"vmutex", 0>>} : Moves(p, pc[p], b)
  BY DEF AdvanceIndex, Goto, Moves
<1>4. /\ b # <<"advance", 0>> /\ b # <<"header", 2>> /\ b \notin CreatingPCs /\ b \notin Headers
      /\ <<"advance", 0>> \in InsidePCs
  BY <1>3 DEF CreatingPCs, Headers, InsidePCs
<1>5. pc'[p] = b /\ \A q \in Procs : q # p => pc'[q] = pc[q]
  BY <1>1, <1>3, Moved
<1>6. CASE head.block_total = 0
  <2>1. UNCHANGED <<head, nput, nget>>
    BY <1>6 DEF AdvanceIndex
  <2> QED
    BY <1>2, <1>3, <1>4, <2>1, RingKept
<1>7. CASE head.block_total # 0
  <2>1. /\ head' = (IF p \in Producers THEN [head EXCEPT !.wr_index = (head.wr_index + 1) % N]
                    ELSE [head EXCEPT !.rd_index = (head.rd_index + 1) % N])
        /\ nput' = (IF p \in Producers THEN nput + 1 ELSE nput)
        /\ nget' = (IF p \in Producers THEN nget ELSE nget + 1)
    <3>1. head.block_total = N
      BY <1>1, <1>7 DEF TypeOK
    <3> QED
      BY <1>7, <3>1 DEF AdvanceIndex, Advanced, Wrap
  <2>2. head \in [sized : {0, 1}, block_total : {0, N}, rd_index : Slots, wr_index : Slots]
    BY <1>1 DEF TypeOK
  <2>3. /\ head'.sized = head.sized /\ head'.block_total = head.block_total
        /\ p \in Producers => head'.wr_index = (head.wr_index + 1) % N /\ head'.rd_index = head.rd_index
        /\ p \notin Producers => head'.rd_index = (head.rd_index + 1) % N /\ head'.wr_index = head.wr_index
    BY <2>1, <2>2
  <2>4. Filling'
    BY <1>1, <1>2, <1>4, <1>5, <2>3 DEF Filling
  <2>5. ASSUME Blocks, NotEarly
        PROVE  Blocks' /\ NotEarly'
    <3>1. /\ HeaderFilled /\ (p \in Producers => payload[head.wr_index] = nput)
      BY <1>2, <2>5 DEF NotEarly, At
    <3>2. HeaderFilled'
      BY <1>4, <1>5, <2>3, <3>1 DEF HeaderFilled, Headers
    <3>3. \A q \in Procs : pc'[q] # <<"advance", 0>>
      BY <1>1, <1>2, <1>4, <1>5, SameInside
    <3>4. NotEarly'
      BY <3>2, <3>3 DEF NotEarly, At
    <3>5. nput \in Nat /\ nget \in Nat /\ head.wr_index = nput % N /\ head.rd_index = nget % N
      BY <1>1, <2>5, Counted DEF Blocks
    <3>6. CASE p \in Producers
      <4>1. head'.wr_index = nput' % N /\ head'.rd_index = nget' % N
        BY <2>1, <2>3, <3>5, <3>6, NextBlock
      <4>2. ASSUME NEW k \in Nat, nget' <= k /\ k < nput'
            PROVE  payload'[k % N] = k
        <5>1. nget <= k /\ (k < nput \/ k = nput)
          BY <2>1, <3>5, <3>6, <4>2
        <5>2. CASE k < nput
          BY <1>2, <2>5, <5>1, <5>2 DEF Blocks
        <5>3. CASE k = nput
          BY <1>2, <3>1, <3>5, <3>6, <5>3
        <5> QED
          BY <5>1, <5>2, <5>3
      <4> QED
        BY <1>2, <2>5, <3>4, <4>1, <4>2 DEF Blocks
    <3>7. CASE p \notin Producers
      <4>1. head'.wr_index = nput' % N /\ head'.rd_index = nget' % N
        BY <2>1, <2>3, <3>5, <3>7, NextBlock
      <4>2. ASSUME NEW k \in Nat, nget' <= k /\ k < nput'
            PROVE  payload'[k % N] = k
        <5>1. nget <= k /\ k < nput
          BY <2>1, <3>5, <3>7, <4>2
        <5> QED
          BY <1>2, <2>5, <5>1 DEF Blocks
      <4> QED
        BY <1>2, <2>5, <3>4, <4>1, <4>2 DEF Blocks
    <3> QED
      BY <3>6, <3>7
  <2>6. early' \/ (Blocks' /\ NotEarly')
    BY <1>2, <2>5 DEF RingInv, Ring
  <2> QED
    BY <2>4, <2>6 DEF Ring
<1> QED
  BY <1>6, <1>7

LEMMA RingStep == RingInv /\ [Next]_vars => RingInv'
<1> SUFFICES ASSUME RingInv, [Next]_vars
             PROVE  Ring'
  BY ShmStep DEF RingInv
<1>1. CASE UNCHANGED vars
  BY <1>1 DEF vars, RingInv, Ring, Filling, Blocks, NotEarly, HeaderFilled, At
<1>2. ASSUME NEW p \in Procs, fifo_init(p) \/ Crash(p)
      PROVE  Ring'
  BY <1>2, RingSetUp, RingHeader DEF fifo_init
<1>3. ASSUME NEW p \in Procs, fifo_op(p)
      PROVE  Ring'
  BY <1>3, RingUse, RingCopy, RingAdvance DEF fifo_op
<1> QED
  BY <1>1, <1>2, <1>3 DEF Next

LEMMA InvNothingOverwritten == RingInv => NothingOverwritten
<1> SUFFICES ASSUME RingInv, ~early, NEW p \in Procs
             PROVE  /\ p \in Producers /\ At(p, "body") => payload[head.wr_index] \notin nget..(nput - 1)
                    /\ p \in Producers /\ At(p, "advance") => payload[head.wr_index] = nput
                    /\ p \in Consumers /\ At(p, "body") => nget < nput /\ payload[head.rd_index] = nget
                    /\ p \in Consumers /\ At(p, "advance") => nget < nput /\ got[p] = nget
  BY DEF NothingOverwritten
<1>1. ShmInv /\ TypeOK /\ Blocks /\ NotEarly
  BY DEF RingInv, ShmInv, Ring
<1>2. /\ nput \in Nat /\ nget \in Nat /\ nget <= nput /\ N \in Nat /\ N > 0
      /\ At(p, "body") \/ At(p, "advance") =>
            (p \in Producers => nput - nget < N) /\ (p \notin Producers => nget < nput)
  BY <1>1, Counted DEF At
<1>3. p \in Consumers => p \notin Producers
  BY ProcsDisjoint
<1>4. ASSUME p \in Producers, At(p, "body"), payload[head.wr_index] \in nget..(nput - 1)
      PROVE  FALSE
  <2>1. head.wr_index = nput % N /\ head.wr_index \in Slots
    BY <1>1 DEF Blocks, TypeOK
  <2>2. PICK k \in Nat : k = payload[head.wr_index] /\ nget <= k /\ k < nput
    BY <1>2, <1>4
  <2>3. k # Nothing
    BY <2>2 DEF Nothing
  <2>4. k % N = nput % N
    BY <1>1, <2>1, <2>2, <2>3 DEF Blocks
  <2>5. nput - k < N
    BY <1>2, <1>4, <2>2
  <2> QED
    BY <1>2, <2>2, <2>4, <2>5, OtherBlock
<1>5. p \in Consumers /\ At(p, "body") => nget < nput /\ payload[head.rd_index] = nget
  <2>1. head.rd_index = nget % N /\ \A k \in Nat : nget <= k /\ k < nput => payload[k % N] = k
    BY <1>1 DEF Blocks
  <2> QED
    BY <1>2, <1>3, <2>1
<1>6. /\ p \in Producers /\ At(p, "advance") => payload[head.wr_index] = nput
      /\ p \in Consumers /\ At(p, "advance") => nget < nput /\ got[p] = nget
  BY <1>1, <1>2, <1>3 DEF NotEarly
<1> QED
  BY <1>4, <1>5, <1>6

(* fifo.c: in a FIFO that nobody used before its header was filled, a      *)
(* producer copies into a block, found by wr_index, that holds no product  *)
(* still to be fetched; a consumer copies, from the block found by         *)
(* rd_index, the oldest product, and still has it when it advances         *)
(* rd_index - for any number of processes, whoever is killed where.        *)
THEOREM NoneOverwritten == Spec => []NothingOverwritten
BY RingInit, RingStep, InvNothingOverwritten, PTL DEF Spec

=============================================================================
