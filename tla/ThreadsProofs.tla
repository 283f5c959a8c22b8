--------------------------- MODULE ThreadsProofs ----------------------------
(***************************************************************************)
(* Proofs about the programs whose threads share memory, for any number of *)
(* threads.  posix-produce-consume.c: the semaphores and the mutex account *)
(* for every slot, and the ring implements the bounded warehouse.          *)
(* cond-produce-consume.c: NoLostWakeup is inductive as it stands, because *)
(* every signal takes a waiter, as long as there is one, to the woken      *)
(* ones, and who takes a product without having been woken leaves the      *)
(* woken ones more than they need.  The Python programs on locks: where a  *)
(* thread is in its function says how many additions it has done and which *)
(* lock it holds; the invariant compares that with money and the locks.    *)
(***************************************************************************)
EXTENDS MCThreads, SequenceTheorems, FiniteSetTheorems, TLAPS

-----------------------------------------------------------------------------
(* Index arithmetic.                                                       *)

(* The slot k places behind slot f.                                        *)
Behind(f, k) == (f + k) % N

LEMMA BehindIs ==
    ASSUME NEW f \in Slots, NEW k \in 0..N
    PROVE  /\ Behind(f, k) = IF f + k < N THEN f + k ELSE f + k - N
           /\ Behind(f, k) \in Slots
<1>1. N \in Nat /\ N > 0 /\ f \in Int /\ 0 <= f /\ f <= N - 1 /\ k \in Int /\ 0 <= k /\ k <= N
  BY BufferNonEmpty DEF Slots
<1>2. CASE f + k < N
  <2>1. (f + k) % N = f + k
    BY <1>1, <1>2
  <2> QED
    BY <1>1, <1>2, <2>1 DEF Behind, Slots
<1>3. CASE ~(f + k < N)
  <2>1. (f + k) % N = f + k - N
    BY <1>1, <1>3
  <2> QED
    BY <1>1, <1>3, <2>1 DEF Behind, Slots
<1> QED
  BY <1>2, <1>3

(* The ring goes round once: the first N places are different slots, the   *)
(* next one is the first again.                                            *)
LEMMA BehindFacts ==
    ASSUME NEW f \in Slots
    PROVE  /\ Behind(f, 0) = f /\ Behind(f, N) = f
           /\ \A j, k \in Slots : Behind(f, j) = Behind(f, k) => j = k
           /\ Advance(f) \in Slots
           /\ \A k \in Slots : /\ Advance(Behind(f, k)) = Behind(f, k + 1)
                               /\ Behind(Advance(f), k) = Behind(f, k + 1)
<1>1. N \in Nat /\ N > 0 /\ Slots = 0..(N - 1)
  BY BufferNonEmpty DEF Slots
<1>2. f \in Int /\ 0 <= f /\ f <= N - 1
  BY <1>1
<1>3. \A g \in Slots : \A k \in 0..N : /\ Behind(g, k) = IF g + k < N THEN g + k ELSE g + k - N
                                       /\ Behind(g, k) \in Slots
  BY BehindIs
<1>4. Behind(f, 0) = f /\ Behind(f, N) = f
  <2>1. 0 \in 0..N /\ N \in 0..N
    BY <1>1
  <2>2. Behind(f, 0) = IF f + 0 < N THEN f + 0 ELSE f + 0 - N
    BY <1>3, <2>1
  <2>3. Behind(f, N) = IF f + N < N THEN f + N ELSE f + N - N
    BY <1>3, <2>1
  <2> QED
    BY <1>1, <1>2, <2>2, <2>3
<1>5. \A j, k \in Slots : Behind(f, j) = Behind(f, k) => j = k
  <2> SUFFICES ASSUME NEW j \in Slots, NEW k \in Slots, Behind(f, j) = Behind(f, k)
               PROVE  j = k
    OBVIOUS
  <2>1. j \in 0..N /\ k \in 0..N /\ j < N /\ k < N
    BY <1>1
  <2>2. (IF f + j < N THEN f + j ELSE f + j - N) = (IF f + k < N THEN f + k ELSE f + k - N)
    BY <1>3, <2>1
  <2> QED
    BY <1>1, <1>2, <2>1, <2>2
<1>6. ASSUME NEW g \in Slots
      PROVE  Advance(g) \in Slots /\ Advance(g) = IF g + 1 < N THEN g + 1 ELSE g + 1 - N
  <2>1. 1 \in 0..N /\ Advance(g) = Behind(g, 1)
    BY <1>1 DEF Advance, Behind
  <2> QED
    BY <1>3, <2>1
<1>7. ASSUME NEW k \in Slots
      PROVE  Advance(Behind(f, k)) = Behind(f, k + 1)
  <2>1. k \in 0..N /\ k + 1 \in 0..N /\ k \in Int
    BY <1>1
  <2>2. PICK g \in Slots : g = Behind(f, k)
    BY <1>3, <2>1
  <2>3. Behind(f, k) = IF f + k < N THEN f + k ELSE f + k - N
    BY <1>3, <2>1
  <2>4. g \in Int /\ g = IF f + k < N THEN f + k ELSE f + k - N
    BY <1>1, <2>2, <2>3
  <2>5. Advance(g) = IF g + 1 < N THEN g + 1 ELSE g + 1 - N
    BY <1>6
  <2>6. Behind(f, k + 1) = IF f + (k + 1) < N THEN f + (k + 1) ELSE f + (k + 1) - N
    BY <1>3, <2>1
  <2>7. Advance(g) = Behind(f, k + 1)
    BY <1>1, <1>2, <2>1, <2>4, <2>5, <2>6
  <2> QED
    BY <2>2, <2>7
<1>8. ASSUME NEW k \in Slots
      PROVE  Behind(Advance(f), k) = Behind(f, k + 1)
  <2>1. k \in 0..N /\ k + 1 \in 0..N /\ k \in Int /\ 0 <= k /\ k < N
    BY <1>1
  <2>2. PICK g \in Slots : g = Advance(f)
    BY <1>6
  <2>3. g \in Int /\ g = IF f + 1 < N THEN f + 1 ELSE f + 1 - N
    BY <1>1, <1>6, <2>2
  <2>4. Behind(g, k) = IF g + k < N THEN g + k ELSE g + k - N
    BY <1>3, <2>1
  <2>5. Behind(f, k + 1) = IF f + (k + 1) < N THEN f + (k + 1) ELSE f + (k + 1) - N
    BY <1>3, <2>1
  <2>6. Behind(g, k) = Behind(f, k + 1)
    BY <1>1, <1>2, <2>1, <2>3, <2>4, <2>5
  <2> QED
    BY <2>2, <2>6
<1> QED
  BY <1>4, <1>5, <1>6, <1>7, <1>8

-----------------------------------------------------------------------------
(* The mutex and the tokens.                                               *)

(* Sets of threads and of slots are finite.                                *)
LEMMA SomeThreads ==
    ASSUME NEW S, S \subseteq Threads
    PROVE  IsFiniteSet(S) /\ Cardinality(S) \in Nat
BY ThreadsAssumption, FS_Subset, FS_CardinalityType DEF Threads

InFlight == {t \in Threads : pc[t] # "sem"}

(* A thread goes on to its next statement.                                 *)
LEMMA Goes ==
    ASSUME TypeOK, NEW t \in Threads, NEW a, NEW b \in PCs, Go(t, a, b)
    PROVE  /\ pc' \in [Threads -> PCs]
           /\ pc[t] = a /\ pc'[t] = b
           /\ \A u \in Threads : u # t => pc'[u] = pc[u]
BY DEF TypeOK, Go

LEMMA Tokens ==
    ASSUME TypeOK, NEW t \in Threads, NEW a \in PCs, NEW b \in PCs, Go(t, a, b)
    PROVE  /\ a = "sem" /\ b # "sem" => Cardinality(InFlight') = Cardinality(InFlight) + 1
           /\ a # "sem" /\ b = "sem" => Cardinality(InFlight') = Cardinality(InFlight) - 1
           /\ (a = "sem" <=> b = "sem") => Cardinality(InFlight') = Cardinality(InFlight)
           /\ Cardinality(InFlight) \in Nat /\ Cardinality(InFlight') \in Nat
<1>1. pc[t] = a /\ pc'[t] = b /\ \A u \in Threads : u # t => pc'[u] = pc[u]
  BY Goes
<1>2. InFlight \subseteq Threads /\ InFlight' \subseteq Threads
  BY DEF InFlight
<1>3. IsFiniteSet(InFlight) /\ Cardinality(InFlight) \in Nat /\ Cardinality(InFlight') \in Nat
  BY <1>2, SomeThreads
<1>4. ASSUME a = "sem", b # "sem"
      PROVE  Cardinality(InFlight') = Cardinality(InFlight) + 1
  <2>1. InFlight' = InFlight \cup {t} /\ t \notin InFlight
    BY <1>1, <1>4 DEF InFlight
  <2> QED
    BY <1>3, <2>1, FS_AddElement
<1>5. ASSUME a # "sem", b = "sem"
      PROVE  Cardinality(InFlight') = Cardinality(InFlight) - 1
  <2>1. InFlight' = InFlight \ {t} /\ t \in InFlight
    BY <1>1, <1>5 DEF InFlight
  <2> QED
    BY <1>3, <2>1, FS_RemoveElement
<1>6. ASSUME a = "sem" <=> b = "sem"
      PROVE  InFlight' = InFlight
  BY <1>1, <1>6 DEF InFlight
<1> QED
  BY <1>3, <1>4, <1>5, <1>6

Inside == {"body", "advance", "unlock"}

LEMMA CriticalMoves ==
    ASSUME TypeOK, NEW t \in Threads, NEW a \in PCs, NEW b \in PCs, Go(t, a, b)
    PROVE  Critical' = IF b \in Inside THEN Critical \cup {t} ELSE Critical \ {t}
<1>1. pc[t] = a /\ pc'[t] = b /\ \A u \in Threads : u # t => pc'[u] = pc[u]
  BY Goes
<1> QED
  BY <1>1 DEF Critical, Inside

LEMMA TokensInit == Init => TokensConserved
<1> SUFFICES ASSUME Init
             PROVE  TokensConserved
  OBVIOUS
<1>1. TypeOK
  BY BufferNonEmpty, IdsEnough DEF Init, TypeOK, Slots, FreeSlots, PCs
<1>2. MutualExclusion
  BY DEF Init, MutualExclusion, Critical
<1>3. {t \in Threads : pc[t] # "sem"} = {}
  BY DEF Init
<1> QED
  BY <1>1, <1>2, <1>3, FS_EmptySet, BufferNonEmpty DEF Init, FreeSlots, TokensConserved

LEMMA Balance ==
    ASSUME NEW p \in Nat, NEW c \in Nat, NEW i \in Nat, NEW q \in Nat, NEW d \in Nat, NEW j \in Nat,
           \/ j = i + 1 /\ q + d = p + c - 1
           \/ j = i - 1 /\ q + d = p + c + 1
           \/ j = i /\ q + d = p + c
    PROVE  q + d + j = p + c + i
OBVIOUS

(* A thread goes from a to b, and the semaphores and the mutex go with it. *)
LEMMA TokensGo ==
    ASSUME TokensConserved, NEW t \in Threads, NEW a \in PCs, NEW b \in PCs, Go(t, a, b),
           /\ buf' \in [Slots -> (0..(Ids - 1)) \cup {Empty}]
           /\ rd_index' \in Slots /\ wr_index' \in Slots /\ produce_id' \in 0..(Ids - 1),
           sem_produce' \in Nat, sem_consume' \in Nat,
           /\ a = "sem" /\ b # "sem" => sem_produce' + sem_consume' = sem_produce + sem_consume - 1
           /\ a # "sem" /\ b = "sem" => sem_produce' + sem_consume' = sem_produce + sem_consume + 1
           /\ (a = "sem" <=> b = "sem") => sem_produce' + sem_consume' = sem_produce + sem_consume,
           IF b \in Inside /\ a \notin Inside THEN mutex = None /\ mutex' = t
           ELSE IF a \in Inside /\ b \notin Inside THEN mutex' = None
           ELSE mutex' = mutex
    PROVE  TokensConserved'
<1>1. pc' \in [Threads -> PCs] /\ pc[t] = a /\ pc'[t] = b /\ t # None
  BY Goes, NoneIsNoThread DEF TokensConserved
<1>2. TypeOK'
  BY <1>1 DEF TypeOK, TokensConserved
<1>3. t \in Critical <=> a \in Inside
  BY <1>1 DEF Critical, Inside
<1>4. Critical' = IF b \in Inside THEN Critical \cup {t} ELSE Critical \ {t}
  BY CriticalMoves DEF TokensConserved
<1>5. MutualExclusion'
  BY <1>1, <1>3, <1>4 DEF TokensConserved, MutualExclusion
<1>6. /\ sem_produce + sem_consume + Cardinality(InFlight) = N /\ N \in Nat
      /\ sem_produce \in Nat /\ sem_consume \in Nat
  BY BufferNonEmpty DEF TokensConserved, TypeOK, InFlight
<1>7. PICK i \in Nat, j \in Nat : i = Cardinality(InFlight) /\ j = Cardinality(InFlight')
  BY Tokens DEF TokensConserved
<1>8. /\ a = "sem" /\ b # "sem" => j = i + 1
      /\ a # "sem" /\ b = "sem" => j = i - 1
      /\ (a = "sem" <=> b = "sem") => j = i
  BY <1>7, Tokens DEF TokensConserved
<1>9. sem_produce' + sem_consume' + Cardinality(InFlight') = N
  <2>1. \/ j = i + 1 /\ sem_produce' + sem_consume' = sem_produce + sem_consume - 1
        \/ j = i - 1 /\ sem_produce' + sem_consume' = sem_produce + sem_consume + 1
        \/ j = i /\ sem_produce' + sem_consume' = sem_produce + sem_consume
    BY <1>8
  <2>2. sem_produce' + sem_consume' + j = sem_produce + sem_consume + i
    <3>1. PICK p \in Nat, c \in Nat, q \in Nat, d \in Nat :
              p = sem_produce /\ c = sem_consume /\ q = sem_produce' /\ d = sem_consume'
      BY <1>6
    <3>2. \/ j = i + 1 /\ q + d = p + c - 1
          \/ j = i - 1 /\ q + d = p + c + 1
          \/ j = i /\ q + d = p + c
      BY <2>1, <3>1
    <3>3. q + d + j = p + c + i
      BY <3>2, Balance
    <3> QED
      BY <3>1, <3>3
  <2> QED
    BY <1>6, <1>7, <2>2
<1> QED
  BY <1>2, <1>5, <1>9 DEF TokensConserved, InFlight

LEMMA TokensStep == TokensConserved /\ [Next]_vars => TokensConserved'
<1> SUFFICES ASSUME TokensConserved, [Next]_vars
             PROVE  TokensConserved'
  OBVIOUS
<1>0. /\ N \in Nat \ {0} /\ sem_produce \in Nat /\ sem_consume \in Nat
      /\ buf \in [Slots -> (0..(Ids - 1)) \cup {Empty}]
      /\ rd_index \in Slots /\ wr_index \in Slots /\ produce_id \in 0..(Ids - 1)
      /\ Advance(rd_index) \in Slots /\ Advance(wr_index) \in Slots
  BY BufferNonEmpty, BehindFacts DEF TokensConserved, TypeOK
<1>1. {"sem", "lock", "body", "advance", "unlock", "post"} = PCs
  BY DEF PCs
<1>2. Producers \subseteq Threads /\ Consumers \subseteq Threads
  BY DEF Threads
<1> USE DEF Inside
<1>3. ASSUME NEW t \in Threads, Lock(t) \/ Unlock(t)
      PROVE  TokensConserved'
  <2>1. CASE Lock(t)
    BY <1>0, <1>1, <2>1, TokensGo DEF Lock, pthread_mutex_lock
  <2>2. CASE Unlock(t)
    BY <1>0, <1>1, <2>2, TokensGo DEF Unlock
  <2> QED
    BY <1>3, <2>1, <2>2
<1>4. ASSUME NEW c \in Consumers, WaitConsume(c)
      PROVE  TokensConserved'
  <2>1. Go(c, "sem", "lock") /\ UNCHANGED <<buf, rd_index, wr_index, produce_id, sem_produce, mutex>>
    BY <1>4 DEF WaitConsume
  <2>2. sem_consume' \in Nat /\ sem_produce' + sem_consume' = sem_produce + sem_consume - 1
    BY <1>0, <1>4 DEF WaitConsume
  <2> QED
    BY <1>0, <1>1, <1>2, <2>1, <2>2, TokensGo
<1>5. ASSUME NEW c \in Consumers, Clear(c)
      PROVE  TokensConserved'
  <2>1. buf' \in [Slots -> (0..(Ids - 1)) \cup {Empty}]
    BY <1>0, <1>5 DEF Clear
  <2> QED
    BY <1>0, <1>1, <1>2, <1>5, <2>1, TokensGo DEF Clear
<1>6. ASSUME NEW c \in Consumers, AdvanceRead(c)
      PROVE  TokensConserved'
  BY <1>0, <1>1, <1>2, <1>6, TokensGo DEF AdvanceRead
<1>7. ASSUME NEW c \in Consumers, PostProduce(c)
      PROVE  TokensConserved'
  <2>1. Go(c, "post", "sem") /\ UNCHANGED <<buf, rd_index, wr_index, produce_id, sem_consume, mutex>>
    BY <1>7 DEF PostProduce
  <2>2. sem_produce' \in Nat /\ sem_produce' + sem_consume' = sem_produce + sem_consume + 1
    BY <1>0, <1>7 DEF PostProduce
  <2> QED
    BY <1>0, <1>1, <1>2, <2>1, <2>2, TokensGo
<1>8. ASSUME NEW p \in Producers, WaitProduce(p)
      PROVE  TokensConserved'
  <2>1. Go(p, "sem", "lock") /\ UNCHANGED <<buf, rd_index, wr_index, produce_id, sem_consume, mutex>>
    BY <1>8 DEF WaitProduce
  <2>2. sem_produce' \in Nat /\ sem_produce' + sem_consume' = sem_produce + sem_consume - 1
    BY <1>0, <1>8 DEF WaitProduce
  <2> QED
    BY <1>0, <1>1, <1>2, <2>1, <2>2, TokensGo
<1>9. ASSUME NEW p \in Producers, Store(p)
      PROVE  TokensConserved'
  <2>1. buf' \in [Slots -> (0..(Ids - 1)) \cup {Empty}]
    BY <1>0, <1>9 DEF Store
  <2>2. Ids \in Nat /\ Ids > 0 /\ produce_id + 1 \in Nat
    BY <1>0, IdsEnough
  <2>3. produce_id' \in 0..(Ids - 1)
    <3>1. (produce_id + 1) % Ids \in 0..(Ids - 1)
      BY <2>2
    <3> QED
      BY <1>9, <3>1 DEF Store
  <2>4. Go(p, "body", "advance") /\ UNCHANGED <<rd_index, wr_index, sem_produce, sem_consume, mutex>>
    BY <1>9 DEF Store
  <2> QED
    BY <1>0, <1>1, <1>2, <2>1, <2>3, <2>4, TokensGo
<1>10. ASSUME NEW p \in Producers, AdvanceWrite(p)
       PROVE  TokensConserved'
  BY <1>0, <1>1, <1>2, <1>10, TokensGo DEF AdvanceWrite
<1>11. ASSUME NEW p \in Producers, PostConsume(p)
       PROVE  TokensConserved'
  <2>1. Go(p, "post", "sem") /\ UNCHANGED <<buf, rd_index, wr_index, produce_id, sem_produce, mutex>>
    BY <1>11 DEF PostConsume
  <2>2. sem_consume' \in Nat /\ sem_produce' + sem_consume' = sem_produce + sem_consume + 1
    BY <1>0, <1>11 DEF PostConsume
  <2> QED
    BY <1>0, <1>1, <1>2, <2>1, <2>2, TokensGo
<1>12. CASE UNCHANGED vars
  BY <1>12 DEF vars, TokensConserved, TypeOK, MutualExclusion, Critical
<1> QED
  BY <1>2, <1>3, <1>4, <1>5, <1>6, <1>7, <1>8, <1>9, <1>10, <1>11, <1>12
     DEF Next, handle_consume, handle_produce

(* posix-produce-consume.c: the semaphores and the threads between wait    *)
(* and post account for all the slots, and one thread at a time works on   *)
(* the warehouse.                                                          *)
THEOREM TokensAccounted == Spec => []TokensConserved
BY TokensInit, TokensStep, PTL DEF Spec


-----------------------------------------------------------------------------
(* The ring.                                                               *)

(* A producer that stored its product has not moved wr_index yet.          *)
Back == IF \E p \in Producers : pc[p] = "advance" THEN Advance(wr_index) ELSE wr_index

(* A thread between wait and post holds a free slot until it fills it, or  *)
(* a full one until it empties it.                                         *)
HoldsFree(t, place) ==
    \/ t \in Producers /\ place \in {"lock", "body"}
    \/ t \in Consumers /\ place \in {"advance", "unlock", "post"}
HoldsFull(t, place) ==
    \/ t \in Consumers /\ place \in {"lock", "body"}
    \/ t \in Producers /\ place \in {"advance", "unlock", "post"}

FreeHands == {t \in Threads : HoldsFree(t, pc[t])}
FullHands == {t \in Threads : HoldsFull(t, pc[t])}

Full == {i \in Slots : buf[i] # Empty}

(* The products lie behind Front without a gap, up to Back, and each       *)
(* semaphore counts the slots of its kind that are in nobody's hands.      *)
Arranged ==
    /\ \A k \in Slots : buf[Behind(Front, k)] # Empty <=> k < Stored
    /\ Back = Behind(Front, Stored)
Counted ==
    /\ sem_produce + Cardinality(FreeHands) + Stored = N
    /\ sem_consume + Cardinality(FullHands) = Stored
RingInv == TokensConserved /\ Arranged /\ Counted

(* A set of threads that one thread joins or leaves.                       *)
LEMMA OneMoves ==
    ASSUME NEW A, NEW B, NEW t \in Threads, A \subseteq Threads, B \subseteq Threads,
           \A u \in Threads : u # t => (u \in A <=> u \in B)
    PROVE  /\ Cardinality(A) \in Nat /\ Cardinality(B) \in Nat
           /\ t \notin A /\ t \in B => Cardinality(B) = Cardinality(A) + 1
           /\ t \in A /\ t \notin B => Cardinality(B) = Cardinality(A) - 1
           /\ (t \in A <=> t \in B) => Cardinality(B) = Cardinality(A)
           /\ t \in A => Cardinality(A) > 0
<1>1. IsFiniteSet(A) /\ Cardinality(A) \in Nat /\ Cardinality(B) \in Nat
  BY SomeThreads
<1>2. ASSUME t \notin A, t \in B
      PROVE  Cardinality(B) = Cardinality(A) + 1
  <2>1. B = A \cup {t}
    BY <1>2
  <2> QED
    BY <1>1, <1>2, <2>1, FS_AddElement
<1>3. ASSUME t \in A, t \notin B
      PROVE  Cardinality(B) = Cardinality(A) - 1
  <2>1. B = A \ {t}
    BY <1>3
  <2> QED
    BY <1>1, <1>3, <2>1, FS_RemoveElement
<1>4. ASSUME t \in A <=> t \in B
      PROVE  A = B
  BY <1>4
<1>5. ASSUME t \in A
      PROVE  Cardinality(A) > 0
  <2>1. A # {}
    BY <1>5
  <2>2. Cardinality(A) # 0
    BY <1>1, <2>1, FS_EmptySet
  <2> QED
    BY <1>1, <2>2
<1> QED
  BY <1>1, <1>2, <1>3, <1>4, <1>5

LEMMA HandsMove ==
    ASSUME TypeOK, NEW t \in Threads, NEW a \in PCs, NEW b \in PCs, Go(t, a, b)
    PROVE  /\ Cardinality(FreeHands) \in Nat /\ Cardinality(FreeHands') \in Nat
           /\ Cardinality(FullHands) \in Nat /\ Cardinality(FullHands') \in Nat
           /\ ~HoldsFree(t, a) /\ HoldsFree(t, b)
                 => Cardinality(FreeHands') = Cardinality(FreeHands) + 1
           /\ HoldsFree(t, a) /\ ~HoldsFree(t, b)
                 => Cardinality(FreeHands') = Cardinality(FreeHands) - 1
           /\ (HoldsFree(t, a) <=> HoldsFree(t, b))
                 => Cardinality(FreeHands') = Cardinality(FreeHands)
           /\ ~HoldsFull(t, a) /\ HoldsFull(t, b)
                 => Cardinality(FullHands') = Cardinality(FullHands) + 1
           /\ HoldsFull(t, a) /\ ~HoldsFull(t, b)
                 => Cardinality(FullHands') = Cardinality(FullHands) - 1
           /\ (HoldsFull(t, a) <=> HoldsFull(t, b))
                 => Cardinality(FullHands') = Cardinality(FullHands)
           /\ HoldsFree(t, a) => Cardinality(FreeHands) > 0
           /\ HoldsFull(t, a) => Cardinality(FullHands) > 0
<1>1. pc[t] = a /\ pc'[t] = b /\ \A u \in Threads : u # t => pc'[u] = pc[u]
  BY Goes
<1>2. /\ FreeHands \subseteq Threads /\ FreeHands' \subseteq Threads
      /\ \A u \in Threads : u # t => (u \in FreeHands <=> u \in FreeHands')
      /\ t \in FreeHands <=> HoldsFree(t, a)
      /\ t \in FreeHands' <=> HoldsFree(t, b)
  BY <1>1 DEF FreeHands, HoldsFree
<1>3. /\ FullHands \subseteq Threads /\ FullHands' \subseteq Threads
      /\ \A u \in Threads : u # t => (u \in FullHands <=> u \in FullHands')
      /\ t \in FullHands <=> HoldsFull(t, a)
      /\ t \in FullHands' <=> HoldsFull(t, b)
  BY <1>1 DEF FullHands, HoldsFull
<1>4. /\ Cardinality(FreeHands) \in Nat /\ Cardinality(FreeHands') \in Nat
      /\ t \notin FreeHands /\ t \in FreeHands' => Cardinality(FreeHands') = Cardinality(FreeHands) + 1
      /\ t \in FreeHands /\ t \notin FreeHands' => Cardinality(FreeHands') = Cardinality(FreeHands) - 1
      /\ (t \in FreeHands <=> t \in FreeHands') => Cardinality(FreeHands') = Cardinality(FreeHands)
      /\ t \in FreeHands => Cardinality(FreeHands) > 0
  BY <1>2, OneMoves
<1>5. /\ Cardinality(FullHands) \in Nat /\ Cardinality(FullHands') \in Nat
      /\ t \notin FullHands /\ t \in FullHands' => Cardinality(FullHands') = Cardinality(FullHands) + 1
      /\ t \in FullHands /\ t \notin FullHands' => Cardinality(FullHands') = Cardinality(FullHands) - 1
      /\ (t \in FullHands <=> t \in FullHands') => Cardinality(FullHands') = Cardinality(FullHands)
      /\ t \in FullHands => Cardinality(FullHands) > 0
  BY <1>3, OneMoves
<1> QED
  BY <1>2, <1>3, <1>4, <1>5

(* Only one thread at a time is between lock and unlock.                   *)
LEMMA Alone ==
    ASSUME TokensConserved, NEW t \in Threads, pc[t] \in Inside,
           NEW u \in Threads, pc[u] \in Inside
    PROVE  u = t
<1>1. t \in Critical /\ u \in Critical
  BY DEF Critical, Inside
<1> QED
  BY <1>1 DEF TokensConserved, MutualExclusion

(* How Front and Back follow the thread that moves.                        *)
LEMMA EndsMove ==
    ASSUME TokensConserved, NEW t \in Threads, NEW a \in PCs, NEW b \in PCs, Go(t, a, b)
    PROVE  /\ a # "advance" /\ b # "advance" /\ UNCHANGED <<rd_index, wr_index>>
                 => Front' = Front /\ Back' = Back
           /\ a = "body" /\ b = "advance" /\ t \in Producers /\ UNCHANGED <<rd_index, wr_index>>
                 => Front' = Front /\ Front = rd_index /\ Back = wr_index /\ Back' = Advance(wr_index)
           /\ a = "body" /\ b = "advance" /\ t \in Consumers /\ UNCHANGED <<rd_index, wr_index>>
                 => Back' = Back /\ Back = wr_index /\ Front = rd_index /\ Front' = Advance(rd_index)
           /\ a = "advance" /\ b = "unlock" /\ t \in Producers
              /\ wr_index' = Advance(wr_index) /\ rd_index' = rd_index
                 => Front' = Front /\ Back' = Back
           /\ a = "advance" /\ b = "unlock" /\ t \in Consumers
              /\ rd_index' = Advance(rd_index) /\ wr_index' = wr_index
                 => Front' = Front /\ Back' = Back
<1>1. pc[t] = a /\ pc'[t] = b /\ \A u \in Threads : u # t => pc'[u] = pc[u]
  BY Goes DEF TokensConserved
<1>2. Producers \subseteq Threads /\ Consumers \subseteq Threads /\ Producers \cap Consumers = {}
  BY ThreadsAssumption DEF Threads
<1>3. ASSUME a # "advance", b # "advance"
      PROVE  \A u \in Threads : pc'[u] = "advance" <=> pc[u] = "advance"
  BY <1>1, <1>3
<1>4. ASSUME a \in Inside
      PROVE  \A u \in Threads : u # t => pc[u] # "advance" /\ pc'[u] # "advance"
  BY <1>1, <1>4, Alone DEF Inside
<1>5. CASE a # "advance" /\ b # "advance"
  BY <1>2, <1>3, <1>5 DEF Front, Back, Advance
<1>6. CASE a = "body" /\ b = "advance"
  <2>1. \A u \in Threads : u # t => pc[u] # "advance" /\ pc'[u] # "advance"
    BY <1>4, <1>6 DEF Inside
  <2>2. pc[t] = "body" /\ pc'[t] = "advance"
    BY <1>1, <1>6
  <2> QED
    BY <1>2, <1>6, <2>1, <2>2 DEF Front, Back, Advance
<1>7. CASE a = "advance" /\ b = "unlock"
  <2>1. \A u \in Threads : u # t => pc[u] # "advance" /\ pc'[u] # "advance"
    BY <1>4, <1>7 DEF Inside
  <2>2. pc[t] = "advance" /\ pc'[t] = "unlock"
    BY <1>1, <1>7
  <2> QED
    BY <1>2, <1>7, <2>1, <2>2 DEF Front, Back, Advance
<1> QED
  BY <1>5, <1>6, <1>7

(* Stored counts the full slots and is at most N.                          *)
LEMMA StoredFacts ==
    ASSUME RingInv
    PROVE  /\ Stored \in Nat /\ Stored <= N /\ Stored = Cardinality(Full) /\ IsFiniteSet(Full)
           /\ Front \in Slots /\ N \in Nat \ {0}
<1>1. IsFiniteSet(Slots)
  BY FS_Interval, BufferNonEmpty DEF Slots
<1>2. IsFiniteSet(Full) /\ Cardinality(Full) \in Nat /\ Stored = Cardinality(Full)
  BY <1>1, FS_Subset, FS_CardinalityType DEF Full, Stored
<1>3. FreeHands \subseteq Threads
  BY DEF FreeHands
<1>4. Cardinality(FreeHands) \in Nat
  BY <1>3, SomeThreads
<1>5. Stored <= N
  BY <1>2, <1>4, BufferNonEmpty DEF RingInv, Counted, TokensConserved, TypeOK
<1>6. Front \in Slots
  BY BehindFacts DEF RingInv, TokensConserved, TypeOK, Front
<1> QED
  BY <1>2, <1>5, <1>6, BufferNonEmpty

LEMMA RingInit == Init => RingInv /\ Warehouse!Init
<1> SUFFICES ASSUME Init
             PROVE  RingInv /\ Warehouse!Init
  OBVIOUS
<1>1. TokensConserved
  BY TokensInit
<1>2. \A i \in Slots : buf[i] = Empty
  BY DEF Init
<1>3. Stored = 0
  <2>1. {i \in Slots : buf[i] # Empty} = {}
    BY <1>2
  <2> QED
    BY <2>1, FS_EmptySet DEF Stored
<1>4. Front = 0 /\ Back = 0 /\ 0 \in Slots
  BY BufferNonEmpty DEF Init, Front, Back, Slots, Threads
<1>5. Arranged
  <2>1. \A k \in Slots : Behind(0, k) \in Slots /\ ~(k < 0)
    BY <1>4, BehindIs, BufferNonEmpty DEF Slots
  <2>2. Behind(0, 0) = 0
    BY <1>4, BehindFacts
  <2> QED
    BY <1>2, <1>3, <1>4, <2>1, <2>2 DEF Arranged
<1>6. Counted
  <2>1. FreeHands = {} /\ FullHands = {}
    BY DEF Init, FreeHands, FullHands, HoldsFree, HoldsFull, Threads
  <2> QED
    BY <1>3, <2>1, FS_EmptySet, BufferNonEmpty DEF Init, FreeSlots, Counted
<1>7. Contents = <<>>
  BY <1>3 DEF Contents
<1> QED
  BY <1>1, <1>5, <1>6, <1>7 DEF RingInv, Init, Warehouse!Init

(* A step that moves neither a product nor an end of the ring.             *)
LEMMA RingKept ==
    ASSUME RingInv, TokensConserved', buf' = buf, Front' = Front, Back' = Back
    PROVE  Arranged' /\ Stored' = Stored /\ Contents' = Contents
<1>1. Stored' = Stored
  BY DEF Stored
<1> QED
  BY <1>1 DEF RingInv, Arranged, Behind, Contents

LEMMA CountKept ==
    ASSUME RingInv, Stored' = Stored,
           Cardinality(FreeHands) \in Nat, Cardinality(FreeHands') \in Nat,
           Cardinality(FullHands) \in Nat, Cardinality(FullHands') \in Nat,
           sem_produce' \in Nat, sem_consume' \in Nat,
           sem_produce' + Cardinality(FreeHands') = sem_produce + Cardinality(FreeHands),
           sem_consume' + Cardinality(FullHands') = sem_consume + Cardinality(FullHands)
    PROVE  Counted'
<1>1. /\ sem_produce + Cardinality(FreeHands) + Stored = N
      /\ sem_consume + Cardinality(FullHands) = Stored
  BY DEF RingInv, Counted
<1> QED
  BY <1>1 DEF Counted

(* Store(p) puts the product at the end of the queue.                      *)
LEMMA StorePuts ==
    ASSUME RingInv, TokensConserved', NEW p \in Producers, Store(p)
    PROVE  RingInv' /\ Warehouse!Put
<1>1. p \in Threads /\ p \notin Consumers /\ Go(p, "body", "advance") /\ "body" \in PCs /\ "advance" \in PCs
  BY ThreadsAssumption DEF Threads, Store, PCs
<1>2. Front' = Front /\ Back = wr_index /\ Back' = Advance(wr_index)
  BY <1>1, EndsMove DEF RingInv, Store
<1>3. /\ Cardinality(FreeHands) \in Nat /\ Cardinality(FreeHands) > 0
      /\ Cardinality(FullHands) \in Nat
      /\ Cardinality(FreeHands') = Cardinality(FreeHands) - 1
      /\ Cardinality(FullHands') = Cardinality(FullHands) + 1
  <2>1. HoldsFree(p, "body") /\ ~HoldsFree(p, "advance") /\ ~HoldsFull(p, "body") /\ HoldsFull(p, "advance")
    BY <1>1 DEF HoldsFree, HoldsFull
  <2>2. TypeOK
    BY DEF RingInv, TokensConserved
  <2> QED
    BY <1>1, <2>1, <2>2, HandsMove
<1>4. /\ Stored \in Nat /\ Stored <= N /\ Stored = Cardinality(Full) /\ IsFiniteSet(Full)
      /\ Front \in Slots /\ N \in Nat \ {0} /\ sem_produce \in Nat /\ sem_consume \in Nat
  BY StoredFacts DEF RingInv, TokensConserved, TypeOK
<1>5. Stored < N /\ Stored \in Slots
  BY <1>3, <1>4 DEF RingInv, Counted, Slots
<1>6. wr_index = Behind(Front, Stored) /\ wr_index \in Slots /\ buf[wr_index] = Empty
  <2>1. wr_index = Behind(Front, Stored) /\ wr_index \in Slots
    BY <1>2 DEF RingInv, Arranged, TokensConserved, TypeOK
  <2>2. buf[Behind(Front, Stored)] # Empty <=> Stored < Stored
    BY <1>5 DEF RingInv, Arranged
  <2>3. ~(Stored < Stored)
    BY <1>4
  <2> QED
    BY <2>1, <2>2, <2>3
<1>7. /\ buf'[wr_index] = produce_id /\ produce_id # Empty
      /\ \A i \in Slots : i # wr_index => buf'[i] = buf[i]
  BY <1>6 DEF Store, RingInv, TokensConserved, TypeOK, Empty
<1>8. Stored' = Stored + 1
  <2>1. Full' = Full \cup {wr_index} /\ wr_index \notin Full
    BY <1>6, <1>7 DEF Full
  <2>2. Cardinality(Full') = Cardinality(Full) + 1
    BY <1>4, <2>1, FS_AddElement
  <2> QED
    BY <1>4, <2>2 DEF Stored, Full
<1>9. Arranged'
  <2>1. Back' = Behind(Front, Stored + 1)
    BY <1>2, <1>4, <1>5, <1>6, BehindFacts
  <2>2. ASSUME NEW k \in Slots
        PROVE  buf'[Behind(Front, k)] # Empty <=> k < Stored + 1
    <3>0. k \in 0..N
      BY <1>4 DEF Slots
    <3>1. Behind(Front, k) \in Slots
      BY <1>4, <3>0, BehindIs
    <3>2. CASE k = Stored
      BY <1>4, <1>6, <1>7, <3>2
    <3>3. CASE k # Stored
      <4>1. Behind(Front, k) # wr_index
        BY <1>4, <1>5, <1>6, <3>3, BehindFacts
      <4>2. buf'[Behind(Front, k)] # Empty <=> k < Stored
        BY <1>7, <3>1, <4>1 DEF RingInv, Arranged
      <4>3. k \in Int /\ (k < Stored <=> k < Stored + 1)
        BY <1>4, <3>3 DEF Slots
      <4> QED
        BY <4>2, <4>3
    <3> QED
      BY <3>2, <3>3
  <2> QED
    BY <1>2, <1>8, <2>1, <2>2 DEF Arranged, Behind
<1>10. Counted'
  <2>1. sem_produce' = sem_produce /\ sem_consume' = sem_consume
    BY DEF Store
  <2> QED
    BY <1>3, <1>4, <1>8, <2>1 DEF RingInv, Counted
<1>11. Contents' = Append(Contents, produce_id)
  <2>1. /\ \A k \in 1..Stored : (Front + k - 1) % N = Behind(Front, k - 1) /\ k - 1 \in Slots /\ k - 1 # Stored
        /\ (Front + (Stored + 1) - 1) % N = wr_index
    <3>1. Front \in Int
      BY <1>4 DEF Slots
    <3> QED
      BY <1>4, <1>5, <1>6, <3>1 DEF Behind, Slots
  <2>2. \A k \in 1..Stored : buf'[(Front + k - 1) % N] = buf[(Front + k - 1) % N]
    <3> SUFFICES ASSUME NEW k \in 1..Stored
                 PROVE  buf'[Behind(Front, k - 1)] = buf[Behind(Front, k - 1)]
      BY <2>1
    <3>1. k - 1 \in Slots /\ k - 1 # Stored
      BY <2>1
    <3>2. Behind(Front, k - 1) # wr_index /\ Behind(Front, k - 1) \in Slots
      BY <1>4, <1>5, <1>6, <3>1, BehindFacts, BehindIs DEF Slots
    <3> QED
      BY <1>7, <3>2
  <2>3. Contents = [k \in 1..Stored |-> buf[(Front + k - 1) % N]]
    BY DEF Contents
  <2>4. Contents' = [k \in 1..(Stored + 1) |-> buf'[(Front + k - 1) % N]]
    BY <1>2, <1>8 DEF Contents
  <2> QED
    BY <1>4, <1>7, <2>1, <2>2, <2>3, <2>4
<1>12. Len(Contents) = Stored
  BY <1>4 DEF Contents
<1> QED
  BY <1>5, <1>9, <1>10, <1>11, <1>12 DEF RingInv, Warehouse!Put, Store

LEMMA TailOfList ==
    ASSUME NEW s, NEW n \in Nat, n > 0, s = [k \in 1..n |-> s[k]]
    PROVE  Tail(s) = [k \in 1..(n - 1) |-> s[k + 1]] /\ s # <<>>
<1>1. PICK S : S = {s[k] : k \in 1..n}
  OBVIOUS
<1>2. s \in [1..n -> S]
  BY <1>1
<1>3. s \in Seq(S)
  BY <1>2, SeqDef
<1>4. Len(s) = n
  BY <1>2, <1>3, LenProperties
<1>5. s # <<>>
  BY <1>3, <1>4, EmptySeq
<1>6. /\ Tail(s) \in Seq(S) /\ Len(Tail(s)) = n - 1
      /\ \A i \in 1..Len(Tail(s)) : Tail(s)[i] = s[i + 1]
  BY <1>3, <1>4, <1>5, HeadTailProperties
<1>7. DOMAIN Tail(s) = 1..(n - 1) /\ Tail(s) = [i \in DOMAIN Tail(s) |-> Tail(s)[i]]
  BY <1>6, LenProperties
<1> QED
  BY <1>5, <1>6, <1>7

(* Clear(c) takes the first product of the queue.                          *)
LEMMA ClearGets ==
    ASSUME RingInv, TokensConserved', NEW c \in Consumers, Clear(c)
    PROVE  RingInv' /\ Warehouse!Get
<1>1. c \in Threads /\ c \notin Producers /\ Go(c, "body", "advance") /\ "body" \in PCs /\ "advance" \in PCs
  BY ThreadsAssumption DEF Threads, Clear, PCs
<1>2. Back' = Back /\ Front = rd_index /\ Front' = Advance(rd_index)
  BY <1>1, EndsMove DEF RingInv, Clear
<1>3. /\ Cardinality(FullHands) \in Nat /\ Cardinality(FullHands) > 0
      /\ Cardinality(FreeHands) \in Nat
      /\ Cardinality(FullHands') = Cardinality(FullHands) - 1
      /\ Cardinality(FreeHands') = Cardinality(FreeHands) + 1
  <2>1. HoldsFull(c, "body") /\ ~HoldsFull(c, "advance") /\ ~HoldsFree(c, "body") /\ HoldsFree(c, "advance")
    BY <1>1 DEF HoldsFree, HoldsFull
  <2>2. TypeOK
    BY DEF RingInv, TokensConserved
  <2> QED
    BY <1>1, <2>1, <2>2, HandsMove
<1>4. /\ Stored \in Nat /\ Stored <= N /\ Stored = Cardinality(Full) /\ IsFiniteSet(Full)
      /\ Front \in Slots /\ N \in Nat \ {0} /\ sem_produce \in Nat /\ sem_consume \in Nat
  BY StoredFacts DEF RingInv, TokensConserved, TypeOK
<1>5. Stored > 0 /\ 0 \in Slots /\ Stored - 1 \in Slots /\ Front' \in Slots
  BY <1>2, <1>3, <1>4, BehindFacts DEF RingInv, Counted, Slots
<1>6. Behind(Front, 0) = Front /\ buf[Front] # Empty
  BY <1>4, <1>5, BehindFacts DEF RingInv, Arranged
<1>7. buf'[Front] = Empty /\ \A i \in Slots : i # Front => buf'[i] = buf[i]
  BY <1>2, <1>4 DEF Clear, RingInv, TokensConserved, TypeOK
<1>8. Stored' = Stored - 1
  <2>1. Full' = Full \ {Front} /\ Front \in Full
    BY <1>4, <1>6, <1>7 DEF Full
  <2>2. Cardinality(Full') = Cardinality(Full) - 1
    BY <1>4, <2>1, FS_RemoveElement
  <2> QED
    BY <1>4, <2>2 DEF Stored, Full
<1>9. \A k \in Slots : Behind(Front', k) = Behind(Front, k + 1)
  BY <1>2, <1>4, BehindFacts
<1>10. ASSUME NEW k \in Slots, k + 1 \in Slots
       PROVE  Behind(Front, k + 1) \in Slots /\ Behind(Front, k + 1) # Front
  <2>1. k + 1 \in 0..N /\ k + 1 # 0
    BY <1>4, <1>10 DEF Slots
  <2> QED
    BY <1>4, <1>5, <1>6, <1>10, <2>1, BehindIs, BehindFacts
<1>11. Arranged'
  <2>1. Back' = Behind(Front', Stored - 1)
    <3>1. Behind(Front', Stored - 1) = Behind(Front, (Stored - 1) + 1)
      BY <1>5, <1>9
    <3>2. (Stored - 1) + 1 = Stored
      BY <1>4
    <3> QED
      BY <1>2, <3>1, <3>2 DEF RingInv, Arranged
  <2>2. ASSUME NEW k \in Slots
        PROVE  buf'[Behind(Front', k)] # Empty <=> k < Stored - 1
    <3>1. k \in Int /\ (k + 1 \in Slots \/ k + 1 = N)
      BY <1>4 DEF Slots
    <3>2. CASE k + 1 \in Slots
      <4>1. buf'[Behind(Front, k + 1)] = buf[Behind(Front, k + 1)]
        BY <1>7, <1>10, <3>2
      <4>2. buf[Behind(Front, k + 1)] # Empty <=> k + 1 < Stored
        BY <3>2 DEF RingInv, Arranged
      <4>3. k + 1 < Stored <=> k < Stored - 1
        BY <1>4, <3>1
      <4>4. Behind(Front', k) = Behind(Front, k + 1)
        BY <1>9
      <4> QED
        BY <4>1, <4>2, <4>3, <4>4
    <3>3. CASE k + 1 = N
      <4>1. Behind(Front', k) = Front
        BY <1>4, <1>9, <3>3, BehindFacts
      <4>2. ~(k < Stored - 1)
        BY <1>4, <3>1, <3>3
      <4> QED
        BY <1>7, <4>1, <4>2
    <3> QED
      BY <3>1, <3>2, <3>3
  <2> QED
    BY <1>8, <2>1, <2>2 DEF Arranged, Behind
<1>12. Counted'
  <2>1. sem_produce' = sem_produce /\ sem_consume' = sem_consume
    BY DEF Clear
  <2> QED
    BY <1>3, <1>4, <1>8, <2>1 DEF RingInv, Counted
<1>13. Contents' = Tail(Contents) /\ Contents # <<>>
  <2>1. ASSUME NEW k \in 1..(Stored - 1)
        PROVE  buf'[(Front' + k - 1) % N] = buf[(Front + (k + 1) - 1) % N]
    <3>1. k - 1 \in Slots /\ (k - 1) + 1 \in Slots /\ k \in Int /\ Front \in Int /\ Front' \in Int
      BY <1>4, <1>5 DEF Slots
    <3>2. Behind(Front', k - 1) = Behind(Front, (k - 1) + 1)
      BY <1>9, <3>1
    <3>3. buf'[Behind(Front, (k - 1) + 1)] = buf[Behind(Front, (k - 1) + 1)]
      BY <1>7, <1>10, <3>1
    <3>4. Front' + k - 1 = Front' + (k - 1) /\ Front + (k + 1) - 1 = Front + ((k - 1) + 1)
      BY <3>1
    <3> QED
      BY <3>2, <3>3, <3>4 DEF Behind
  <2>2. Contents = [k \in 1..Stored |-> buf[(Front + k - 1) % N]]
    BY DEF Contents
  <2>3. Contents' = [k \in 1..(Stored - 1) |-> buf'[(Front' + k - 1) % N]]
    BY <1>8 DEF Contents
  <2>4. Contents = [k \in 1..Stored |-> Contents[k]]
    BY <2>2
  <2>5. Tail(Contents) = [k \in 1..(Stored - 1) |-> Contents[k + 1]] /\ Contents # <<>>
    BY <1>4, <1>5, <2>4, TailOfList
  <2>7. \A k \in 1..(Stored - 1) : Contents[k + 1] = buf[(Front + (k + 1) - 1) % N]
    BY <1>4, <1>5, <2>2
  <2> QED
    BY <2>1, <2>3, <2>5, <2>7
<1> QED
  BY <1>11, <1>12, <1>13 DEF RingInv, Warehouse!Get, Clear

LEMMA RingStep ==
    RingInv /\ [Next]_vars => RingInv' /\ [Warehouse!Next]_<<Contents, produce_id>>
<1> SUFFICES ASSUME RingInv, [Next]_vars
             PROVE  RingInv' /\ [Warehouse!Next]_<<Contents, produce_id>>
  OBVIOUS
<1>1. TokensConserved /\ TokensConserved' /\ TypeOK /\ TypeOK'
  BY TokensStep DEF RingInv, TokensConserved
<1>2. /\ Producers \subseteq Threads /\ Consumers \subseteq Threads /\ Producers \cap Consumers = {}
      /\ PCs = {"sem", "lock", "body", "advance", "unlock", "post"}
  BY ThreadsAssumption DEF Threads, PCs
<1>3. ASSUME buf' = buf, produce_id' = produce_id, Front' = Front, Back' = Back,
             Cardinality(FreeHands) \in Nat, Cardinality(FreeHands') \in Nat,
             Cardinality(FullHands) \in Nat, Cardinality(FullHands') \in Nat,
             sem_produce' + Cardinality(FreeHands') = sem_produce + Cardinality(FreeHands),
             sem_consume' + Cardinality(FullHands') = sem_consume + Cardinality(FullHands)
      PROVE  RingInv' /\ [Warehouse!Next]_<<Contents, produce_id>>
  <2>1. Arranged' /\ Stored' = Stored /\ Contents' = Contents
    BY <1>1, <1>3, RingKept
  <2>2. sem_produce' \in Nat /\ sem_consume' \in Nat
    BY <1>1 DEF TypeOK
  <2>3. Counted'
    BY <1>3, <2>1, <2>2, CountKept
  <2> QED
    BY <1>1, <1>3, <2>1, <2>3 DEF RingInv
<1>4. ASSUME NEW t \in Threads, NEW a \in PCs, NEW b \in PCs, Go(t, a, b),
             buf' = buf, produce_id' = produce_id, Front' = Front, Back' = Back,
             HoldsFree(t, a) <=> HoldsFree(t, b), HoldsFull(t, a) <=> HoldsFull(t, b),
             sem_produce' = sem_produce, sem_consume' = sem_consume
      PROVE  RingInv' /\ [Warehouse!Next]_<<Contents, produce_id>>
  BY <1>1, <1>3, <1>4, HandsMove
<1>5. ASSUME NEW t \in Threads, Lock(t) \/ Unlock(t)
      PROVE  RingInv' /\ [Warehouse!Next]_<<Contents, produce_id>>
  <2>1. CASE Lock(t)
    <3>1. Go(t, "lock", "body") /\ UNCHANGED <<buf, rd_index, wr_index, produce_id, sem_produce, sem_consume>>
      BY <2>1 DEF Lock
    <3>2. Front' = Front /\ Back' = Back
      BY <1>1, <1>2, <3>1, EndsMove
    <3>3. (HoldsFree(t, "lock") <=> HoldsFree(t, "body")) /\ (HoldsFull(t, "lock") <=> HoldsFull(t, "body"))
      BY DEF HoldsFree, HoldsFull
    <3> QED
      BY <1>2, <1>4, <3>1, <3>2, <3>3
  <2>2. CASE Unlock(t)
    <3>1. Go(t, "unlock", "post") /\ UNCHANGED <<buf, rd_index, wr_index, produce_id, sem_produce, sem_consume>>
      BY <2>2 DEF Unlock
    <3>2. Front' = Front /\ Back' = Back
      BY <1>1, <1>2, <3>1, EndsMove
    <3>3. (HoldsFree(t, "unlock") <=> HoldsFree(t, "post")) /\ (HoldsFull(t, "unlock") <=> HoldsFull(t, "post"))
      BY DEF HoldsFree, HoldsFull
    <3> QED
      BY <1>2, <1>4, <3>1, <3>2, <3>3
  <2> QED
    BY <1>5, <2>1, <2>2
<1>6. ASSUME NEW c \in Consumers, WaitConsume(c)
      PROVE  RingInv' /\ [Warehouse!Next]_<<Contents, produce_id>>
  <2>1. Go(c, "sem", "lock") /\ UNCHANGED <<buf, rd_index, wr_index, produce_id, sem_produce>>
    BY <1>6 DEF WaitConsume
  <2>2. Front' = Front /\ Back' = Back
    BY <1>1, <1>2, <2>1, EndsMove
  <2>3. ~HoldsFull(c, "sem") /\ HoldsFull(c, "lock") /\ ~HoldsFree(c, "sem") /\ ~HoldsFree(c, "lock")
    BY <1>2 DEF HoldsFree, HoldsFull
  <2>4. /\ Cardinality(FullHands) \in Nat /\ Cardinality(FullHands') \in Nat
        /\ Cardinality(FreeHands) \in Nat /\ Cardinality(FreeHands') \in Nat
        /\ Cardinality(FullHands') = Cardinality(FullHands) + 1
        /\ Cardinality(FreeHands') = Cardinality(FreeHands)
    BY <1>1, <1>2, <2>1, <2>3, HandsMove
  <2>5. sem_consume \in Nat /\ sem_consume' = sem_consume - 1
    BY <1>1, <1>6 DEF WaitConsume, TypeOK
  <2>6. sem_consume' + Cardinality(FullHands') = sem_consume + Cardinality(FullHands)
    BY <2>4, <2>5
  <2> QED
    BY <1>3, <2>1, <2>2, <2>4, <2>6
<1>7. ASSUME NEW c \in Consumers, PostProduce(c)
      PROVE  RingInv' /\ [Warehouse!Next]_<<Contents, produce_id>>
  <2>1. Go(c, "post", "sem") /\ UNCHANGED <<buf, rd_index, wr_index, produce_id, sem_consume>>
    BY <1>7 DEF PostProduce
  <2>2. Front' = Front /\ Back' = Back
    BY <1>1, <1>2, <2>1, EndsMove
  <2>3. HoldsFree(c, "post") /\ ~HoldsFree(c, "sem") /\ ~HoldsFull(c, "post") /\ ~HoldsFull(c, "sem")
    BY <1>2 DEF HoldsFree, HoldsFull
  <2>4. /\ Cardinality(FreeHands) \in Nat /\ Cardinality(FreeHands') \in Nat
        /\ Cardinality(FullHands) \in Nat /\ Cardinality(FullHands') \in Nat
        /\ Cardinality(FreeHands') = Cardinality(FreeHands) - 1
        /\ Cardinality(FullHands') = Cardinality(FullHands)
    BY <1>1, <1>2, <2>1, <2>3, HandsMove
  <2>5. sem_produce \in Nat /\ sem_produce' = sem_produce + 1
    BY <1>1, <1>7 DEF PostProduce, TypeOK
  <2>6. sem_produce' + Cardinality(FreeHands') = sem_produce + Cardinality(FreeHands)
    BY <2>4, <2>5
  <2> QED
    BY <1>3, <2>1, <2>2, <2>4, <2>6
<1>8. ASSUME NEW p \in Producers, WaitProduce(p)
      PROVE  RingInv' /\ [Warehouse!Next]_<<Contents, produce_id>>
  <2>1. Go(p, "sem", "lock") /\ UNCHANGED <<buf, rd_index, wr_index, produce_id, sem_consume>>
    BY <1>8 DEF WaitProduce
  <2>2. Front' = Front /\ Back' = Back
    BY <1>1, <1>2, <2>1, EndsMove
  <2>3. ~HoldsFree(p, "sem") /\ HoldsFree(p, "lock") /\ ~HoldsFull(p, "sem") /\ ~HoldsFull(p, "lock")
    BY <1>2 DEF HoldsFree, HoldsFull
  <2>4. /\ Cardinality(FreeHands) \in Nat /\ Cardinality(FreeHands') \in Nat
        /\ Cardinality(FullHands) \in Nat /\ Cardinality(FullHands') \in Nat
        /\ Cardinality(FreeHands') = Cardinality(FreeHands) + 1
        /\ Cardinality(FullHands') = Cardinality(FullHands)
    BY <1>1, <1>2, <2>1, <2>3, HandsMove
  <2>5. sem_produce \in Nat /\ sem_produce' = sem_produce - 1
    BY <1>1, <1>8 DEF WaitProduce, TypeOK
  <2>6. sem_produce' + Cardinality(FreeHands') = sem_produce + Cardinality(FreeHands)
    BY <2>4, <2>5
  <2> QED
    BY <1>3, <2>1, <2>2, <2>4, <2>6
<1>9. ASSUME NEW p \in Producers, PostConsume(p)
      PROVE  RingInv' /\ [Warehouse!Next]_<<Contents, produce_id>>
  <2>1. Go(p, "post", "sem") /\ UNCHANGED <<buf, rd_index, wr_index, produce_id, sem_produce>>
    BY <1>9 DEF PostConsume
  <2>2. Front' = Front /\ Back' = Back
    BY <1>1, <1>2, <2>1, EndsMove
  <2>3. HoldsFull(p, "post") /\ ~HoldsFull(p, "sem") /\ ~HoldsFree(p, "post") /\ ~HoldsFree(p, "sem")
    BY <1>2 DEF HoldsFree, HoldsFull
  <2>4. /\ Cardinality(FullHands) \in Nat /\ Cardinality(FullHands') \in Nat
        /\ Cardinality(FreeHands) \in Nat /\ Cardinality(FreeHands') \in Nat
        /\ Cardinality(FullHands') = Cardinality(FullHands) - 1
        /\ Cardinality(FreeHands') = Cardinality(FreeHands)
    BY <1>1, <1>2, <2>1, <2>3, HandsMove
  <2>5. sem_consume \in Nat /\ sem_consume' = sem_consume + 1
    BY <1>1, <1>9 DEF PostConsume, TypeOK
  <2>6. sem_consume' + Cardinality(FullHands') = sem_consume + Cardinality(FullHands)
    BY <2>4, <2>5
  <2> QED
    BY <1>3, <2>1, <2>2, <2>4, <2>6
<1>10. ASSUME NEW c \in Consumers, AdvanceRead(c)
      PROVE  RingInv' /\ [Warehouse!Next]_<<Contents, produce_id>>
  <2>1. Go(c, "advance", "unlock") /\ UNCHANGED <<buf, wr_index, produce_id, sem_produce, sem_consume>>
    BY <1>10 DEF AdvanceRead
  <2>2. Front' = Front /\ Back' = Back
    BY <1>1, <1>2, <1>10, <2>1, EndsMove DEF AdvanceRead
  <2>3. (HoldsFree(c, "advance") <=> HoldsFree(c, "unlock")) /\ (HoldsFull(c, "advance") <=> HoldsFull(c, "unlock"))
    BY DEF HoldsFree, HoldsFull
  <2> QED
    BY <1>2, <1>4, <2>1, <2>2, <2>3
<1>11. ASSUME NEW p \in Producers, AdvanceWrite(p)
      PROVE  RingInv' /\ [Warehouse!Next]_<<Contents, produce_id>>
  <2>1. Go(p, "advance", "unlock") /\ UNCHANGED <<buf, rd_index, produce_id, sem_produce, sem_consume>>
    BY <1>11 DEF AdvanceWrite
  <2>2. Front' = Front /\ Back' = Back
    BY <1>1, <1>2, <1>11, <2>1, EndsMove DEF AdvanceWrite
  <2>3. (HoldsFree(p, "advance") <=> HoldsFree(p, "unlock")) /\ (HoldsFull(p, "advance") <=> HoldsFull(p, "unlock"))
    BY DEF HoldsFree, HoldsFull
  <2> QED
    BY <1>2, <1>4, <2>1, <2>2, <2>3
<1>12. ASSUME NEW c \in Consumers, Clear(c)
       PROVE  RingInv' /\ [Warehouse!Next]_<<Contents, produce_id>>
  BY <1>1, <1>12, ClearGets DEF Warehouse!Next
<1>13. ASSUME NEW p \in Producers, Store(p)
       PROVE  RingInv' /\ [Warehouse!Next]_<<Contents, produce_id>>
  BY <1>1, <1>13, StorePuts DEF Warehouse!Next
<1>14. CASE UNCHANGED vars
  <2>1. UNCHANGED <<Front, Back, Stored, FreeHands, FullHands, Contents>>
    BY <1>14 DEF vars, Front, Back, Stored, FreeHands, FullHands, Contents
  <2> QED
    BY <1>1, <1>14, <2>1 DEF vars, RingInv, Arranged, Counted, Behind
<1> QED
  BY <1>2, <1>5, <1>6, <1>7, <1>8, <1>9, <1>10, <1>11, <1>12, <1>13, <1>14
     DEF Next, handle_consume, handle_produce

(* posix-produce-consume.c implements the bounded FIFO warehouse, with any *)
(* number of threads and slots: a product is stored behind the others      *)
(* while there is room, and the oldest one is taken, exactly once.         *)
THEOREM RingImplementsWarehouse == Spec => ImplementsWarehouse
<1>1. Init => RingInv /\ Warehouse!Init
  BY RingInit
<1>2. RingInv /\ [Next]_vars => RingInv' /\ [Warehouse!Next]_<<Contents, produce_id>>
  BY RingStep
<1> QED
  BY <1>1, <1>2, PTL DEF Spec, ImplementsWarehouse, Warehouse!Spec

-----------------------------------------------------------------------------
(* cond-produce-consume.c                                                  *)

(* What the instance calls finite and counts is what the library does.     *)
LEMMA SameFinite == ASSUME NEW S PROVE Cond!IsFiniteSet(S) = IsFiniteSet(S)
BY DEF Cond!IsFiniteSet, IsFiniteSet

LEMMA SameCardinality == ASSUME NEW S PROVE Cond!Cardinality(S) = Cardinality(S)
BY DEF Cond!Cardinality, Cardinality

(* Every step of cond-produce-consume.c leads to sets of consumers.        *)
LEMMA CondSets ==
    ASSUME Cond!CondConstants
    PROVE  /\ IsFiniteSet(Cond!Woken) /\ Cardinality(Cond!Woken) \in Nat
           /\ IsFiniteSet(Cond!Woken') /\ Cardinality(Cond!Woken') \in Nat
<1>1. Cond!Woken \subseteq CondConsumers /\ Cond!Woken' \subseteq CondConsumers
  BY DEF Cond!Woken
<1> QED
  BY <1>1, SameFinite, FS_Subset, FS_CardinalityType DEF Cond!CondConstants

LEMMA CondInit == ASSUME Cond!CondConstants PROVE Cond!Init => Cond!NoLostWakeup
BY DEF Cond!CondConstants, Cond!Init, Cond!NoLostWakeup, Cond!TypeOK, Cond!Waiting

(* A waiter that wakes, by the signal or without, joins the woken ones.    *)
LEMMA CondWakes ==
    ASSUME Cond!CondConstants, Cond!TypeOK, NEW c \in Cond!Waiting, cpc' = [cpc EXCEPT ![c] = "woken"]
    PROVE  /\ cpc' \in [CondConsumers -> {"lock", "wait", "woken", "sleep"}]
           /\ Cardinality(Cond!Woken') = Cardinality(Cond!Woken) + 1
<1>1. c \notin Cond!Woken /\ Cond!Woken' = Cond!Woken \cup {c}
  BY DEF Cond!TypeOK, Cond!Woken, Cond!Waiting
<1> QED
  BY <1>1, CondSets, FS_AddElement DEF Cond!TypeOK, Cond!Waiting

LEMMA CondStep ==
    ASSUME Cond!CondConstants, Cond!NoLostWakeup, [Cond!Next]_Cond!vars
    PROVE  Cond!NoLostWakeup'
<1>0. /\ total \in 0..MaxTotal
      /\ cpc \in [CondConsumers -> {"lock", "wait", "woken", "sleep"}]
      /\ awake \in [CondProducers -> BOOLEAN]
      /\ Cond!Waiting # {} => total <= Cardinality(Cond!Woken)
      /\ MaxTotal \in Nat
  BY SameCardinality DEF Cond!NoLostWakeup, Cond!TypeOK, Cond!CondConstants
<1>1. ASSUME NEW p \in CondProducers, Cond!Produce(p)
      PROVE  Cond!NoLostWakeup'
  <2>1. total' = total + 1 /\ total' \in 0..MaxTotal /\ awake' \in [CondProducers -> BOOLEAN]
    BY <1>0, <1>1 DEF Cond!Produce
  <2>2. CASE Cond!Waiting # {}
    <3>1. PICK c \in Cond!Waiting : cpc' = [cpc EXCEPT ![c] = "woken"]
      BY <1>1, <2>2 DEF Cond!Produce, Cond!pthread_cond_signal
    <3>2. /\ cpc' \in [CondConsumers -> {"lock", "wait", "woken", "sleep"}]
          /\ Cardinality(Cond!Woken') = Cardinality(Cond!Woken) + 1
      BY <3>1, CondWakes DEF Cond!NoLostWakeup
    <3> QED
      BY <1>0, <2>1, <2>2, <3>2, CondSets, SameCardinality DEF Cond!NoLostWakeup, Cond!TypeOK
  <2>3. CASE Cond!Waiting = {}
    <3>1. cpc' = cpc
      BY <1>1, <2>3 DEF Cond!Produce, Cond!pthread_cond_signal
    <3> QED
      BY <1>0, <2>1, <2>3, <3>1 DEF Cond!NoLostWakeup, Cond!TypeOK, Cond!Waiting
  <2> QED
    BY <2>2, <2>3
<1>2. ASSUME NEW p \in CondProducers, Cond!ProducerSleeps(p)
      PROVE  Cond!NoLostWakeup'
  BY <1>0, <1>2 DEF Cond!ProducerSleeps, Cond!NoLostWakeup, Cond!TypeOK, Cond!Waiting, Cond!Woken
<1>3. ASSUME NEW c \in CondConsumers, Cond!Consume(c)
      PROVE  Cond!NoLostWakeup'
  <2>1. cpc[c] \in {"lock", "woken"} /\ awake' = awake
    BY <1>3 DEF Cond!Consume
  <2>2. CASE total = 0
    <3>1. total' = 0 /\ cpc' = [cpc EXCEPT ![c] = "wait"]
      BY <1>3, <2>2 DEF Cond!Consume, Cond!MustWait
    <3> QED
      BY <1>0, <2>1, <3>1, CondSets, SameCardinality DEF Cond!NoLostWakeup, Cond!TypeOK
  <2>3. CASE total # 0
    <3>1. total' = total - 1 /\ cpc' = [cpc EXCEPT ![c] = "sleep"]
      BY <1>3, <2>3 DEF Cond!Consume, Cond!MustWait
    <3>2. Cond!Waiting' = Cond!Waiting /\ Cond!Woken' = Cond!Woken \ {c}
      BY <1>0, <2>1, <3>1 DEF Cond!Waiting, Cond!Woken
    <3>3. Cardinality(Cond!Woken') >= Cardinality(Cond!Woken) - 1
      BY <3>2, CondSets, FS_RemoveElement
    <3>4. Cond!Waiting # {} => total' <= Cardinality(Cond!Woken')
      BY <1>0, <3>1, <3>3, CondSets
    <3> QED
      BY <1>0, <2>1, <2>3, <3>1, <3>2, <3>4, SameCardinality DEF Cond!NoLostWakeup, Cond!TypeOK
  <2> QED
    BY <2>2, <2>3
<1>4. ASSUME NEW c \in CondConsumers, Cond!ConsumerSleeps(c)
      PROVE  Cond!NoLostWakeup'
  <2>1. Cond!Waiting' = Cond!Waiting /\ Cond!Woken' = Cond!Woken
    BY <1>0, <1>4 DEF Cond!ConsumerSleeps, Cond!Waiting, Cond!Woken
  <2> QED
    BY <1>0, <1>4, <2>1 DEF Cond!ConsumerSleeps, Cond!NoLostWakeup, Cond!TypeOK
<1>5. ASSUME NEW c \in CondConsumers, Cond!SpuriousWakeup(c)
      PROVE  Cond!NoLostWakeup'
  <2>1. /\ c \in Cond!Waiting /\ cpc' = [cpc EXCEPT ![c] = "woken"]
        /\ UNCHANGED <<total, awake>>
    BY <1>5 DEF Cond!SpuriousWakeup, Cond!Waiting
  <2>2. /\ cpc' \in [CondConsumers -> {"lock", "wait", "woken", "sleep"}]
        /\ Cardinality(Cond!Woken') = Cardinality(Cond!Woken) + 1
    BY <2>1, CondWakes DEF Cond!NoLostWakeup
  <2> QED
    BY <1>0, <2>1, <2>2, CondSets, SameCardinality DEF Cond!NoLostWakeup, Cond!TypeOK
<1>6. CASE UNCHANGED Cond!vars
  BY <1>0, <1>6 DEF Cond!vars, Cond!NoLostWakeup, Cond!TypeOK, Cond!Waiting, Cond!Woken
<1> QED
  BY <1>1, <1>2, <1>3, <1>4, <1>5, <1>6
     DEF Cond!Next, Cond!handle_produce, Cond!handle_consume

(* cond-produce-consume.c: as long as a consumer waits, there is a woken   *)
(* one for every product, spurious wake-ups and all; and nobody consumes   *)
(* from an empty warehouse.                                                *)
THEOREM NoWakeupLost ==
    ASSUME Cond!CondConstants
    PROVE  Cond!Spec => []NoLostWakeup
<1>1. Cond!Init => Cond!NoLostWakeup
  BY CondInit
<1>2. Cond!NoLostWakeup /\ [Cond!Next]_Cond!vars => Cond!NoLostWakeup'
  BY CondStep
<1> QED
  BY <1>1, <1>2, PTL DEF Cond!Spec, NoLostWakeup

-----------------------------------------------------------------------------
(* The Python programs.  What a thread of the programs on money does is a  *)
(* function of the number k of steps it has done: the operation that comes *)
(* next, how many additions are done, and whether k lies inside the lock.  *)

MoneyPrograms == {"global_alter", "lock_my", "lock_mutex"}

Additions(t) == IF t = 1 THEN Typing ELSE Watering

StepsOf(p, n) ==
    CASE p = "global_alter" -> 2 * n
      [] p = "lock_my" -> 2 * n + 3
      [] p = "lock_mutex" -> 4 * n

OpAt(p, n, k) ==
    CASE p = "global_alter" -> IF k % 2 = 0 THEN "load" ELSE "store"
      [] p = "lock_my" -> IF k = 0 THEN "test"
                          ELSE IF k = 1 THEN "set"
                          ELSE IF k = 2 * n + 2 THEN "clear"
                          ELSE IF k % 2 = 0 THEN "load" ELSE "store"
      [] p = "lock_mutex" -> IF k % 4 = 0 THEN "acquire"
                             ELSE IF k % 4 = 1 THEN "load"
                             ELSE IF k % 4 = 2 THEN "store" ELSE "release"

Did(p, k) ==
    CASE p = "global_alter" -> k \div 2
      [] p = "lock_my" -> IF k < 2 THEN 0 ELSE (k \div 2) - 1
      [] p = "lock_mutex" -> (k + 1) \div 4

InLock(p, n, k) ==
    CASE p = "global_alter" -> FALSE
      [] p = "lock_my" -> 2 <= k /\ k <= 2 * n + 2
      [] p = "lock_mutex" -> k % 4 # 0

(* The function of thread t of program p.                                  *)
CodeOf(p, t) == IF t <= Len(Py!Code(p)) THEN Py!Code(p)[t] ELSE <<>>

PyBase ==
    /\ program \in Programs
    /\ code = [t \in Py!Threads |-> CodeOf(program, t)]
    /\ at \in [Py!Threads -> Nat \ {0}]
    /\ owner \in [Py!Locks -> Nat \cup {NoOwner}]
    /\ read \in [Py!Threads -> Nat]
    /\ money \in Nat /\ money_lock \in BOOLEAN /\ raced \in BOOLEAN

Done(t) == Did(program, at[t] - 1)
WithLock(t) == InLock(program, Additions(t), at[t] - 1)
Exact == program = "lock_mutex" \/ (program = "lock_my" /\ ~raced)

(* global_alter, lock_my, lock_mutex: no more than the additions done is   *)
(* in money or has been read, and nothing less while the lock is a lock.   *)
MoneyInv ==
    /\ \A t \in {1, 2} : at[t] - 1 \in 0..StepsOf(program, Additions(t))
    /\ money <= Done(1) + Done(2)
    /\ \A t \in {1, 2} : Py!Step(t)[1] = "store" => read[t] <= Done(1) + Done(2)
    /\ Exact => /\ money = Done(1) + Done(2)
                /\ \A t \in {1, 2} : Py!Step(t)[1] = "store" => read[t] = Done(1) + Done(2)
                /\ ~(WithLock(1) /\ WithLock(2))
    /\ program = "lock_mutex" =>
          /\ owner["mutex"] \in {1, 2, NoOwner}
          /\ \A t \in {1, 2} : WithLock(t) <=> owner["mutex"] = t
    /\ program = "lock_my" /\ ~raced => (money_lock <=> WithLock(1) \/ WithLock(2))

(* deadlock: who holds which lock is where the two threads are.            *)
Own(t) == IF t = 1 THEN "my_lock" ELSE "your_lock"
Other(t) == 3 - t
EmbraceInv ==
    \A t \in {1, 2} :
        /\ at[t] \in 1..5
        /\ owner[Own(t)] \in {1, 2, NoOwner}
        /\ owner[Own(t)] = t <=> at[t] \in {2, 3}
        /\ owner[Own(t)] = Other(t) <=> at[Other(t)] \in {3, 4}

(* deadlock_timeout: a lock that is held is its own thread's, or the other *)
(* thread is about to release it.                                          *)
TimeoutInv ==
    \A t \in {1, 2} :
        /\ at[t] \in 1..5
        /\ owner[Own(t)] \in {1, 2, NoOwner}
        /\ owner[Own(t)] = t => at[t] # 1
        /\ owner[Own(t)] = Other(t) => at[Other(t)] \in {3, 4}

(* synchronize: a thread has the ball, or a lock is free.                  *)
BallInv ==
    /\ \A t \in 1..3 : at[t] \in 1..3
    /\ \/ \E t \in 1..3 : at[t] = 2
       \/ \E l \in {"lock1", "lock2", "lock3"} : owner[l] = NoOwner

(* producer_consumer: the portions that consumers who have looked have yet *)
(* to take are in the queue.                                               *)
EaterThreads == (Cooks + 1)..(Cooks + Eaters)
Pending == {e \in EaterThreads \X (2..(GetSize + 1)) : at[e[1]] >= 2 /\ e[2] >= at[e[1]]}
QueueInv ==
    /\ \A t \in EaterThreads : at[t] \in 1..(GetSize + 2)
    /\ size \in Nat
    /\ Cardinality(Pending) <= size

PyInv ==
    /\ PyBase
    /\ IF program \in MoneyPrograms THEN MoneyInv ELSE money = 0
    /\ program = "deadlock" => EmbraceInv
    /\ program = "deadlock_timeout" => TimeoutInv
    /\ program = "synchronize" => BallInv
    /\ program = "producer_consumer" => QueueInv

-----------------------------------------------------------------------------
(* The functions of the threads, step by step.                             *)

LEMMA Halves ==
    ASSUME NEW k \in Nat, NEW n \in Nat
    PROVE  /\ k \div 2 \in Nat /\ (k + 1) \div 4 \in Nat
           /\ k % 2 = 0 \/ k % 2 = 1
           /\ k % 4 = 0 \/ k % 4 = 1 \/ k % 4 = 2 \/ k % 4 = 3
           /\ k % 2 = 0 => (k + 1) \div 2 = k \div 2 /\ (k + 1) % 2 = 1
           /\ k % 2 = 1 => (k + 1) \div 2 = k \div 2 + 1 /\ (k + 1) % 2 = 0
           /\ k % 4 = 0 => (k + 2) \div 4 = (k + 1) \div 4 /\ (k + 1) % 4 = 1
           /\ k % 4 = 1 => (k + 2) \div 4 = (k + 1) \div 4 /\ (k + 1) % 4 = 2
           /\ k % 4 = 2 => (k + 2) \div 4 = (k + 1) \div 4 + 1 /\ (k + 1) % 4 = 3
           /\ k % 4 = 3 => (k + 2) \div 4 = (k + 1) \div 4 /\ (k + 1) % 4 = 0
           /\ (k = 2 * n => k \div 2 = n /\ k % 2 = 0)
           /\ (k = 2 * n + 3 => k \div 2 = n + 1)
           /\ (k = 4 * n => (k + 1) \div 4 = n /\ k % 4 = 0)
<1>1. k % 2 = 0 \/ k % 2 = 1
  OBVIOUS
<1>2. k % 4 = 0 \/ k % 4 = 1 \/ k % 4 = 2 \/ k % 4 = 3
  OBVIOUS
<1>3. k \div 2 \in Nat
  <2>1. k \div 2 >= 0 /\ k \div 2 \in Int
    OBVIOUS
  <2> QED
    BY <2>1
<1>4. (k + 1) \div 4 \in Nat
  <2>1. (k + 1) \div 4 >= 0 /\ (k + 1) \div 4 \in Int
    OBVIOUS
  <2> QED
    BY <2>1
<1>5. k % 2 = 0 => (k + 1) \div 2 = k \div 2 /\ (k + 1) % 2 = 1
  OBVIOUS
<1>6. k % 2 = 1 => (k + 1) \div 2 = k \div 2 + 1 /\ (k + 1) % 2 = 0
  OBVIOUS
<1>7. k % 4 = 0 => (k + 2) \div 4 = (k + 1) \div 4 /\ (k + 1) % 4 = 1
  OBVIOUS
<1>8. k % 4 = 1 => (k + 2) \div 4 = (k + 1) \div 4 /\ (k + 1) % 4 = 2
  OBVIOUS
<1>9. k % 4 = 2 => (k + 2) \div 4 = (k + 1) \div 4 + 1 /\ (k + 1) % 4 = 3
  OBVIOUS
<1>10. k % 4 = 3 => (k + 2) \div 4 = (k + 1) \div 4 /\ (k + 1) % 4 = 0
  OBVIOUS
<1>11. k = 2 * n => k \div 2 = n /\ k % 2 = 0
  OBVIOUS
<1>12. k = 2 * n + 3 => k \div 2 = n + 1
  OBVIOUS
<1>13. k = 4 * n => (k + 1) \div 4 = n /\ k % 4 = 0
  OBVIOUS
<1> QED
  BY <1>1, <1>2, <1>3, <1>4, <1>5, <1>6, <1>7, <1>8, <1>9, <1>10, <1>11, <1>12, <1>13

(* What one step of a program on money does to the table.                  *)
Moves(p, n, k) ==
    /\ Did(p, k) \in Nat /\ Did(p, k + 1) \in Nat
    /\ Did(p, k + 1) = Did(p, k) + IF OpAt(p, n, k) = "store" THEN 1 ELSE 0
    /\ OpAt(p, n, k) # "load" => k + 1 = StepsOf(p, n) \/ OpAt(p, n, k + 1) # "store"
    /\ OpAt(p, n, k) \in CASE p = "global_alter" -> {"load", "store"}
                           [] p = "lock_my" -> {"test", "set", "clear", "load", "store"}
                           [] p = "lock_mutex" -> {"acquire", "release", "load", "store"}
    /\ p # "global_alter" =>
          /\ OpAt(p, n, k) \in {"load", "store"} => InLock(p, n, k) /\ InLock(p, n, k + 1)
          /\ OpAt(p, n, k) \in {"acquire", "set"} => ~InLock(p, n, k) /\ InLock(p, n, k + 1)
          /\ OpAt(p, n, k) \in {"release", "clear"} => InLock(p, n, k) /\ ~InLock(p, n, k + 1)
          /\ OpAt(p, n, k) = "test" => ~InLock(p, n, k) /\ ~InLock(p, n, k + 1)

LEMMA TableMoves ==
    ASSUME NEW p \in MoneyPrograms, NEW n \in Nat, NEW k \in Nat, k < StepsOf(p, n)
    PROVE  Moves(p, n, k)
<1>1. CASE p = "global_alter"
  BY <1>1, Halves DEF Moves, Did, OpAt, InLock, StepsOf
<1>2. CASE p = "lock_my"
  <2>1. /\ StepsOf(p, n) = 2 * n + 3
        /\ Did(p, k) = IF k < 2 THEN 0 ELSE (k \div 2) - 1
        /\ Did(p, k + 1) = IF k + 1 < 2 THEN 0 ELSE ((k + 1) \div 2) - 1
        /\ InLock(p, n, k) <=> 2 <= k /\ k <= 2 * n + 2
        /\ InLock(p, n, k + 1) <=> 2 <= k + 1 /\ k + 1 <= 2 * n + 2
        /\ OpAt(p, n, k) = IF k = 0 THEN "test"
                          ELSE IF k = 1 THEN "set"
                          ELSE IF k = 2 * n + 2 THEN "clear"
                          ELSE IF k % 2 = 0 THEN "load" ELSE "store"
        /\ OpAt(p, n, k + 1) = IF k + 1 = 0 THEN "test"
                          ELSE IF k + 1 = 1 THEN "set"
                          ELSE IF k + 1 = 2 * n + 2 THEN "clear"
                          ELSE IF (k + 1) % 2 = 0 THEN "load" ELSE "store"
    BY <1>2 DEF StepsOf, Did, InLock, OpAt
  <2>2. k < 2 * n + 3
    BY <2>1
  <2>3. CASE k = 0
    BY <1>2, <2>1, <2>2, <2>3 DEF Moves
  <2>4. CASE k = 1
    <3>1. (1 + 1) \div 2 = 1 /\ (1 + 1) % 2 = 0
      OBVIOUS
    <3>2. Did(p, 1) = 0 /\ Did(p, 1 + 1) = 0
      BY <2>1, <2>4, <3>1
    <3>3. /\ OpAt(p, n, 1) = "set"
          /\ ~InLock(p, n, 1) /\ InLock(p, n, 1 + 1)
          /\ OpAt(p, n, 1 + 1) # "store"
      BY <2>1, <2>4, <3>1
    <3>4. Moves(p, n, 1)
      BY <1>2, <3>2, <3>3 DEF Moves
    <3> QED
      BY <2>4, <3>4
  <2>5. CASE k >= 2 /\ k = 2 * n + 2
    BY <1>2, <2>1, <2>2, <2>5 DEF Moves
  <2>6. CASE k >= 2 /\ k # 2 * n + 2
    <3>1. k >= 2 /\ k + 1 <= 2 * n + 2
      BY <2>2, <2>6
    <3>2. CASE k % 2 = 0
      BY <1>2, <2>1, <2>2, <2>6, <3>1, <3>2 DEF Moves
    <3>3. CASE k % 2 = 1
      BY <1>2, <2>1, <2>2, <2>6, <3>1, <3>3 DEF Moves
    <3> QED
      BY <3>2, <3>3, Halves
  <2> QED
    BY <2>3, <2>4, <2>5, <2>6
<1>3. CASE p = "lock_mutex"
  <2>1. /\ k + 1 + 1 = k + 2 /\ k + 1 \in Nat
        /\ StepsOf(p, n) = 4 * n
        /\ Did(p, k) = (k + 1) \div 4 /\ Did(p, k + 1) = (k + 1 + 1) \div 4
    BY <1>3 DEF Did, StepsOf
  <2> QED
    BY <1>3, <2>1, Halves DEF Moves, OpAt, InLock
<1> QED
  BY <1>1, <1>2, <1>3 DEF MoneyPrograms

(* Where a thread starts and ends.                                         *)
LEMMA TableEnds ==
    ASSUME NEW p \in MoneyPrograms, NEW n \in Nat
    PROVE  /\ StepsOf(p, n) \in Nat
           /\ Did(p, 0) = 0 /\ Did(p, StepsOf(p, n)) = n
           /\ ~InLock(p, n, 0) /\ ~InLock(p, n, StepsOf(p, n))
           /\ StepsOf(p, n) > 0 => OpAt(p, n, 0) # "store"
<1>0. 0 \div 2 = 0 /\ (0 + 1) \div 4 = 0 /\ 0 % 2 = 0 /\ 0 % 4 = 0
  OBVIOUS
<1>1. CASE p = "global_alter"
  BY <1>0, <1>1, Halves DEF Did, OpAt, InLock, StepsOf
<1>2. CASE p = "lock_my"
  BY <1>0, <1>2, Halves DEF Did, OpAt, InLock, StepsOf
<1>3. CASE p = "lock_mutex"
  BY <1>0, <1>3, Halves DEF Did, OpAt, InLock, StepsOf
<1> QED
  BY <1>1, <1>2, <1>3 DEF MoneyPrograms

LEMMA DidBound ==
    ASSUME NEW p \in MoneyPrograms, NEW n \in Nat, NEW k \in 0..StepsOf(p, n)
    PROVE  Did(p, k) \in Nat /\ Did(p, k) <= n
<1>0. k \in Nat /\ k \div 2 \in Nat /\ (k + 1) \div 4 \in Nat
  BY TableEnds, Halves
<1>1. CASE p = "global_alter"
  <2>1. k <= 2 * n
    BY <1>1 DEF StepsOf
  <2>2. k \div 2 <= n
    BY <1>0, <2>1
  <2> QED
    BY <1>0, <1>1, <2>2 DEF Did
<1>2. CASE p = "lock_my"
  <2>1. k <= 2 * n + 3
    BY <1>2 DEF StepsOf
  <2>2. k \div 2 <= n + 1 /\ (k >= 2 => k \div 2 >= 1)
    BY <1>0, <2>1
  <2> QED
    BY <1>0, <1>2, <2>2 DEF Did
<1>3. CASE p = "lock_mutex"
  <2>1. k <= 4 * n
    BY <1>3 DEF StepsOf
  <2>2. (k + 1) \div 4 <= n
    BY <1>0, <2>1
  <2> QED
    BY <1>0, <1>3, <2>2 DEF Did
<1> QED
  BY <1>1, <1>2, <1>3 DEF MoneyPrograms

LEMMA Repeated ==
    ASSUME NEW n \in Nat, NEW s
    PROVE  /\ Len(s) = 1 => Py!Repeat(n, s) = [k \in 1..n |-> s[1]]
           /\ Len(s) = 2 =>
                Py!Repeat(n, s) = [k \in 1..(2 * n) |-> IF (k - 1) % 2 = 0 THEN s[1] ELSE s[2]]
           /\ Len(s) = 4 =>
                Py!Repeat(n, s)
                    = [k \in 1..(4 * n) |-> IF (k - 1) % 4 = 0 THEN s[1]
                                            ELSE IF (k - 1) % 4 = 1 THEN s[2]
                                            ELSE IF (k - 1) % 4 = 2 THEN s[3] ELSE s[4]]
<1>0. /\ Py!Repeat(n, s) = [k \in 1..(n * Len(s)) |-> s[((k - 1) % Len(s)) + 1]]
      /\ n * 1 = n /\ n * 2 = 2 * n /\ n * 4 = 4 * n
  BY DEF Py!Repeat
<1>1. ASSUME Len(s) = 1
      PROVE  Py!Repeat(n, s) = [k \in 1..n |-> s[1]]
  <2>1. \A k \in 1..n : ((k - 1) % 1) + 1 = 1
    OBVIOUS
  <2>2. \A k \in 1..n : s[((k - 1) % 1) + 1] = s[1]
    BY <2>1
  <2> QED
    BY <1>0, <1>1, <2>2
<1>2. ASSUME Len(s) = 2
      PROVE  Py!Repeat(n, s) = [k \in 1..(2 * n) |-> IF (k - 1) % 2 = 0 THEN s[1] ELSE s[2]]
  <2>1. \A k \in 1..(2 * n) : (k - 1) % 2 = 0 \/ (k - 1) % 2 = 1
    OBVIOUS
  <2>2. \A k \in 1..(2 * n) : s[((k - 1) % 2) + 1] = IF (k - 1) % 2 = 0 THEN s[1] ELSE s[2]
    BY <2>1
  <2> QED
    BY <1>0, <1>2, <2>2
<1>3. ASSUME Len(s) = 4
      PROVE  Py!Repeat(n, s)
                = [k \in 1..(4 * n) |-> IF (k - 1) % 4 = 0 THEN s[1]
                                        ELSE IF (k - 1) % 4 = 1 THEN s[2]
                                        ELSE IF (k - 1) % 4 = 2 THEN s[3] ELSE s[4]]
  <2>1. \A k \in 1..(4 * n) : \/ (k - 1) % 4 = 0 \/ (k - 1) % 4 = 1
                              \/ (k - 1) % 4 = 2 \/ (k - 1) % 4 = 3
    OBVIOUS
  <2>2. \A k \in 1..(4 * n) : s[((k - 1) % 4) + 1]
            = IF (k - 1) % 4 = 0 THEN s[1] ELSE IF (k - 1) % 4 = 1 THEN s[2]
              ELSE IF (k - 1) % 4 = 2 THEN s[3] ELSE s[4]
    BY <2>1
  <2> QED
    BY <1>0, <1>3, <2>2
<1> QED
  BY <1>1, <1>2, <1>3

Joint(h, f, g) ==
    /\ h = f \o g /\ Len(h) = Len(f) + Len(g)
    /\ \A i \in 1..(Len(f) + Len(g)) : h[i] = IF i <= Len(f) THEN f[i] ELSE g[i - Len(f)]

LEMMA Joins ==
    ASSUME NEW T, NEW f \in Seq(T), NEW g \in Seq(T)
    PROVE  \E h \in Seq(T) : Joint(h, f, g)
<1>1. /\ f \o g \in Seq(T) /\ Len(f \o g) = Len(f) + Len(g)
      /\ \A i \in 1..(Len(f) + Len(g)) : (f \o g)[i] = IF i <= Len(f) THEN f[i] ELSE g[i - Len(f)]
  BY ConcatProperties
<1> QED
  BY <1>1 DEF Joint

FourOf(s, b, m, e) == Len(s) = 4 /\ s[1] = b[1] /\ s[2] = m[1] /\ s[3] = m[2] /\ s[4] = e[1]

LEMMA FourSteps ==
    ASSUME NEW T, NEW b \in Seq(T), NEW m \in Seq(T), NEW e \in Seq(T),
           Len(b) = 1, Len(m) = 2, Len(e) = 1
    PROVE  FourOf((b \o m) \o e, b, m, e)
<1>1. PICK u \in Seq(T) : Joint(u, b, m)
  BY Joins
<1>2. u[1] = b[1] /\ u[2] = m[1] /\ u[3] = m[2] /\ Len(u) = 3
  BY <1>1 DEF Joint
<1>3. PICK h \in Seq(T) : Joint(h, u, e)
  BY Joins
<1>4. h[1] = u[1] /\ h[2] = u[2] /\ h[3] = u[3] /\ h[4] = e[1] /\ Len(h) = 4
  BY <1>2, <1>3 DEF Joint
<1>5. (b \o m) \o e = h
  BY <1>1, <1>3 DEF Joint
<1> QED
  BY <1>2, <1>4, <1>5 DEF FourOf

(* Every function of a program on money, from its table.                   *)
LEMMA MoneyCode ==
    ASSUME NEW p \in MoneyPrograms, NEW t \in {1, 2}, Py!PyConstants
    PROVE  /\ Additions(t) \in Nat
           /\ Len(CodeOf(p, t)) = StepsOf(p, Additions(t))
           /\ \A k \in 0..(StepsOf(p, Additions(t)) - 1) :
                 /\ CodeOf(p, t)[k + 1][1] = OpAt(p, Additions(t), k)
                 /\ p = "lock_mutex" /\ OpAt(p, Additions(t), k) \in {"acquire", "release"}
                       => CodeOf(p, t)[k + 1][2] = "mutex"
<1> DEFINE n == Additions(t)
<1>0. n \in Nat /\ <<Typing, Watering>>[t] = n
  BY DEF Additions, Py!PyConstants
<1>1. Py!Repeat(n, Py!Increase)
         = [k \in 1..(2 * n) |-> IF (k - 1) % 2 = 0 THEN <<"load", "money">> ELSE <<"store", "money">>]
  <2>1. /\ Len(Py!Increase) = 2
        /\ Py!Increase[1] = <<"load", "money">> /\ Py!Increase[2] = <<"store", "money">>
    BY DEF Py!Increase
  <2>2. Py!Repeat(n, Py!Increase)
           = [k \in 1..(2 * n) |-> IF (k - 1) % 2 = 0 THEN Py!Increase[1] ELSE Py!Increase[2]]
    BY <1>0, <2>1, Repeated
  <2> QED
    BY <2>1, <2>2
<1>a. \A k \in 0..(2 * n - 1) : k + 1 \in 1..(2 * n) /\ k + 1 - 1 = k
  BY <1>0
<1>b. 2 * n \in Nat
  BY <1>0
<1>2. CASE p = "global_alter"
  <2>1. CodeOf(p, t) = Py!Repeat(n, Py!Increase)
    BY <1>0, <1>2 DEF CodeOf, Py!Code, Py!global_alter
  <2>2. StepsOf(p, n) = 2 * n
    BY <1>2 DEF StepsOf
  <2>3. \A k \in Nat : OpAt(p, n, k) = IF k % 2 = 0 THEN "load" ELSE "store"
    BY <1>2 DEF OpAt
  <2> HIDE DEF n
  <2>4. Len(CodeOf(p, t)) = 2 * n
    BY <1>0, <1>1, <1>b, <2>1
  <2>5. \A k \in 0..(2 * n - 1) : CodeOf(p, t)[k + 1]
              = IF k % 2 = 0 THEN <<"load", "money">> ELSE <<"store", "money">>
    BY <1>1, <1>a, <2>1
  <2>6. \A k \in 0..(2 * n - 1) : CodeOf(p, t)[k + 1][1] = OpAt(p, n, k)
    BY <1>0, <2>3, <2>5
  <2> QED
    BY <1>0, <1>2, <2>2, <2>4, <2>6 DEF n
<1>3. CASE p = "lock_my"
  <2>1. CodeOf(p, t) = Py!lock_my(n)
    BY <1>0, <1>3 DEF CodeOf, Py!Code
  <2>2. StepsOf(p, n) = 2 * n + 3
    BY <1>3 DEF StepsOf
  <2>3. \A k \in Nat : OpAt(p, n, k) = IF k = 0 THEN "test"
                          ELSE IF k = 1 THEN "set"
                          ELSE IF k = 2 * n + 2 THEN "clear"
                          ELSE IF k % 2 = 0 THEN "load" ELSE "store"
    BY <1>3 DEF OpAt
  <2> DEFINE r == Py!Repeat(n, Py!Increase)
             a == <<<<"test", "money_lock">>, <<"set", "money_lock">>>>
             z == <<<<"clear", "money_lock">>>>
  <2>4. CodeOf(p, t) = (a \o r) \o z
    BY <2>1 DEF Py!lock_my
  <2> HIDE DEF n, r
  <2>5. r \in Seq({<<"load", "money">>, <<"store", "money">>}) /\ Len(r) = 2 * n
    BY <1>1, <1>b DEF r
  <2>6. \A k \in 2..(2 * n + 1) : r[k + 1 - 2]
              = IF k % 2 = 0 THEN <<"load", "money">> ELSE <<"store", "money">>
    <3> TAKE k \in 2..(2 * n + 1)
    <3>1. k + 1 - 2 \in 1..(2 * n) /\ k + 1 - 2 - 1 = k - 2 /\ k \in Nat
      BY <1>b
    <3>2. (k - 2) % 2 = k % 2
      BY <3>1
    <3> QED
      BY <1>1, <3>1, <3>2 DEF r
  <2>7. /\ Len(CodeOf(p, t)) = 2 * n + 3
        /\ CodeOf(p, t)[1] = <<"test", "money_lock">>
        /\ CodeOf(p, t)[2] = <<"set", "money_lock">>
        /\ CodeOf(p, t)[2 * n + 3] = <<"clear", "money_lock">>
        /\ \A i \in 3..(2 * n + 2) : CodeOf(p, t)[i] = r[i - 2]
    BY <1>b, <2>4, <2>5
  <2>8. ASSUME NEW k \in 0..(2 * n + 2)
        PROVE  CodeOf(p, t)[k + 1][1] = OpAt(p, n, k)
    <3>1. CASE k = 0
      BY <2>3, <2>7, <3>1
    <3>2. CASE k = 1
      BY <2>3, <2>7, <3>2
    <3>3. CASE k = 2 * n + 2
      <4>1. k + 1 = 2 * n + 3 /\ k # 0 /\ k # 1 /\ k \in Nat
        BY <1>b, <3>3
      <4> QED
        BY <2>3, <2>7, <3>3, <4>1
    <3>4. CASE k \in 2..(2 * n + 1)
      <4>1. k + 1 \in 3..(2 * n + 2) /\ k # 0 /\ k # 1 /\ k # 2 * n + 2 /\ k \in Nat
        BY <1>b, <3>4
      <4> QED
        BY <2>3, <2>6, <2>7, <3>4, <4>1
    <3> QED
      BY <1>b, <3>1, <3>2, <3>3, <3>4
  <2>9. 0..(2 * n + 3 - 1) = 0..(2 * n + 2)
    BY <1>b
  <2> QED
    BY <1>0, <1>3, <2>2, <2>7, <2>8, <2>9 DEF n
<1>4. CASE p = "lock_mutex"
  <2> DEFINE s == <<<<"acquire", "mutex">>>> \o Py!Increase \o <<<<"release", "mutex">>>>
  <2>1. /\ Len(s) = 4
        /\ s[1] = <<"acquire", "mutex">> /\ s[2] = <<"load", "money">>
        /\ s[3] = <<"store", "money">> /\ s[4] = <<"release", "mutex">>
    <3> DEFINE b == <<<<"acquire", "mutex">>>>
               e == <<<<"release", "mutex">>>>
               T == {<<"load", "money">>, <<"store", "money">>, b[1], e[1]}
    <3>1. /\ Len(Py!Increase) = 2
          /\ Py!Increase[1] = <<"load", "money">> /\ Py!Increase[2] = <<"store", "money">>
      BY DEF Py!Increase
    <3>2. Py!Increase \in Seq(T)
      BY DEF Py!Increase
    <3>3. b \in Seq(T) /\ e \in Seq(T) /\ Len(b) = 1 /\ Len(e) = 1
      OBVIOUS
    <3>4. b[1] = <<"acquire", "mutex">> /\ e[1] = <<"release", "mutex">> /\ s = b \o Py!Increase \o e
      OBVIOUS
    <3> HIDE DEF b, e, s, T
    <3>5. PICK m \in Seq(T) : m = Py!Increase
      BY <3>2
    <3>6. s = (b \o m) \o e /\ Len(m) = 2
      BY <3>1, <3>4, <3>5
    <3>7. FourOf((b \o m) \o e, b, m, e)
      BY <3>3, <3>6, FourSteps
    <3> QED
      BY <3>1, <3>4, <3>5, <3>6, <3>7 DEF FourOf
  <2>2. CodeOf(p, t) = Py!lock_mutex(n)
    BY <1>0, <1>4 DEF CodeOf, Py!Code
  <2>3. CodeOf(p, t) = [k \in 1..(4 * n) |-> IF (k - 1) % 4 = 0 THEN <<"acquire", "mutex">>
                                        ELSE IF (k - 1) % 4 = 1 THEN <<"load", "money">>
                                        ELSE IF (k - 1) % 4 = 2 THEN <<"store", "money">>
                                        ELSE <<"release", "mutex">>]
    <3>1. Py!lock_mutex(n) = Py!Repeat(n, s)
      BY DEF Py!lock_mutex
    <3> HIDE DEF s
    <3>2. Py!Repeat(n, s)
                    = [k \in 1..(4 * n) |-> IF (k - 1) % 4 = 0 THEN s[1]
                                            ELSE IF (k - 1) % 4 = 1 THEN s[2]
                                            ELSE IF (k - 1) % 4 = 2 THEN s[3] ELSE s[4]]
      BY <1>0, <2>1, Repeated
    <3> QED
      BY <2>1, <2>2, <3>1, <3>2
  <2>4. StepsOf(p, n) = 4 * n
    BY <1>4 DEF StepsOf
  <2>5. \A k \in Nat : OpAt(p, n, k) = IF k % 4 = 0 THEN "acquire"
                             ELSE IF k % 4 = 1 THEN "load"
                             ELSE IF k % 4 = 2 THEN "store" ELSE "release"
    BY <1>4 DEF OpAt
  <2> HIDE DEF n
  <2>6. \A k \in 0..(4 * n - 1) : k + 1 \in 1..(4 * n) /\ k + 1 - 1 = k /\ k \in Nat
    BY <1>0
  <2>7. 4 * n \in Nat
    BY <1>0
  <2>8. Len(CodeOf(p, t)) = 4 * n
    BY <2>3, <2>7
  <2>9. \A k \in 0..(4 * n - 1) : CodeOf(p, t)[k + 1] =
                                        IF k % 4 = 0 THEN <<"acquire", "mutex">>
                                        ELSE IF k % 4 = 1 THEN <<"load", "money">>
                                        ELSE IF k % 4 = 2 THEN <<"store", "money">>
                                        ELSE <<"release", "mutex">>
    BY <2>3, <2>6
  <2> QED
    BY <1>0, <2>4, <2>5, <2>6, <2>8, <2>9 DEF n
<1> QED
  BY <1>2, <1>3, <1>4 DEF MoneyPrograms

(* The step that thread t of program p comes to at place i.                *)
StepAt(p, t, i) == IF i > Len(CodeOf(p, t)) THEN <<"end", "end">> ELSE CodeOf(p, t)[i]

LEMMA StepIs ==
    ASSUME PyBase, NEW t \in Py!Threads
    PROVE  /\ Py!Ended(t) <=> at[t] > Len(CodeOf(program, t))
           /\ Py!Step(t) = StepAt(program, t, at[t])
           /\ at[t] \in Nat \ {0}
BY DEF PyBase, Py!Ended, Py!Step, StepAt

LEMMA NextStepIs ==
    ASSUME PyBase, program' = program, code' = code, NEW t \in Py!Threads
    PROVE  Py!Step(t)' = StepAt(program, t, at'[t])
BY DEF PyBase, Py!Ended, Py!Step, StepAt

(* What a step of a thread does, by its operation.                         *)
GoesOn(t) == at' = [at EXCEPT ![t] = at[t] + 1]
Takes(t) ==
    /\ owner[Py!Step(t)[2]] = NoOwner /\ owner' = [owner EXCEPT ![Py!Step(t)[2]] = t]
    /\ GoesOn(t)
GivesUp(t) == at' = [at EXCEPT ![t] = Len(CodeOf(program, t)) + 1] /\ owner' = owner
Acts(t, op) ==
    /\ program' = program /\ code' = code
    /\ op = "acquire" => Takes(t)
    /\ op = "timed" => Takes(t) \/ GivesUp(t)
    /\ op = "release" => owner' = [owner EXCEPT ![Py!Step(t)[2]] = NoOwner] /\ GoesOn(t)
    /\ op \notin {"acquire", "timed", "release"} => owner' = owner
    /\ op = "load" => read' = [read EXCEPT ![t] = money] /\ GoesOn(t)
    /\ op # "load" => read' = read
    /\ op = "store" => money' = read[t] + 1 /\ GoesOn(t)
    /\ op # "store" => money' = money
    /\ op = "test" => GoesOn(t)
    /\ op = "set" => raced' = (raced \/ money_lock) /\ money_lock' = TRUE /\ GoesOn(t)
    /\ op = "clear" => money_lock' = FALSE /\ GoesOn(t)
    /\ op \notin {"set", "clear"} => money_lock' = money_lock
    /\ op # "set" => raced' = raced
    /\ op = "below" => GoesOn(t)
    /\ op = "above" => GoesOn(t) /\ size > Low
    /\ op = "put" => size' = size + 1 /\ GoesOn(t)
    /\ op = "get" => size > 0 /\ size' = size - 1 /\ GoesOn(t)
    /\ op \notin {"put", "get"} => size' = size
    /\ op = "again" => at' = [at EXCEPT ![t] = 1]
    /\ op # "end"
    /\ op \in {"acquire", "timed", "release", "load", "store", "test", "set", "clear",
               "below", "above", "put", "get", "again"}

LEMMA ThreadActs ==
    ASSUME PyBase, NEW t \in Py!Threads, Py!Thread(t)
    PROVE  Acts(t, Py!Step(t)[1])
<1>0. code[t] = CodeOf(program, t)
  BY DEF PyBase
<1>1. PICK op : op = Py!Step(t)[1]
  OBVIOUS
<1>2. CASE Py!Acquire(t)
  BY <1>1, <1>2 DEF Py!Acquire, Py!Does, Acts, Takes, GoesOn
<1>3. CASE Py!TimeOut(t)
  BY <1>0, <1>1, <1>3 DEF Py!TimeOut, Acts, GivesUp
<1>4. CASE Py!Release(t)
  BY <1>1, <1>4 DEF Py!Release, Py!Does, Acts, GoesOn
<1>5. CASE Py!LoadMoney(t)
  BY <1>1, <1>5 DEF Py!LoadMoney, Py!Does, Acts, GoesOn
<1>6. CASE Py!StoreMoney(t)
  BY <1>1, <1>6 DEF Py!StoreMoney, Py!Does, Acts, GoesOn
<1>7. CASE Py!TestFlag(t)
  BY <1>1, <1>7 DEF Py!TestFlag, Py!Does, Acts, GoesOn
<1>8. CASE Py!SetFlag(t)
  BY <1>1, <1>8 DEF Py!SetFlag, Py!Does, Acts, GoesOn
<1>9. CASE Py!ClearFlag(t)
  BY <1>1, <1>9 DEF Py!ClearFlag, Py!Does, Acts, GoesOn
<1>10. CASE Py!CheckQueue(t)
  BY <1>1, <1>10 DEF Py!CheckQueue, Py!Does, Py!Enough, Acts, GoesOn
<1>11. CASE Py!UseQueue(t)
  BY <1>1, <1>11 DEF Py!UseQueue, Py!Does, Acts, GoesOn
<1>12. CASE Py!Again(t)
  BY <1>1, <1>12 DEF Py!Again, Acts
<1> QED
  BY <1>2, <1>3, <1>4, <1>5, <1>6, <1>7, <1>8, <1>9, <1>10, <1>11, <1>12 DEF Py!Thread

-----------------------------------------------------------------------------
(* The programs on money.                                                  *)

LEMMA TwoThreads == ASSUME Py!PyConstants PROVE 1..3 \subseteq Py!Threads
BY DEF Py!PyConstants, Py!Threads

LEMMA MoneyStepAt ==
    ASSUME Py!PyConstants, NEW p \in MoneyPrograms, NEW t \in {1, 2}, NEW i \in Nat \ {0}
    PROVE  /\ i - 1 < StepsOf(p, Additions(t)) =>
                 /\ StepAt(p, t, i)[1] = OpAt(p, Additions(t), i - 1)
                 /\ p = "lock_mutex" /\ OpAt(p, Additions(t), i - 1) \in {"acquire", "release"}
                       => StepAt(p, t, i)[2] = "mutex"
           /\ ~(i - 1 < StepsOf(p, Additions(t))) => StepAt(p, t, i)[1] = "end"
           /\ i - 1 < StepsOf(p, Additions(t)) <=> ~(i > Len(CodeOf(p, t)))
<1>1. PICK n \in Nat, m \in Nat : n = Additions(t) /\ m = StepsOf(p, n)
  BY MoneyCode, TableEnds
<1>2. Len(CodeOf(p, t)) = m
  BY <1>1, MoneyCode
<1>3. CASE i - 1 < m
  <2>1. ~(i > m) /\ i - 1 \in 0..(m - 1) /\ (i - 1) + 1 = i
    BY <1>3
  <2>2. StepAt(p, t, i) = CodeOf(p, t)[(i - 1) + 1]
    BY <1>2, <2>1 DEF StepAt
  <2> QED
    BY <1>1, <1>2, <2>1, <2>2, MoneyCode
<1>4. CASE ~(i - 1 < m)
  <2>1. i > m
    BY <1>4
  <2> QED
    BY <1>1, <1>2, <1>4, <2>1 DEF StepAt
<1> QED
  BY <1>1, <1>3, <1>4

LEMMA NoOtherThread ==
    ASSUME Py!PyConstants, NEW p \in MoneyPrograms \cup {"deadlock", "deadlock_timeout"},
           NEW t \in Py!Threads \ {1, 2}, NEW i \in Nat \ {0}
    PROVE  StepAt(p, t, i)[1] = "end" /\ CodeOf(p, t) = <<>>
<1>1. Len(Py!Code(p)) = 2
  BY DEF Py!Code, MoneyPrograms
<1>2. ~(t <= 2)
  BY DEF Py!Threads, Py!PyConstants
<1>3. CodeOf(p, t) = <<>>
  BY <1>1, <1>2 DEF CodeOf
<1>4. i > Len(CodeOf(p, t))
  BY <1>3
<1> QED
  BY <1>3, <1>4 DEF StepAt

LEMMA MoneyStep ==
    ASSUME Py!PyConstants, PyBase, program \in MoneyPrograms, MoneyInv,
           NEW t \in Py!Threads, Py!Thread(t)
    PROVE  MoneyInv'
<1>1. /\ Acts(t, Py!Step(t)[1]) /\ Py!Step(t) = StepAt(program, t, at[t]) /\ at[t] \in Nat \ {0}
      /\ program' = program /\ code' = code
  BY ThreadActs, StepIs DEF Acts
<1>2. t \in {1, 2}
  BY <1>1, NoOtherThread DEF Acts
<1>3. PICK u \in {1, 2} : u # t /\ {1, 2} = {t, u}
  BY <1>2
<1>4. u \in Py!Threads /\ at[u] \in Nat \ {0} /\ Py!Step(u) = StepAt(program, u, at[u])
  BY TwoThreads, StepIs
<1>5. PICK n \in Nat, m \in Nat, k \in Nat :
          n = Additions(t) /\ m = StepsOf(program, n) /\ k = at[t] - 1
  <2>1. Additions(t) \in Nat
    BY <1>2, MoneyCode
  <2>2. StepsOf(program, Additions(t)) \in Nat
    BY <2>1, TableEnds
  <2>3. at[t] - 1 \in Nat
    BY <1>1
  <2> QED
    BY <2>1, <2>2, <2>3
<1>op. PICK op : op = Py!Step(t)[1]
  OBVIOUS
<1>6. k < m /\ op = OpAt(program, n, k)
  BY <1>1, <1>2, <1>5, <1>op, MoneyStepAt DEF Acts
<1>7. Moves(program, n, k)
  BY <1>5, <1>op, <1>6, TableMoves
<1>8. GoesOn(t)
  BY <1>1, <1>5, <1>op, <1>6, <1>7 DEF Moves, Acts, Takes, MoneyPrograms
<1>9. at'[t] = at[t] + 1 /\ at'[t] - 1 = k + 1 /\ at'[u] = at[u] /\ at'[t] \in Nat \ {0} /\ k + 1 \in Nat
  BY <1>1, <1>2, <1>3, <1>4, <1>5, <1>op, <1>8 DEF GoesOn, PyBase
<1>10. /\ Done(t) = Did(program, k) /\ Done(t)' = Did(program, k + 1) /\ Done(u)' = Done(u)
       /\ WithLock(t) = InLock(program, n, k) /\ WithLock(t)' = InLock(program, n, k + 1)
       /\ WithLock(u)' = WithLock(u)
  BY <1>1, <1>5, <1>op, <1>9 DEF Done, WithLock
<1>11. /\ Py!Step(u)' = Py!Step(u)
       /\ Py!Step(t)' = StepAt(program, t, at[t] + 1)
  BY <1>1, <1>2, <1>4, <1>9, NextStepIs
<1>12. op # "load" => Py!Step(t)'[1] # "store"
  <2>1. CASE k + 1 = m
    BY <1>2, <1>5, <1>op, <1>9, <1>11, <2>1, MoneyStepAt
  <2>2. CASE k + 1 # m
    <3>1. k + 1 < m
      BY <1>6, <2>2
    <3> QED
      BY <1>2, <1>5, <1>op, <1>6, <1>7, <1>9, <1>11, <2>2, <3>1, MoneyStepAt DEF Moves
  <2> QED
    BY <2>1, <2>2
<1>13. PICK d \in Nat : d = Done(1) + Done(2)
  <2>1. Done(u) \in Nat
    BY <1>3, <1>4, MoneyCode, DidBound DEF Done, MoneyInv
  <2>2. Done(t) \in Nat
    BY <1>7, <1>10 DEF Moves
  <2> QED
    BY <1>3, <2>1, <2>2
<1>14. /\ Done(1)' + Done(2)' = IF op = "store" THEN d + 1 ELSE d
  <2>1. Done(u) \in Nat /\ Done(t) \in Nat
    BY <1>3, <1>4, <1>7, <1>10, MoneyCode, DidBound DEF Done, MoneyInv, Moves
  <2>2. Done(t)' = Done(t) + IF op = "store" THEN 1 ELSE 0
    BY <1>6, <1>7, <1>10 DEF Moves
  <2> QED
    BY <1>3, <1>10, <1>13, <2>1, <2>2
<1>15. PICK e \in Nat : e = Done(1)' + Done(2)' /\ e = IF op = "store" THEN d + 1 ELSE d
  BY <1>14
<1>16. money \in Nat /\ read[t] \in Nat /\ read[u] \in Nat /\ money <= d
  BY <1>4, <1>13 DEF PyBase, MoneyInv
<1>17. /\ Py!Step(t)[1] = "store" => read[t] <= d
       /\ Py!Step(u)[1] = "store" => read[u] <= d
  BY <1>2, <1>13 DEF MoneyInv
<1>18. /\ Exact' => Exact
       /\ Exact => /\ money = d /\ ~(WithLock(t) /\ WithLock(u))
                   /\ Py!Step(t)[1] = "store" => read[t] = d
                   /\ Py!Step(u)[1] = "store" => read[u] = d
  <2>1. Exact' => Exact
    BY <1>1 DEF Exact, Acts, PyBase
  <2> QED
    BY <1>2, <1>3, <1>13, <2>1 DEF MoneyInv
<1>19. /\ op = "load" => read'[t] = money /\ read'[u] = read[u]
       /\ op # "load" => read' = read
       /\ op = "store" => money' = read[t] + 1
       /\ op # "store" => money' = money
  BY <1>1, <1>3, <1>4, <1>5, <1>op DEF Acts, PyBase
<1>20. Exact /\ Py!Step(u)[1] = "store" => op # "store"
  <2>1. ASSUME Exact, Py!Step(u)[1] = "store", op = "store"
        PROVE  WithLock(t) /\ WithLock(u)
    <3>1. program # "global_alter"
      BY <2>1 DEF Exact
    <3>2. WithLock(t)
      BY <1>6, <1>7, <1>10, <2>1, <3>1 DEF Moves
    <3>3. PICK a \in Nat, b \in Nat, c \in Nat :
              a = Additions(u) /\ b = StepsOf(program, a) /\ c = at[u] - 1
      <4>1. Additions(u) \in Nat
        BY MoneyCode
      <4>2. StepsOf(program, Additions(u)) \in Nat
        BY <4>1, TableEnds
      <4>3. at[u] - 1 \in Nat
        BY <1>4
      <4> QED
        BY <4>1, <4>2, <4>3
    <3>4. c < b /\ OpAt(program, a, c) = "store"
      BY <1>4, <2>1, <3>3, MoneyStepAt
    <3>5. Moves(program, a, c)
      BY <3>3, <3>4, TableMoves
    <3>6. WithLock(u)
      BY <3>1, <3>3, <3>4, <3>5 DEF Moves, WithLock
    <3> QED
      BY <3>2, <3>6
  <2> QED
    BY <1>18, <2>1
<1>21. \A x \in {1, 2} : at'[x] - 1 \in 0..StepsOf(program', Additions(x))
  <2>1. at'[t] - 1 \in 0..StepsOf(program', Additions(t))
    BY <1>1, <1>5, <1>op, <1>6, <1>9
  <2>2. at'[u] - 1 \in 0..StepsOf(program', Additions(u))
    BY <1>1, <1>9 DEF MoneyInv
  <2> QED
    BY <1>3, <2>1, <2>2
<1>22. money' <= e
  BY <1>5, <1>op, <1>15, <1>16, <1>17, <1>19
<1>23. \A x \in {1, 2} : Py!Step(x)'[1] = "store" => read'[x] <= e
  <2>1. Py!Step(t)'[1] = "store" => read'[t] <= e
    BY <1>12, <1>15, <1>16, <1>19
  <2>2. Py!Step(u)'[1] = "store" => read'[u] <= e
    BY <1>11, <1>15, <1>16, <1>17, <1>19
  <2> QED
    BY <1>3, <2>1, <2>2
<1>24. ASSUME Exact'
       PROVE  money' = e /\ \A x \in {1, 2} : Py!Step(x)'[1] = "store" => read'[x] = e
  <2>0. Exact
    BY <1>18, <1>24
  <2>1. money' = e
    BY <1>5, <1>op, <1>15, <1>16, <1>18, <1>19, <2>0
  <2>2. Py!Step(t)'[1] = "store" => read'[t] = e
    BY <1>12, <1>15, <1>18, <1>19, <2>0
  <2>3. Py!Step(u)'[1] = "store" => read'[u] = e
    BY <1>11, <1>15, <1>18, <1>19, <1>20, <2>0
  <2> QED
    BY <1>3, <2>1, <2>2, <2>3
<1>25. program = "lock_mutex" =>
          /\ owner'["mutex"] \in {1, 2, NoOwner}
          /\ \A x \in {1, 2} : WithLock(x)' <=> owner'["mutex"] = x
          /\ ~(WithLock(1)' /\ WithLock(2)')
  <2> SUFFICES ASSUME program = "lock_mutex"
               PROVE  /\ owner'["mutex"] \in {1, 2, NoOwner}
                      /\ \A x \in {1, 2} : WithLock(x)' <=> owner'["mutex"] = x
    BY <1>3
  <2>1. /\ owner["mutex"] \in {1, 2, NoOwner} /\ NoOwner # 1 /\ NoOwner # 2
        /\ WithLock(t) <=> owner["mutex"] = t
        /\ WithLock(u) <=> owner["mutex"] = u
    BY <1>2 DEF MoneyInv, Py!PyConstants
  <2>2. op \in {"acquire", "release", "load", "store"}
    BY <1>6, <1>7 DEF Moves
  <2>3. op \in {"acquire", "release"} => Py!Step(t)[2] = "mutex"
    BY <1>1, <1>2, <1>5, <1>op, <1>6, MoneyStepAt
  <2>4. "mutex" \in Py!Locks
    BY DEF Py!Locks
  <2>5. /\ op = "acquire" => owner["mutex"] = NoOwner /\ owner'["mutex"] = t /\ WithLock(t)'
        /\ op = "release" => owner'["mutex"] = NoOwner /\ WithLock(t) /\ ~WithLock(t)'
        /\ op \in {"load", "store"} => owner' = owner /\ WithLock(t) /\ WithLock(t)'
    BY <1>1, <1>5, <1>op, <1>6, <1>7, <1>10, <2>3, <2>4 DEF Acts, Takes, Moves, PyBase
  <2>6. CASE op = "acquire"
    BY <1>2, <1>3, <1>10, <2>1, <2>5, <2>6
  <2>7. CASE op = "release"
    BY <1>2, <1>3, <1>10, <2>1, <2>5, <2>7
  <2>8. CASE op \in {"load", "store"}
    BY <1>2, <1>3, <1>10, <2>1, <2>5, <2>8
  <2> QED
    BY <2>2, <2>6, <2>7, <2>8
<1>26. program = "lock_my" /\ ~raced' =>
          (money_lock' <=> WithLock(1)' \/ WithLock(2)') /\ ~(WithLock(1)' /\ WithLock(2)')
  <2> SUFFICES ASSUME program = "lock_my", ~raced'
               PROVE  (money_lock' <=> WithLock(t)' \/ WithLock(u)') /\ ~(WithLock(t)' /\ WithLock(u)')
    BY <1>3
  <2>1. Exact /\ ~raced /\ (money_lock <=> WithLock(t) \/ WithLock(u)) /\ ~(WithLock(t) /\ WithLock(u))
    <3>1. Exact'
      BY <1>1 DEF Exact
    <3>2. Exact /\ ~raced
      BY <1>18, <3>1 DEF Exact
    <3> QED
      BY <1>3, <1>18, <3>2 DEF MoneyInv
  <2>2. op \in {"test", "set", "clear", "load", "store"}
    BY <1>6, <1>7 DEF Moves
  <2>3. /\ op = "set" => ~money_lock /\ money_lock' = TRUE /\ WithLock(t)'
        /\ op = "clear" => money_lock' = FALSE /\ WithLock(t) /\ ~WithLock(t)'
        /\ op \in {"load", "store"} => money_lock' = money_lock /\ WithLock(t) /\ WithLock(t)'
        /\ op = "test" => money_lock' = money_lock /\ ~WithLock(t) /\ ~WithLock(t)'
    BY <1>1, <1>5, <1>op, <1>6, <1>7, <1>10 DEF Acts, Moves, PyBase
  <2> QED
    BY <1>10, <2>1, <2>2, <2>3
<1>27. Exact' => ~(WithLock(1)' /\ WithLock(2)')
  BY <1>1, <1>25, <1>26 DEF Exact
<1> QED
  BY <1>1, <1>15, <1>21, <1>22, <1>23, <1>24, <1>25, <1>26, <1>27 DEF MoneyInv

LEMMA MoneyInit ==
    ASSUME Py!PyConstants, Py!Init, PyBase, program \in MoneyPrograms
    PROVE  MoneyInv
<1>1. ASSUME NEW t \in {1, 2}
      PROVE  /\ t \in Py!Threads /\ at[t] = 1 /\ Done(t) = 0 /\ ~WithLock(t)
             /\ at[t] - 1 \in 0..StepsOf(program, Additions(t))
             /\ Py!Step(t)[1] # "store"
  <2>1. t \in Py!Threads
    BY TwoThreads
  <2>2. at[t] = 1 /\ at[t] - 1 = 0
    BY <2>1 DEF Py!Init
  <2>3. PICK n \in Nat : n = Additions(t)
    BY MoneyCode
  <2>4. PICK m \in Nat : m = StepsOf(program, n)
    BY TableEnds
  <2>5. Done(t) = 0 /\ ~WithLock(t)
    BY <2>2, <2>3, TableEnds DEF Done, WithLock
  <2>6. Py!Step(t) = StepAt(program, t, 1)
    BY <2>1, <2>2, StepIs
  <2>7. Py!Step(t)[1] # "store"
    <3>1. 1 \in Nat \ {0} /\ 1 - 1 = 0
      OBVIOUS
    <3>2. CASE 0 < m
      <4>1. Py!Step(t)[1] = OpAt(program, n, 0)
        BY <2>3, <2>4, <2>6, <3>1, <3>2, MoneyStepAt
      <4> QED
        BY <2>4, <3>2, <4>1, TableEnds
    <3>3. CASE ~(0 < m)
      BY <2>3, <2>4, <2>6, <3>1, <3>3, MoneyStepAt
    <3> QED
      BY <3>2, <3>3
  <2> QED
    BY <2>1, <2>2, <2>3, <2>4, <2>5, <2>7
<1>2. /\ owner["mutex"] = NoOwner /\ NoOwner # 1 /\ NoOwner # 2 /\ money = 0 /\ money_lock = FALSE
  BY DEF Py!Init, Py!Locks, Py!PyConstants
<1>3. Done(1) = 0 /\ Done(2) = 0 /\ ~WithLock(1) /\ ~WithLock(2) /\ 0 + 0 = 0
  BY <1>1
<1> QED
  BY <1>1, <1>2, <1>3 DEF MoneyInv

(* When both have ended, all additions are done.                           *)
LEMMA MoneyKept ==
    ASSUME Py!PyConstants, PyBase, program \in MoneyPrograms, MoneyInv
    PROVE  UpdatesKept
<1>1. PICK a \in Nat, b \in Nat : a = Additions(1) /\ b = Additions(2)
  BY DEF Additions, Py!PyConstants
<1>2. a = <<Typing, Watering>>[1] /\ b = <<Typing, Watering>>[2]
  BY <1>1 DEF Additions
<1>3. PICK c \in Nat, d \in Nat : c = Done(1) /\ d = Done(2) /\ c <= a /\ d <= b
  <2>1. Done(1) \in Nat /\ Done(1) <= a
    BY <1>1, DidBound DEF MoneyInv, Done
  <2>2. Done(2) \in Nat /\ Done(2) <= b
    BY <1>1, DidBound DEF MoneyInv, Done
  <2> QED
    BY <2>1, <2>2
<1>4. money \in Nat /\ money <= c + d
  BY <1>3 DEF MoneyInv, PyBase
<1>5. ASSUME Py!AllEnded
      PROVE  c = a /\ d = b
  <2>1. ASSUME NEW t \in {1, 2}
        PROVE  Done(t) = Additions(t)
    <3>0. t \in Py!Threads
      BY TwoThreads
    <3>1. PICK i \in Nat \ {0} : i = at[t]
      BY <3>0, StepIs
    <3>2. PICK n \in Nat : n = Additions(t)
      BY MoneyCode
    <3>3. PICK m \in Nat : m = StepsOf(program, n)
      BY TableEnds
    <3>4. i > Len(CodeOf(program, t))
      BY <1>5, <3>0, <3>1, StepIs DEF Py!AllEnded
    <3>5. ~(i - 1 < m)
      BY <3>2, <3>3, <3>4, MoneyStepAt
    <3>6. i - 1 = m
      BY <3>1, <3>2, <3>3, <3>5 DEF MoneyInv
    <3> QED
      BY <3>1, <3>2, <3>3, <3>6, TableEnds DEF Done
  <2> QED
    BY <1>1, <1>3, <2>1
<1>6. Exact => money = c + d
  BY <1>3 DEF MoneyInv
<1>7. ~Exact => ~(program = "lock_my" \/ program = "lock_mutex") \/ (program = "lock_my" /\ raced)
  BY Zenon DEF Exact
<1>8. money <= a + b
  BY <1>3, <1>4
<1>9. Py!AllEnded /\ money < a + b => ~Exact
  BY <1>4, <1>5, <1>6
<1> QED
  BY <1>2, <1>7, <1>8, <1>9 DEF UpdatesKept, Py!UpdatesKept

-----------------------------------------------------------------------------
(* The other programs on locks.                                            *)

LEMMA EmbraceSteps ==
    ASSUME NEW p \in {"deadlock", "deadlock_timeout"}, NEW t \in {1, 2}
    PROVE  /\ Len(CodeOf(p, t)) = 4
           /\ StepAt(p, t, 1) = <<"acquire", Own(t)>>
           /\ StepAt(p, t, 2) = <<IF p = "deadlock" THEN "acquire" ELSE "timed", Own(Other(t))>>
           /\ StepAt(p, t, 3) = <<"release", Own(t)>>
           /\ StepAt(p, t, 4) = <<"release", Own(Other(t))>>
           /\ StepAt(p, t, 5) = <<"end", "end">>
<1>1. CASE p = "deadlock"
  <2>1. CodeOf(p, t) = <<<<"acquire", Own(t)>>, <<"acquire", Own(Other(t))>>,
                         <<"release", Own(t)>>, <<"release", Own(Other(t))>>>>
    BY <1>1 DEF CodeOf, Py!Code, Py!deadlock, Own, Other
  <2>2. /\ Len(CodeOf(p, t)) = 4 /\ CodeOf(p, t)[1] = <<"acquire", Own(t)>>
        /\ CodeOf(p, t)[2] = <<"acquire", Own(Other(t))>>
        /\ CodeOf(p, t)[3] = <<"release", Own(t)>>
        /\ CodeOf(p, t)[4] = <<"release", Own(Other(t))>>
    BY <2>1
  <2>3. 5 > 4 /\ ~(4 > 4) /\ ~(3 > 4) /\ ~(2 > 4) /\ ~(1 > 4)
    OBVIOUS
  <2> QED
    BY <1>1, <2>2, <2>3 DEF StepAt
<1>2. CASE p = "deadlock_timeout"
  <2>1. CodeOf(p, t) = <<<<"acquire", Own(t)>>, <<"timed", Own(Other(t))>>,
                         <<"release", Own(t)>>, <<"release", Own(Other(t))>>>>
    BY <1>2 DEF CodeOf, Py!Code, Py!deadlock_timeout, Own, Other
  <2>2. /\ Len(CodeOf(p, t)) = 4 /\ CodeOf(p, t)[1] = <<"acquire", Own(t)>>
        /\ CodeOf(p, t)[2] = <<"timed", Own(Other(t))>>
        /\ CodeOf(p, t)[3] = <<"release", Own(t)>>
        /\ CodeOf(p, t)[4] = <<"release", Own(Other(t))>>
    BY <2>1
  <2>3. 5 > 4 /\ ~(4 > 4) /\ ~(3 > 4) /\ ~(2 > 4) /\ ~(1 > 4)
    OBVIOUS
  <2> QED
    BY <1>2, <2>2, <2>3 DEF StepAt
<1> QED
  BY <1>1, <1>2

LEMMA EmbraceStep ==
    ASSUME Py!PyConstants, PyBase, program = "deadlock", EmbraceInv,
           NEW t \in Py!Threads, Py!Thread(t)
    PROVE  EmbraceInv'
<1>1. /\ Acts(t, Py!Step(t)[1]) /\ Py!Step(t) = StepAt(program, t, at[t]) /\ at[t] \in Nat \ {0}
  BY ThreadActs, StepIs
<1>2. t \in {1, 2}
  <2>1. ASSUME t \notin {1, 2}
        PROVE  Py!Step(t)[1] = "end"
    <3>1. program \in MoneyPrograms \cup {"deadlock", "deadlock_timeout"} /\ t \in Py!Threads \ {1, 2}
      BY <2>1
    <3> QED
      BY <1>1, <3>1, NoOtherThread
  <2> QED
    BY <1>1, <2>1 DEF Acts
<1>3. PICK u \in {1, 2} : u # t /\ {1, 2} = {t, u} /\ Other(t) = u /\ Other(u) = t
  BY <1>2 DEF Other
<1>4. PICK a, b : a = Own(t) /\ b = Own(u) /\ a # b /\ {a, b} \subseteq Py!Locks
  BY <1>2, <1>3 DEF Own, Py!Locks
<1>5. /\ at[t] \in 1..5 /\ at[u] \in 1..5
      /\ owner[a] \in {1, 2, NoOwner} /\ owner[b] \in {1, 2, NoOwner}
      /\ owner[a] = t <=> at[t] \in {2, 3}
      /\ owner[a] = u <=> at[u] \in {3, 4}
      /\ owner[b] = u <=> at[u] \in {2, 3}
      /\ owner[b] = t <=> at[t] \in {3, 4}
      /\ NoOwner # 1 /\ NoOwner # 2
      /\ t \in Py!Threads /\ u \in Py!Threads
  BY <1>2, <1>3, <1>4, TwoThreads DEF EmbraceInv, Py!PyConstants
<1>6. at[t] # 5 /\ Py!Step(t) = CASE at[t] = 1 -> <<"acquire", a>>
                                  [] at[t] = 2 -> <<"acquire", b>>
                                  [] at[t] = 3 -> <<"release", a>>
                                  [] at[t] = 4 -> <<"release", b>>
  <2>1. at[t] # 5
    BY <1>1, <1>2, EmbraceSteps DEF Acts
  <2> QED
    BY <1>1, <1>2, <1>3, <1>4, <1>5, <2>1, EmbraceSteps
<1>7. GoesOn(t) /\ at'[t] = at[t] + 1 /\ at'[u] = at[u]
  BY <1>1, <1>3, <1>5, <1>6 DEF Acts, Takes, GoesOn, PyBase
<1>8. /\ at[t] = 1 => owner[a] = NoOwner /\ owner'[a] = t /\ owner'[b] = owner[b]
      /\ at[t] = 2 => owner[b] = NoOwner /\ owner'[b] = t /\ owner'[a] = owner[a]
      /\ at[t] = 3 => owner'[a] = NoOwner /\ owner'[b] = owner[b]
      /\ at[t] = 4 => owner'[b] = NoOwner /\ owner'[a] = owner[a]
  BY <1>1, <1>4, <1>5, <1>6 DEF Acts, Takes, PyBase
<1>9. /\ at'[t] \in 1..5 /\ at'[u] \in 1..5
      /\ owner'[a] \in {1, 2, NoOwner} /\ owner'[b] \in {1, 2, NoOwner}
      /\ owner'[a] = t <=> at'[t] \in {2, 3}
      /\ owner'[a] = u <=> at'[u] \in {3, 4}
      /\ owner'[b] = u <=> at'[u] \in {2, 3}
      /\ owner'[b] = t <=> at'[t] \in {3, 4}
  BY <1>2, <1>3, <1>5, <1>6, <1>7, <1>8
<1> QED
  BY <1>2, <1>3, <1>4, <1>9 DEF EmbraceInv

LEMMA TimeoutStep ==
    ASSUME Py!PyConstants, PyBase, program = "deadlock_timeout", TimeoutInv,
           NEW t \in Py!Threads, Py!Thread(t)
    PROVE  TimeoutInv'
<1>1. /\ Acts(t, Py!Step(t)[1]) /\ Py!Step(t) = StepAt(program, t, at[t]) /\ at[t] \in Nat \ {0}
  BY ThreadActs, StepIs
<1>2. t \in {1, 2}
  <2>1. ASSUME t \notin {1, 2}
        PROVE  Py!Step(t)[1] = "end"
    <3>1. program \in MoneyPrograms \cup {"deadlock", "deadlock_timeout"} /\ t \in Py!Threads \ {1, 2}
      BY <2>1
    <3> QED
      BY <1>1, <3>1, NoOtherThread
  <2> QED
    BY <1>1, <2>1 DEF Acts
<1>3. PICK u \in {1, 2} : u # t /\ {1, 2} = {t, u} /\ Other(t) = u /\ Other(u) = t
  BY <1>2 DEF Other
<1>4. PICK a, b : a = Own(t) /\ b = Own(u) /\ a # b /\ {a, b} \subseteq Py!Locks
  BY <1>2, <1>3 DEF Own, Py!Locks
<1>5. /\ at[t] \in 1..5 /\ at[u] \in 1..5
      /\ owner[a] \in {1, 2, NoOwner} /\ owner[b] \in {1, 2, NoOwner}
      /\ owner[a] = t => at[t] # 1
      /\ owner[a] = u => at[u] \in {3, 4}
      /\ owner[b] = u => at[u] # 1
      /\ owner[b] = t => at[t] \in {3, 4}
      /\ NoOwner # 1 /\ NoOwner # 2
      /\ t \in Py!Threads /\ u \in Py!Threads
  BY <1>2, <1>3, <1>4, TwoThreads DEF TimeoutInv, Py!PyConstants
<1>6. at[t] # 5 /\ Py!Step(t) = CASE at[t] = 1 -> <<"acquire", a>>
                                  [] at[t] = 2 -> <<"timed", b>>
                                  [] at[t] = 3 -> <<"release", a>>
                                  [] at[t] = 4 -> <<"release", b>>
  <2>1. at[t] # 5
    BY <1>1, <1>2, EmbraceSteps DEF Acts
  <2> QED
    BY <1>1, <1>2, <1>3, <1>4, <1>5, <2>1, EmbraceSteps
<1>7. \/ at[t] = 2 /\ at'[t] = 5 /\ at'[u] = at[u] /\ owner' = owner
      \/ /\ at'[t] = at[t] + 1 /\ at'[u] = at[u]
         /\ at[t] = 1 => owner[a] = NoOwner /\ owner'[a] = t /\ owner'[b] = owner[b]
         /\ at[t] = 2 => owner[b] = NoOwner /\ owner'[b] = t /\ owner'[a] = owner[a]
         /\ at[t] = 3 => owner'[a] = NoOwner /\ owner'[b] = owner[b]
         /\ at[t] = 4 => owner'[b] = NoOwner /\ owner'[a] = owner[a]
  <2>1. CASE at[t] = 2
    <3>1. Takes(t) \/ GivesUp(t)
      BY <1>1, <1>6, <2>1 DEF Acts
    <3>2. CASE GivesUp(t)
      <4>1. Len(CodeOf(program, t)) + 1 = 5
        <5>1. program \in {"deadlock", "deadlock_timeout"}
          OBVIOUS
        <5>2. Len(CodeOf(program, t)) = 4
          BY <1>2, <5>1, EmbraceSteps
        <5>3. 4 + 1 = 5
          OBVIOUS
        <5> QED
          BY <5>2, <5>3, Zenon
      <4>2. at' = [at EXCEPT ![t] = 5] /\ owner' = owner
        BY <3>2, <4>1 DEF GivesUp
      <4> QED
        BY <1>3, <1>5, <2>1, <4>2 DEF PyBase
    <3>3. CASE Takes(t)
      BY <1>3, <1>4, <1>5, <1>6, <2>1, <3>3 DEF Takes, GoesOn, PyBase
    <3> QED
      BY <3>1, <3>2, <3>3
  <2>2. CASE at[t] # 2
    BY <1>1, <1>3, <1>4, <1>5, <1>6, <2>2 DEF Acts, Takes, GoesOn, PyBase
  <2> QED
    BY <2>1, <2>2
<1>9. /\ at'[t] \in 1..5 /\ at'[u] \in 1..5
      /\ owner'[a] \in {1, 2, NoOwner} /\ owner'[b] \in {1, 2, NoOwner}
      /\ owner'[a] = t => at'[t] # 1
      /\ owner'[a] = u => at'[u] \in {3, 4}
      /\ owner'[b] = u => at'[u] # 1
      /\ owner'[b] = t => at'[t] \in {3, 4}
  BY <1>2, <1>3, <1>5, <1>6, <1>7
<1> QED
  BY <1>2, <1>3, <1>4, <1>9 DEF TimeoutInv

LEMMA BallSteps ==
    ASSUME Py!PyConstants, NEW t \in Py!Threads
    PROVE  /\ t = 1 => /\ StepAt("synchronize", 1, 1) = <<"acquire", "lock1">>
                       /\ StepAt("synchronize", 1, 2) = <<"release", "lock2">>
           /\ t = 2 => /\ StepAt("synchronize", 2, 1) = <<"acquire", "lock2">>
                       /\ StepAt("synchronize", 2, 2) = <<"release", "lock3">>
           /\ t = 3 => /\ StepAt("synchronize", 3, 1) = <<"acquire", "lock3">>
                       /\ StepAt("synchronize", 3, 2) = <<"release", "lock1">>
           /\ t \in 1..3 => /\ StepAt("synchronize", t, 3)[1] = "again"
                            /\ Len(CodeOf("synchronize", t)) = 3
           /\ t \notin 1..3 => CodeOf("synchronize", t) = <<>>
<1>0. 1..3 = {1, 2, 3} /\ ~(1 > 3) /\ ~(2 > 3) /\ ~(3 > 3)
  OBVIOUS
<1> DEFINE c == Py!Code("synchronize")
<1>1. /\ Len(c) = 3 /\ c[1] = Py!synchronize("lock1", "lock2")
      /\ c[2] = Py!synchronize("lock2", "lock3") /\ c[3] = Py!synchronize("lock3", "lock1")
  BY DEF Py!Code
<1> HIDE DEF c
<1>2. /\ CodeOf("synchronize", 1) = Py!synchronize("lock1", "lock2")
      /\ CodeOf("synchronize", 2) = Py!synchronize("lock2", "lock3")
      /\ CodeOf("synchronize", 3) = Py!synchronize("lock3", "lock1")
  BY <1>1 DEF CodeOf, c
<1>3. \A a, b : /\ Len(Py!synchronize(a, b)) = 3
                /\ Py!synchronize(a, b)[1] = <<"acquire", a>>
                /\ Py!synchronize(a, b)[2] = <<"release", b>>
                /\ Py!synchronize(a, b)[3] = <<"again", a>>
  BY DEF Py!synchronize
<1>4. t = 1 => /\ StepAt("synchronize", 1, 1) = <<"acquire", "lock1">>
               /\ StepAt("synchronize", 1, 2) = <<"release", "lock2">>
               /\ StepAt("synchronize", 1, 3)[1] = "again"
               /\ Len(CodeOf("synchronize", 1)) = 3
  BY <1>0, <1>2, <1>3 DEF StepAt
<1>5. t = 2 => /\ StepAt("synchronize", 2, 1) = <<"acquire", "lock2">>
               /\ StepAt("synchronize", 2, 2) = <<"release", "lock3">>
               /\ StepAt("synchronize", 2, 3)[1] = "again"
               /\ Len(CodeOf("synchronize", 2)) = 3
  BY <1>0, <1>2, <1>3 DEF StepAt
<1>6. t = 3 => /\ StepAt("synchronize", 3, 1) = <<"acquire", "lock3">>
               /\ StepAt("synchronize", 3, 2) = <<"release", "lock1">>
               /\ StepAt("synchronize", 3, 3)[1] = "again"
               /\ Len(CodeOf("synchronize", 3)) = 3
  BY <1>0, <1>2, <1>3 DEF StepAt
<1>7. t \notin 1..3 => CodeOf("synchronize", t) = <<>>
  <2>1. t \notin 1..3 => ~(t <= 3)
    BY DEF Py!Threads, Py!PyConstants
  <2> QED
    BY <1>1, <2>1 DEF CodeOf, c
<1> QED
  BY <1>0, <1>4, <1>5, <1>6, <1>7

LEMMA BallStep ==
    ASSUME Py!PyConstants, PyBase, program = "synchronize", BallInv,
           NEW t \in Py!Threads, Py!Thread(t)
    PROVE  BallInv'
<1>1. /\ Acts(t, Py!Step(t)[1]) /\ Py!Step(t) = StepAt(program, t, at[t]) /\ at[t] \in Nat \ {0}
  BY ThreadActs, StepIs
<1>2. t \in 1..3
  <2>1. ASSUME t \notin 1..3
        PROVE  Py!Step(t)[1] = "end"
    <3>1. at[t] > Len(CodeOf(program, t))
      BY <1>1, <2>1, BallSteps
    <3> QED
      BY <1>1, <3>1 DEF StepAt
  <2> QED
    BY <1>1, <2>1 DEF Acts
<1>3. /\ \A u \in 1..3 : u \in Py!Threads /\ at[u] \in 1..3
      /\ {"lock1", "lock2", "lock3"} \subseteq Py!Locks
  BY TwoThreads DEF BallInv, Py!Locks
<1>4. CASE at[t] = 1
  <2>1. Py!Step(t)[1] = "acquire"
    BY <1>1, <1>2, <1>4, BallSteps
  <2>2. GoesOn(t)
    BY <1>1, <2>1 DEF Acts, Takes
  <2>3. at'[t] = 2 /\ \A u \in 1..3 : at'[u] \in 1..3
    BY <1>2, <1>3, <1>4, <2>2 DEF GoesOn, PyBase
  <2> QED
    BY <1>2, <2>3 DEF BallInv
<1>5. CASE at[t] = 2
  <2>1. Py!Step(t)[1] = "release" /\ Py!Step(t)[2] \in {"lock1", "lock2", "lock3"}
    BY <1>1, <1>2, <1>5, BallSteps
  <2>2. GoesOn(t) /\ owner' = [owner EXCEPT ![Py!Step(t)[2]] = NoOwner]
    BY <1>1, <2>1 DEF Acts
  <2>3. \A u \in 1..3 : at'[u] \in 1..3
    BY <1>2, <1>3, <1>5, <2>2 DEF GoesOn, PyBase
  <2>4. owner'[Py!Step(t)[2]] = NoOwner
    BY <1>3, <2>1, <2>2 DEF PyBase
  <2> QED
    BY <2>1, <2>3, <2>4 DEF BallInv
<1>6. CASE at[t] = 3
  <2>1. Py!Step(t)[1] = "again"
    BY <1>1, <1>2, <1>6, BallSteps
  <2>2. at' = [at EXCEPT ![t] = 1] /\ owner' = owner
    BY <1>1, <2>1 DEF Acts
  <2>3. \A u \in 1..3 : at'[u] \in 1..3 /\ (at[u] = 2 => at'[u] = 2)
    BY <1>2, <1>3, <1>6, <2>2 DEF PyBase
  <2> QED
    BY <2>2, <2>3 DEF BallInv
<1> QED
  BY <1>2, <1>3, <1>4, <1>5, <1>6

-----------------------------------------------------------------------------
(* The queue.                                                              *)

(* A look at the queue, n portions, and again.                             *)
BatchOf(s, n, x, y, z) ==
    /\ Len(s) = n + 2 /\ s[1] = x /\ s[n + 2] = z
    /\ \A i \in 2..(n + 1) : s[i] = y

LEMMA Batch ==
    ASSUME NEW n \in Nat, NEW x, NEW y, NEW z
    PROVE  BatchOf((<<x>> \o Py!Repeat(n, <<y>>)) \o <<z>>, n, x, y, z)
<1> DEFINE T == {x, y, z}
           s == (<<x>> \o Py!Repeat(n, <<y>>)) \o <<z>>
           f == <<x>>
           r == Py!Repeat(n, <<y>>)
           g == <<z>>
<1>1. f \in Seq(T) /\ Len(f) = 1 /\ f[1] = x /\ g \in Seq(T) /\ Len(g) = 1 /\ g[1] = z
  OBVIOUS
<1>2. r = [k \in 1..n |-> y]
  <2>1. Len(<<y>>) = 1 /\ <<y>>[1] = y
    OBVIOUS
  <2>2. Py!Repeat(n, <<y>>) = [k \in 1..n |-> <<y>>[1]]
    BY <2>1, Repeated
  <2> QED
    BY <2>1, <2>2
<1>3. s = (f \o r) \o g
  OBVIOUS
<1>4. y \in T
  OBVIOUS
<1> HIDE DEF T, f, r, g, s
<1>5. r \in Seq(T) /\ Len(r) = n /\ \A i \in 1..n : r[i] = y
  BY <1>2, <1>4
<1>6. PICK u \in Seq(T) : Joint(u, f, r)
  BY <1>1, <1>5, Joins
<1>7. Len(u) = n + 1 /\ u[1] = x /\ \A i \in 2..(n + 1) : u[i] = y
  BY <1>1, <1>5, <1>6 DEF Joint
<1>8. PICK h \in Seq(T) : Joint(h, u, g)
  BY <1>1, Joins
<1>9. Len(h) = n + 2 /\ h[n + 2] = g[1] /\ \A i \in 1..(n + 1) : h[i] = u[i]
  BY <1>1, <1>7, <1>8 DEF Joint
<1>10. s = h
  BY <1>3, <1>6, <1>8 DEF Joint
<1>11. h[1] = x /\ \A i \in 2..(n + 1) : h[i] = y
  <2>1. 1 \in 1..(n + 1) /\ \A i \in 2..(n + 1) : i \in 1..(n + 1)
    OBVIOUS
  <2> QED
    BY <1>7, <1>9, <2>1
<1>12. BatchOf(s, n, x, y, z)
  BY <1>1, <1>9, <1>10, <1>11 DEF BatchOf
<1> QED
  BY <1>12 DEF s

LEMMA QueueCode ==
    ASSUME Py!PyConstants, NEW t \in Py!Threads
    PROVE  /\ t <= Cooks => CodeOf("producer_consumer", t) = Py!Producer
           /\ t \in EaterThreads => CodeOf("producer_consumer", t) = Py!Consumer
           /\ t > Cooks /\ t \notin EaterThreads => CodeOf("producer_consumer", t) = <<>>
<1>0. Cooks \in Nat /\ Eaters \in Nat /\ t \in Nat /\ t >= 1
  BY DEF Py!PyConstants, Py!Threads
<1> DEFINE f == Py!Repeat(Cooks, <<Py!Producer>>)
           g == Py!Repeat(Eaters, <<Py!Consumer>>)
           T == {Py!Producer, Py!Consumer}
<1>1. f = [k \in 1..Cooks |-> Py!Producer] /\ g = [k \in 1..Eaters |-> Py!Consumer]
  <2>1. \A x : Len(<<x>>) = 1 /\ <<x>>[1] = x
    OBVIOUS
  <2>2. \A x : \A n \in Nat : Py!Repeat(n, <<x>>) = [k \in 1..n |-> <<x>>[1]]
    BY <2>1, Repeated
  <2> QED
    BY <1>0, <2>1, <2>2
<1>2. Py!Code("producer_consumer") = f \o g
  BY DEF Py!Code
<1>3. Py!Producer \in T /\ Py!Consumer \in T
  OBVIOUS
<1> HIDE DEF f, g, T
<1>4. /\ f \in Seq(T) /\ Len(f) = Cooks /\ g \in Seq(T) /\ Len(g) = Eaters
  BY <1>0, <1>1, <1>3
<1>5. PICK h \in Seq(T) : Joint(h, f, g)
  BY <1>4, Joins
<1>6. /\ Len(h) = Cooks + Eaters
      /\ t <= Cooks => h[t] = Py!Producer
      /\ t > Cooks /\ t <= Cooks + Eaters => h[t] = Py!Consumer
  <2>1. Len(h) = Cooks + Eaters
    BY <1>4, <1>5 DEF Joint
  <2>2. ASSUME t <= Cooks
        PROVE  h[t] = Py!Producer
    BY <1>0, <1>1, <1>4, <1>5, <2>2 DEF Joint
  <2>3. ASSUME t > Cooks, t <= Cooks + Eaters
        PROVE  h[t] = Py!Consumer
    <3>1. t \in 1..(Cooks + Eaters) /\ ~(t <= Cooks) /\ t - Cooks \in 1..Eaters
      BY <1>0, <2>3
    <3>2. h[t] = g[t - Cooks]
      BY <1>4, <1>5, <3>1 DEF Joint
    <3> QED
      BY <1>1, <3>1, <3>2
  <2> QED
    BY <2>1, <2>2, <2>3
<1>7. CodeOf("producer_consumer", t) = IF t <= Cooks + Eaters THEN h[t] ELSE <<>>
  BY <1>2, <1>5, <1>6 DEF CodeOf, Joint
<1>8. /\ t \in EaterThreads <=> t > Cooks /\ t <= Cooks + Eaters
      /\ t <= Cooks => t <= Cooks + Eaters
  BY <1>0 DEF EaterThreads
<1> QED
  BY <1>6, <1>7, <1>8

LEMMA QueueSteps ==
    ASSUME Py!PyConstants, NEW t \in Py!Threads, NEW i \in Nat \ {0}
    PROVE  /\ t \in EaterThreads =>
                 StepAt("producer_consumer", t, i)[1] =
                    IF i = 1 THEN "above" ELSE IF i <= GetSize + 1 THEN "get"
                    ELSE IF i = GetSize + 2 THEN "again" ELSE "end"
           /\ t \notin EaterThreads =>
                 StepAt("producer_consumer", t, i)[1] \in {"below", "put", "again", "end"}
<1>0. GetSize \in Nat /\ PutSize \in Nat
  BY DEF Py!PyConstants
<1>1. CASE t \in EaterThreads
  <2>1. PICK s : s = CodeOf("producer_consumer", t) /\ s = Py!Consumer
    BY <1>1, QueueCode
  <2>2. /\ Len(s) = GetSize + 2 /\ s[1] = <<"above", "q">> /\ s[GetSize + 2] = <<"again", "q">>
        /\ \A j \in 2..(GetSize + 1) : s[j] = <<"get", "q">>
    <3>1. s = (<<<<"above", "q">>>> \o Py!Repeat(GetSize, <<<<"get", "q">>>>)) \o <<<<"again", "q">>>>
      BY <2>1 DEF Py!Consumer
    <3>2. BatchOf(s, GetSize, <<"above", "q">>, <<"get", "q">>, <<"again", "q">>)
      BY <1>0, <3>1, Batch
    <3> QED
      BY <3>2 DEF BatchOf
  <2>3. CASE i = 1
    BY <1>0, <1>1, <2>1, <2>2, <2>3 DEF StepAt
  <2>4. CASE i \in 2..(GetSize + 1)
    BY <1>0, <1>1, <2>1, <2>2, <2>4 DEF StepAt
  <2>5. CASE i = GetSize + 2
    BY <1>0, <1>1, <2>1, <2>2, <2>5 DEF StepAt
  <2>6. CASE i > GetSize + 2
    BY <1>0, <1>1, <2>1, <2>2, <2>6 DEF StepAt
  <2> QED
    BY <1>0, <2>3, <2>4, <2>5, <2>6
<1>2. CASE t \notin EaterThreads /\ t <= Cooks
  <2>1. PICK s : s = CodeOf("producer_consumer", t) /\ s = Py!Producer
    BY <1>2, QueueCode
  <2>2. /\ Len(s) = PutSize + 2 /\ s[1] = <<"below", "q">> /\ s[PutSize + 2] = <<"again", "q">>
        /\ \A j \in 2..(PutSize + 1) : s[j] = <<"put", "q">>
    <3>1. s = (<<<<"below", "q">>>> \o Py!Repeat(PutSize, <<<<"put", "q">>>>)) \o <<<<"again", "q">>>>
      BY <2>1 DEF Py!Producer
    <3>2. BatchOf(s, PutSize, <<"below", "q">>, <<"put", "q">>, <<"again", "q">>)
      BY <1>0, <3>1, Batch
    <3> QED
      BY <3>2 DEF BatchOf
  <2>3. CASE i = 1
    BY <1>0, <1>2, <2>1, <2>2, <2>3 DEF StepAt
  <2>4. CASE i \in 2..(PutSize + 1)
    BY <1>0, <1>2, <2>1, <2>2, <2>4 DEF StepAt
  <2>5. CASE i = PutSize + 2
    BY <1>0, <1>2, <2>1, <2>2, <2>5 DEF StepAt
  <2>6. CASE i > PutSize + 2
    BY <1>0, <1>2, <2>1, <2>2, <2>6 DEF StepAt
  <2> QED
    BY <1>0, <2>3, <2>4, <2>5, <2>6
<1>3. CASE t \notin EaterThreads /\ ~(t <= Cooks)
  <2>1. t > Cooks
    BY <1>3 DEF Py!PyConstants, Py!Threads
  <2>2. i > Len(CodeOf("producer_consumer", t))
    BY <1>3, <2>1, QueueCode
  <2> QED
    BY <1>3, <2>2 DEF StepAt
<1> QED
  BY <1>1, <1>2, <1>3

LEMMA PendingFacts ==
    ASSUME Py!PyConstants
    PROVE  /\ IsFiniteSet(Pending) /\ Cardinality(Pending) \in Nat
           /\ Cardinality(Pending) <= Low + 1
           /\ IsFiniteSet(Pending') /\ Cardinality(Pending') \in Nat
           /\ Cardinality(Pending') <= Low + 1
<1> DEFINE T == EaterThreads \X (2..(GetSize + 1))
<1>0. /\ GetSize \in Nat /\ Cooks \in Nat /\ Eaters \in Nat /\ Low \in Nat
      /\ Eaters * GetSize <= Low + 1 /\ Eaters * GetSize \in Nat
  BY DEF Py!PyConstants
<1>1. IsFiniteSet(EaterThreads) /\ Cardinality(EaterThreads) = Eaters
  BY <1>0, FS_Interval DEF EaterThreads
<1>2. IsFiniteSet(2..(GetSize + 1)) /\ Cardinality(2..(GetSize + 1)) = GetSize
  BY <1>0, FS_Interval
<1>3. IsFiniteSet(T) /\ Cardinality(T) = Eaters * GetSize
  BY <1>1, <1>2, FS_Product
<1>4. Pending \in SUBSET T /\ Pending' \in SUBSET T
  BY DEF Pending
<1> HIDE DEF T
<1>5. /\ IsFiniteSet(Pending) /\ Cardinality(Pending) <= Cardinality(T)
      /\ IsFiniteSet(Pending') /\ Cardinality(Pending') <= Cardinality(T)
  BY <1>3, <1>4, FS_Subset
<1>6. Cardinality(Pending) \in Nat /\ Cardinality(Pending') \in Nat
  BY <1>5, FS_CardinalityType
<1> QED
  BY <1>0, <1>3, <1>5, <1>6

LEMMA QueueStep ==
    ASSUME Py!PyConstants, PyBase, program = "producer_consumer", QueueInv,
           NEW t \in Py!Threads, Py!Thread(t)
    PROVE  QueueInv'
<1>0. GetSize \in Nat /\ Low \in Nat /\ size \in Nat /\ EaterThreads \subseteq Py!Threads
  BY DEF Py!PyConstants, QueueInv, EaterThreads, Py!Threads
<1>1. /\ Acts(t, Py!Step(t)[1]) /\ Py!Step(t) = StepAt("producer_consumer", t, at[t])
      /\ at[t] \in Nat \ {0}
  BY ThreadActs, StepIs
<1>2. \A u \in EaterThreads : at[u] \in 1..(GetSize + 2)
  BY DEF QueueInv
<1>3. /\ IsFiniteSet(Pending) /\ Cardinality(Pending) \in Nat /\ Cardinality(Pending) <= size
      /\ Cardinality(Pending') \in Nat /\ Cardinality(Pending') <= Low + 1
  BY PendingFacts DEF QueueInv
<1>4. CASE t \notin EaterThreads
  <2>1. Py!Step(t)[1] \in {"below", "put", "again"}
    BY <1>1, <1>4, QueueSteps DEF Acts
  <2>2. /\ size' \in Nat /\ size' >= size
        /\ \A u \in EaterThreads : at'[u] = at[u]
    BY <1>0, <1>1, <1>4, <2>1 DEF Acts, GoesOn, PyBase
  <2>3. Pending' = Pending
    BY <2>2 DEF Pending
  <2> QED
    BY <1>0, <1>2, <1>3, <2>2, <2>3 DEF QueueInv
<1>5. CASE t \in EaterThreads /\ at[t] = 1
  <2>1. Py!Step(t)[1] = "above"
    BY <1>1, <1>5, QueueSteps
  <2>2. size > Low /\ size' = size /\ GoesOn(t)
    BY <1>1, <2>1 DEF Acts
  <2>3. \A u \in EaterThreads : at'[u] \in 1..(GetSize + 2)
    BY <1>0, <1>2, <1>5, <2>2 DEF GoesOn, PyBase
  <2> QED
    BY <1>0, <1>3, <2>2, <2>3 DEF QueueInv
<1>6. CASE t \in EaterThreads /\ at[t] # 1 /\ at[t] <= GetSize + 1
  <2>1. Py!Step(t)[1] = "get"
    BY <1>1, <1>6, QueueSteps
  <2>2. size > 0 /\ size' = size - 1 /\ GoesOn(t)
    BY <1>1, <2>1 DEF Acts
  <2>3. \A u \in EaterThreads : at'[u] = IF u = t THEN at[t] + 1 ELSE at[u]
    BY <1>0, <2>2 DEF GoesOn, PyBase
  <2>4. \A u \in EaterThreads : at'[u] \in 1..(GetSize + 2)
    BY <1>0, <1>1, <1>2, <1>6, <2>3
  <2>5. <<t, at[t]>> \in Pending
    BY <1>0, <1>1, <1>6 DEF Pending
  <2>6. Pending' = Pending \ {<<t, at[t]>>}
    <3>1. ASSUME NEW u \in EaterThreads, NEW j \in 2..(GetSize + 1)
          PROVE  at'[u] >= 2 /\ j >= at'[u] <=> (at[u] >= 2 /\ j >= at[u]) /\ <<u, j>> # <<t, at[t]>>
      BY <1>0, <1>1, <1>2, <1>6, <2>3, <3>1
    <3> QED
      BY <3>1 DEF Pending
  <2>7. Cardinality(Pending') = Cardinality(Pending) - 1
    BY <1>3, <2>5, <2>6, FS_RemoveElement
  <2> QED
    BY <1>0, <1>3, <2>2, <2>4, <2>7 DEF QueueInv
<1>7. CASE t \in EaterThreads /\ at[t] = GetSize + 2
  <2>1. Py!Step(t)[1] = "again"
    BY <1>0, <1>1, <1>7, QueueSteps
  <2>2. size' = size /\ at' = [at EXCEPT ![t] = 1]
    BY <1>1, <2>1 DEF Acts
  <2>3. \A u \in EaterThreads : at'[u] = IF u = t THEN 1 ELSE at[u]
    BY <1>0, <2>2 DEF PyBase
  <2>4. \A u \in EaterThreads : at'[u] \in 1..(GetSize + 2)
    BY <1>0, <1>2, <2>3
  <2>5. Pending' = Pending
    <3>1. ASSUME NEW u \in EaterThreads, NEW j \in 2..(GetSize + 1)
          PROVE  at'[u] >= 2 /\ j >= at'[u] <=> at[u] >= 2 /\ j >= at[u]
      BY <1>0, <1>2, <1>7, <2>3, <3>1
    <3> QED
      BY <3>1 DEF Pending
  <2> QED
    BY <1>0, <1>3, <2>2, <2>4, <2>5 DEF QueueInv
<1> QED
  BY <1>0, <1>1, <1>2, <1>4, <1>5, <1>6, <1>7

-----------------------------------------------------------------------------
(* All programs together.                                                  *)

PyPrograms == MoneyPrograms \cup {"deadlock", "deadlock_timeout", "synchronize", "producer_consumer"}

(* Which programs have which operations.                                   *)
LEMMA Operations ==
    ASSUME Py!PyConstants, NEW p \in PyPrograms, NEW t \in Py!Threads, NEW i \in Nat \ {0}
    PROVE  /\ StepAt(p, t, i)[1] = "store" => p \in MoneyPrograms
           /\ StepAt(p, t, i)[1] = "timed" => Len(CodeOf(p, t)) = 4
           /\ StepAt(p, t, i)[1] = "get" => p = "producer_consumer"
           /\ StepAt(p, t, i)[1] = "acquire" => p \notin {"global_alter", "lock_my", "producer_consumer"}
<1>1. CASE p \in MoneyPrograms
  <2>1. CASE t \in {1, 2}
    <3>1. PICK n \in Nat : n = Additions(t)
      BY <1>1, <2>1, MoneyCode
    <3>2. PICK m \in Nat : m = StepsOf(p, n)
      BY <1>1, TableEnds
    <3>3. CASE i - 1 < m
      <4>1. i - 1 \in Nat /\ StepAt(p, t, i)[1] = OpAt(p, n, i - 1)
        BY <1>1, <2>1, <3>1, <3>2, <3>3, MoneyStepAt
      <4>2. Moves(p, n, i - 1)
        BY <1>1, <3>2, <3>3, <4>1, TableMoves
      <4>3. /\ OpAt(p, n, i - 1) \notin {"timed", "get"}
            /\ OpAt(p, n, i - 1) = "acquire" => p = "lock_mutex"
        BY <1>1, <4>2 DEF Moves, MoneyPrograms
      <4> QED
        BY <1>1, <4>1, <4>3
    <3>4. CASE ~(i - 1 < m)
      <4>1. StepAt(p, t, i)[1] = "end"
        BY <1>1, <2>1, <3>1, <3>2, <3>4, MoneyStepAt
      <4> QED
        BY <4>1
    <3> QED
      BY <3>3, <3>4
  <2>2. CASE t \notin {1, 2}
    <3>1. p \in MoneyPrograms \cup {"deadlock", "deadlock_timeout"} /\ t \in Py!Threads \ {1, 2}
      BY <1>1, <2>2
    <3>2. StepAt(p, t, i)[1] = "end"
      BY <3>1, NoOtherThread
    <3> QED
      BY <3>2
  <2> QED
    BY <2>1, <2>2
<1>2. CASE p \in {"deadlock", "deadlock_timeout"}
  <2>1. CASE t \in {1, 2}
    <3>1. Len(CodeOf(p, t)) = 4
      BY <1>2, <2>1, EmbraceSteps
    <3>2. CASE i \in 1..4
      <4>1. i = 1 \/ i = 2 \/ i = 3 \/ i = 4
        BY <3>2
      <4>2. StepAt(p, t, i)[1] \in {"acquire", "timed", "release"}
        BY <1>2, <2>1, <4>1, EmbraceSteps
      <4> QED
        BY <1>2, <3>1, <4>2
    <3>3. CASE i \notin 1..4
      <4>1. i > 4
        BY <3>3
      <4>2. StepAt(p, t, i)[1] = "end"
        BY <3>1, <4>1 DEF StepAt
      <4> QED
        BY <4>2
    <3> QED
      BY <3>2, <3>3
  <2>2. CASE t \notin {1, 2}
    <3>1. p \in MoneyPrograms \cup {"deadlock", "deadlock_timeout"} /\ t \in Py!Threads \ {1, 2}
      BY <1>2, <2>2
    <3>2. StepAt(p, t, i)[1] = "end"
      BY <3>1, NoOtherThread
    <3> QED
      BY <3>2
  <2> QED
    BY <2>1, <2>2
<1>3. CASE p = "synchronize"
  <2>1. CASE t \in 1..3 /\ i \in 1..3
    <3>1. (t = 1 \/ t = 2 \/ t = 3) /\ (i = 1 \/ i = 2 \/ i = 3)
      BY <2>1
    <3>2. StepAt(p, t, i)[1] \in {"acquire", "release", "again"}
      BY <1>3, <2>1, <3>1, BallSteps
    <3> QED
      BY <1>3, <3>2
  <2>2. CASE ~(t \in 1..3 /\ i \in 1..3)
    <3>1. i > Len(CodeOf(p, t))
      <4>1. CASE t \in 1..3
        <5>1. Len(CodeOf(p, t)) = 3
          BY <1>3, <4>1, BallSteps
        <5>2. i > 3
          BY <2>2, <4>1
        <5> QED
          BY <5>1, <5>2
      <4>2. CASE t \notin 1..3
        <5>1. CodeOf(p, t) = <<>>
          BY <1>3, <4>2, BallSteps
        <5> QED
          BY <5>1
      <4> QED
        BY <4>1, <4>2
    <3>2. StepAt(p, t, i)[1] = "end"
      BY <3>1 DEF StepAt
    <3> QED
      BY <3>2
  <2> QED
    BY <2>1, <2>2
<1>4. CASE p = "producer_consumer"
  <2>1. StepAt(p, t, i)[1] \in {"above", "get", "below", "put", "again", "end"}
    BY <1>4, QueueSteps
  <2> QED
    BY <1>4, <2>1
<1> QED
  BY <1>1, <1>2, <1>3, <1>4 DEF PyPrograms

LEMMA ProgramsKnown ==
    ASSUME Py!PyConstants, PyBase
    PROVE  program \in PyPrograms
BY DEF Py!PyConstants, PyBase, PyPrograms, MoneyPrograms

LEMMA BaseStep ==
    ASSUME Py!PyConstants, PyBase, NEW t \in Py!Threads, Py!Thread(t)
    PROVE  PyBase' /\ (program \notin MoneyPrograms => money' = money)
<1>1. /\ Acts(t, Py!Step(t)[1]) /\ Py!Step(t) = StepAt(program, t, at[t]) /\ at[t] \in Nat \ {0}
      /\ program' = program /\ code' = code /\ program \in PyPrograms
  BY ThreadActs, StepIs, ProgramsKnown DEF Acts
<1>2. PICK op : op = Py!Step(t)[1]
  OBVIOUS
<1>3. /\ op = "store" => program \in MoneyPrograms
      /\ op = "timed" => Len(CodeOf(program, t)) = 4
  BY <1>1, <1>2, Operations
<1>4. at' \in [Py!Threads -> Nat \ {0}]
  <2>1. CASE GoesOn(t)
    BY <1>1, <2>1 DEF GoesOn, PyBase
  <2>2. CASE op = "again"
    <3>1. at' = [at EXCEPT ![t] = 1]
      BY <1>1, <1>2, <2>2 DEF Acts
    <3> QED
      BY <3>1 DEF PyBase
  <2>3. CASE op = "timed" /\ GivesUp(t)
    <3>1. 4 + 1 = 5 /\ 5 \in Nat \ {0}
      OBVIOUS
    <3>2. Len(CodeOf(program, t)) = 4
      BY <1>3, <2>3
    <3>3. at' = [at EXCEPT ![t] = 5]
      BY <2>3, <3>1, <3>2, Zenon DEF GivesUp
    <3> QED
      BY <3>1, <3>3 DEF PyBase
  <2> QED
    BY <1>1, <1>2, <2>1, <2>2, <2>3 DEF Acts, Takes
<1>5. owner' \in [Py!Locks -> Nat \cup {NoOwner}]
  <2>1. t \in Nat
    BY DEF Py!Threads, Py!PyConstants
  <2>2. \/ owner' = owner
        \/ owner' = [owner EXCEPT ![Py!Step(t)[2]] = t]
        \/ owner' = [owner EXCEPT ![Py!Step(t)[2]] = NoOwner]
    BY <1>1, <1>2 DEF Acts, Takes, GivesUp
  <2> QED
    BY <2>1, <2>2 DEF PyBase
<1>6. read' \in [Py!Threads -> Nat]
  <2>1. read' = read \/ read' = [read EXCEPT ![t] = money]
    BY <1>1, <1>2 DEF Acts
  <2> QED
    BY <2>1 DEF PyBase
<1>7. money' \in Nat /\ (program \notin MoneyPrograms => money' = money)
  <2>1. CASE op = "store"
    BY <1>1, <1>2, <1>3, <2>1 DEF Acts, PyBase
  <2>2. CASE op # "store"
    BY <1>1, <1>2, <2>2 DEF Acts, PyBase
  <2> QED
    BY <2>1, <2>2
<1>8. money_lock' \in BOOLEAN
  BY <1>1, <1>2 DEF Acts, PyBase
<1>9. raced' \in BOOLEAN
  BY <1>1, <1>2 DEF Acts, PyBase
<1>10. program' \in Programs /\ code' = [x \in Py!Threads |-> CodeOf(program', x)]
  BY <1>1 DEF PyBase
<1> QED
  BY <1>4, <1>5, <1>6, <1>7, <1>8, <1>9, <1>10 DEF PyBase

LEMMA PyNext ==
    ASSUME Py!PyConstants, PyInv, [Py!Next]_Py!vars
    PROVE  PyInv'
<1>1. CASE UNCHANGED Py!vars
  <2>1. PyBase'
    BY <1>1 DEF PyInv, PyBase, Py!vars
  <2>2. MoneyInv => MoneyInv'
    BY <1>1 DEF MoneyInv, Py!vars, Exact, Done, WithLock, Py!Step, Py!Ended
  <2>3. (EmbraceInv => EmbraceInv') /\ (TimeoutInv => TimeoutInv') /\ (BallInv => BallInv')
    BY <1>1 DEF EmbraceInv, TimeoutInv, BallInv, Py!vars
  <2>4. QueueInv => QueueInv'
    BY <1>1 DEF QueueInv, Pending, Py!vars
  <2>5. program' = program /\ money' = money
    BY <1>1 DEF Py!vars
  <2> QED
    BY <2>1, <2>2, <2>3, <2>4, <2>5 DEF PyInv
<1>2. ASSUME NEW t \in Py!Threads, Py!Thread(t)
      PROVE  PyInv'
  <2>0. PyBase
    BY DEF PyInv
  <2>1. PyBase' /\ (program \notin MoneyPrograms => money' = money) /\ program' = program
    BY <1>2, <2>0, BaseStep, ThreadActs DEF Acts
  <2>2. program \in MoneyPrograms => MoneyInv'
    BY <1>2, <2>0, MoneyStep DEF PyInv
  <2>3. program = "deadlock" => EmbraceInv'
    BY <1>2, <2>0, EmbraceStep DEF PyInv
  <2>4. program = "deadlock_timeout" => TimeoutInv'
    BY <1>2, <2>0, TimeoutStep DEF PyInv
  <2>5. program = "synchronize" => BallInv'
    BY <1>2, <2>0, BallStep DEF PyInv
  <2>6. program = "producer_consumer" => QueueInv'
    BY <1>2, <2>0, QueueStep DEF PyInv
  <2>7. program \notin MoneyPrograms => money = 0
    BY DEF PyInv
  <2> QED
    BY <2>1, <2>2, <2>3, <2>4, <2>5, <2>6, <2>7 DEF PyInv
<1> QED
  BY <1>1, <1>2 DEF Py!Next

LEMMA PyInit ==
    ASSUME Py!PyConstants, Py!Init
    PROVE  PyInv
<1>1. PyBase
  <2>1. code = [t \in Py!Threads |-> CodeOf(program, t)]
    BY DEF Py!Init, CodeOf
  <2>2. owner \in [Py!Locks -> Nat \cup {NoOwner}]
    BY DEF Py!Init
  <2>3. at \in [Py!Threads -> Nat \ {0}] /\ read \in [Py!Threads -> Nat] /\ money \in Nat
    BY DEF Py!Init
  <2>4. money_lock \in BOOLEAN /\ raced \in BOOLEAN /\ program \in Programs
    BY DEF Py!Init
  <2> QED
    BY <2>1, <2>2, <2>3, <2>4 DEF PyBase
<1>2. 1..3 \subseteq Py!Threads /\ 1..3 = {1, 2, 3} /\ \A t \in Py!Threads : at[t] = 1
  BY TwoThreads DEF Py!Init
<1>3. program \in MoneyPrograms => MoneyInv
  BY <1>1, MoneyInit
<1>4. /\ owner["my_lock"] = NoOwner /\ owner["your_lock"] = NoOwner /\ owner["lock1"] = NoOwner
      /\ NoOwner # 1 /\ NoOwner # 2
  BY DEF Py!Init, Py!Locks, Py!PyConstants
<1>5. ASSUME NEW t \in {1, 2}
      PROVE  /\ at[t] = 1 /\ owner[Own(t)] = NoOwner /\ Other(t) \in {1, 2} /\ at[Other(t)] = 1
  BY <1>2, <1>4 DEF Own, Other
<1>6. EmbraceInv
  BY <1>4, <1>5 DEF EmbraceInv
<1>7. TimeoutInv
  BY <1>4, <1>5 DEF TimeoutInv
<1>8. BallInv
  BY <1>2, <1>4 DEF BallInv
<1>9. QueueInv
  <2>1. GetSize \in Nat /\ Initial \in Nat /\ size = Initial /\ EaterThreads \subseteq Py!Threads
    BY DEF Py!Init, Py!PyConstants, EaterThreads, Py!Threads
  <2>2. Pending = {}
    BY <1>2, <2>1 DEF Pending
  <2> QED
    BY <1>2, <2>1, <2>2, FS_EmptySet DEF QueueInv
<1> QED
  BY <1>1, <1>3, <1>6, <1>7, <1>8, <1>9 DEF PyInv, Py!Init

LEMMA NoMoneyNoLoss ==
    ASSUME Py!PyConstants, program \notin MoneyPrograms, money = 0
    PROVE  UpdatesKept
<1>1. Typing \in Nat /\ Watering \in Nat /\ <<Typing, Watering>>[1] = Typing
      /\ <<Typing, Watering>>[2] = Watering
  BY DEF Py!PyConstants
<1>2. money <= Typing + Watering
  BY <1>1
<1>3. program \notin {"lock_my", "lock_mutex"}
  BY DEF MoneyPrograms
<1> QED
  BY <1>1, <1>2, <1>3 DEF UpdatesKept, Py!UpdatesKept

LEMMA NobodyStarves ==
    ASSUME Py!PyConstants, PyInv, NEW t \in Py!Threads, Py!Step(t)[1] = "get"
    PROVE  program = "producer_consumer" /\ size \in Nat /\ size > 0
<1>1. PyBase /\ Py!Step(t) = StepAt(program, t, at[t]) /\ at[t] \in Nat \ {0} /\ program \in PyPrograms
  BY StepIs, ProgramsKnown DEF PyInv
<1>2. program = "producer_consumer"
  BY <1>1, Operations
<1>3. QueueInv /\ GetSize \in Nat
  BY <1>2 DEF PyInv, Py!PyConstants
<1>4. t \in EaterThreads /\ at[t] # 1 /\ at[t] <= GetSize + 1
  BY <1>1, <1>2, <1>3, QueueSteps
<1>5. <<t, at[t]>> \in Pending
  BY <1>1, <1>3, <1>4 DEF Pending
<1>6. Cardinality(Pending) # 0
  BY <1>5, PendingFacts, FS_EmptySet
<1> QED
  BY <1>2, <1>3, <1>6, PendingFacts DEF QueueInv

(* A thread that is neither over nor waiting goes on.                      *)
LEMMA SomebodyGoesOn ==
    ASSUME Py!PyConstants, PyInv, program # "deadlock",
           NEW w \in Py!Threads, Py!Step(w)[1] = "acquire", owner[Py!Step(w)[2]] # NoOwner
    PROVE  \E t \in Py!Threads : ~Py!Ended(t) /\ ~Py!Waits(t)
<1>1. /\ PyBase /\ Py!Step(w) = StepAt(program, w, at[w]) /\ at[w] \in Nat \ {0}
      /\ program \in PyPrograms
  BY StepIs, ProgramsKnown DEF PyInv
<1>2. program \in {"lock_mutex", "deadlock_timeout", "synchronize"}
  BY <1>1, Operations DEF PyPrograms, MoneyPrograms
<1>3. ASSUME NEW t \in Py!Threads, Py!Step(t)[1] \notin {"end", "acquire", "get"}
      PROVE  ~Py!Ended(t) /\ ~Py!Waits(t)
  <2>1. ~Py!Waits(t)
    BY <1>3 DEF Py!Waits
  <2>2. ~Py!Ended(t)
    BY <1>3 DEF Py!Step
  <2> QED
    BY <2>1, <2>2
<1>4. CASE program = "lock_mutex"
  <2>0. program \in MoneyPrograms /\ MoneyInv
    BY <1>4 DEF PyInv, MoneyPrograms
  <2>1. w \in {1, 2}
    <3>1. ASSUME w \notin {1, 2}
          PROVE  FALSE
      <4>1. program \in MoneyPrograms \cup {"deadlock", "deadlock_timeout"} /\ w \in Py!Threads \ {1, 2}
        BY <2>0, <3>1
      <4>2. StepAt(program, w, at[w])[1] = "end"
        BY <1>1, <4>1, NoOtherThread
      <4> QED
        BY <1>1, <4>2
    <3> QED
      BY <3>1
  <2>2. PICK n \in Nat : n = Additions(w)
    BY <2>0, <2>1, MoneyCode
  <2>3. PICK m \in Nat : m = StepsOf(program, n)
    BY <2>0, TableEnds
  <2>4. at[w] - 1 < m
    BY <1>1, <2>0, <2>1, <2>2, <2>3, MoneyStepAt
  <2>5. Py!Step(w)[2] = "mutex"
    <3>1. OpAt(program, n, at[w] - 1) = "acquire"
      BY <1>1, <2>0, <2>1, <2>2, <2>3, <2>4, MoneyStepAt
    <3>2. OpAt(program, n, at[w] - 1) \in {"acquire", "release"}
      BY <3>1
    <3> QED
      BY <1>1, <1>4, <2>0, <2>1, <2>2, <2>3, <2>4, <3>2, MoneyStepAt
  <2>6. PICK u \in {1, 2} : owner["mutex"] = u /\ WithLock(u)
    BY <1>4, <2>0, <2>5 DEF MoneyInv
  <2>7. u \in Py!Threads /\ Py!Step(u) = StepAt(program, u, at[u]) /\ at[u] \in Nat \ {0}
    BY <1>1, TwoThreads, StepIs
  <2>8. PICK a \in Nat : a = Additions(u)
    BY <2>0, MoneyCode
  <2>9. PICK b \in Nat : b = StepsOf(program, a)
    BY <2>0, TableEnds
  <2>10. at[u] - 1 \in 0..b /\ InLock(program, a, at[u] - 1)
    BY <2>0, <2>6, <2>8, <2>9 DEF MoneyInv, WithLock
  <2>11. at[u] - 1 # b
    BY <2>0, <2>9, <2>10, TableEnds
  <2>12. at[u] - 1 < b /\ at[u] - 1 \in Nat
    BY <2>7, <2>10, <2>11
  <2>13. Moves(program, a, at[u] - 1)
    BY <2>0, <2>9, <2>12, TableMoves
  <2>14. OpAt(program, a, at[u] - 1) \in {"release", "load", "store"}
    BY <1>4, <2>10, <2>13 DEF Moves
  <2>15. Py!Step(u)[1] = OpAt(program, a, at[u] - 1)
    BY <2>0, <2>7, <2>8, <2>9, <2>12, MoneyStepAt
  <2> QED
    BY <1>3, <2>7, <2>14, <2>15
<1>5. CASE program = "deadlock_timeout"
  <2>0. TimeoutInv /\ program \in {"deadlock", "deadlock_timeout"}
    BY <1>5 DEF PyInv
  <2>1. w \in {1, 2}
    <3>1. ASSUME w \notin {1, 2}
          PROVE  FALSE
      <4>1. program \in MoneyPrograms \cup {"deadlock", "deadlock_timeout"} /\ w \in Py!Threads \ {1, 2}
        BY <2>0, <3>1
      <4>2. StepAt(program, w, at[w])[1] = "end"
        BY <1>1, <4>1, NoOtherThread
      <4> QED
        BY <1>1, <4>2
    <3> QED
      BY <3>1
  <2>2. at[w] = 1 /\ Py!Step(w)[2] = Own(w)
    <3>1. at[w] \in 1..5
      BY <2>0, <2>1 DEF TimeoutInv
    <3>2. at[w] = 1 \/ at[w] = 2 \/ at[w] = 3 \/ at[w] = 4 \/ at[w] = 5
      BY <3>1
    <3> QED
      BY <1>1, <1>5, <2>0, <2>1, <3>2, EmbraceSteps
  <2>3. PICK u \in {1, 2} : u = Other(w) /\ owner[Own(w)] = u /\ at[u] \in {3, 4}
    BY <2>0, <2>1, <2>2 DEF TimeoutInv, Other
  <2>4. u \in Py!Threads /\ Py!Step(u) = StepAt(program, u, at[u])
    BY <1>1, TwoThreads, StepIs
  <2>5. Py!Step(u)[1] = "release"
    BY <2>0, <2>3, <2>4, EmbraceSteps
  <2> QED
    BY <1>3, <2>4, <2>5
<1>6. CASE program = "synchronize"
  <2>0. BallInv /\ 1..3 \subseteq Py!Threads
    BY <1>6, TwoThreads DEF PyInv
  <2>1. ASSUME NEW t \in 1..3
        PROVE  /\ at[t] = 1 \/ at[t] = 2 \/ at[t] = 3
               /\ Py!Step(t) = StepAt("synchronize", t, at[t]) /\ t \in Py!Threads
    <3>1. at[t] \in 1..3 /\ t \in Py!Threads
      BY <2>0 DEF BallInv
    <3> QED
      BY <1>1, <1>6, <3>1, StepIs
  <2>2. CASE \E t \in 1..3 : at[t] # 1
    <3>1. PICK t \in 1..3 : at[t] # 1
      BY <2>2
    <3>2. Py!Step(t)[1] \in {"release", "again"}
      BY <2>1, <3>1, BallSteps
    <3> QED
      BY <1>3, <2>1, <3>2
  <2>3. CASE \A t \in 1..3 : at[t] = 1
    <3>1. PICK t \in 1..3 : Py!Step(t)[1] = "acquire" /\ owner[Py!Step(t)[2]] = NoOwner
      <4>1. 1 \in 1..3 /\ 2 \in 1..3 /\ 3 \in 1..3
        OBVIOUS
      <4>2. /\ Py!Step(1) = <<"acquire", "lock1">> /\ Py!Step(2) = <<"acquire", "lock2">>
            /\ Py!Step(3) = <<"acquire", "lock3">>
        BY <2>1, <2>3, <4>1, BallSteps
      <4>3. PICK l \in {"lock1", "lock2", "lock3"} : owner[l] = NoOwner
        BY <2>0, <2>3 DEF BallInv
      <4> QED
        BY <4>1, <4>2, <4>3
    <3>2. ~Py!Waits(t)
      BY <3>1 DEF Py!Waits
    <3>3. ~Py!Ended(t)
      BY <3>1 DEF Py!Step
    <3> QED
      BY <2>1, <3>2, <3>3
  <2> QED
    BY <2>2, <2>3
<1> QED
  BY <1>2, <1>4, <1>5, <1>6

(* deadlock: if everybody has ended or waits, and not all have ended, both *)
(* have their own lock and want the other.                                 *)
LEMMA Embrace ==
    ASSUME Py!PyConstants, PyInv, program = "deadlock", ~Py!AllEnded,
           \A t \in Py!Threads : Py!Ended(t) \/ Py!Waits(t)
    PROVE  owner["my_lock"] = 1 /\ owner["your_lock"] = 2
<1>1. PyBase /\ EmbraceInv /\ 1 \in Py!Threads /\ 2 \in Py!Threads
  BY TwoThreads DEF PyInv
<1>2. ASSUME NEW t \in {1, 2}
      PROVE  /\ t \in Py!Threads /\ at[t] \in 1..5
             /\ Py!Ended(t) => at[t] = 5
             /\ Py!Waits(t) => \/ at[t] = 1 /\ owner[Own(t)] # NoOwner
                               \/ at[t] = 2 /\ owner[Own(Other(t))] # NoOwner
  <2>1. t \in Py!Threads /\ at[t] \in 1..5 /\ program \in {"deadlock", "deadlock_timeout"}
    BY <1>1 DEF EmbraceInv
  <2>2. Py!Step(t) = StepAt(program, t, at[t]) /\ (Py!Ended(t) <=> at[t] > Len(CodeOf(program, t)))
    BY <1>1, <2>1, StepIs
  <2>3. Len(CodeOf(program, t)) = 4
    BY <2>1, EmbraceSteps
  <2>4. Py!Ended(t) => at[t] = 5
    <3>1. Py!Ended(t) <=> at[t] > 4
      BY <2>2, <2>3, Zenon
    <3> QED
      BY <2>1, <3>1
  <2>5. at[t] = 1 \/ at[t] = 2 \/ at[t] = 3 \/ at[t] = 4 \/ at[t] = 5
    BY <2>1
  <2>6. /\ at[t] = 1 => Py!Step(t)[1] = "acquire" /\ Py!Step(t)[2] = Own(t)
        /\ at[t] = 2 => Py!Step(t)[1] = "acquire" /\ Py!Step(t)[2] = Own(Other(t))
        /\ at[t] \in {3, 4, 5} => Py!Step(t)[1] \in {"release", "end"}
    BY <2>1, <2>2, <2>5, EmbraceSteps
  <2>7. Py!Waits(t) => \/ at[t] = 1 /\ owner[Own(t)] # NoOwner
                       \/ at[t] = 2 /\ owner[Own(Other(t))] # NoOwner
    BY <2>5, <2>6 DEF Py!Waits
  <2> QED
    BY <2>1, <2>4, <2>7
<1>3. ~(Py!Ended(1) /\ Py!Ended(2))
  <2>1. PICK t \in Py!Threads : ~Py!Ended(t)
    BY DEF Py!AllEnded
  <2>2. t \in {1, 2}
    <3>1. ASSUME t \notin {1, 2}
          PROVE  Py!Ended(t)
      <4>1. /\ program \in MoneyPrograms \cup {"deadlock", "deadlock_timeout"}
            /\ t \in Py!Threads \ {1, 2} /\ at[t] \in Nat \ {0}
        BY <1>1, <3>1, StepIs
      <4>2. CodeOf(program, t) = <<>>
        BY <4>1, NoOtherThread
      <4>3. at[t] > Len(CodeOf(program, t))
        BY <4>1, <4>2
      <4> QED
        BY <1>1, <4>3, StepIs
    <3> QED
      BY <2>1, <3>1
  <2> QED
    BY <2>1, <2>2
<1>4. /\ Own(1) = "my_lock" /\ Own(2) = "your_lock" /\ Other(1) = 2 /\ Other(2) = 1
  BY DEF Own, Other
<1>5. PICK i \in 1..5, j \in 1..5 : i = at[1] /\ j = at[2]
  BY <1>2
<1>6. /\ owner["my_lock"] \in {1, 2, NoOwner} /\ owner["your_lock"] \in {1, 2, NoOwner}
      /\ owner["my_lock"] = 1 <=> i \in {2, 3}
      /\ owner["my_lock"] = 2 <=> j \in {3, 4}
      /\ owner["your_lock"] = 2 <=> j \in {2, 3}
      /\ owner["your_lock"] = 1 <=> i \in {3, 4}
  BY <1>1, <1>4, <1>5 DEF EmbraceInv
<1>7. /\ i = 5 \/ (i = 1 /\ owner["my_lock"] # NoOwner) \/ (i = 2 /\ owner["your_lock"] # NoOwner)
      /\ j = 5 \/ (j = 1 /\ owner["your_lock"] # NoOwner) \/ (j = 2 /\ owner["my_lock"] # NoOwner)
  BY <1>1, <1>2, <1>4, <1>5
<1>8. ~(i = 5 /\ j = 5)
  <2>1. ASSUME NEW t \in {1, 2}, at[t] = 5
        PROVE  Py!Ended(t)
    <3>1. t \in Py!Threads /\ program \in {"deadlock", "deadlock_timeout"}
      BY <1>1
    <3>2. Len(CodeOf(program, t)) = 4
      BY <3>1, EmbraceSteps
    <3>3. at[t] > Len(CodeOf(program, t))
      <4>1. at[t] > 4
        BY <2>1
      <4> QED
        BY <3>2, <4>1, Zenon
    <3> QED
      BY <1>1, <3>1, <3>3, StepIs
  <2> QED
    BY <1>3, <1>5, <2>1
<1> QED
  BY <1>6, <1>7, <1>8

LEMMA EmbraceOnly ==
    ASSUME Py!PyConstants, PyInv
    PROVE  StuckOnlyInEmbrace
<1>1. \A t \in Py!Threads : ~(Py!Step(t)[1] = "get" /\ size = 0)
  BY NobodyStarves
<1>2. ASSUME ~Py!AllEnded, \A t \in Py!Threads : Py!Ended(t) \/ Py!Waits(t)
      PROVE  program = "deadlock" /\ owner["my_lock"] = 1 /\ owner["your_lock"] = 2
  <2>1. PICK w \in Py!Threads : ~Py!Ended(w)
    BY <1>2 DEF Py!AllEnded
  <2>2. Py!Step(w)[1] = "acquire" /\ owner[Py!Step(w)[2]] # NoOwner
    BY <1>1, <1>2, <2>1 DEF Py!Waits
  <2>3. program = "deadlock"
    BY <1>2, <2>2, SomebodyGoesOn
  <2> QED
    BY <1>2, <2>3, Embrace
<1> QED
  BY <1>1, <1>2 DEF StuckOnlyInEmbrace, Py!StuckOnlyInEmbrace

(* lock_mutex.py, lock_my.py, global_alter.py: for any number of additions *)
(* of the two threads, none is counted twice, and none is lost with the    *)
(* mutex, or with the home-made lock unless both threads saw it free       *)
(* before either took it.                                                  *)
THEOREM AdditionsKept ==
    ASSUME Py!PyConstants
    PROVE  Py!Spec => []UpdatesKept
<1>1. Py!Init => PyInv
  BY PyInit
<1>2. PyInv /\ [Py!Next]_Py!vars => PyInv'
  BY PyNext
<1>3. PyInv => UpdatesKept
  BY MoneyKept, NoMoneyNoLoss DEF PyInv
<1> QED
  BY <1>1, <1>2, <1>3, PTL DEF Py!Spec

(* The Python programs on locks: everybody waits only in deadlock.py, each *)
(* thread for the lock the other holds; and for any number of consumers    *)
(* whose batches together do not exceed what one of them has seen, none    *)
(* ever finds the queue of producer_consumer.py empty.                     *)
THEOREM OnlyTheEmbraceIsStuck ==
    ASSUME Py!PyConstants
    PROVE  Py!Spec => []StuckOnlyInEmbrace
<1>1. Py!Init => PyInv
  BY PyInit
<1>2. PyInv /\ [Py!Next]_Py!vars => PyInv'
  BY PyNext
<1>3. PyInv => StuckOnlyInEmbrace
  BY EmbraceOnly
<1> QED
  BY <1>1, <1>2, <1>3, PTL DEF Py!Spec

=============================================================================
