-------------------------- MODULE MultiCopyProofs --------------------------
(***************************************************************************)
(* Proofs about multicopy.c for any number of processes and any size of    *)
(* the file: the ranges cut the file up, so nothing is written twice, and  *)
(* a copy during which no process moved the shared offset between another  *)
(* one's lseek and read is exact.                                          *)
(***************************************************************************)
EXTENDS MCSharing, FiniteSetTheorems, TLAPS

-----------------------------------------------------------------------------
(* The ranges.                                                             *)

(* Multiplication by a number keeps the order.                             *)
LEMMA TimesMonotonic ==
    ASSUME NEW a \in Nat, NEW b \in Nat, NEW c \in Nat, a <= b
    PROVE  a * c \in Nat /\ b * c \in Nat /\ a * c <= b * c
OBVIOUS

LEMMA Quotient ==
    ASSUME NEW b \in Nat, NEW c \in Nat \ {0}
    PROVE  /\ b \div c \in Nat
           /\ (b \div c) * c <= b
           /\ b < (b \div c) * c + c
OBVIOUS

(* copy_block is the quotient, rounded down.                               *)
LEMMA CopyBlock ==
    ASSUME Multi!CopyConstants
    PROVE  /\ Multi!copy_block \in Nat
           /\ (CopyN - 1) * Multi!copy_block \in Nat /\ (CopyN - 1) * Multi!copy_block <= Size
           /\ Multi!copy_size = Size - (CopyN - 1) * Multi!copy_block
           /\ Multi!copy_size \in Nat
BY DEF Multi!CopyConstants, Multi!copy_block, Multi!copy_size

(* The bytes of the destination that belong to process p (lines 65-94).    *)
Part(p) == Multi!Base(p)..(Multi!Base(p) + Multi!Count(p) - 1)

LEMMA ProcsAre ==
    ASSUME Multi!CopyConstants
    PROVE  /\ Multi!Procs = 0..(CopyN - 1)
           /\ Multi!Parent \in Multi!Procs /\ Multi!Parent \notin Multi!Children
BY DEF Multi!CopyConstants, Multi!Procs, Multi!Children, Multi!Parent

(* Every range lies within the file, and ends before the next one starts.  *)
LEMMA RangesOrdered ==
    ASSUME Multi!CopyConstants, NEW p \in Multi!Procs
    PROVE  /\ Multi!Base(p) \in Nat /\ Multi!Count(p) \in Nat
           /\ Multi!Base(p) + Multi!Count(p) <= Size
           /\ \A q \in Multi!Procs : p < q => Multi!Base(p) + Multi!Count(p) <= Multi!Base(q)
<1>1. CopyN \in Nat /\ CopyN > 0 /\ p \in Nat /\ p <= CopyN - 1 /\ Multi!Parent = CopyN - 1
  BY ProcsAre DEF Multi!CopyConstants, Multi!Parent
<1>2. Multi!Base(p) \in Nat /\ Multi!Base(p) <= (CopyN - 1) * Multi!copy_block
  BY <1>1, CopyBlock, TimesMonotonic DEF Multi!Base
<1>3. CASE p = Multi!Parent
  <2>1. Multi!Count(p) = Size - (CopyN - 1) * Multi!copy_block /\ Multi!Base(p) = (CopyN - 1) * Multi!copy_block
    BY <1>1, <1>3, CopyBlock DEF Multi!Count, Multi!Base
  <2>2. \A q \in Multi!Procs : ~(p < q)
    BY <1>1, <1>3, ProcsAre
  <2> QED
    BY <1>2, <2>1, <2>2, CopyBlock DEF Multi!CopyConstants
<1>4. CASE p # Multi!Parent
  <2>1. Multi!Count(p) = Multi!copy_block /\ Multi!Base(p) + Multi!copy_block = (p + 1) * Multi!copy_block
    BY <1>1, <1>4, CopyBlock DEF Multi!Count, Multi!Base
  <2>2. \A q \in Nat : p + 1 <= q => (p + 1) * Multi!copy_block <= q * Multi!copy_block
    BY <1>1, CopyBlock, TimesMonotonic
  <2>3. p + 1 <= CopyN - 1 /\ CopyN - 1 \in Nat
    BY <1>1, <1>4
  <2>4. \A q \in Multi!Procs : p < q => Multi!Base(p) + Multi!Count(p) <= Multi!Base(q)
    <3> SUFFICES ASSUME NEW q \in Multi!Procs, p < q
                 PROVE  Multi!Base(p) + Multi!Count(p) <= Multi!Base(q)
      OBVIOUS
    <3>1. q \in Nat /\ p + 1 <= q
      BY <1>1, ProcsAre
    <3> QED
      BY <2>1, <2>2, <3>1 DEF Multi!Base
  <2>5. Multi!Base(p) + Multi!Count(p) <= (CopyN - 1) * Multi!copy_block
    BY <2>1, <2>2, <2>3
  <2> QED
    BY <1>1, <1>2, <2>1, <2>4, <2>5, CopyBlock DEF Multi!CopyConstants
<1> QED
  BY <1>3, <1>4

(* No two processes have a byte in common.                                 *)
LEMMA RangesDisjoint ==
    ASSUME Multi!CopyConstants, NEW p \in Multi!Procs, NEW q \in Multi!Procs, p # q
    PROVE  Part(p) \cap Part(q) = {}
<1>1. p \in Int /\ q \in Int
  BY ProcsAre DEF Multi!CopyConstants
<1>2. p < q \/ q < p
  BY <1>1
<1> QED
  BY <1>2, RangesOrdered DEF Part

(* Every byte belongs to some process, the remainder to the parent.        *)
LEMMA RangesCover ==
    ASSUME Multi!CopyConstants, NEW b \in Multi!Bytes
    PROVE  \E p \in Multi!Procs : b \in Part(p)
<1>1. CopyN \in Nat /\ CopyN > 0 /\ Size \in Nat /\ b \in Nat /\ b <= Size - 1 /\ Multi!Parent = CopyN - 1
  BY DEF Multi!CopyConstants, Multi!Bytes, Multi!Parent
<1>2. CASE b >= (CopyN - 1) * Multi!copy_block
  <2>1. /\ Multi!Base(Multi!Parent) = (CopyN - 1) * Multi!copy_block
        /\ Multi!Count(Multi!Parent) = Size - (CopyN - 1) * Multi!copy_block
    BY <1>1, CopyBlock DEF Multi!Base, Multi!Count
  <2>2. b \in Part(Multi!Parent)
    BY <1>1, <1>2, <2>1, CopyBlock DEF Part
  <2> QED
    BY <2>2, ProcsAre
<1>3. CASE b < (CopyN - 1) * Multi!copy_block
  <2> DEFINE p == b \div Multi!copy_block
  <2>1. Multi!copy_block \in Nat \ {0}
    BY <1>1, <1>3, CopyBlock
  <2>2. p \in Nat /\ p * Multi!copy_block <= b /\ b < p * Multi!copy_block + Multi!copy_block
    BY <1>1, <2>1, Quotient
  <2> HIDE DEF p
  <2>3. p < CopyN - 1
    <3> SUFFICES ASSUME CopyN - 1 <= p
                 PROVE  FALSE
      BY <1>1, <2>2
    <3>1. (CopyN - 1) * Multi!copy_block <= p * Multi!copy_block
      BY <1>1, <2>1, <2>2, TimesMonotonic
    <3> QED
      BY <1>1, <1>3, <2>1, <2>2, <3>1, CopyBlock
  <2>4. p \in Multi!Procs /\ p # Multi!Parent
    BY <1>1, <2>2, <2>3, ProcsAre
  <2>5. b \in Part(p)
    BY <1>1, <2>1, <2>2, <2>4 DEF Part, Multi!Base, Multi!Count
  <2> QED
    BY <2>4, <2>5
<1> QED
  BY <1>1, <1>2, <1>3, CopyBlock

-----------------------------------------------------------------------------
(* The copy.                                                               *)

(* The processes that have read their part, well or not.                   *)
HasRead(p) == cpc[p] \in {"zombie", "reaped", "wait", "done"}
Reaped == {c \in Multi!Children : cpc[c] = "reaped"}

(* The life of the processes: what a process may be doing, and that i is   *)
(* the number of children forked, and later that of children reaped.       *)
Lives ==
    /\ Multi!TypeOK
    /\ cpc[Multi!Parent] \in {"fork", "failed", "seek", "read", "wait", "done"}
    /\ \A c \in Multi!Children : cpc[c] \in {"none", "seek", "read", "zombie", "reaped"}
    /\ cpc[Multi!Parent] = "fork" => \A c \in Multi!Children : c >= i => cpc[c] = "none"
    /\ cpc[Multi!Parent] \notin {"wait", "done"} => Reaped = {}
    /\ cpc[Multi!Parent] = "wait" => i = Cardinality(Reaped)
    /\ cpc[Multi!Parent] = "done" => Reaped = Multi!Children

(* What has been written lies in the parts of processes that have read,    *)
(* and in an undisturbed copy those parts are complete and right.          *)
CopyInv ==
    /\ Lives
    /\ \A b \in Multi!Bytes : dest[b] # Multi!Hole => \E p \in Multi!Procs : HasRead(p) /\ b \in Part(p)
    /\ clean => \A p \in Multi!Procs : HasRead(p) => \A b \in Part(p) : dest[b] = b

LEMMA CopyInit == ASSUME Multi!CopyConstants, Multi!Init PROVE CopyInv
<1>1. CopyN \in Nat /\ CopyN > 0 /\ Size \in Nat /\ Multi!Parent = CopyN - 1
  BY DEF Multi!CopyConstants, Multi!Parent
<1>2. Multi!TypeOK
  BY <1>1 DEF Multi!Init, Multi!TypeOK
<1>3. cpc[Multi!Parent] = "fork" /\ \A c \in Multi!Children : cpc[c] = "none"
  BY ProcsAre DEF Multi!Init, Multi!Procs
<1>4. \A p \in Multi!Procs : cpc[p] \in {"fork", "none"}
  BY DEF Multi!Init
<1> QED
  BY <1>2, <1>3, <1>4 DEF Multi!Init, CopyInv, Lives, Reaped, HasRead

(* A step that moves processes without reading.                            *)
LEMMA NoRead ==
    ASSUME Multi!CopyConstants, CopyInv, Lives', UNCHANGED <<dest, clean>>,
           \A p \in Multi!Procs : HasRead(p)' <=> HasRead(p)
    PROVE  CopyInv'
BY DEF CopyInv

LEMMA CopyFork == ASSUME Multi!CopyConstants, CopyInv, Multi!Fork PROVE CopyInv'
<1>1. /\ CopyN \in Nat /\ CopyN > 0 /\ i \in 0..(CopyN - 1)
      /\ cpc \in [Multi!Procs -> {"none", "fork", "seek", "read", "wait", "zombie", "reaped", "failed", "done"}]
  BY DEF Multi!CopyConstants, CopyInv, Lives, Multi!TypeOK
<1>2. /\ cpc[Multi!Parent] = "fork" /\ i < CopyN - 1 /\ cpc' = [cpc EXCEPT ![i] = "seek"]
      /\ i' = i + 1 /\ UNCHANGED <<offset, dest, clean>>
  BY DEF Multi!Fork
<1>3. i \in Multi!Children /\ i \in Multi!Procs /\ i # Multi!Parent /\ cpc[i] = "none"
  BY <1>1, <1>2 DEF Multi!Children, Multi!Procs, Multi!Parent, CopyInv, Lives
<1>4. cpc'[i] = "seek" /\ \A p \in Multi!Procs : p # i => cpc'[p] = cpc[p]
  BY <1>1, <1>2, <1>3
<1>5. Multi!TypeOK'
  BY <1>1, <1>2, <1>3 DEF CopyInv, Lives, Multi!TypeOK
<1>6. Reaped' = Reaped
  BY <1>3, <1>4 DEF Reaped, Multi!Procs
<1>7. \A c \in Multi!Children : c >= i' => c # i
  BY <1>1, <1>2 DEF Multi!Children
<1>8. \A c \in Multi!Children : c >= i' => c >= i
  BY <1>1, <1>2 DEF Multi!Children
<1>9. Multi!Parent \in Multi!Procs /\ Multi!Children \subseteq Multi!Procs
  BY DEF Multi!Procs
<1>10. Lives'
  BY <1>2, <1>3, <1>4, <1>5, <1>6, <1>7, <1>8, <1>9 DEF CopyInv, Lives
<1>11. \A p \in Multi!Procs : HasRead(p)' <=> HasRead(p)
  BY <1>3, <1>4 DEF HasRead
<1> QED
  BY <1>2, <1>10, <1>11, NoRead

(* The parent alone moves on, having read or not as before.                *)
LEMMA CopyParent ==
    ASSUME Multi!CopyConstants, CopyInv, Multi!ForkFails \/ Multi!ForkLoopEnds \/ Multi!Return
    PROVE  CopyInv'
<1>1. /\ CopyN \in Nat /\ CopyN > 0 /\ i \in 0..(CopyN - 1)
      /\ Multi!Parent \in Multi!Procs /\ Multi!Parent \notin Multi!Children
  BY ProcsAre DEF Multi!CopyConstants, CopyInv, Lives, Multi!TypeOK
<1>2. UNCHANGED <<offset, dest, i, clean>>
  BY DEF Multi!ForkFails, Multi!ForkLoopEnds, Multi!Return
<1>3. /\ \/ cpc[Multi!Parent] = "fork" /\ cpc'[Multi!Parent] \in {"failed", "seek"}
         \/ cpc[Multi!Parent] = "wait" /\ cpc'[Multi!Parent] = "done" /\ i = Multi!ReapCount
      /\ \A p \in Multi!Procs : p # Multi!Parent => cpc'[p] = cpc[p]
  BY <1>1 DEF Multi!ForkFails, Multi!ForkLoopEnds, Multi!Return, CopyInv, Lives,
     Multi!TypeOK
<1>4. Multi!TypeOK'
  BY <1>1, <1>2 DEF Multi!ForkFails, Multi!ForkLoopEnds, Multi!Return, CopyInv, Lives,
     Multi!TypeOK
<1>5. Reaped' = Reaped
  BY <1>1, <1>3 DEF Reaped, Multi!Procs
<1>6. ASSUME cpc[Multi!Parent] = "wait", i = Multi!ReapCount
      PROVE  Reaped = Multi!Children
  <2>1. IsFiniteSet(Multi!Children) /\ Cardinality(Multi!Children) = CopyN - 1
    BY <1>1, FS_Interval DEF Multi!Children
  <2>2. Reaped \subseteq Multi!Children /\ Cardinality(Reaped) = CopyN - 1
    BY <1>6 DEF Reaped, CopyInv, Lives, Multi!ReapCount
  <2> QED
    BY <2>1, <2>2, FS_Subset
<1>7. Lives'
  BY <1>1, <1>2, <1>3, <1>4, <1>5, <1>6 DEF CopyInv, Lives, Multi!Procs
<1>8. \A p \in Multi!Procs : HasRead(p)' <=> HasRead(p)
  BY <1>3 DEF HasRead
<1> QED
  BY <1>2, <1>7, <1>8, NoRead

LEMMA CopyWait == ASSUME Multi!CopyConstants, CopyInv, Multi!Wait PROVE CopyInv'
<1>1. /\ CopyN \in Nat /\ CopyN > 0 /\ i \in 0..(CopyN - 1)
      /\ Multi!Parent \in Multi!Procs /\ Multi!Parent \notin Multi!Children
  BY ProcsAre DEF Multi!CopyConstants, CopyInv, Lives, Multi!TypeOK
<1>2. PICK c \in Multi!Children : cpc[c] = "zombie" /\ cpc' = [cpc EXCEPT ![c] = "reaped"]
  BY DEF Multi!Wait
<1>3. cpc[Multi!Parent] = "wait" /\ i < CopyN - 1 /\ i' = i + 1 /\ UNCHANGED <<offset, dest, clean>>
  BY DEF Multi!Wait, Multi!ReapCount
<1>4. c \in Multi!Procs /\ cpc'[c] = "reaped" /\ \A p \in Multi!Procs : p # c => cpc'[p] = cpc[p]
  BY <1>2 DEF CopyInv, Lives, Multi!TypeOK, Multi!Procs
<1>5. Multi!TypeOK'
  BY <1>1, <1>2, <1>3, <1>4 DEF CopyInv, Lives, Multi!TypeOK
<1>6. Reaped' = Reaped \cup {c} /\ c \notin Reaped
  BY <1>2, <1>4 DEF Reaped, Multi!Procs
<1>7. IsFiniteSet(Reaped)
  <2>1. IsFiniteSet(Multi!Children)
    BY <1>1, FS_Interval DEF Multi!Children
  <2> QED
    BY <2>1, FS_Subset DEF Reaped
<1>8. i' = Cardinality(Reaped')
  BY <1>3, <1>6, <1>7, FS_AddElement DEF CopyInv, Lives
<1>9. cpc'[Multi!Parent] = "wait" /\ \A d \in Multi!Children : cpc'[d] = "reaped" \/ cpc'[d] = cpc[d]
  BY <1>1, <1>2, <1>3, <1>4 DEF Multi!Procs
<1>10. Lives'
  BY <1>5, <1>8, <1>9 DEF CopyInv, Lives
<1>11. \A p \in Multi!Procs : HasRead(p)' <=> HasRead(p)
  BY <1>2, <1>4 DEF HasRead
<1> QED
  BY <1>3, <1>10, <1>11, NoRead

LEMMA CopySeek ==
    ASSUME Multi!CopyConstants, CopyInv, NEW p \in Multi!Procs, Multi!Seek(p)
    PROVE  CopyInv'
<1>1. /\ cpc[p] = "seek" /\ cpc' = [cpc EXCEPT ![p] = "read"] /\ offset' = Multi!Base(p)
      /\ UNCHANGED <<dest, i, clean>>
  BY DEF Multi!Seek
<1>2. cpc'[p] = "read" /\ \A q \in Multi!Procs : q # p => cpc'[q] = cpc[q]
  BY <1>1 DEF CopyInv, Lives, Multi!TypeOK
<1>3. Multi!TypeOK'
  BY <1>1, RangesOrdered DEF CopyInv, Lives, Multi!TypeOK, Multi!CopyConstants
<1>4. Reaped' = Reaped
  BY <1>1, <1>2 DEF Reaped, Multi!Procs
<1>5. Multi!Parent \in Multi!Procs /\ Multi!Children \subseteq Multi!Procs
  BY DEF Multi!Procs
<1>6. Lives'
  BY <1>1, <1>2, <1>3, <1>4, <1>5 DEF CopyInv, Lives
<1>7. \A q \in Multi!Procs : HasRead(q)' <=> HasRead(q)
  BY <1>1, <1>2 DEF HasRead
<1> QED
  BY <1>1, <1>6, <1>7, NoRead

(* A read writes into the reader's own part only, which nobody has written *)
(* to, and if the offset is where the reader put it, writes the right      *)
(* bytes and all of them.                                                  *)
LEMMA ReadEffect ==
    ASSUME Multi!CopyConstants, CopyInv, NEW p \in Multi!Procs, Multi!Read(p)
    PROVE  /\ dest' \in [Multi!Bytes -> Multi!Bytes \cup {Multi!Hole}] /\ offset' \in 0..Size
           /\ \A b \in Multi!Bytes : b \notin Part(p) => dest'[b] = dest[b]
           /\ \A b \in Multi!Bytes : b \in Part(p) => dest[b] = Multi!Hole
           /\ clean' => clean /\ \A b \in Part(p) : dest'[b] = b
<1>1. PICK n : n = Multi!Lesser(Multi!Count(p), Size - offset)
  OBVIOUS
<1>2. /\ Multi!Base(p) \in Nat /\ Multi!Count(p) \in Nat /\ Multi!Base(p) + Multi!Count(p) <= Size
      /\ Size \in Nat /\ offset \in 0..Size
  BY RangesOrdered DEF Multi!CopyConstants, CopyInv, Lives, Multi!TypeOK
<1>3. n \in Nat /\ n <= Multi!Count(p) /\ n <= Size - offset
  BY <1>1, <1>2 DEF Multi!Lesser
<1>4. /\ dest' = [b \in Multi!Bytes |-> IF b \in Multi!Base(p)..(Multi!Base(p) + n - 1)
                                  THEN offset + (b - Multi!Base(p)) ELSE dest[b]]
      /\ offset' = offset + n
      /\ clean' = (clean /\ offset = Multi!Base(p))
      /\ cpc[p] = "read"
  BY <1>1 DEF Multi!Read
<1>5. dest' \in [Multi!Bytes -> Multi!Bytes \cup {Multi!Hole}]
  <2>1. \A b \in Multi!Bytes : b \in Multi!Base(p)..(Multi!Base(p) + n - 1) => offset + (b - Multi!Base(p)) \in Multi!Bytes
    BY <1>2, <1>3 DEF Multi!Bytes
  <2>2. dest \in [Multi!Bytes -> Multi!Bytes \cup {Multi!Hole}]
    BY DEF CopyInv, Lives, Multi!TypeOK
  <2> QED
    BY <1>4, <2>1, <2>2
<1>6. offset' \in 0..Size
  BY <1>2, <1>3, <1>4
<1>7. \A b \in Multi!Bytes : b \notin Part(p) => dest'[b] = dest[b]
  BY <1>2, <1>3, <1>4 DEF Part, Multi!Bytes
<1>8. ASSUME NEW b \in Multi!Bytes, b \in Part(p), dest[b] # Multi!Hole
      PROVE  FALSE
  <2>1. PICK q \in Multi!Procs : HasRead(q) /\ b \in Part(q)
    BY <1>8 DEF CopyInv
  <2>2. q # p
    BY <1>4, <2>1 DEF HasRead
  <2> QED
    BY <1>8, <2>1, <2>2, RangesDisjoint
<1>9. ASSUME clean', NEW b \in Part(p)
      PROVE  clean /\ dest'[b] = b
  <2>1. clean /\ offset = Multi!Base(p)
    BY <1>4, <1>9
  <2>2. n = Multi!Count(p)
    BY <1>1, <1>2, <2>1 DEF Multi!Lesser
  <2>3. b \in Multi!Bytes /\ b \in Multi!Base(p)..(Multi!Base(p) + n - 1) /\ offset + (b - Multi!Base(p)) = b
    BY <1>2, <1>9, <2>1, <2>2 DEF Part, Multi!Bytes
  <2> QED
    BY <1>4, <2>1, <2>3
<1>10. clean' => clean
  BY <1>4
<1> QED
  BY <1>5, <1>6, <1>7, <1>8, <1>9, <1>10

LEMMA CopyRead ==
    ASSUME Multi!CopyConstants, CopyInv, NEW p \in Multi!Procs, Multi!Read(p)
    PROVE  CopyInv'
<1>1. /\ cpc[p] = "read"
      /\ cpc' = [cpc EXCEPT ![p] = IF p = Multi!Parent THEN "wait" ELSE "zombie"]
      /\ i' = IF p = Multi!Parent THEN 0 ELSE i
      /\ clean' = (clean /\ offset = Multi!Base(p))
  BY DEF Multi!Read
<1>2. /\ cpc'[p] = IF p = Multi!Parent THEN "wait" ELSE "zombie"
      /\ \A q \in Multi!Procs : q # p => cpc'[q] = cpc[q]
  BY <1>1 DEF CopyInv, Lives, Multi!TypeOK
<1>3. Multi!Parent \in Multi!Procs /\ Multi!Children \subseteq Multi!Procs /\ Multi!Parent \notin Multi!Children
  BY ProcsAre DEF Multi!Procs
<1>4. Multi!TypeOK'
  <2>1. i' \in 0..(CopyN - 1) /\ clean' \in BOOLEAN
    BY <1>1 DEF CopyInv, Lives, Multi!TypeOK, Multi!CopyConstants
  <2>2. cpc' \in [Multi!Procs -> {"none", "fork", "seek", "read", "wait", "zombie", "reaped", "failed", "done"}]
    BY <1>1 DEF CopyInv, Lives, Multi!TypeOK
  <2> QED
    BY <2>1, <2>2, ReadEffect DEF Multi!TypeOK
<1>5. Reaped' = Reaped
  BY <1>1, <1>2, <1>3 DEF Reaped
<1>6. p = Multi!Parent => Reaped = {} /\ i' = Cardinality(Reaped')
  BY <1>1, <1>5, FS_EmptySet DEF CopyInv, Lives
<1>7. Lives'
  <2>1. CASE p = Multi!Parent
    BY <1>1, <1>2, <1>3, <1>4, <1>5, <1>6, <2>1 DEF CopyInv, Lives
  <2>2. CASE p # Multi!Parent
    <3>1. p \in Multi!Children /\ cpc'[p] = "zombie" /\ i' = i /\ cpc'[Multi!Parent] = cpc[Multi!Parent]
      BY <1>1, <1>2, <1>3, <2>2 DEF Multi!Procs
    <3> QED
      BY <1>1, <1>2, <1>3, <1>4, <1>5, <3>1 DEF CopyInv, Lives
  <2> QED
    BY <2>1, <2>2
<1>8. ~HasRead(p) /\ HasRead(p)' /\ \A q \in Multi!Procs : q # p => (HasRead(q)' <=> HasRead(q))
  BY <1>1, <1>2 DEF HasRead
<1>9. ASSUME NEW b \in Multi!Bytes, dest'[b] # Multi!Hole
      PROVE  \E q \in Multi!Procs : HasRead(q)' /\ b \in Part(q)
  <2>1. CASE b \in Part(p)
    BY <1>8, <2>1
  <2>2. CASE b \notin Part(p)
    <3>1. dest[b] # Multi!Hole
      BY <1>9, <2>2, ReadEffect
    <3> QED
      BY <1>8, <3>1 DEF CopyInv
  <2> QED
    BY <2>1, <2>2
<1>10. ASSUME clean', NEW q \in Multi!Procs, HasRead(q)', NEW b \in Part(q)
       PROVE  dest'[b] = b
  <2>1. CASE q = p
    BY <1>10, <2>1, ReadEffect
  <2>2. CASE q # p
    <3>1. clean /\ HasRead(q)
      BY <1>8, <1>10, <2>2, ReadEffect
    <3>2. dest[b] = b
      BY <1>10, <3>1 DEF CopyInv
    <3>3. b \in Multi!Bytes /\ b \notin Part(p)
      BY <1>10, <2>2, RangesOrdered, RangesDisjoint DEF Part, Multi!Bytes,
         Multi!CopyConstants
    <3> QED
      BY <3>2, <3>3, ReadEffect
  <2> QED
    BY <2>1, <2>2
<1>11. \A q : Part(q)' = Part(q)
  BY DEF Part, Multi!Base, Multi!Count, Multi!copy_block, Multi!copy_size,
     Multi!Parent
<1> QED
  BY <1>7, <1>9, <1>10, <1>11 DEF CopyInv

LEMMA CopyStep == ASSUME Multi!CopyConstants, CopyInv, [Multi!Next]_Multi!vars PROVE CopyInv'
<1>1. CASE UNCHANGED Multi!vars
  BY <1>1 DEF Multi!vars, CopyInv, Lives, Multi!TypeOK, Reaped, HasRead
<1>2. CASE Multi!Next
  BY <1>1, <1>2, CopyFork, CopyParent, CopyWait, CopySeek, CopyRead DEF Multi!Next,
     Multi!Step, Multi!Terminated
<1> QED
  BY <1>1, <1>2

LEMMA CopyInvariance == ASSUME Multi!CopyConstants PROVE Multi!Spec => []CopyInv
<1>1. Multi!Init => CopyInv
  BY CopyInit
<1>2. CopyInv /\ [Multi!Next]_Multi!vars => CopyInv'
  BY CopyStep
<1> QED
  BY <1>1, <1>2, PTL DEF Multi!Spec

(* multicopy.c: the parent returns only after every child was reaped, and  *)
(* a copy in which every read started where its process had seeked to is   *)
(* exact, whatever the number of processes and the size of the file.       *)
THEOREM CopyExact == ASSUME Multi!CopyConstants PROVE Multi!Spec => []UndisturbedCopyExact
<1>1. ASSUME CopyInv
      PROVE  Multi!UndisturbedCopyExact
  <2>1. ASSUME cpc[Multi!Parent] = "done", NEW c \in Multi!Children
        PROVE  cpc[c] = "reaped"
    BY <1>1, <2>1 DEF CopyInv, Lives, Reaped
  <2>2. ASSUME cpc[Multi!Parent] = "done", clean, NEW b \in Multi!Bytes
        PROVE  dest[b] = b
    <3>1. PICK p \in Multi!Procs : b \in Part(p)
      BY RangesCover
    <3>2. HasRead(p)
      BY <2>1, <2>2 DEF HasRead, Multi!Procs
    <3> QED
      BY <1>1, <2>2, <3>1, <3>2 DEF CopyInv
  <2> QED
    BY <1>1, <2>1, <2>2 DEF Multi!UndisturbedCopyExact, CopyInv, Lives
<1> QED
  BY <1>1, CopyInvariance, PTL DEF UndisturbedCopyExact

(* multicopy.c: whoever moves the shared offset when, no process writes a  *)
(* byte that another one has written.                                      *)
THEOREM CopyWritesOnce == ASSUME Multi!CopyConstants PROVE Multi!Spec => WrittenOnce
<1>1. ASSUME CopyInv, [Multi!Next]_Multi!vars
      PROVE  [\A b \in Multi!Bytes : dest[b] # Multi!Hole => dest'[b] = dest[b]]_Multi!vars
  <2>1. ASSUME NEW p \in Multi!Procs, Multi!Read(p)
        PROVE  \A b \in Multi!Bytes : dest[b] # Multi!Hole => dest'[b] = dest[b]
    BY <1>1, <2>1, ReadEffect
  <2>2. CASE dest' = dest
    BY <2>2
  <2>3. (\E p \in Multi!Procs : Multi!Read(p)) \/ dest' = dest
    BY <1>1 DEF Multi!Next, Multi!Step, Multi!Fork, Multi!ForkFails,
       Multi!ForkLoopEnds, Multi!Wait, Multi!Return, Multi!Seek, Multi!Terminated,
       Multi!vars
  <2> QED
    BY <2>1, <2>2, <2>3
<1> QED
  BY <1>1, CopyInvariance, PTL DEF Multi!Spec, WrittenOnce, Multi!WrittenOnce

=============================================================================
