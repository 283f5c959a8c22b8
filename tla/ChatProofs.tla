----------------------------- MODULE ChatProofs -----------------------------
(***************************************************************************)
(* Proofs about the chat programs for lines, buffers and numbers of any    *)
(* size: whatever read and write do to the stream and whoever dies, what   *)
(* is printed is what was typed, and a child leaves for a reason.          *)
(***************************************************************************)
EXTENDS Chat, SequenceTheorems, FiniteSetTheorems, WellFoundedInduction, TLAPS

-----------------------------------------------------------------------------
(* The inductive invariant.                                                *)

Unit == {"c", "n", "h"} \X Nat
Record == [text : Seq(Unit), over : BOOLEAN]

TypeOK ==
    /\ mode \in Modes
    /\ stdin \in [Sides -> Seq(Unit)] /\ out \in [Sides -> Seq(Unit)]
    /\ got \in [Sides -> Seq(Unit)] /\ net \in [Sides -> Seq(Unit)]
    /\ kb \in [Sides -> {"fgets", "write", "gone"}]
    /\ sk \in [Sides -> {"recv", "quit", "failed", "gone"}]
    /\ reset \in [Sides -> {"no", "pending", "seen"}] /\ sigusr1 \in [Sides -> BOOLEAN]
    /\ typed \in [Sides -> Seq(Seq(Unit))] /\ sent \in [Sides -> Seq(Seq(Unit))]
    /\ printed \in [Sides -> Seq(Record)]

(* The number of the last unit of the first i texts.                       *)
EndOf(texts, i) == IF i = 0 THEN 0 ELSE texts[i][Len(texts[i])][2]

(* The lines of a user are numbered through, and each ends with its only   *)
(* newline.                                                                *)
Line(l, c) == \A j \in 1..Len(l) : l[j] = <<IF j = Len(l) THEN "n" ELSE "c", c + j>>
Lines(ts) ==
    /\ \A i \in 1..Len(ts) : Len(ts[i]) > 0 /\ Line(ts[i], EndOf(ts, i - 1))
    /\ \A i, k \in 0..Len(ts) : i <= k => EndOf(ts, i) <= EndOf(ts, k)

(* The units of q are the ones of the lines after number c.                *)
Follows(lines, q, c) == \A i \in 1..Len(q) : Typed(lines, q[i]) /\ q[i][2] = c + i

(* The records ts given to write are what was typed, but for what is still *)
(* in stdin.                                                               *)
Given(lines, ts, q) ==
    /\ Lines(lines) /\ InOrder(lines, ts)
    /\ \A i \in 1..Len(ts) : Len(ts[i]) \in 1..(BUFFER_LENGTH - 1)
    /\ Follows(lines, q, Counted(ts))
    /\ Counted(ts) + Len(q) = Counted(lines)

Keyboard(p) == Given(typed[p], sent[p], stdin[p])

Connection(p) ==
    /\ kb[p] = "fgets" => out[p] = <<>>
    /\ reset[p] # "no" => Closed(Peer(p))

(* What is on its way to the child of s, from what it has already read to  *)
(* what its peer has still to send.  Without packets it is what was typed  *)
(* after the printed texts, up to the end of the last record unless the    *)
(* peer's parent has gone.                                                 *)
Stream(s) == got[s] \o (net[s] \o out[Peer(s)])

PlainStream(z, full, lines, ts, texts) ==
    /\ Follows(lines, z, Counted(texts))
    /\ full => Counted(texts) + Len(z) = Counted(ts)

Plain(s) ==
    mode # "packet" /\ sk[s] = "recv" =>
        PlainStream(Stream(s), kb[Peer(s)] # "gone", typed[Peer(s)], sent[Peer(s)], Text(s))

(* f is what the records ts make up in fixed-length: packet i ends at unit *)
(* cut[i].                                                                 *)
Packet(text) == htonl(Len(text)) \o text
Packed(ts, f, cut) ==
    /\ cut[0] = 0 /\ cut[Len(ts)] = Len(f)
    /\ \A i \in 1..Len(ts) :
          /\ cut[i] = cut[i - 1] + HEAD + Len(ts[i]) /\ cut[i] <= Len(f)
          /\ \A j \in 1..(HEAD + Len(ts[i])) : f[cut[i - 1] + j] = Packet(ts[i])[j]

(* z is the part of f behind its first c units.                            *)
Within(z, f, c) == c + Len(z) <= Len(f) /\ \A x \in 1..Len(z) : z[x] = f[c + x]

(* With packets it is a part of that, from the end of the k-th packet on.  *)
FramedStream(z, full, ts, k) ==
    \E f \in Seq(Unit) : \E cut \in [0..Len(ts) -> Nat] :
        /\ Packed(ts, f, cut) /\ Within(z, f, cut[k])
        /\ full => cut[k] + Len(z) = Len(f)

Framed(s) ==
    mode = "packet" /\ sk[s] = "recv" =>
        FramedStream(Stream(s), kb[Peer(s)] # "gone", sent[Peer(s)], Len(printed[s]))

(* What the child has read of a record.                                    *)
Partial(s) ==
    /\ mode = "raw" => got[s] = <<>>
    /\ mode = "line" => /\ Len(got[s]) <= BUFFER_LENGTH
                        /\ \A i \in 1..Len(got[s]) : ~Newline(got[s][i])

(* RecordsKept for records q, and no record is empty.                      *)
Texts(q) == [i \in 1..Len(q) |-> q[i].text]

SameUpTo(texts, ts) ==
    Len(texts) <= Len(ts) /\ \A i \in 1..Len(texts) : texts[i] = ts[i]

Shown(m, q, lines, ts) ==
    /\ InOrder(lines, Texts(q))
    /\ m = "packet" => SameUpTo(Texts(q), ts)
    /\ m = "line" => SameUpTo(Texts(q), lines)
    /\ \A i \in 1..Len(q) :
          /\ Len(q[i].text) > 0
          /\ q[i].over => m # "packet" /\ Len(q[i].text) = BUFFER_LENGTH

Printed(s) == Shown(mode, printed[s], typed[Peer(s)], sent[Peer(s)])

ChatInv ==
    /\ TypeOK
    /\ \A p \in Sides : Keyboard(p) /\ Connection(p)
    /\ \A s \in Sides : Plain(s) /\ Framed(s) /\ Partial(s) /\ Printed(s)
    /\ LeavesForReason

-----------------------------------------------------------------------------
(* Numbers and sequences.                                                  *)

(* A set of numbers has a least element, and Min is that one.              *)
LEMMA LeastOf ==
    ASSUME NEW T, T \subseteq Nat, T # {}
    PROVE  Min(T) \in T /\ \A j \in T : Min(T) <= j
<1>1. PICK k \in T : \A j \in T : ~(<<j, k>> \in OpToRel(<, Nat))
  BY NatLessThanWellFounded, WFMin, Zenon
<1>2. \A j \in T : <<j, k>> \in OpToRel(<, Nat) <=> j < k
  BY DEF OpToRel
<1>3. \A j \in T : ~(j < k)
  BY <1>1, <1>2, Zenon
<1>4. \E x \in T : \A j \in T : x <= j
  BY <1>3
<1> QED
  BY <1>4 DEF Min

LEMMA RestLength ==
    ASSUME NEW m \in Nat, NEW k \in Nat, k <= m
    PROVE  (IF k + 1 <= m THEN m - (k + 1) + 1 ELSE 0) = m - k
OBVIOUS

(* What read takes off the front of s, and what it leaves.                 *)
LEMMA Divided ==
    ASSUME NEW S, NEW s \in Seq(S), NEW n \in 0..Len(s)
    PROVE  /\ SubSeq(s, 1, n) \in Seq(S) /\ Len(SubSeq(s, 1, n)) = n
           /\ \A i \in 1..n : SubSeq(s, 1, n)[i] = s[i]
           /\ SubSeq(s, n + 1, Len(s)) \in Seq(S)
           /\ Len(SubSeq(s, n + 1, Len(s))) = Len(s) - n
           /\ \A i \in 1..(Len(s) - n) : SubSeq(s, n + 1, Len(s))[i] = s[n + i]
<1>1. Len(s) \in Nat /\ n \in Nat /\ n <= Len(s) /\ s \in [1..Len(s) -> S]
  BY LenProperties
<1>2. /\ SubSeq(s, 1, n) \in Seq(S)
      /\ Len(SubSeq(s, 1, n)) = IF 1 <= n THEN n - 1 + 1 ELSE 0
      /\ \A i \in 1..(n - 1 + 1) : SubSeq(s, 1, n)[i] = s[1 + i - 1]
  <2>1. \A i \in 1..n : s[i] \in S
    BY <1>1
  <2> QED
    BY <1>1, <2>1, SubSeqProperties
<1>3. /\ SubSeq(s, n + 1, Len(s)) \in Seq(S)
      /\ Len(SubSeq(s, n + 1, Len(s))) = IF n + 1 <= Len(s) THEN Len(s) - (n + 1) + 1 ELSE 0
      /\ \A i \in 1..(Len(s) - (n + 1) + 1) : SubSeq(s, n + 1, Len(s))[i] = s[n + 1 + i - 1]
  <2>1. \A i \in (n + 1)..Len(s) : s[i] \in S
    BY <1>1
  <2>2. n + 1 \in Int /\ Len(s) \in Int
    BY <1>1
  <2> QED
    BY <2>1, <2>2, SubSeqProperties
<1>4. Len(SubSeq(s, 1, n)) = n /\ \A i \in 1..n : SubSeq(s, 1, n)[i] = s[i]
  <2>1. n - 1 + 1 = n /\ \A i \in 1..n : 1 + i - 1 = i
    BY <1>1
  <2>2. (IF 1 <= n THEN n - 1 + 1 ELSE 0) = n
    BY <1>1
  <2> QED
    BY <1>2, <2>1, <2>2
<1>5. /\ Len(SubSeq(s, n + 1, Len(s))) = Len(s) - n
      /\ \A i \in 1..(Len(s) - n) : SubSeq(s, n + 1, Len(s))[i] = s[n + i]
  <2>1. Len(s) - (n + 1) + 1 = Len(s) - n /\ \A i \in 1..(Len(s) - n) : n + 1 + i - 1 = n + i
    BY <1>1
  <2>2. (IF n + 1 <= Len(s) THEN Len(s) - (n + 1) + 1 ELSE 0) = Len(s) - n
    <3>1. PICK m \in Nat, k \in Nat : m = Len(s) /\ k = n /\ k <= m
      BY <1>1
    <3>2. (IF k + 1 <= m THEN m - (k + 1) + 1 ELSE 0) = m - k
      BY <3>1, RestLength
    <3> QED
      BY <3>1, <3>2
  <2> QED
    BY <1>3, <2>1, <2>2
<1> QED
  BY <1>2, <1>3, <1>4, <1>5

(* Two sequences, one behind the other.                                    *)
LEMMA Joined ==
    ASSUME NEW S, NEW s \in Seq(S), NEW t \in Seq(S)
    PROVE  /\ s \o t \in Seq(S) /\ Len(s \o t) = Len(s) + Len(t)
           /\ Len(s) \in Nat /\ Len(t) \in Nat
           /\ \A i \in 1..Len(s) : (s \o t)[i] = s[i]
           /\ \A k \in 1..Len(t) : (s \o t)[Len(s) + k] = t[k]
           /\ \A i \in 1..Len(s \o t) : i \in 1..Len(s) \/ \E k \in 1..Len(t) : i = Len(s) + k
<1>1. Len(s) \in Nat /\ Len(t) \in Nat
  BY LenProperties
<1>2. /\ s \o t \in Seq(S) /\ Len(s \o t) = Len(s) + Len(t)
      /\ \A i \in 1..(Len(s) + Len(t)) : (s \o t)[i] = IF i <= Len(s) THEN s[i] ELSE t[i - Len(s)]
  BY ConcatProperties
<1>3. PICK m \in Nat, n \in Nat : m = Len(s) /\ n = Len(t)
  BY <1>1
<1>4. \A i \in 1..m : i \in 1..(m + n) /\ i <= m
  OBVIOUS
<1>5. \A k \in 1..n : m + k \in 1..(m + n) /\ ~(m + k <= m) /\ m + k - m = k
  OBVIOUS
<1>6. ASSUME NEW i \in 1..(m + n), i \notin 1..m
      PROVE  \E k \in 1..n : i = m + k
  <2>1. i - m \in 1..n /\ i = m + (i - m)
    BY <1>6
  <2> QED
    BY <2>1
<1> QED
  BY <1>1, <1>2, <1>3, <1>4, <1>5, <1>6

(* A sequence with one more element.                                       *)
LEMMA Appended ==
    ASSUME NEW S, NEW s \in Seq(S), NEW e \in S
    PROVE  /\ Append(s, e) \in Seq(S) /\ Len(Append(s, e)) = Len(s) + 1 /\ Len(s) \in Nat
           /\ \A i \in 1..Len(s) : Append(s, e)[i] = s[i]
           /\ Append(s, e)[Len(s) + 1] = e
           /\ \A i \in 1..Len(Append(s, e)) : i \in 1..Len(s) \/ i = Len(s) + 1
<1>1. Len(s) \in Nat
  BY LenProperties
<1>2. PICK m \in Nat : m = Len(s)
  BY <1>1
<1>3. /\ Append(s, e) \in Seq(S) /\ Len(Append(s, e)) = m + 1
      /\ \A i \in 1..m : Append(s, e)[i] = s[i]
      /\ Append(s, e)[m + 1] = e
  BY <1>2, AppendProperties
<1>4. \A i \in 1..(m + 1) : i \in 1..m \/ i = m + 1
  OBVIOUS
<1> QED
  BY <1>1, <1>2, <1>3, <1>4

(* The first newline of q.                                                 *)
LEMMA FirstNewline ==
    ASSUME NEW q \in Seq(Unit), NEW k, k = SelectInSeq(q, Newline)
    PROVE  \/ k = 0 /\ \A i \in 1..Len(q) : ~Newline(q[i])
           \/ k \in 1..Len(q) /\ Newline(q[k]) /\ \A i \in 1..Len(q) : i < k => ~Newline(q[i])
<1> DEFINE T == {i \in 1..Len(q) : Newline(q[i])}
<1>1. k = IF T # {} THEN Min(T) ELSE 0
  BY DEF SelectInSeq
<1>2. Len(q) \in Nat
  BY LenProperties
<1>3. T \subseteq Nat
  BY <1>2
<1>4. CASE T = {}
  BY <1>1, <1>4
<1>5. CASE T # {}
  <2> HIDE DEF T
  <2>1. k \in T /\ \A j \in T : k <= j
    BY <1>1, <1>3, <1>5, LeastOf
  <2>2. \A i \in T : k \in Nat /\ i \in Nat /\ ~(i < k)
    BY <2>1, <1>3
  <2> QED
    BY <2>1, <2>2 DEF T
<1> QED
  BY <1>4, <1>5

-----------------------------------------------------------------------------
(* The two sides, and the framing.                                         *)

LEMMA Peers ==
    ASSUME NEW s \in Sides
    PROVE  /\ Peer(s) \in Sides /\ Peer(s) # s /\ Peer(Peer(s)) = s
           /\ \A x \in Sides : x = s \/ x = Peer(s)
<1>1. IsFiniteSet(Sides) /\ Cardinality(Sides) = 2
  BY ChatAssumption
<1>2. IsFiniteSet(Sides \ {s}) /\ Cardinality(Sides \ {s}) = 1
  BY <1>1, FS_RemoveElement
<1>3. PICK p : Sides \ {s} = {p}
  BY <1>2, FS_Singleton
<1>4. p \in Sides /\ p # s /\ \A x \in Sides : x = s \/ x = p
  BY <1>3
<1>5. Peer(s) = p /\ Peer(p) = s
  BY <1>4 DEF Peer
<1> QED
  BY <1>4, <1>5

LEMMA Commute ==
    ASSUME NEW x \in Nat, NEW y \in Nat, NEW z \in Nat
    PROVE  x * y + z = y * x + z
OBVIOUS

(* The length in a packet's head is the length of its text.                *)
LEMMA HeadRead ==
    ASSUME NEW n \in Nat
    PROVE  \E x \in Nat, y \in Nat : x = n \div Base /\ y = n % Base /\ n = x * Base + y
<1>1. Base \in Nat \ {0}
  BY ChatAssumption
<1>2. PICK b \in Nat : b = Base /\ b > 0
  BY <1>1
<1>3. PICK x \in Nat, y \in Nat : x = n \div b /\ y = n % b
  BY <1>2
<1>4. n = b * (n \div b) + (n % b)
  BY <1>2
<1>5. n = b * x + y
  BY <1>3, <1>4
<1>6. n = x * b + y
  BY <1>5, Commute
<1> QED
  BY <1>2, <1>3, <1>6

LEMMA Packets ==
    ASSUME NEW t \in Seq(Unit)
    PROVE  /\ Packet(t) \in Seq(Unit) /\ Len(Packet(t)) = HEAD + Len(t) /\ Len(t) \in Nat
           /\ \A j \in 1..Len(t) : Packet(t)[HEAD + j] = t[j]
           /\ \A g : g[1] = Packet(t)[1] /\ g[2] = Packet(t)[2] => ntohl(g) = Len(t)
<1>1. Len(t) \in Nat
  BY LenProperties
<1>2. PICK n \in Nat : n = Len(t)
  BY <1>1
<1>3. PICK x \in Nat, y \in Nat : x = n \div Base /\ y = n % Base /\ n = x * Base + y
  BY HeadRead
<1>4. PICK h \in Seq(Unit) : h = htonl(n) /\ Len(h) = HEAD /\ h[1][2] = x /\ h[2][2] = y
  <2>1. <<"h", x>> \in Unit /\ <<"h", y>> \in Unit
    BY DEF Unit
  <2> DEFINE h == <<<<"h", x>>, <<"h", y>>>>
  <2>2. h \in Seq(Unit) /\ Len(h) = 2 /\ h[1][2] = x /\ h[2][2] = y
    BY <2>1
  <2>3. h = htonl(n)
    BY <1>3 DEF htonl
  <2> QED
    BY <2>2, <2>3 DEF HEAD
<1>5. /\ h \o t \in Seq(Unit) /\ Len(h \o t) = HEAD + Len(t)
      /\ \A i \in 1..HEAD : (h \o t)[i] = h[i]
      /\ \A k \in 1..Len(t) : (h \o t)[HEAD + k] = t[k]
  BY <1>4, Joined
<1>6. (h \o t)[1] = h[1] /\ (h \o t)[2] = h[2]
  BY <1>5 DEF HEAD
<1>7. ASSUME NEW g, g[1] = h[1], g[2] = h[2]
      PROVE  ntohl(g) = n
  <2>1. g[1][2] = x /\ g[2][2] = y
    BY <1>4, <1>7
  <2> QED
    BY <2>1, <1>3, Zenon DEF ntohl
<1> QED
  BY <1>1, <1>2, <1>4, <1>5, <1>6, <1>7 DEF Packet

-----------------------------------------------------------------------------
(* Texts and their units.                                                  *)

LEMMA TextsOf ==
    ASSUME NEW q \in Seq(Record)
    PROVE  /\ Texts(q) \in Seq(Seq(Unit)) /\ Len(Texts(q)) = Len(q)
           /\ \A i \in 1..Len(q) : Texts(q)[i] = q[i].text
<1>1. Len(q) \in Nat /\ \A i \in 1..Len(q) : q[i] \in Record
  BY LenProperties, ElementOfSeq
<1>2. PICK m \in Nat : m = Len(q)
  BY <1>1
<1>3. \A i \in 1..m : q[i].text \in Seq(Unit)
  BY <1>1, <1>2 DEF Record
<1>4. [i \in 1..m |-> q[i].text] \in Seq(Seq(Unit)) /\ Len([i \in 1..m |-> q[i].text]) = m
  BY <1>3
<1> QED
  BY <1>2, <1>4 DEF Texts

LEMMA CountedIs ==
    ASSUME NEW ts \in Seq(Seq(Unit))
    PROVE  Counted(ts) = EndOf(ts, Len(ts))
<1>1. Len(ts) = 0 <=> ts = <<>>
  BY EmptySeq
<1> QED
  BY <1>1 DEF Counted, EndOf, Last

LEMMA OneMoreEnd ==
    ASSUME NEW ts \in Seq(Seq(Unit)), NEW t \in Seq(Unit)
    PROVE  /\ \A i \in 0..Len(ts) : EndOf(Append(ts, t), i) = EndOf(ts, i)
           /\ EndOf(Append(ts, t), Len(ts) + 1) = t[Len(t)][2]
           /\ Counted(Append(ts, t)) = t[Len(t)][2]
<1>1. /\ Append(ts, t) \in Seq(Seq(Unit)) /\ Len(Append(ts, t)) = Len(ts) + 1 /\ Len(ts) \in Nat
      /\ \A i \in 1..Len(ts) : Append(ts, t)[i] = ts[i]
      /\ Append(ts, t)[Len(ts) + 1] = t
  BY Appended
<1>2. \A i \in 0..Len(ts) : i # 0 => i \in 1..Len(ts)
  BY <1>1
<1>3. \A i \in 0..Len(ts) : EndOf(Append(ts, t), i) = EndOf(ts, i)
  BY <1>1, <1>2 DEF EndOf
<1>4. Len(ts) + 1 # 0
  BY <1>1
<1>5. EndOf(Append(ts, t), Len(ts) + 1) = t[Len(t)][2]
  BY <1>1, <1>4 DEF EndOf
<1> QED
  BY <1>1, <1>3, <1>5, CountedIs

(* The number of a unit.                                                   *)
LEMMA UnitNumber == ASSUME NEW u \in Unit PROVE u[2] \in Nat
BY DEF Unit

LEMMA EndsAreNumbers ==
    ASSUME NEW ts \in Seq(Seq(Unit)), \A i \in 1..Len(ts) : Len(ts[i]) > 0, NEW i \in 0..Len(ts)
    PROVE  EndOf(ts, i) \in Nat /\ Counted(ts) \in Nat
<1>1. Len(ts) \in Nat
  BY LenProperties
<1>2. ASSUME NEW k \in 0..Len(ts)
      PROVE  EndOf(ts, k) \in Nat
  <2>1. CASE k = 0
    BY <2>1 DEF EndOf
  <2>2. CASE k # 0
    <3>1. k \in 1..Len(ts)
      BY <1>1, <2>2
    <3>2. PICK t \in Seq(Unit) : t = ts[k] /\ Len(t) > 0
      BY <3>1, ElementOfSeq
    <3>3. Len(t) \in 1..Len(t)
      BY <3>2, LenProperties
    <3>4. t[Len(t)] \in Unit
      BY <3>3, ElementOfSeq
    <3> QED
      BY <2>2, <3>2, <3>4, UnitNumber DEF EndOf
  <2> QED
    BY <2>1, <2>2
<1>3. Len(ts) \in 0..Len(ts)
  BY <1>1
<1> QED
  BY <1>2, <1>3, CountedIs

LEMMA InOrderIs ==
    ASSUME NEW lines, NEW ts \in Seq(Seq(Unit)), \A i \in 1..Len(ts) : Len(ts[i]) > 0
    PROVE  InOrder(lines, ts) <=>
             \A i \in 1..Len(ts) : \A j \in 1..Len(ts[i]) :
                 Typed(lines, ts[i][j]) /\ ts[i][j][2] = EndOf(ts, i - 1) + j
<1>1. Len(ts) \in Nat
  BY LenProperties
<1>2. ASSUME NEW i \in 1..Len(ts), NEW j \in 1..Len(ts[i])
      PROVE  (j + IF i = 1 THEN 0 ELSE Last(ts[i - 1])[2]) = EndOf(ts, i - 1) + j
  <2>1. i - 1 \in 0..Len(ts) /\ (i = 1 <=> i - 1 = 0)
    BY <1>1
  <2>2. EndOf(ts, i - 1) = IF i = 1 THEN 0 ELSE Last(ts[i - 1])[2]
    BY <2>1 DEF EndOf, Last
  <2>3. EndOf(ts, i - 1) \in Nat
    BY <2>1, EndsAreNumbers
  <2>4. j \in Nat
    <3>1. ts[i] \in Seq(Unit)
      BY ElementOfSeq
    <3> QED
      BY <3>1, LenProperties
  <2>5. j + EndOf(ts, i - 1) = EndOf(ts, i - 1) + j
    BY <2>3, <2>4
  <2> QED
    BY <2>2, <2>5
<1>3. ASSUME NEW i \in 1..Len(ts), NEW j \in 1..Len(ts[i])
      PROVE  ts[i][j][2] = (j + IF i = 1 THEN 0 ELSE Last(ts[i - 1])[2])
                <=> ts[i][j][2] = EndOf(ts, i - 1) + j
  BY <1>2, <1>3
<1> QED
  BY <1>3, Zenon DEF InOrder

(* One more text that goes on where the texts end.                         *)
LEMMA OneMoreText ==
    ASSUME NEW lines, NEW ts \in Seq(Seq(Unit)), \A i \in 1..Len(ts) : Len(ts[i]) > 0,
           NEW t \in Seq(Unit), Len(t) > 0,
           InOrder(lines, ts), Follows(lines, t, Counted(ts))
    PROVE  /\ InOrder(lines, Append(ts, t)) /\ Counted(Append(ts, t)) = Counted(ts) + Len(t)
           /\ \A i \in 1..Len(Append(ts, t)) : Len(Append(ts, t)[i]) > 0
<1> DEFINE u == Append(ts, t)
<1>1. /\ u \in Seq(Seq(Unit)) /\ Len(u) = Len(ts) + 1 /\ Len(ts) \in Nat
      /\ \A i \in 1..Len(ts) : u[i] = ts[i]
      /\ u[Len(ts) + 1] = t
      /\ \A i \in 1..Len(u) : i \in 1..Len(ts) \/ i = Len(ts) + 1
  BY Appended
<1>2. /\ \A i \in 0..Len(ts) : EndOf(u, i) = EndOf(ts, i)
      /\ Counted(u) = t[Len(t)][2]
  BY OneMoreEnd
<1>3. Counted(ts) = EndOf(ts, Len(ts)) /\ Counted(ts) \in Nat
  <2>1. Len(ts) \in 0..Len(ts)
    BY <1>1
  <2> QED
    BY <2>1, CountedIs, EndsAreNumbers
<1> HIDE DEF u
<1>4. \A i \in 1..Len(u) : Len(u[i]) > 0
  BY <1>1
<1>5. Counted(u) = Counted(ts) + Len(t)
  <2>1. Len(t) \in 1..Len(t)
    BY LenProperties
  <2> QED
    BY <1>2, <2>1 DEF Follows
<1>6. ASSUME NEW i \in 1..Len(u), NEW j \in 1..Len(u[i])
      PROVE  Typed(lines, u[i][j]) /\ u[i][j][2] = EndOf(u, i - 1) + j
  <2>1. CASE i \in 1..Len(ts)
    <3>1. i - 1 \in 0..Len(ts)
      BY <1>1, <2>1
    <3>2. u[i] = ts[i] /\ EndOf(u, i - 1) = EndOf(ts, i - 1)
      BY <1>1, <1>2, <2>1, <3>1
    <3> QED
      BY <2>1, <3>2, InOrderIs
  <2>2. CASE i = Len(ts) + 1
    <3>1. i - 1 = Len(ts) /\ Len(ts) \in 0..Len(ts)
      BY <1>1, <2>2
    <3>2. u[i] = t /\ EndOf(u, i - 1) = Counted(ts)
      BY <1>1, <1>2, <1>3, <2>2, <3>1
    <3> QED
      BY <3>2 DEF Follows
  <2> QED
    BY <1>1, <2>1, <2>2
<1>7. InOrder(lines, u)
  BY <1>1, <1>4, <1>6, InOrderIs
<1> QED
  BY <1>4, <1>5, <1>7 DEF u

-----------------------------------------------------------------------------
(* The lines of a user.                                                    *)

LEMMA MoreTyped ==
    ASSUME NEW ls \in Seq(Seq(Unit)), NEW l \in Seq(Unit)
    PROVE  /\ \A u : Typed(ls, u) => Typed(Append(ls, l), u)
           /\ \A ts : InOrder(ls, ts) => InOrder(Append(ls, l), ts)
           /\ \A q, c : Follows(ls, q, c) => Follows(Append(ls, l), q, c)
<1>1. /\ Len(Append(ls, l)) = Len(ls) + 1 /\ Len(ls) \in Nat
      /\ \A i \in 1..Len(ls) : Append(ls, l)[i] = ls[i]
  BY Appended
<1>2. \A i \in 1..Len(ls) : i \in 1..Len(Append(ls, l))
  BY <1>1
<1>3. \A u : Typed(ls, u) => Typed(Append(ls, l), u)
  BY <1>1, <1>2 DEF Typed
<1> QED
  BY <1>3 DEF InOrder, Follows

(* A new line.                                                             *)
LEMMA NewLine ==
    ASSUME NEW n \in Nat \ {0}, NEW c \in Nat
    PROVE  \E l \in Seq(Unit) :
              /\ l = [i \in 1..n |-> <<IF i = n THEN "n" ELSE "c", c + i>>]
              /\ Len(l) = n /\ Line(l, c)
<1>1. \A i \in 1..n : <<IF i = n THEN "n" ELSE "c", c + i>> \in Unit
  BY DEF Unit
<1> DEFINE l == [i \in 1..n |-> <<IF i = n THEN "n" ELSE "c", c + i>>]
<1>2. l \in [1..n -> Unit]
  BY <1>1
<1>3. l \in Seq(Unit) /\ Len(l) = n
  BY <1>2
<1> QED
  BY <1>3 DEF Line

LEMMA AtMost == ASSUME NEW x \in Nat, NEW y \in Nat, NEW z \in Nat, x <= y PROVE x <= y + z
OBVIOUS

LEMMA OneMoreLine ==
    ASSUME NEW ls \in Seq(Seq(Unit)), Lines(ls), NEW n \in Nat \ {0}, NEW l \in Seq(Unit),
           Len(l) = n, Line(l, Counted(ls))
    PROVE  /\ Lines(Append(ls, l)) /\ Counted(Append(ls, l)) = Counted(ls) + n
           /\ Follows(Append(ls, l), l, Counted(ls))
<1>1. Len(ls) \in Nat /\ \A i \in 1..Len(ls) : Len(ls[i]) > 0
  BY LenProperties DEF Lines
<1>2. Counted(ls) = EndOf(ls, Len(ls)) /\ Counted(ls) \in Nat
  <2>1. Len(ls) \in 0..Len(ls)
    BY <1>1
  <2> QED
    BY <1>1, <2>1, CountedIs, EndsAreNumbers
<1>3. PICK c \in Nat : c = Counted(ls)
  BY <1>2
<1>4. \A i \in 1..n : l[i] = <<IF i = n THEN "n" ELSE "c", c + i>>
  BY <1>3 DEF Line
<1>5. PICK m \in Nat, as \in Seq(Seq(Unit)) : m = Len(ls) /\ as = Append(ls, l)
  BY <1>1, <1>4, Appended
<1>6. /\ Len(as) = m + 1 /\ as[m + 1] = l
      /\ \A i \in 1..m : as[i] = ls[i]
      /\ \A i \in 1..Len(as) : i \in 1..m \/ i = m + 1
  BY <1>4, <1>5, Appended
<1>7. /\ \A i \in 0..m : EndOf(as, i) = EndOf(ls, i)
      /\ EndOf(as, m + 1) = l[n][2] /\ Counted(as) = l[n][2]
  BY <1>4, <1>5, OneMoreEnd
<1>8. l[n][2] = c + n
  <2>1. n \in 1..n
    OBVIOUS
  <2> QED
    BY <1>4, <2>1
<1>9. \A i \in 0..m : EndOf(as, i) \in Nat /\ EndOf(as, i) <= c
  <2>1. m \in 0..m /\ \A i \in 0..m : i <= m
    OBVIOUS
  <2>2. \A i \in 0..m : EndOf(ls, i) \in Nat
    BY <1>1, <1>5, EndsAreNumbers
  <2>3. \A i \in 0..m : EndOf(ls, i) <= EndOf(ls, m)
    BY <1>5, <2>1 DEF Lines
  <2> QED
    BY <1>2, <1>3, <1>5, <1>7, <2>2, <2>3
<1>10. ASSUME NEW i \in 1..Len(as)
       PROVE  /\ Len(as[i]) > 0
              /\ Line(as[i], EndOf(as, i - 1))
  <2>1. CASE i \in 1..m
    <3>1. i - 1 \in 0..m
      BY <2>1
    <3>2. as[i] = ls[i] /\ EndOf(as, i - 1) = EndOf(ls, i - 1)
      BY <1>6, <1>7, <2>1, <3>1
    <3> QED
      BY <1>5, <2>1, <3>2, Zenon DEF Lines
  <2>2. CASE i = m + 1
    <3>1. i - 1 = m /\ m \in 0..m
      BY <2>2
    <3>2. EndOf(as, i - 1) = c
      BY <1>2, <1>3, <1>5, <1>7, <3>1
    <3>3. Len(l) > 0
      OBVIOUS
    <3> QED
      BY <1>3, <1>6, <2>2, <3>2, <3>3, Zenon
  <2> QED
    BY <1>6, <2>1, <2>2
<1>11. ASSUME NEW i \in 0..Len(as), NEW k \in 0..Len(as), i <= k
       PROVE  EndOf(as, i) <= EndOf(as, k)
  <2>1. CASE k \in 0..m
    <3>1. i \in 0..m
      BY <2>1, <1>11
    <3> QED
      BY <1>5, <1>7, <1>11, <2>1, <3>1 DEF Lines
  <2>2. CASE k = m + 1 /\ i = m + 1
    <3>1. c + n <= c + n
      OBVIOUS
    <3> QED
      BY <1>7, <1>8, <2>2, <3>1
  <2>3. CASE k = m + 1 /\ i \in 0..m
    <3>1. PICK e \in Nat : e = EndOf(as, i) /\ e <= c
      BY <1>9, <2>3
    <3>2. EndOf(as, k) = c + n
      BY <1>7, <1>8, <2>3
    <3>3. e <= c + n
      BY <3>1, AtMost
    <3> QED
      BY <3>1, <3>2, <3>3
  <2>4. \A y \in 0..(m + 1) : y \in 0..m \/ y = m + 1
    OBVIOUS
  <2> QED
    BY <1>6, <2>1, <2>2, <2>3, <2>4
<1>12. Lines(as)
  BY <1>10, <1>11 DEF Lines
<1>13. Follows(as, l, c)
  <2>1. ASSUME NEW i \in 1..n
        PROVE  Typed(as, l[i]) /\ l[i][2] = c + i
    <3>1. m + 1 \in 1..Len(as)
      BY <1>6
    <3>2. Typed(as, l[i])
      BY <1>6, <3>1 DEF Typed
    <3> QED
      BY <1>4, <3>2
  <2> QED
    BY <1>4, <2>1 DEF Follows
<1> QED
  BY <1>3, <1>4, <1>5, <1>7, <1>8, <1>12, <1>13

(* A number is that of one unit only.                                      *)
LEMMA OneUnit ==
    ASSUME NEW ls \in Seq(Seq(Unit)), Lines(ls),
           NEW i \in 1..Len(ls), NEW j \in 1..Len(ls[i]),
           NEW k \in 1..Len(ls), NEW x \in 1..Len(ls[k]),
           ls[i][j][2] = EndOf(ls, k - 1) + x
    PROVE  i = k /\ j = x
<1>1. PICK m \in Nat : m = Len(ls)
  BY LenProperties
<1>2. \A y \in 1..m : ls[y] \in Seq(Unit) /\ Len(ls[y]) \in Nat
  BY <1>1, ElementOfSeq, LenProperties
<1>3. PICK a \in Nat, b \in Nat, c \in Nat, d \in Nat, e \in Nat, g \in Nat :
        /\ a = EndOf(ls, i - 1) /\ b = EndOf(ls, i) /\ e = Len(ls[i])
        /\ c = EndOf(ls, k - 1) /\ d = EndOf(ls, k) /\ g = Len(ls[k])
  <2>1. i - 1 \in 0..m /\ i \in 0..m /\ k - 1 \in 0..m /\ k \in 0..m
    BY <1>1
  <2> QED
    BY <1>1, <1>2, <2>1, EndsAreNumbers DEF Lines
<1>4. \A y \in 1..m : EndOf(ls, y) = EndOf(ls, y - 1) + Len(ls[y])
  <2>1. SUFFICES ASSUME NEW y \in 1..m
                 PROVE  EndOf(ls, y) = EndOf(ls, y - 1) + Len(ls[y])
    OBVIOUS
  <2>2. PICK h \in Nat : h = Len(ls[y]) /\ h \in 1..h
    BY <1>1, <1>2 DEF Lines
  <2>3. ls[y][h] = <<IF h = Len(ls[y]) THEN "n" ELSE "c", EndOf(ls, y - 1) + h>>
    BY <1>1, <2>2 DEF Lines, Line
  <2>4. ls[y][Len(ls[y])][2] = EndOf(ls, y - 1) + Len(ls[y])
    BY <2>2, <2>3
  <2>5. y # 0
    OBVIOUS
  <2> QED
    BY <2>4, <2>5 DEF EndOf
<1>5. b = a + e /\ d = c + g
  BY <1>1, <1>3, <1>4
<1>6. j \in 1..e /\ x \in 1..g /\ ls[i][j][2] = a + j
  <2>1. ls[i][j] = <<IF j = Len(ls[i]) THEN "n" ELSE "c", EndOf(ls, i - 1) + j>>
    BY DEF Lines, Line
  <2> QED
    BY <1>3, <2>1
<1>7. a + j = c + x
  BY <1>3, <1>6
<1>8. i < k => b <= c
  <2>1. i < k => i \in 0..m /\ k - 1 \in 0..m /\ i <= k - 1
    BY <1>1
  <2> QED
    BY <1>1, <1>3, <2>1 DEF Lines
<1>9. k < i => d <= a
  <2>1. k < i => k \in 0..m /\ i - 1 \in 0..m /\ k <= i - 1
    BY <1>1
  <2> QED
    BY <1>1, <1>3, <2>1 DEF Lines
<1>10. ~(i < k) /\ ~(k < i)
  BY <1>5, <1>6, <1>7, <1>8, <1>9
<1>11. i = k
  BY <1>1, <1>10
<1>12. a = c
  BY <1>3, <1>11
<1> QED
  BY <1>6, <1>7, <1>11, <1>12

(* What follows the first lines is the next one.                           *)
LEMMA NextLine ==
    ASSUME NEW ls \in Seq(Seq(Unit)), Lines(ls), NEW texts \in Seq(Seq(Unit)), SameUpTo(texts, ls),
           NEW z \in Seq(Unit), Len(z) > 0, Follows(ls, z, Counted(texts))
    PROVE  /\ Len(texts) + 1 \in 1..Len(ls)
           /\ \A x \in 1..Len(z) : x \in 1..Len(ls[Len(texts) + 1]) => z[x] = ls[Len(texts) + 1][x]
<1>1. PICK m \in Nat, k \in Nat, n \in Nat : m = Len(ls) /\ k = Len(texts) /\ n = Len(z) /\ n > 0 /\ k <= m
  BY LenProperties DEF SameUpTo
<1>2. Counted(texts) = EndOf(ls, k)
  <2>1. k # 0 => k \in 1..k
    BY <1>1
  <2> QED
    BY <1>1, <2>1, CountedIs DEF EndOf, SameUpTo
<1>3. \A i \in 0..m : EndOf(ls, i) \in Nat
  BY <1>1, EndsAreNumbers DEF Lines
<1>4. PICK c \in Nat : c = EndOf(ls, k)
  <2>1. k \in 0..m
    BY <1>1
  <2> QED
    BY <2>1, <1>3
<1>5. \A x \in 1..n : Typed(ls, z[x]) /\ z[x][2] = c + x
  BY <1>1, <1>2, <1>4 DEF Follows
<1>6. k < m
  <2>1. SUFFICES ASSUME ~(k < m) PROVE FALSE
    OBVIOUS
  <2>2. k = m
    BY <1>1, <2>1
  <2>3. 1 \in 1..n
    BY <1>1
  <2>4. PICK i \in 1..m : \E j \in 1..Len(ls[i]) : ls[i][j] = z[1]
    BY <1>1, <1>5, <2>3 DEF Typed
  <2>5. PICK j \in 1..Len(ls[i]) : ls[i][j] = z[1]
    BY <2>4
  <2>6. ls[i][j][2] = c + 1
    BY <1>5, <2>3, <2>5
  <2>7. PICK e \in Nat, g \in Nat, h \in Nat :
            e = EndOf(ls, i - 1) /\ g = EndOf(ls, i) /\ h = Len(ls[i]) /\ j \in 1..h
    <3>1. i - 1 \in 0..m /\ i \in 0..m
      OBVIOUS
    <3>2. Len(ls[i]) \in Nat
      BY <1>1, ElementOfSeq, LenProperties
    <3> QED
      BY <1>3, <3>1, <3>2
  <2>8. ls[i][j][2] = e + j
    <3>1. ls[i][j] = <<IF j = Len(ls[i]) THEN "n" ELSE "c", EndOf(ls, i - 1) + j>>
      BY <1>1 DEF Lines, Line
    <3> QED
      BY <2>7, <3>1
  <2>9. g = e + h
    <3>1. h \in 1..Len(ls[i]) /\ i # 0
      BY <2>7
    <3>2. ls[i][h] = <<IF h = Len(ls[i]) THEN "n" ELSE "c", EndOf(ls, i - 1) + h>>
      BY <1>1, <3>1 DEF Lines, Line
    <3> QED
      BY <2>7, <3>1, <3>2 DEF EndOf
  <2>10. g <= c
    <3>1. i \in 0..m /\ m \in 0..m /\ i <= m
      OBVIOUS
    <3> QED
      BY <1>1, <1>4, <2>2, <2>7, <3>1 DEF Lines
  <2> QED
    BY <2>6, <2>7, <2>8, <2>9, <2>10
<1>7. k + 1 \in 1..m /\ (k + 1) - 1 = k
  BY <1>1, <1>6
<1>8. ASSUME NEW x \in 1..n, x \in 1..Len(ls[k + 1])
      PROVE  z[x] = ls[k + 1][x]
  <2>1. PICK i \in 1..Len(ls) : \E j \in 1..Len(ls[i]) : ls[i][j] = z[x]
    BY <1>5 DEF Typed
  <2>2. PICK j \in 1..Len(ls[i]) : ls[i][j] = z[x]
    BY <2>1
  <2>3. ls[i][j][2] = EndOf(ls, (k + 1) - 1) + x
    BY <1>4, <1>5, <1>7, <2>2
  <2>4. PICK w \in 1..Len(ls) : w = k + 1
    BY <1>1, <1>7
  <2>5. PICK y \in 1..Len(ls[w]) : y = x
    BY <1>8, <2>4
  <2>6. ls[i][j][2] = EndOf(ls, w - 1) + y
    BY <2>3, <2>4, <2>5
  <2>7. i = w /\ j = y
    BY <2>6, OneUnit
  <2> QED
    BY <2>2, <2>4, <2>5, <2>7
<1> QED
  BY <1>1, <1>7, <1>8

(* Up to a newline it is that line, and without one the line is longer.    *)
LEMMA WholeLine ==
    ASSUME NEW ls \in Seq(Seq(Unit)), Lines(ls), NEW texts \in Seq(Seq(Unit)), SameUpTo(texts, ls),
           NEW z \in Seq(Unit), Len(z) > 0, Follows(ls, z, Counted(texts)),
           \A i \in 1..Len(z) : i < Len(z) => ~Newline(z[i])
    PROVE  /\ Len(texts) + 1 \in 1..Len(ls)
           /\ Newline(z[Len(z)]) => z = ls[Len(texts) + 1]
           /\ ~Newline(z[Len(z)]) => Len(ls[Len(texts) + 1]) > Len(z)
<1>1. /\ Len(texts) + 1 \in 1..Len(ls)
      /\ \A x \in 1..Len(z) : x \in 1..Len(ls[Len(texts) + 1]) => z[x] = ls[Len(texts) + 1][x]
  BY NextLine
<1>2. PICK l \in Seq(Unit) : l = ls[Len(texts) + 1]
  BY <1>1, ElementOfSeq
<1>3. PICK n \in Nat, h \in Nat : n = Len(z) /\ h = Len(l) /\ n > 0 /\ h > 0
  BY <1>1, <1>2, LenProperties DEF Lines
<1>4. \A x \in 1..n : x \in 1..h => z[x] = l[x]
  BY <1>1, <1>2, <1>3
<1>5. \A x \in 1..h : Newline(l[x]) <=> x = h
  <2>1. \A x \in 1..h : l[x] = <<IF x = h THEN "n" ELSE "c", EndOf(ls, (Len(texts) + 1) - 1) + x>>
    BY <1>1, <1>2, <1>3 DEF Lines, Line
  <2>2. \A x \in 1..h : l[x][1] = IF x = h THEN "n" ELSE "c"
    BY <2>1
  <2> QED
    BY <2>2 DEF Newline
<1>6. ~(h < n)
  <2>1. SUFFICES ASSUME h < n PROVE FALSE
    OBVIOUS
  <2>2. h \in 1..n /\ h \in 1..h
    BY <1>3, <2>1
  <2>3. Newline(z[h])
    BY <1>4, <1>5, <2>2
  <2> QED
    BY <1>3, <2>1, <2>2, <2>3
<1>7. n \in 1..n /\ n \in 1..h
  BY <1>3, <1>6
<1>8. Newline(z[n]) <=> n = h
  BY <1>4, <1>5, <1>7
<1>9. CASE n = h
  <2>1. z = l
    BY <1>3, <1>4, <1>9, SeqEqual
  <2> QED
    BY <1>1, <1>2, <1>3, <1>8, <1>9, <2>1
<1>10. CASE n # h
  <2>1. h > n
    BY <1>6, <1>10
  <2> QED
    BY <1>1, <1>2, <1>3, <1>8, <1>10, <2>1
<1> QED
  BY <1>9, <1>10

-----------------------------------------------------------------------------
(* The stream.                                                             *)

LEMMA Assoc ==
    ASSUME NEW a \in Seq(Unit), NEW b \in Seq(Unit), NEW c \in Seq(Unit)
    PROVE  (a \o b) \o c = a \o (b \o c)
BY ConcatAssociative

LEMMA Concat ==
    ASSUME NEW a \in Seq(Unit), NEW b \in Seq(Unit)
    PROVE  a \o b \in Seq(Unit) /\ Len(a \o b) = Len(a) + Len(b)
BY ConcatProperties

LEMMA Parted ==
    ASSUME NEW q \in Seq(Unit), NEW n \in 0..Len(q)
    PROVE  SubSeq(q, 1, n) \o SubSeq(q, n + 1, Len(q)) = q
<1>1. 1 \in 1..(Len(q) + 1) /\ n \in (1 - 1)..Len(q) /\ Len(q) \in n..Len(q)
  BY LenProperties
<1>2. SubSeq(q, 1, n) \o SubSeq(q, n + 1, Len(q)) = SubSeq(q, 1, Len(q))
  BY <1>1, ConcatAdjacentSubSeq, Zenon
<1> QED
  BY <1>2, SubSeqFull

LEMMA OutLast ==
    ASSUME NEW g \in Seq(Unit), NEW w \in Seq(Unit), NEW o \in Seq(Unit)
    PROVE  g \o (w \o <<>>) \in Seq(Unit) /\ (g \o (w \o <<>>)) \o o = g \o (w \o o)
<1>1. w \o <<>> = w
  BY ConcatEmptySeq
<1>2. (g \o w) \o o = g \o (w \o o) /\ g \o w \in Seq(Unit)
  BY Assoc, Concat
<1> QED
  BY <1>1, <1>2

LEMMA FollowsJoined ==
    ASSUME NEW lines, NEW a \in Seq(Unit), NEW b \in Seq(Unit), NEW c \in Nat
    PROVE  Follows(lines, a \o b, c) <=> Follows(lines, a, c) /\ Follows(lines, b, c + Len(a))
<1>1. PICK z \in Seq(Unit) : z = a \o b
  BY ConcatProperties
<1>2. PICK m \in Nat, n \in Nat : m = Len(a) /\ n = Len(b)
  BY LenProperties
<1>3. /\ Len(z) = m + n
      /\ \A i \in 1..m : z[i] = a[i]
      /\ \A k \in 1..n : z[m + k] = b[k]
      /\ \A i \in 1..Len(z) : i \in 1..m \/ \E k \in 1..n : i = m + k
  <2>1. /\ Len(a \o b) = m + n
        /\ \A i \in 1..m : (a \o b)[i] = a[i]
        /\ \A k \in 1..n : (a \o b)[m + k] = b[k]
        /\ \A i \in 1..Len(a \o b) : i \in 1..m \/ \E k \in 1..n : i = m + k
    BY <1>2, Joined
  <2> QED
    BY <1>1, <2>1
<1>4. \A k \in 1..n : c + (m + k) = (c + m) + k /\ m + k \in 1..(m + n)
  OBVIOUS
<1>5. \A i \in 1..m : i \in 1..(m + n)
  OBVIOUS
<1>6. ASSUME Follows(lines, z, c)
      PROVE  Follows(lines, a, c) /\ Follows(lines, b, c + m)
  <2>1. \A i \in 1..(m + n) : Typed(lines, z[i]) /\ z[i][2] = c + i
    BY <1>3, <1>6 DEF Follows
  <2>2. \A i \in 1..m : Typed(lines, a[i]) /\ a[i][2] = c + i
    BY <1>3, <1>5, <2>1
  <2>3. \A k \in 1..n : Typed(lines, b[k]) /\ b[k][2] = (c + m) + k
    BY <1>3, <1>4, <2>1
  <2> QED
    BY <1>2, <2>2, <2>3 DEF Follows
<1>7. ASSUME Follows(lines, a, c), Follows(lines, b, c + m)
      PROVE  Follows(lines, z, c)
  <2>1. \A i \in 1..m : Typed(lines, z[i]) /\ z[i][2] = c + i
    BY <1>2, <1>3, <1>7 DEF Follows
  <2>2. \A k \in 1..n : Typed(lines, z[m + k]) /\ z[m + k][2] = c + (m + k)
    BY <1>2, <1>3, <1>4, <1>7 DEF Follows
  <2>3. \A i \in 1..Len(z) : Typed(lines, z[i]) /\ z[i][2] = c + i
    BY <1>3, <2>1, <2>2
  <2> QED
    BY <2>3 DEF Follows
<1> QED
  BY <1>1, <1>2, <1>6, <1>7

(* A record more is on its way.                                            *)
LEMMA PlainMore ==
    ASSUME NEW lines, NEW ts \in Seq(Seq(Unit)), NEW texts, NEW z \in Seq(Unit), NEW t \in Seq(Unit),
           Counted(texts) \in Nat, Counted(ts) \in Nat,
           PlainStream(z, TRUE, lines, ts, texts), Follows(lines, t, Counted(ts)),
           Counted(Append(ts, t)) = Counted(ts) + Len(t), NEW full
    PROVE  PlainStream(z \o t, full, lines, Append(ts, t), texts)
<1>1. PICK c \in Nat, e \in Nat : c = Counted(texts) /\ e = Counted(ts)
  OBVIOUS
<1>2. PICK m \in Nat, n \in Nat : m = Len(z) /\ n = Len(t) /\ Len(z \o t) = m + n
  BY LenProperties, Concat
<1>3. c + m = e /\ Follows(lines, z, c)
  BY <1>1, <1>2 DEF PlainStream
<1>4. Follows(lines, z \o t, c)
  BY <1>1, <1>2, <1>3, FollowsJoined
<1>5. c + (m + n) = e + n
  BY <1>3
<1> QED
  BY <1>1, <1>2, <1>4, <1>5 DEF PlainStream

(* The end of the stream is lost.                                          *)
LEMMA PlainLess ==
    ASSUME NEW lines, NEW ts, NEW texts, NEW z \in Seq(Unit), NEW t \in Seq(Unit),
           Counted(texts) \in Nat, Follows(lines, z \o t, Counted(texts))
    PROVE  PlainStream(z, FALSE, lines, ts, texts)
BY FollowsJoined DEF PlainStream

LEMMA Behind ==
    ASSUME NEW a \in Seq(Unit), NEW b \in Seq(Unit), NEW z, z = a \o b,
           NEW m \in Nat, NEW n \in Nat, m = Len(a), n = Len(b)
    PROVE  /\ z \in Seq(Unit) /\ Len(z) = m + n
           /\ \A i \in 1..m : z[i] = a[i]
           /\ \A k \in 1..n : z[m + k] = b[k]
           /\ \A i \in 1..Len(z) : i \in 1..m \/ \E k \in 1..n : i = m + k
BY Joined

LEMMA FramedMore ==
    ASSUME NEW ts \in Seq(Seq(Unit)), NEW t \in Seq(Unit), NEW k \in 0..Len(ts), NEW z \in Seq(Unit),
           FramedStream(z, TRUE, ts, k), NEW full
    PROVE  FramedStream(z \o Packet(t), full, Append(ts, t), k)
<1>1. PICK f \in Seq(Unit) : \E cut \in [0..Len(ts) -> Nat] :
          Packed(ts, f, cut) /\ Within(z, f, cut[k]) /\ cut[k] + Len(z) = Len(f)
  BY DEF FramedStream
<1>2. PICK cut \in [0..Len(ts) -> Nat] :
          Packed(ts, f, cut) /\ Within(z, f, cut[k]) /\ cut[k] + Len(z) = Len(f)
  BY <1>1
<1>3. PICK u \in Seq(Unit), n \in Nat : u = Packet(t) /\ n = HEAD + Len(t) /\ Len(u) = n
  BY Packets DEF HEAD
<1>4. PICK m \in Nat, l \in Nat, y \in Nat, b \in Nat :
          m = Len(ts) /\ l = Len(f) /\ y = Len(z) /\ b = cut[k]
  <2>1. Len(ts) \in Nat /\ Len(f) \in Nat /\ Len(z) \in Nat
    BY LenProperties
  <2>2. cut[k] \in Nat
    OBVIOUS
  <2> QED
    BY <2>1, <2>2
<1>5. b + y = l
  BY <1>2, <1>4
<1>6. k \in 0..m
  BY <1>4
<1>7. PICK f2 \in Seq(Unit), z2 \in Seq(Unit), as \in Seq(Seq(Unit)) :
          f2 = f \o u /\ z2 = z \o u /\ as = Append(ts, t)
  BY Concat, Appended
<1>8. /\ Len(as) = m + 1 /\ as[m + 1] = t
      /\ \A i \in 1..m : as[i] = ts[i]
      /\ \A i \in 1..Len(as) : i \in 1..m \/ i = m + 1
  BY <1>4, <1>7, Appended
<1>9. /\ Len(f2) = l + n
      /\ \A i \in 1..l : f2[i] = f[i]
      /\ \A j \in 1..n : f2[l + j] = u[j]
  <2>1. f2 = f \o u /\ l = Len(f) /\ n = Len(u)
    BY <1>3, <1>4, <1>7
  <2> QED
    BY <2>1, Behind
<1>10. /\ Len(z2) = y + n
       /\ \A i \in 1..y : z2[i] = z[i]
       /\ \A j \in 1..n : z2[y + j] = u[j]
       /\ \A i \in 1..Len(z2) : i \in 1..y \/ \E j \in 1..n : i = y + j
  <2>1. z2 = z \o u /\ y = Len(z) /\ n = Len(u)
    BY <1>3, <1>4, <1>7
  <2>2. /\ Len(z2) = y + n
        /\ \A i \in 1..y : z2[i] = z[i]
        /\ \A j \in 1..n : z2[y + j] = u[j]
    BY <2>1, Behind
  <2>3. ASSUME NEW i \in 1..(y + n), i \notin 1..y
        PROVE  \E j \in 1..n : i = y + j
    <3>1. i - y \in 1..n /\ i = y + (i - y)
      BY <2>3
    <3> QED
      BY <3>1
  <2> QED
    BY <2>2, <2>3
<1> DEFINE d == [i \in 0..(m + 1) |-> IF i = m + 1 THEN l + n ELSE cut[i]]
<1>11. d \in [0..(m + 1) -> Nat] /\ d[m + 1] = l + n /\ \A i \in 0..m : d[i] = cut[i] /\ cut[i] \in Nat
  <2>1. \A i \in 0..(m + 1) : i # m + 1 => i \in 0..m
    OBVIOUS
  <2>2. \A i \in 0..m : cut[i] \in Nat /\ i # m + 1 /\ i \in 0..(m + 1)
    <3>1. \A i \in 0..m : cut[i] \in Nat
      BY <1>4
    <3>2. \A i \in 0..m : i # m + 1 /\ i \in 0..(m + 1)
      OBVIOUS
    <3> QED
      BY <3>1, <3>2
  <2> QED
    BY <2>1, <2>2
<1> HIDE DEF d
<1>12. /\ cut[0] = 0 /\ cut[m] = l
       /\ \A i \in 1..m :
             /\ cut[i] = cut[i - 1] + HEAD + Len(ts[i]) /\ cut[i] <= l
             /\ \A j \in 1..(HEAD + Len(ts[i])) : f[cut[i - 1] + j] = Packet(ts[i])[j]
  BY <1>2, <1>4 DEF Packed
<1>13. d[0] = 0 /\ d[Len(as)] = Len(f2)
  <2>1. 0 \in 0..m
    OBVIOUS
  <2> QED
    BY <1>8, <1>9, <1>11, <1>12, <2>1
<1>14. ASSUME NEW i \in 1..Len(as)
       PROVE  /\ d[i] = d[i - 1] + HEAD + Len(as[i]) /\ d[i] <= Len(f2)
              /\ \A j \in 1..(HEAD + Len(as[i])) : f2[d[i - 1] + j] = Packet(as[i])[j]
  <2>1. CASE i \in 1..m
    <3>1. i - 1 \in 0..m /\ i \in 0..m
      BY <2>1
    <3>2. d[i] = cut[i] /\ d[i - 1] = cut[i - 1] /\ as[i] = ts[i]
      BY <1>8, <1>11, <2>1, <3>1
    <3>3. PICK a \in Nat, e \in Nat, h \in Nat :
              a = cut[i - 1] /\ e = cut[i] /\ h = HEAD + Len(ts[i])
      <4>1. PICK x \in Nat : x = Len(ts[i])
        BY <1>4, <2>1, ElementOfSeq, LenProperties
      <4>2. PICK h \in Nat : h = HEAD + x
        BY DEF HEAD
      <4>3. cut[i - 1] \in Nat /\ cut[i] \in Nat
        BY <1>11, <3>1
      <4> QED
        BY <4>1, <4>2, <4>3
    <3>4. e = a + h
      <4>1. PICK x \in Nat : x = Len(ts[i])
        BY <1>4, <2>1, ElementOfSeq, LenProperties
      <4>2. h = 2 + x /\ e = a + 2 + x
        BY <1>12, <2>1, <3>3, <4>1 DEF HEAD
      <4> QED
        BY <4>2
    <3>5. e <= l /\ \A j \in 1..h : f[a + j] = Packet(ts[i])[j]
      BY <1>12, <2>1, <3>3
    <3>6. e <= l + n /\ \A j \in 1..h : a + j \in 1..l
      BY <3>4, <3>5
    <3>7. \A j \in 1..h : f2[a + j] = Packet(ts[i])[j]
      BY <1>9, <3>5, <3>6
    <3>8. cut[i] = cut[i - 1] + HEAD + Len(ts[i])
      BY <1>12, <2>1
    <3> QED
      BY <1>9, <3>2, <3>3, <3>6, <3>7, <3>8
  <2>2. CASE i = m + 1
    <3>1. i - 1 = m /\ m \in 0..m
      BY <2>2
    <3>2. d[i] = l + n /\ d[i - 1] = l /\ as[i] = t
      BY <1>8, <1>11, <1>12, <2>2, <3>1
    <3>3. l + n = l + HEAD + Len(t)
      <4>1. PICK x \in Nat : x = Len(t)
        BY LenProperties
      <4>2. n = 2 + x
        BY <1>3, <4>1 DEF HEAD
      <4>3. l + n = l + 2 + x
        BY <4>2
      <4> QED
        BY <4>1, <4>3 DEF HEAD
    <3>4. l + n <= l + n
      OBVIOUS
    <3> QED
      BY <1>3, <1>9, <3>2, <3>3, <3>4
  <2> QED
    BY <1>8, <2>1, <2>2
<1>15. Packed(as, f2, d)
  BY <1>13, <1>14 DEF Packed
<1>16. d[k] = b
  BY <1>4, <1>6, <1>11
<1>17. b + Len(z2) = Len(f2)
  <2>1. b + (y + n) = l + n
    BY <1>5
  <2> QED
    BY <1>9, <1>10, <2>1
<1>18. ASSUME NEW x \in 1..Len(z2)
       PROVE  z2[x] = f2[b + x]
  <2>1. CASE x \in 1..y
    <3>1. z[x] = f[b + x]
      BY <1>2, <1>4, <2>1 DEF Within
    <3>2. b + x \in 1..l
      BY <1>5, <2>1
    <3> QED
      BY <1>9, <1>10, <2>1, <3>1, <3>2
  <2>2. ASSUME NEW j \in 1..n, x = y + j
        PROVE  z2[x] = f2[b + x]
    <3>1. b + (y + j) = l + j
      BY <1>5
    <3>2. z2[y + j] = u[j]
      BY <1>10
    <3>3. f2[l + j] = u[j]
      BY <1>9
    <3> QED
      BY <2>2, <3>1, <3>2, <3>3
  <2> QED
    BY <1>10, <2>1, <2>2
<1>19. Within(z2, f2, d[k])
  BY <1>16, <1>17, <1>18, <1>9 DEF Within
<1> QED
  BY <1>3, <1>7, <1>8, <1>11, <1>15, <1>16, <1>17, <1>19 DEF FramedStream

LEMMA FramedLess ==
    ASSUME NEW ts \in Seq(Seq(Unit)), NEW k \in 0..Len(ts), NEW z \in Seq(Unit), NEW t \in Seq(Unit),
           FramedStream(z \o t, FALSE, ts, k)
    PROVE  FramedStream(z, FALSE, ts, k)
<1>1. PICK f \in Seq(Unit) : \E cut \in [0..Len(ts) -> Nat] :
          Packed(ts, f, cut) /\ Within(z \o t, f, cut[k])
  BY DEF FramedStream
<1>2. PICK cut \in [0..Len(ts) -> Nat] : Packed(ts, f, cut) /\ Within(z \o t, f, cut[k])
  BY <1>1
<1>3. PICK b \in Nat, y \in Nat, n \in Nat, l \in Nat :
          b = cut[k] /\ y = Len(z) /\ n = Len(t) /\ l = Len(f)
  BY LenProperties
<1>4. Len(z \o t) = y + n /\ \A i \in 1..y : (z \o t)[i] = z[i]
  BY <1>3, Joined
<1>5. b + (y + n) <= l /\ \A x \in 1..(y + n) : (z \o t)[x] = f[b + x]
  BY <1>2, <1>3, <1>4 DEF Within
<1>6. b + y <= l /\ \A x \in 1..y : x \in 1..(y + n)
  BY <1>5
<1>7. Within(z, f, cut[k])
  BY <1>3, <1>4, <1>5, <1>6 DEF Within
<1> QED
  BY <1>2, <1>7 DEF FramedStream

(* A complete packet is the next record.                                   *)
LEMMA FramedTaken ==
    ASSUME NEW ts \in Seq(Seq(Unit)), NEW k \in 0..Len(ts), NEW g \in Seq(Unit), NEW z \in Seq(Unit),
           NEW full, FramedStream(g \o z, full, ts, k), PacketComplete(g)
    PROVE  /\ k + 1 \in 1..Len(ts) /\ SubSeq(g, HEAD + 1, Len(g)) = ts[k + 1]
           /\ FramedStream(z, full, ts, k + 1)
<1>1. PICK f \in Seq(Unit) : \E cut \in [0..Len(ts) -> Nat] :
          Packed(ts, f, cut) /\ Within(g \o z, f, cut[k]) /\ (full => cut[k] + Len(g \o z) = Len(f))
  BY DEF FramedStream
<1>2. PICK cut \in [0..Len(ts) -> Nat] :
          Packed(ts, f, cut) /\ Within(g \o z, f, cut[k]) /\ (full => cut[k] + Len(g \o z) = Len(f))
  BY <1>1
<1>3. PICK m \in Nat, l \in Nat, y \in Nat, b \in Nat, n \in Nat :
          m = Len(ts) /\ l = Len(f) /\ y = Len(z) /\ b = cut[k] /\ n = Len(g)
  <2>1. Len(ts) \in Nat /\ Len(f) \in Nat /\ Len(z) \in Nat /\ Len(g) \in Nat
    BY LenProperties
  <2>2. cut[k] \in Nat
    OBVIOUS
  <2> QED
    BY <2>1, <2>2
<1>4. n >= 2 /\ n = HEAD + ntohl(g)
  BY <1>3 DEF PacketComplete, HEAD
<1>5. /\ Len(g \o z) = n + y
      /\ \A i \in 1..n : (g \o z)[i] = g[i]
      /\ \A j \in 1..y : (g \o z)[n + j] = z[j]
  BY <1>3, Joined
<1>6. b + (n + y) <= l /\ \A x \in 1..(n + y) : (g \o z)[x] = f[b + x]
  BY <1>2, <1>3, <1>5 DEF Within
<1>7. \A i \in 1..n : g[i] = f[b + i]
  <2>1. \A i \in 1..n : i \in 1..(n + y)
    OBVIOUS
  <2> QED
    BY <1>5, <1>6, <2>1
<1>8. \A j \in 1..y : z[j] = f[b + (n + j)]
  <2>1. \A j \in 1..y : n + j \in 1..(n + y)
    OBVIOUS
  <2> QED
    BY <1>5, <1>6, <2>1
<1>9. k + 1 \in 1..m /\ (k + 1) - 1 = k
  <2>1. cut[m] = l
    BY <1>2, <1>3 DEF Packed
  <2>2. b # l
    BY <1>4, <1>6
  <2>3. k # m
    BY <1>3, <2>1, <2>2
  <2>4. k \in 0..m
    BY <1>3
  <2> QED
    BY <2>3, <2>4
<1>10. PICK t \in Seq(Unit), h \in Nat : t = ts[k + 1] /\ h = Len(t)
  BY <1>3, <1>9, ElementOfSeq, LenProperties
<1>11. PICK u \in Seq(Unit) : /\ u = Packet(t) /\ \A j \in 1..h : u[2 + j] = t[j]
                              /\ g[1] = u[1] /\ g[2] = u[2] => ntohl(g) = h
  BY <1>10, Packets DEF HEAD
<1>12. cut[k + 1] = b + 2 + h /\ \A j \in 1..(2 + h) : f[b + j] = u[j]
  BY <1>2, <1>3, <1>9, <1>10, <1>11 DEF Packed, HEAD
<1>13. g[1] = u[1] /\ g[2] = u[2]
  <2>1. 1 \in 1..n /\ 2 \in 1..n /\ 1 \in 1..(2 + h) /\ 2 \in 1..(2 + h)
    BY <1>4
  <2> QED
    BY <1>7, <1>12, <2>1
<1>14. n = 2 + h
  BY <1>4, <1>11, <1>13 DEF HEAD
<1>15. SubSeq(g, HEAD + 1, Len(g)) = t
  <2>1. 2 \in 0..Len(g) /\ Len(g) - 2 = h
    BY <1>3, <1>14
  <2>2. /\ SubSeq(g, 2 + 1, Len(g)) \in Seq(Unit)
        /\ Len(SubSeq(g, 2 + 1, Len(g))) = Len(g) - 2
        /\ \A i \in 1..(Len(g) - 2) : SubSeq(g, 2 + 1, Len(g))[i] = g[2 + i]
    BY <2>1, Divided
  <2>3. PICK q \in Seq(Unit) : /\ q = SubSeq(g, 2 + 1, Len(g))
                               /\ Len(q) = h /\ \A i \in 1..h : q[i] = g[2 + i]
    BY <2>1, <2>2
  <2>4. \A i \in 1..h : 2 + i \in 1..n /\ 2 + i \in 1..(2 + h)
    BY <1>14
  <2>5. ASSUME NEW i \in 1..h
        PROVE  q[i] = t[i]
    <3>1. PICK x \in 1..n : x = 2 + i /\ x \in 1..(2 + h)
      BY <2>4
    <3>2. q[i] = g[x] /\ u[x] = t[i]
      BY <1>11, <2>3, <3>1
    <3>3. g[x] = f[b + x] /\ f[b + x] = u[x]
      BY <1>7, <1>12, <3>1
    <3> QED
      BY <3>2, <3>3
  <2>6. Len(q) = Len(t) /\ \A i \in 1..Len(q) : q[i] = t[i]
    BY <1>10, <2>3, <2>5
  <2>7. q = t
    BY <2>6, SeqEqual
  <2> QED
    BY <2>3, <2>7 DEF HEAD
<1>16. PICK e \in Nat : e = cut[k + 1] /\ e = b + n
  BY <1>12, <1>14
<1>17. e + y <= l /\ \A j \in 1..y : z[j] = f[e + j]
  <2>1. \A j \in 1..y : b + (n + j) = e + j
    BY <1>16
  <2>2. e + y <= l
    BY <1>6, <1>16
  <2> QED
    BY <1>8, <2>1, <2>2
<1>18. full => e + y = l
  <2>1. full => b + (n + y) = l
    BY <1>2, <1>3, <1>5
  <2>2. b + (n + y) = e + y
    BY <1>16
  <2> QED
    BY <2>1, <2>2
<1>19. Within(z, f, cut[k + 1])
  BY <1>3, <1>16, <1>17 DEF Within
<1>20. FramedStream(z, full, ts, k + 1)
  BY <1>2, <1>3, <1>16, <1>18, <1>19 DEF FramedStream
<1> QED
  BY <1>3, <1>9, <1>10, <1>15, <1>20

-----------------------------------------------------------------------------
(* Records given and printed.                                              *)

(* fgets returns something, and leaves room for the terminator.            *)
LEMMA Fetched ==
    ASSUME NEW q \in Seq(Unit), q # <<>>
    PROVE  fgets(q) \in 1..Len(q) /\ fgets(q) \in 1..(BUFFER_LENGTH - 1)
<1>1. PICK m \in Nat : m = Len(q) /\ m > 0
  BY EmptySeq
<1>2. PICK k : k = SelectInSeq(q, Newline)
  OBVIOUS
<1>3. k = 0 \/ k \in 1..m
  BY <1>1, <1>2, FirstNewline
<1>4. PICK n \in 1..m : n = IF k = 0 THEN m ELSE k
  BY <1>1, <1>3
<1>5. fgets(q) = IF n < BUFFER_LENGTH THEN n ELSE BUFFER_LENGTH - 1
  BY <1>1, <1>2, <1>4 DEF fgets
<1>6. BUFFER_LENGTH \in Nat /\ BUFFER_LENGTH > 1
  BY ChatAssumption
<1>7. CASE n < BUFFER_LENGTH
  <2>1. n \in 1..(BUFFER_LENGTH - 1)
    BY <1>6, <1>7
  <2> QED
    BY <1>1, <1>5, <1>7, <2>1
<1>8. CASE ~(n < BUFFER_LENGTH)
  <2>1. BUFFER_LENGTH - 1 \in 1..m /\ BUFFER_LENGTH - 1 \in 1..(BUFFER_LENGTH - 1)
    BY <1>6, <1>8
  <2> QED
    BY <1>1, <1>5, <1>8, <2>1
<1> QED
  BY <1>7, <1>8

LEMMA GivenCounts ==
    ASSUME NEW ls \in Seq(Seq(Unit)), NEW ts \in Seq(Seq(Unit)), NEW q, Given(ls, ts, q)
    PROVE  /\ Counted(ts) \in Nat /\ Counted(ls) \in Nat
           /\ \A i \in 1..Len(ts) : Len(ts[i]) > 0
<1>1. BUFFER_LENGTH \in Nat
  BY ChatAssumption
<1>2. \A i \in 1..Len(ts) : Len(ts[i]) > 0
  BY <1>1 DEF Given
<1>3. \A i \in 1..Len(ls) : Len(ls[i]) > 0
  BY DEF Given, Lines
<1>4. 0 \in 0..Len(ts) /\ 0 \in 0..Len(ls)
  BY LenProperties
<1> QED
  BY <1>2, <1>3, <1>4, EndsAreNumbers

(* The user types a line.                                                  *)
LEMMA GivenLine ==
    ASSUME NEW ls \in Seq(Seq(Unit)), NEW ts \in Seq(Seq(Unit)), Given(ls, ts, <<>>),
           NEW n \in Nat \ {0}, NEW l \in Seq(Unit), Len(l) = n, Line(l, Counted(ls))
    PROVE  Given(Append(ls, l), ts, l)
<1>1. PICK c \in Nat : c = Counted(ts) /\ c = Counted(ls)
  <2>1. Counted(ts) \in Nat /\ Len(<<>>) = 0 /\ Counted(ts) + Len(<<>>) = Counted(ls)
    BY GivenCounts, EmptySeq DEF Given
  <2>2. PICK c \in Nat : c = Counted(ts)
    BY <2>1
  <2>3. c + 0 = c
    OBVIOUS
  <2> QED
    BY <2>1, <2>2, <2>3
<1>2. /\ Lines(Append(ls, l)) /\ Counted(Append(ls, l)) = c + n
      /\ Follows(Append(ls, l), l, c)
  BY <1>1, OneMoreLine DEF Given
<1>3. InOrder(Append(ls, l), ts)
  BY MoreTyped DEF Given
<1> QED
  BY <1>1, <1>2, <1>3 DEF Given

(* fgets takes the front of what was typed.                                *)
LEMMA GivenRecord ==
    ASSUME NEW ls \in Seq(Seq(Unit)), NEW ts \in Seq(Seq(Unit)), NEW t \in Seq(Unit), NEW q \in Seq(Unit),
           Given(ls, ts, t \o q), Len(t) \in 1..(BUFFER_LENGTH - 1)
    PROVE  /\ Given(ls, Append(ts, t), q) /\ Follows(ls, t, Counted(ts))
           /\ Counted(Append(ts, t)) = Counted(ts) + Len(t)
<1>1. PICK c \in Nat, e \in Nat : c = Counted(ts) /\ e = Counted(ls)
  BY GivenCounts
<1>2. PICK m \in Nat, n \in Nat : m = Len(t) /\ n = Len(q) /\ Len(t \o q) = m + n /\ m > 0
  <2>1. BUFFER_LENGTH \in Nat
    BY ChatAssumption
  <2> QED
    BY <2>1, LenProperties, Concat
<1>3. c + (m + n) = e
  BY <1>1, <1>2 DEF Given
<1>4. Follows(ls, t, c) /\ Follows(ls, q, c + m)
  BY <1>1, <1>2, FollowsJoined DEF Given
<1>5. \A i \in 1..Len(ts) : Len(ts[i]) > 0
  BY GivenCounts
<1>6. InOrder(ls, Append(ts, t)) /\ Counted(Append(ts, t)) = c + m
  BY <1>1, <1>2, <1>4, <1>5, OneMoreText DEF Given
<1>7. \A i \in 1..Len(Append(ts, t)) : Len(Append(ts, t)[i]) \in 1..(BUFFER_LENGTH - 1)
  <2>1. /\ \A i \in 1..Len(ts) : Append(ts, t)[i] = ts[i]
        /\ Append(ts, t)[Len(ts) + 1] = t
        /\ \A i \in 1..Len(Append(ts, t)) : i \in 1..Len(ts) \/ i = Len(ts) + 1
    BY Appended
  <2> QED
    BY <2>1 DEF Given
<1>8. (c + m) + n = e
  BY <1>3
<1> QED
  BY <1>1, <1>2, <1>4, <1>6, <1>7, <1>8 DEF Given

LEMMA TextsMore ==
    ASSUME NEW q \in Seq(Record), NEW r \in Record
    PROVE  Texts(Append(q, r)) = Append(Texts(q), r.text)
<1>1. PICK a \in Seq(Record), x \in Seq(Seq(Unit)), t \in Seq(Unit) :
          a = Append(q, r) /\ x = Texts(q) /\ t = r.text
  BY Appended, TextsOf DEF Record
<1>2. PICK m \in Nat : m = Len(q)
  BY LenProperties
<1>3. /\ Len(a) = m + 1 /\ a[m + 1] = r /\ \A i \in 1..m : a[i] = q[i]
      /\ \A i \in 1..Len(a) : i \in 1..m \/ i = m + 1
  BY <1>1, <1>2, Appended
<1>4. Len(x) = m /\ \A i \in 1..m : x[i] = q[i].text
  BY <1>1, <1>2, TextsOf
<1>5. PICK y \in Seq(Seq(Unit)), z \in Seq(Seq(Unit)) : y = Texts(a) /\ z = Append(x, t)
  BY TextsOf, Appended
<1>6. Len(y) = m + 1 /\ \A i \in 1..Len(a) : y[i] = a[i].text
  BY <1>3, <1>5, TextsOf
<1>7. Len(z) = m + 1 /\ z[m + 1] = t /\ \A i \in 1..m : z[i] = x[i]
  BY <1>4, <1>5, Appended
<1>8. ASSUME NEW i \in 1..Len(y)
      PROVE  y[i] = z[i]
  <2>1. i \in 1..Len(a) /\ y[i] = a[i].text
    BY <1>3, <1>6
  <2>2. CASE i \in 1..m
    BY <1>3, <1>4, <1>7, <2>1, <2>2
  <2>3. CASE i = m + 1
    BY <1>1, <1>3, <1>7, <2>1, <2>3
  <2> QED
    BY <1>3, <2>1, <2>2, <2>3
<1>9. y = z
  BY <1>6, <1>7, <1>8, SeqEqual
<1> QED
  BY <1>1, <1>5, <1>9

LEMMA ShownCounts ==
    ASSUME NEW m, NEW q \in Seq(Record), NEW ls, NEW ts, Shown(m, q, ls, ts)
    PROVE  /\ \A i \in 1..Len(Texts(q)) : Len(Texts(q)[i]) > 0
           /\ Counted(Texts(q)) \in Nat
<1>1. Texts(q) \in Seq(Seq(Unit)) /\ Len(Texts(q)) = Len(q) /\ \A i \in 1..Len(q) : Texts(q)[i] = q[i].text
  BY TextsOf
<1>2. \A i \in 1..Len(Texts(q)) : Len(Texts(q)[i]) > 0
  BY <1>1 DEF Shown
<1>3. 0 \in 0..Len(Texts(q))
  BY <1>1, LenProperties
<1> QED
  BY <1>1, <1>2, <1>3, EndsAreNumbers

(* The texts so far are the first records: the next one goes on with them. *)
LEMMA NextRecord ==
    ASSUME NEW ls, NEW ts \in Seq(Seq(Unit)), \A i \in 1..Len(ts) : Len(ts[i]) > 0, InOrder(ls, ts),
           NEW texts \in Seq(Seq(Unit)), SameUpTo(texts, ts), Len(texts) + 1 \in 1..Len(ts)
    PROVE  Follows(ls, ts[Len(texts) + 1], Counted(texts))
<1>1. PICK k \in Nat : k = Len(texts)
  BY LenProperties
<1>2. Counted(texts) = EndOf(ts, k)
  <2>1. k # 0 => k \in 1..k
    OBVIOUS
  <2> QED
    BY <1>1, <2>1, CountedIs DEF EndOf, SameUpTo
<1>3. k + 1 \in 1..Len(ts) /\ (k + 1) - 1 = k
  BY <1>1
<1>4. \A j \in 1..Len(ts[k + 1]) : Typed(ls, ts[k + 1][j]) /\ ts[k + 1][j][2] = EndOf(ts, k) + j
  BY <1>3, InOrderIs
<1> QED
  BY <1>1, <1>2, <1>4 DEF Follows

(* A record is printed.                                                    *)
NextShown(m, q, ls, ts, r, t) ==
    /\ t = r.text /\ Len(t) > 0
    /\ Follows(ls, t, Counted(Texts(q)))
    /\ m = "packet" => Len(q) + 1 \in 1..Len(ts) /\ t = ts[Len(q) + 1]
    /\ m = "line" => Len(q) + 1 \in 1..Len(ls) /\ t = ls[Len(q) + 1]
    /\ r.over => m # "packet" /\ Len(t) = BUFFER_LENGTH

LEMMA ShownMore ==
    ASSUME NEW m, NEW q \in Seq(Record), NEW ls \in Seq(Seq(Unit)), NEW ts \in Seq(Seq(Unit)),
           Shown(m, q, ls, ts), NEW r \in Record, NEW t \in Seq(Unit),
           NextShown(m, q, ls, ts, r, t), NEW a \in Seq(Record), a = Append(q, r)
    PROVE  Shown(m, a, ls, ts)
<1>1. /\ t = r.text /\ Len(t) > 0
      /\ Follows(ls, t, Counted(Texts(q)))
      /\ m = "packet" => Len(q) + 1 \in 1..Len(ts) /\ t = ts[Len(q) + 1]
      /\ m = "line" => Len(q) + 1 \in 1..Len(ls) /\ t = ls[Len(q) + 1]
      /\ r.over => m # "packet" /\ Len(t) = BUFFER_LENGTH
  BY DEF NextShown
<1>2. PICK n \in Nat : n = Len(q)
  BY LenProperties
<1>3. /\ Len(a) = n + 1 /\ a[n + 1] = r /\ \A i \in 1..n : a[i] = q[i]
      /\ \A i \in 1..Len(a) : i \in 1..n \/ i = n + 1
  BY <1>2, Appended
<1>4. PICK x \in Seq(Seq(Unit)) : x = Texts(q) /\ Len(x) = n /\ \A i \in 1..n : x[i] = q[i].text
  BY <1>2, TextsOf
<1>5. Texts(a) = Append(x, t)
  BY <1>1, <1>4, TextsMore
<1>6. \A i \in 1..Len(x) : Len(x[i]) > 0
  BY <1>4, ShownCounts
<1>7. InOrder(ls, Append(x, t)) /\ Counted(Append(x, t)) = Counted(x) + Len(t)
  BY <1>1, <1>4, <1>6, OneMoreText DEF Shown
<1>8. PICK y \in Seq(Seq(Unit)) : y = Append(x, t)
  BY Appended
<1>9. /\ Len(y) = n + 1 /\ y[n + 1] = t /\ \A i \in 1..n : y[i] = x[i]
      /\ \A i \in 1..Len(y) : i \in 1..n \/ i = n + 1
  BY <1>4, <1>8, Appended
<1>10. ASSUME NEW w \in Seq(Seq(Unit)), SameUpTo(x, w), n + 1 \in 1..Len(w), t = w[n + 1]
       PROVE  SameUpTo(y, w)
  <2>1. n + 1 <= Len(w)
    BY <1>10, LenProperties
  <2>2. \A i \in 1..Len(y) : y[i] = w[i]
    BY <1>4, <1>9, <1>10 DEF SameUpTo
  <2> QED
    BY <1>9, <2>1, <2>2 DEF SameUpTo
<1>11. m = "packet" => SameUpTo(y, ts)
  BY <1>1, <1>2, <1>4, <1>10 DEF Shown
<1>12. m = "line" => SameUpTo(y, ls)
  BY <1>1, <1>2, <1>4, <1>10 DEF Shown
<1>13. \A i \in 1..Len(a) : /\ Len(a[i].text) > 0
                            /\ a[i].over => m # "packet" /\ Len(a[i].text) = BUFFER_LENGTH
  BY <1>1, <1>2, <1>3 DEF Shown
<1>14. Shown(m, a, ls, ts)
  BY <1>5, <1>7, <1>8, <1>11, <1>12, <1>13 DEF Shown
<1> QED
  BY <1>4, <1>5, <1>7, <1>14

(* What was printed stays right when more is typed and given to write.     *)
LEMMA ShownLater ==
    ASSUME NEW m, NEW q \in Seq(Record), NEW ls \in Seq(Seq(Unit)), NEW ts \in Seq(Seq(Unit)),
           Shown(m, q, ls, ts), NEW t \in Seq(Unit)
    PROVE  Shown(m, q, Append(ls, t), ts) /\ Shown(m, q, ls, Append(ts, t))
<1>1. ASSUME NEW w \in Seq(Seq(Unit)), SameUpTo(Texts(q), w)
      PROVE  SameUpTo(Texts(q), Append(w, t))
  <2>1. PICK n \in Nat, k \in Nat : n = Len(w) /\ k = Len(Texts(q)) /\ k <= n
    BY <1>1, TextsOf, LenProperties DEF SameUpTo
  <2>2. Len(Append(w, t)) = n + 1 /\ \A i \in 1..n : Append(w, t)[i] = w[i]
    BY <2>1, Appended
  <2>3. k <= n + 1 /\ \A i \in 1..k : i \in 1..n
    BY <2>1
  <2> QED
    BY <1>1, <2>1, <2>2, <2>3 DEF SameUpTo
<1>2. InOrder(Append(ls, t), Texts(q))
  BY MoreTyped DEF Shown
<1> QED
  BY <1>1, <1>2 DEF Shown

-----------------------------------------------------------------------------
(* The invariant holds at the start.                                       *)

LEMMA ChatInit == Init => ChatInv
<1> SUFFICES ASSUME Init PROVE ChatInv
  OBVIOUS
<1> DEFINE none == [s \in Sides |-> <<>>]
<1>1. <<>> \in Seq(Unit) /\ <<>> \in Seq(Seq(Unit)) /\ <<>> \in Seq(Record) /\ Len(<<>>) = 0
  BY EmptySeq
<1>2. TypeOK
  BY <1>1 DEF Init, TypeOK
<1>3. Counted(<<>>) = 0
  BY DEF Counted
<1>4. Texts(<<>>) = <<>>
  BY <1>1 DEF Texts
<1>5. \A i \in 1..0 : FALSE
  OBVIOUS
<1>6. Given(<<>>, <<>>, <<>>)
  <2>1. Lines(<<>>)
    BY <1>1 DEF Lines, EndOf
  <2>2. InOrder(<<>>, <<>>) /\ Follows(<<>>, <<>>, 0)
    BY <1>1, <1>5 DEF InOrder, Follows
  <2> QED
    BY <1>1, <1>3, <1>5, <2>1, <2>2 DEF Given
<1>7. \A m : Shown(m, <<>>, <<>>, <<>>)
  <2>1. InOrder(<<>>, <<>>) /\ SameUpTo(<<>>, <<>>)
    BY <1>1, <1>5 DEF InOrder, SameUpTo
  <2> QED
    BY <1>1, <1>4, <1>5, <2>1 DEF Shown
<1>8. ASSUME NEW s \in Sides
      PROVE  Keyboard(s) /\ Connection(s) /\ Partial(s) /\ Printed(s)
  <2>1. Peer(s) \in Sides
    BY Peers
  <2>2. BUFFER_LENGTH \in Nat
    BY ChatAssumption
  <2>3. Partial(s)
    BY <1>1, <1>5, <2>2 DEF Init, Partial
  <2> QED
    BY <1>6, <1>7, <2>1, <2>3 DEF Init, Keyboard, Connection, Printed
<1>9. ASSUME NEW s \in Sides
      PROVE  Plain(s) /\ Framed(s)
  <2>1. Peer(s) \in Sides
    BY Peers
  <2>2. Stream(s) = <<>>
    <3>1. <<>> \o (<<>> \o <<>>) = <<>>
      BY <1>1, ConcatEmptySeq
    <3> QED
      BY <2>1, <3>1 DEF Init, Stream
  <2>3. Text(s) = <<>> /\ typed[Peer(s)] = <<>> /\ sent[Peer(s)] = <<>> /\ Len(printed[s]) = 0
    <3>1. Text(s) = Texts(printed[s])
      BY DEF Text, Texts
    <3> QED
      BY <1>1, <1>4, <2>1, <3>1 DEF Init
  <2>4. \A full : PlainStream(<<>>, full, <<>>, <<>>, <<>>)
    BY <1>1, <1>3, <1>5 DEF PlainStream, Follows
  <2>5. \A full : FramedStream(<<>>, full, <<>>, 0)
    <3> DEFINE d == [i \in 0..0 |-> 0]
    <3>1. d \in [0..Len(<<>>) -> Nat] /\ d[0] = 0
      BY <1>1
    <3>2. Packed(<<>>, <<>>, d)
      BY <1>1, <1>5, <3>1 DEF Packed
    <3>3. Within(<<>>, <<>>, d[0]) /\ d[0] + Len(<<>>) = Len(<<>>)
      BY <1>1, <1>5, <3>1 DEF Within
    <3> HIDE DEF d
    <3> QED
      BY <1>1, <3>1, <3>2, <3>3 DEF FramedStream
  <2> QED
    BY <2>2, <2>3, <2>4, <2>5 DEF Plain, Framed
<1>10. LeavesForReason
  BY DEF Init, LeavesForReason
<1> QED
  BY <1>2, <1>8, <1>9, <1>10 DEF ChatInv

-----------------------------------------------------------------------------
(* What the processes of a side do to each other and to the connection.    *)

LEMMA BecomeEffect ==
    ASSUME TypeOK, NEW s \in Sides, NEW k \in {"fgets", "write", "gone"},
           NEW c \in {"recv", "quit", "failed", "gone"}, Become(s, k, c)
    PROVE  /\ kb' \in [Sides -> {"fgets", "write", "gone"}]
           /\ sk' \in [Sides -> {"recv", "quit", "failed", "gone"}]
           /\ net' \in [Sides -> Seq(Unit)]
           /\ reset' \in [Sides -> {"no", "pending", "seen"}]
           /\ kb'[s] = k /\ kb'[Peer(s)] = kb[Peer(s)]
           /\ sk'[s] = c /\ sk'[Peer(s)] = sk[Peer(s)]
           /\ net'[Peer(s)] = net[Peer(s)] /\ (c = "recv" => net'[s] = net[s])
           /\ reset'[s] = reset[s]
           /\ reset'[Peer(s)] # reset[Peer(s)] => reset[Peer(s)] = "no" /\ k = "gone" /\ c # "recv"
<1>1. Peer(s) \in Sides /\ Peer(s) # s
  BY Peers
<1>2. kb' = [kb EXCEPT ![s] = k] /\ sk' = [sk EXCEPT ![s] = c]
  BY DEF Become
<1>3. /\ kb' \in [Sides -> {"fgets", "write", "gone"}]
      /\ sk' \in [Sides -> {"recv", "quit", "failed", "gone"}]
      /\ kb'[s] = k /\ kb'[Peer(s)] = kb[Peer(s)]
      /\ sk'[s] = c /\ sk'[Peer(s)] = sk[Peer(s)]
  BY <1>1, <1>2 DEF TypeOK
<1>4. CASE k = "gone" /\ c # "recv"
  <2>1. net' = [net EXCEPT ![s] = <<>>] /\ <<>> \in Seq(Unit)
    BY <1>4, EmptySeq DEF Become
  <2>2. net' \in [Sides -> Seq(Unit)] /\ net'[Peer(s)] = net[Peer(s)]
    BY <1>1, <2>1 DEF TypeOK
  <2>3. (reset' = [reset EXCEPT ![Peer(s)] = "pending"] /\ reset[Peer(s)] = "no") \/ reset' = reset
    BY <1>4 DEF Become
  <2>4. /\ reset' \in [Sides -> {"no", "pending", "seen"}] /\ reset'[s] = reset[s]
        /\ reset'[Peer(s)] # reset[Peer(s)] => reset[Peer(s)] = "no"
    BY <1>1, <2>3 DEF TypeOK
  <2> QED
    BY <1>3, <1>4, <2>2, <2>4
<1>5. CASE ~(k = "gone" /\ c # "recv")
  <2>1. net' = net /\ reset' = reset
    BY <1>5 DEF Become
  <2> QED
    BY <1>3, <2>1 DEF TypeOK
<1> QED
  BY <1>4, <1>5

(* The actions that only move or lose what is on its way.                  *)
Moves(s) == \/ writen(s) \/ WriteFails(s) \/ BrokenPipe(s) \/ KeyboardEnds(s)
            \/ Interrupt(s) \/ handle_sigusr1(s) \/ SeesEnd(s) \/ SeesError(s)

LEMMA StepIs ==
    ASSUME Next
    PROVE  \E s \in Sides : \/ Moves(s) \/ recv_keyboard(s) \/ recv_socket(s)
                            \/ \E n \in Lengths[s] : Type(s, n)
BY DEF Next, Parent, Child, User, Moves

(* What Become does for the end of a parent, or of both processes.         *)
Ends(s) == \E c \in {"recv", "quit", "failed", "gone"} :
              /\ Become(s, "gone", c) /\ (c = "recv" => sk[s] = "recv")
              /\ c = "quit" => sk[s] = "quit"
              /\ out' = [out EXCEPT ![s] = <<>>]
              /\ got' = got /\ sigusr1' = sigusr1
Leaves(s) == \E c \in {"quit", "failed"} :
              /\ sk[s] = "recv" /\ Become(s, kb[s], c) /\ out' = out
              /\ got' = [got EXCEPT ![s] = <<>>] /\ sigusr1' \in [Sides -> BOOLEAN]
              /\ c = "quit" => /\ ~(mode = "packet" /\ got[s] # <<>>)
                               /\ \/ reset[s] = "seen" \/ Closed(Peer(s))
                                  \/ Asked(got[s]) = 0

LEMMA MovesAre ==
    ASSUME ChatInv, NEW s \in Sides, Moves(s)
    PROVE  /\ UNCHANGED <<mode, stdin, typed, sent, printed>>
           /\ writen(s) \/ WriteFails(s) \/ Ends(s) \/ Leaves(s) \/ SeesError(s)
<1>1. /\ sk[s] \in {"recv", "quit", "failed", "gone"} /\ kb[s] \in {"fgets", "write", "gone"}
      /\ out \in [Sides -> Seq(Unit)]
      /\ kb[s] = "fgets" => out[s] = <<>>
  BY DEF ChatInv, TypeOK, Connection
<1>2. UNCHANGED <<mode, stdin, typed, sent, printed>>
  BY DEF Moves, writen, WriteFails, BrokenPipe, KeyboardEnds, Interrupt, handle_sigusr1, SeesEnd, SeesError
<1>3. CASE BrokenPipe(s) \/ handle_sigusr1(s)
  BY <1>1, <1>2, <1>3 DEF BrokenPipe, handle_sigusr1, Ends
<1>4. CASE KeyboardEnds(s)
  <2>1. out' = [out EXCEPT ![s] = <<>>]
    BY <1>1, <1>4 DEF KeyboardEnds
  <2> QED
    BY <1>1, <1>2, <1>4, <2>1 DEF KeyboardEnds, Ends
<1>5. CASE Interrupt(s)
  <2>1. PICK c \in {"recv", "quit", "failed", "gone"} : c = IF sk[s] = "recv" THEN "gone" ELSE sk[s]
    BY <1>1
  <2>2. Become(s, "gone", c) /\ c # "recv" /\ (c = "quit" => sk[s] = "quit")
    BY <1>5, <2>1 DEF Interrupt
  <2> QED
    BY <1>2, <1>5, <2>2 DEF Interrupt, Ends
<1>6. CASE SeesEnd(s)
  <2>1. sigusr1' \in [Sides -> BOOLEAN]
    BY <1>6 DEF SeesEnd, SignalParent, ChatInv, TypeOK
  <2>2. CASE mode = "packet" /\ got[s] # <<>>
    BY <1>2, <1>6, <2>1, <2>2 DEF SeesEnd, Leaves
  <2>3. CASE ~(mode = "packet" /\ got[s] # <<>>)
    BY <1>2, <1>6, <2>1, <2>3 DEF SeesEnd, Leaves
  <2> QED
    BY <2>2, <2>3
<1> QED
  BY <1>2, <1>3, <1>4, <1>5, <1>6 DEF Moves

(* A step that moves the stream to x along, and one that loses its end.    *)
Same(x) == Stream(x)' = Stream(x) /\ (kb'[Peer(x)] # "gone" => kb[Peer(x)] # "gone")
Lost(x) == /\ kb'[Peer(x)] = "gone"
           /\ \E a \in Seq(Unit) : \E t \in Seq(Unit) : Stream(x)' = a /\ Stream(x) = a \o t

Effect(s) ==
    /\ TypeOK'
    /\ \A x \in Sides : /\ Closed(x) => Closed(x)'
                        /\ reset[x] = "seen" => reset'[x] = "seen"
    /\ \A x \in Sides : Connection(x)'
    /\ \A x \in Sides : sk'[x] = "quit" => sk[x] = "quit" \/ (x = s /\ Leaves(s))
    /\ \A x \in Sides : sk'[x] = "recv" => sk[x] = "recv" /\ (Same(x) \/ Lost(x))
    /\ \A x \in Sides : got'[x] = got[x] \/ got'[x] = <<>>

LEMMA WriteEffect ==
    ASSUME ChatInv, NEW s \in Sides, writen(s), UNCHANGED <<mode, stdin, typed, sent, printed>>
    PROVE  Effect(s)
<1>1. /\ Peer(s) \in Sides /\ Peer(s) # s /\ Peer(Peer(s)) = s
      /\ \A x \in Sides : x = s \/ x = Peer(s)
  BY Peers
<1>2. PICK o \in Seq(Unit), w \in Seq(Unit), g \in Seq(Unit) :
          o = out[s] /\ w = net[Peer(s)] /\ g = got[Peer(s)]
  BY <1>1 DEF ChatInv, TypeOK
<1>3. WriteSizes(o) \subseteq 0..Len(o)
  BY LenProperties DEF WriteSizes
<1>4. PICK n \in 0..Len(o) :
          /\ out' = [out EXCEPT ![s] = SubSeq(o, n + 1, Len(o))]
          /\ kb' = [kb EXCEPT ![s] = IF n = Len(o) THEN "fgets" ELSE "write"]
          /\ IF Closed(Peer(s))
             THEN reset' = [reset EXCEPT ![s] = "seen"] /\ UNCHANGED net
             ELSE net' = [net EXCEPT ![Peer(s)] = w \o SubSeq(o, 1, n)] /\ UNCHANGED reset
  BY <1>2, <1>3 DEF writen
<1>5. /\ kb[s] = "write" /\ reset[s] = "no" /\ sk' = sk /\ got' = got /\ sigusr1' = sigusr1
      /\ mode' = mode
  BY DEF writen
<1>6. PICK a \in Seq(Unit), b \in Seq(Unit) :
          a = SubSeq(o, 1, n) /\ b = SubSeq(o, n + 1, Len(o)) /\ Len(b) = Len(o) - n
  <2>1. /\ SubSeq(o, 1, n) \in Seq(Unit) /\ SubSeq(o, n + 1, Len(o)) \in Seq(Unit)
        /\ Len(SubSeq(o, n + 1, Len(o))) = Len(o) - n
    BY Divided
  <2> QED
    BY <2>1
<1>7. PICK v \in Seq(Unit) : v = w \o a
  BY Concat
<1>8. out' \in [Sides -> Seq(Unit)] /\ out'[s] = b /\ out'[Peer(s)] = out[Peer(s)]
  BY <1>1, <1>4, <1>6 DEF ChatInv, TypeOK
<1>9. /\ kb' \in [Sides -> {"fgets", "write", "gone"}] /\ kb'[Peer(s)] = kb[Peer(s)]
      /\ kb'[s] = IF n = Len(o) THEN "fgets" ELSE "write"
  BY <1>1, <1>4 DEF ChatInv, TypeOK
<1>10. /\ net' \in [Sides -> Seq(Unit)] /\ net'[s] = net[s]
       /\ ~Closed(Peer(s)) => net'[Peer(s)] = v
  BY <1>1, <1>2, <1>4, <1>6, <1>7 DEF ChatInv, TypeOK
<1>11. /\ reset' \in [Sides -> {"no", "pending", "seen"}] /\ reset'[Peer(s)] = reset[Peer(s)]
       /\ reset'[s] # "no" => Closed(Peer(s))
  BY <1>1, <1>4, <1>5 DEF ChatInv, TypeOK
<1>12. TypeOK'
  BY <1>5, <1>8, <1>9, <1>10, <1>11 DEF ChatInv, TypeOK
<1>13. \A x \in Sides : (Closed(x) => Closed(x)') /\ (reset[x] = "seen" => reset'[x] = "seen")
  <2>1. ~Closed(s)
    BY <1>5 DEF Closed
  <2>2. Closed(Peer(s)) => Closed(Peer(s))'
    BY <1>5, <1>9 DEF Closed
  <2> QED
    BY <1>1, <1>5, <1>11, <2>1, <2>2
<1>14. \A x \in Sides : Connection(x)'
  <2>1. kb'[s] = "fgets" => out'[s] = <<>>
    <3>1. n = Len(o) => b = <<>>
      BY <1>6, EmptySeq, LenProperties
    <3> QED
      BY <1>8, <1>9, <3>1
  <2>2. Closed(Peer(s)) => Closed(Peer(s))'
    BY <1>5, <1>9 DEF Closed
  <2>3. Connection(s)'
    BY <1>11, <2>1, <2>2 DEF Connection
  <2>4. Connection(Peer(s))'
    <3>1. kb[Peer(s)] = "fgets" => out[Peer(s)] = <<>>
      BY <1>1 DEF ChatInv, Connection
    <3>2. reset[Peer(s)] # "no" => Closed(s)
      BY <1>1 DEF ChatInv, Connection
    <3>3. ~Closed(s)
      BY <1>5 DEF Closed
    <3> QED
      BY <1>1, <1>8, <1>9, <1>11, <3>1, <3>2, <3>3 DEF Connection
  <2> QED
    BY <1>1, <2>3, <2>4
<1>15. Same(s)
  BY <1>1, <1>5, <1>8, <1>9, <1>10 DEF Same, Stream
<1>16. sk[Peer(s)] = "recv" => Same(Peer(s))
  <2>1. SUFFICES ASSUME sk[Peer(s)] = "recv" PROVE Same(Peer(s))
    OBVIOUS
  <2>2. ~Closed(Peer(s))
    BY <2>1 DEF Closed
  <2>3. Stream(Peer(s)) = g \o (w \o o) /\ Stream(Peer(s))' = g \o (v \o b)
    BY <1>1, <1>2, <1>5, <1>8, <1>10, <2>2 DEF Stream
  <2>4. (w \o a) \o b = w \o (a \o b)
    BY Assoc
  <2>5. a \o b = o
    BY <1>6, Parted
  <2> QED
    BY <1>1, <1>5, <1>7, <2>3, <2>4, <2>5 DEF Same
<1> QED
  BY <1>1, <1>5, <1>12, <1>13, <1>14, <1>15, <1>16 DEF Effect

LEMMA WriteFailsEffect ==
    ASSUME ChatInv, NEW s \in Sides, WriteFails(s), UNCHANGED <<mode, stdin, typed, sent, printed>>
    PROVE  Effect(s)
<1>1. /\ Peer(s) \in Sides /\ Peer(s) # s /\ Peer(Peer(s)) = s
      /\ \A x \in Sides : x = s \/ x = Peer(s)
  BY Peers
<1>2. /\ kb[s] = "write" /\ reset[s] = "pending" /\ sk' = sk /\ got' = got /\ net' = net
      /\ sigusr1' = sigusr1
      /\ out' = [out EXCEPT ![s] = <<>>] /\ kb' = [kb EXCEPT ![s] = "fgets"]
      /\ reset' = [reset EXCEPT ![s] = "seen"] /\ <<>> \in Seq(Unit)
  BY EmptySeq DEF WriteFails
<1>3. Closed(Peer(s)) /\ sk[Peer(s)] # "recv"
  BY <1>2 DEF ChatInv, Connection, Closed
<1>4. TypeOK'
  BY <1>2 DEF ChatInv, TypeOK
<1>5. /\ kb'[s] = "fgets" /\ kb'[Peer(s)] = kb[Peer(s)] /\ out'[s] = <<>> /\ out'[Peer(s)] = out[Peer(s)]
      /\ reset'[s] = "seen" /\ reset'[Peer(s)] = reset[Peer(s)]
  BY <1>1, <1>2 DEF ChatInv, TypeOK
<1>6. ~Closed(s) /\ Closed(Peer(s))'
  BY <1>2, <1>3, <1>5 DEF Closed
<1>7. \A x \in Sides : (Closed(x) => Closed(x)') /\ (reset[x] = "seen" => reset'[x] = "seen")
  BY <1>1, <1>5, <1>6
<1>8. Connection(s)' /\ Connection(Peer(s))'
  <2>1. kb[Peer(s)] = "fgets" => out[Peer(s)] = <<>>
    BY <1>1 DEF ChatInv, Connection
  <2>2. reset[Peer(s)] # "no" => Closed(s)
    BY <1>1 DEF ChatInv, Connection
  <2> QED
    BY <1>1, <1>5, <1>6, <2>1, <2>2 DEF Connection
<1>9. Same(s)
  BY <1>1, <1>2, <1>5 DEF Same, Stream
<1> QED
  BY <1>1, <1>2, <1>3, <1>4, <1>7, <1>8, <1>9 DEF Effect

LEMMA EndsEffect ==
    ASSUME ChatInv, NEW s \in Sides, Ends(s), UNCHANGED <<mode, stdin, typed, sent, printed>>
    PROVE  Effect(s)
<1>1. /\ Peer(s) \in Sides /\ Peer(s) # s /\ Peer(Peer(s)) = s
      /\ \A x \in Sides : x = s \/ x = Peer(s)
  BY Peers
<1>2. PICK c \in {"recv", "quit", "failed", "gone"} :
              /\ Become(s, "gone", c) /\ (c = "recv" => sk[s] = "recv")
              /\ c = "quit" => sk[s] = "quit"
              /\ out' = [out EXCEPT ![s] = <<>>]
              /\ got' = got /\ sigusr1' = sigusr1
  BY DEF Ends
<1>3. /\ kb' \in [Sides -> {"fgets", "write", "gone"}]
      /\ sk' \in [Sides -> {"recv", "quit", "failed", "gone"}]
      /\ net' \in [Sides -> Seq(Unit)]
      /\ reset' \in [Sides -> {"no", "pending", "seen"}]
      /\ kb'[s] = "gone" /\ kb'[Peer(s)] = kb[Peer(s)]
      /\ sk'[s] = c /\ sk'[Peer(s)] = sk[Peer(s)]
      /\ net'[Peer(s)] = net[Peer(s)] /\ (c = "recv" => net'[s] = net[s])
      /\ reset'[s] = reset[s]
      /\ reset'[Peer(s)] # reset[Peer(s)] => reset[Peer(s)] = "no" /\ c # "recv"
  BY <1>2, BecomeEffect DEF ChatInv
<1>4. /\ <<>> \in Seq(Unit) /\ out' \in [Sides -> Seq(Unit)]
      /\ out'[s] = <<>> /\ out'[Peer(s)] = out[Peer(s)]
  BY <1>1, <1>2, EmptySeq DEF ChatInv, TypeOK
<1>5. TypeOK'
  BY <1>2, <1>3, <1>4 DEF ChatInv, TypeOK
<1>6. /\ Closed(Peer(s)) => Closed(Peer(s))'
      /\ c # "recv" => Closed(s)'
  BY <1>3 DEF Closed
<1>7. Closed(s) => c # "recv"
  BY <1>2 DEF Closed
<1>8. \A x \in Sides : (Closed(x) => Closed(x)') /\ (reset[x] = "seen" => reset'[x] = "seen")
  BY <1>1, <1>3, <1>6, <1>7
<1>9. Connection(s)' /\ Connection(Peer(s))'
  <2>1. kb[Peer(s)] = "fgets" => out[Peer(s)] = <<>>
    BY <1>1 DEF ChatInv, Connection
  <2>2. reset[Peer(s)] # "no" => Closed(s)
    BY <1>1 DEF ChatInv, Connection
  <2>3. reset[s] # "no" => Closed(Peer(s))
    BY <1>1 DEF ChatInv, Connection
  <2>4. Connection(s)'
    BY <1>3, <1>4, <1>6, <2>3 DEF Connection
  <2>5. reset'[Peer(s)] # "no" => Closed(s)'
    BY <1>3, <1>6, <1>7, <2>2
  <2> QED
    BY <1>1, <1>3, <1>4, <2>1, <2>4, <2>5 DEF Connection
<1>10. sk'[s] = "recv" => sk[s] = "recv" /\ Same(s)
  BY <1>1, <1>2, <1>3, <1>4 DEF Same, Stream
<1>11. Lost(Peer(s))
  <2>1. PICK o \in Seq(Unit), w \in Seq(Unit), g \in Seq(Unit) :
          o = out[s] /\ w = net[Peer(s)] /\ g = got[Peer(s)]
    BY <1>1 DEF ChatInv, TypeOK
  <2>2. Stream(Peer(s)) = g \o (w \o o) /\ Stream(Peer(s))' = g \o (w \o <<>>)
    BY <1>1, <1>2, <1>3, <1>4, <2>1 DEF Stream
  <2>3. PICK a \in Seq(Unit) : a = g \o (w \o <<>>) /\ a \o o = g \o (w \o o)
    BY OutLast
  <2> QED
    BY <1>1, <1>3, <2>2, <2>3 DEF Lost
<1> QED
  BY <1>1, <1>2, <1>3, <1>5, <1>8, <1>9, <1>10, <1>11 DEF Effect

LEMMA LeavesEffect ==
    ASSUME ChatInv, NEW s \in Sides, Leaves(s), UNCHANGED <<mode, stdin, typed, sent, printed>>
    PROVE  Effect(s)
<1>1. /\ Peer(s) \in Sides /\ Peer(s) # s /\ Peer(Peer(s)) = s
      /\ \A x \in Sides : x = s \/ x = Peer(s)
  BY Peers
<1>2. PICK c \in {"quit", "failed"} :
              /\ sk[s] = "recv" /\ Become(s, kb[s], c) /\ out' = out
              /\ got' = [got EXCEPT ![s] = <<>>] /\ sigusr1' \in [Sides -> BOOLEAN]
  BY DEF Leaves
<1>3. /\ kb' \in [Sides -> {"fgets", "write", "gone"}]
      /\ sk' \in [Sides -> {"recv", "quit", "failed", "gone"}]
      /\ net' \in [Sides -> Seq(Unit)]
      /\ reset' \in [Sides -> {"no", "pending", "seen"}]
      /\ kb'[s] = kb[s] /\ kb'[Peer(s)] = kb[Peer(s)]
      /\ sk'[s] = c /\ sk'[Peer(s)] = sk[Peer(s)]
      /\ net'[Peer(s)] = net[Peer(s)]
      /\ reset'[s] = reset[s]
      /\ reset'[Peer(s)] # reset[Peer(s)] => reset[Peer(s)] = "no" /\ kb[s] = "gone"
  <2>1. kb[s] \in {"fgets", "write", "gone"} /\ c \in {"recv", "quit", "failed", "gone"} /\ TypeOK
    BY DEF ChatInv, TypeOK
  <2> QED
    BY <1>2, <2>1, BecomeEffect
<1>4. /\ <<>> \in Seq(Unit) /\ got' \in [Sides -> Seq(Unit)]
      /\ got'[s] = <<>> /\ got'[Peer(s)] = got[Peer(s)]
  BY <1>1, <1>2, EmptySeq DEF ChatInv, TypeOK
<1>5. TypeOK'
  BY <1>2, <1>3, <1>4 DEF ChatInv, TypeOK
<1>6. /\ Closed(Peer(s)) => Closed(Peer(s))'
      /\ kb[s] = "gone" => Closed(s)'
      /\ ~Closed(s)
  BY <1>2, <1>3 DEF Closed
<1>7. \A x \in Sides : (Closed(x) => Closed(x)') /\ (reset[x] = "seen" => reset'[x] = "seen")
  BY <1>1, <1>3, <1>6
<1>8. Connection(s)' /\ Connection(Peer(s))'
  <2>1. /\ kb[Peer(s)] = "fgets" => out[Peer(s)] = <<>>
        /\ kb[s] = "fgets" => out[s] = <<>>
    BY <1>1 DEF ChatInv, Connection
  <2>2. reset[Peer(s)] # "no" => Closed(s)
    BY <1>1 DEF ChatInv, Connection
  <2>3. reset[s] # "no" => Closed(Peer(s))
    BY <1>1 DEF ChatInv, Connection
  <2>4. Connection(s)'
    BY <1>2, <1>3, <1>6, <2>1, <2>3 DEF Connection
  <2>5. reset'[Peer(s)] # "no" => Closed(s)'
    BY <1>3, <1>6, <2>2
  <2> QED
    BY <1>1, <1>2, <1>3, <2>1, <2>4, <2>5 DEF Connection
<1>9. Same(Peer(s))
  BY <1>1, <1>2, <1>3, <1>4 DEF Same, Stream
<1> QED
  BY <1>1, <1>2, <1>3, <1>4, <1>5, <1>7, <1>8, <1>9 DEF Effect

LEMMA ErrorEffect ==
    ASSUME ChatInv, NEW s \in Sides, SeesError(s), UNCHANGED <<mode, stdin, typed, sent, printed>>
    PROVE  Effect(s)
<1>1. /\ Peer(s) \in Sides /\ Peer(s) # s /\ Peer(Peer(s)) = s
      /\ \A x \in Sides : x = s \/ x = Peer(s)
  BY Peers
<1>2. /\ sk[s] = "recv" /\ reset[s] = "pending" /\ kb' = kb /\ out' = out /\ net' = net
      /\ sigusr1' = sigusr1 /\ sk' = [sk EXCEPT ![s] = "failed"]
      /\ reset' = [reset EXCEPT ![s] = "seen"] /\ got' = [got EXCEPT ![s] = <<>>] /\ <<>> \in Seq(Unit)
  BY EmptySeq DEF SeesError
<1>3. TypeOK'
  BY <1>2 DEF ChatInv, TypeOK
<1>4. /\ sk'[s] = "failed" /\ sk'[Peer(s)] = sk[Peer(s)] /\ got'[s] = <<>> /\ got'[Peer(s)] = got[Peer(s)]
      /\ reset'[s] = "seen" /\ reset'[Peer(s)] = reset[Peer(s)]
  BY <1>1, <1>2 DEF ChatInv, TypeOK
<1>5. \A x \in Sides : (Closed(x) => Closed(x)') /\ (reset[x] = "seen" => reset'[x] = "seen")
  BY <1>1, <1>2, <1>4 DEF Closed
<1>6. \A x \in Sides : Connection(x)'
  BY <1>1, <1>2, <1>4, <1>5 DEF ChatInv, Connection
<1>7. Same(Peer(s))
  BY <1>1, <1>2, <1>4 DEF Same, Stream
<1> QED
  BY <1>1, <1>2, <1>3, <1>4, <1>5, <1>6, <1>7 DEF Effect

-----------------------------------------------------------------------------
(* The actions.                                                            *)

LEMMA TextIs == ASSUME NEW s \in Sides PROVE Text(s) = Texts(printed[s]) /\ Text(s)' = Texts(printed'[s])
BY DEF Text, Texts

LEMMA StreamsKept ==
    ASSUME ChatInv, UNCHANGED <<mode, stdin, typed, sent, printed>>, NEW x \in Sides,
           sk'[x] = "recv" => sk[x] = "recv" /\ (Same(x) \/ Lost(x))
    PROVE  Plain(x)' /\ Framed(x)'
<1>1. Peer(x) \in Sides
  BY Peers
<1>2. PICK ls \in Seq(Seq(Unit)), ts \in Seq(Seq(Unit)), q \in Seq(Record) :
          ls = typed[Peer(x)] /\ ts = sent[Peer(x)] /\ q = printed[x]
  BY <1>1 DEF ChatInv, TypeOK
<1>3. Given(ls, ts, stdin[Peer(x)]) /\ Shown(mode, q, ls, ts)
  BY <1>1, <1>2 DEF ChatInv, Keyboard, Printed
<1>4. PICK texts \in Seq(Seq(Unit)) : texts = Texts(q) /\ Len(texts) = Len(q) /\ Counted(texts) \in Nat
  BY <1>3, TextsOf, ShownCounts
<1>5. Text(x) = texts /\ Text(x)' = texts /\ mode' = mode
  BY <1>2, <1>4, TextIs
<1>6. ASSUME mode # "packet", sk'[x] = "recv"
      PROVE  PlainStream(Stream(x)', kb'[Peer(x)] # "gone", ls, ts, texts)
  <2>1. PlainStream(Stream(x), kb[Peer(x)] # "gone", ls, ts, texts)
    BY <1>2, <1>5, <1>6 DEF ChatInv, Plain
  <2>2. CASE Same(x)
    BY <2>1, <2>2 DEF Same, PlainStream
  <2>3. CASE Lost(x)
    <3>1. PICK a \in Seq(Unit) : \E t \in Seq(Unit) : Stream(x)' = a /\ Stream(x) = a \o t
      BY <2>3 DEF Lost
    <3>2. PICK t \in Seq(Unit) : Stream(x)' = a /\ Stream(x) = a \o t
      BY <3>1
    <3>3. Follows(ls, a \o t, Counted(texts))
      BY <2>1, <3>2 DEF PlainStream
    <3>4. PlainStream(a, FALSE, ls, ts, texts)
      BY <1>4, <3>3, PlainLess
    <3> QED
      BY <2>3, <3>2, <3>4 DEF Lost, PlainStream
  <2> QED
    BY <1>6, <2>2, <2>3
<1>7. ASSUME mode = "packet", sk'[x] = "recv"
      PROVE  FramedStream(Stream(x)', kb'[Peer(x)] # "gone", ts, Len(q))
  <2>1. FramedStream(Stream(x), kb[Peer(x)] # "gone", ts, Len(q))
    BY <1>2, <1>7 DEF ChatInv, Framed
  <2>2. CASE Same(x)
    BY <2>1, <2>2 DEF Same, FramedStream
  <2>3. CASE Lost(x)
    <3>1. PICK a \in Seq(Unit) : \E t \in Seq(Unit) : Stream(x)' = a /\ Stream(x) = a \o t
      BY <2>3 DEF Lost
    <3>2. PICK t \in Seq(Unit) : Stream(x)' = a /\ Stream(x) = a \o t
      BY <3>1
    <3>3. Len(q) \in 0..Len(ts)
      BY <1>3, <1>4, <1>7, LenProperties DEF Shown, SameUpTo
    <3>4. FramedStream(a \o t, FALSE, ts, Len(q))
      BY <2>1, <3>2 DEF FramedStream
    <3>5. PICK k \in 0..Len(ts) : k = Len(q)
      BY <3>3
    <3>6. FramedStream(a, FALSE, ts, Len(q))
      BY <3>4, <3>5, FramedLess
    <3> QED
      BY <2>3, <3>2, <3>6 DEF Lost, FramedStream
  <2> QED
    BY <1>7, <2>2, <2>3
<1> QED
  BY <1>2, <1>5, <1>6, <1>7 DEF Plain, Framed

(* A line without a newline that fills the buffer is longer than it.       *)
LEMMA LongLine ==
    ASSUME ChatInv, NEW s \in Sides, sk[s] = "recv", mode # "packet", Asked(got[s]) = 0
    PROVE  mode = "line" /\ \E i \in 1..Len(typed[Peer(s)]) : Len(typed[Peer(s)][i]) > BUFFER_LENGTH
<1>1. Peer(s) \in Sides /\ BUFFER_LENGTH \in Nat /\ BUFFER_LENGTH > 1
  BY Peers, ChatAssumption
<1>2. PICK ls \in Seq(Seq(Unit)), ts \in Seq(Seq(Unit)), q \in Seq(Record), g \in Seq(Unit), w \in Seq(Unit) :
          ls = typed[Peer(s)] /\ ts = sent[Peer(s)] /\ q = printed[s] /\ g = got[s]
          /\ w = net[s] \o out[Peer(s)]
  BY <1>1, Concat DEF ChatInv, TypeOK
<1>3. Given(ls, ts, stdin[Peer(s)]) /\ Shown(mode, q, ls, ts)
  BY <1>1, <1>2 DEF ChatInv, Keyboard, Printed
<1>4. PICK n \in Nat : n = Len(g) /\ n = BUFFER_LENGTH
  <2>1. BUFFER_LENGTH - Len(g) = 0 /\ Len(g) \in Nat
    BY <1>2, LenProperties DEF Asked
  <2> QED
    BY <1>1, <2>1
<1>5. mode = "line"
  <2>1. mode \in {"raw", "packet", "line"}
    BY ChatAssumption DEF ChatInv, TypeOK
  <2>2. g # <<>>
    <3>1. Len(<<>>) = 0 /\ Len(g) # 0
      BY <1>1, <1>4, EmptySeq
    <3> QED
      BY <3>1
  <2>3. mode # "raw"
    BY <1>2, <2>2 DEF ChatInv, Partial
  <2> QED
    BY <2>1, <2>3
<1>6. \A i \in 1..Len(g) : ~Newline(g[i])
  BY <1>2, <1>5 DEF ChatInv, Partial
<1>7. PICK texts \in Seq(Seq(Unit)) : texts = Texts(q) /\ Counted(texts) \in Nat
  BY <1>3, TextsOf, ShownCounts
<1>8. SameUpTo(texts, ls) /\ Lines(ls)
  BY <1>3, <1>5, <1>7 DEF Shown, Given
<1>9. Follows(ls, g \o w, Counted(texts))
  BY <1>2, <1>7, TextIs DEF ChatInv, Plain, PlainStream, Stream
<1>10. Follows(ls, g, Counted(texts))
  BY <1>7, <1>9, FollowsJoined
<1>11. Len(g) > 0 /\ Len(g) \in 1..Len(g)
  BY <1>1, <1>4
<1>12. Len(texts) + 1 \in 1..Len(ls) /\ Len(ls[Len(texts) + 1]) > Len(g)
  BY <1>6, <1>8, <1>10, <1>11, WholeLine
<1> QED
  BY <1>2, <1>4, <1>5, <1>12

LEMMA MovesStep ==
    ASSUME ChatInv, NEW s \in Sides, Moves(s)
    PROVE  ChatInv'
<1>1. UNCHANGED <<mode, stdin, typed, sent, printed>>
  BY MovesAre
<1>2. Effect(s)
  BY <1>1, MovesAre, WriteEffect, WriteFailsEffect, EndsEffect, LeavesEffect, ErrorEffect
<1>3. \A x \in Sides : Keyboard(x)' /\ Printed(x)'
  BY <1>1 DEF ChatInv, Keyboard, Printed
<1>4. \A x \in Sides : Plain(x)' /\ Framed(x)'
  BY <1>1, <1>2, StreamsKept DEF Effect
<1>5. \A x \in Sides : Partial(x)'
  <2>1. SUFFICES ASSUME NEW x \in Sides PROVE Partial(x)'
    OBVIOUS
  <2>2. CASE got'[x] = got[x]
    BY <1>1, <2>2 DEF ChatInv, Partial
  <2>3. CASE got'[x] = <<>>
    <3>1. BUFFER_LENGTH \in Nat /\ Len(<<>>) = 0 /\ \A i \in 1..0 : FALSE
      BY ChatAssumption, EmptySeq
    <3> QED
      BY <2>3, <3>1 DEF Partial
  <2> QED
    BY <1>2, <2>2, <2>3 DEF Effect
<1>6. LeavesForReason'
  <2>1. SUFFICES ASSUME NEW x \in Sides, sk'[x] = "quit"
                 PROVE  \/ Closed(Peer(x))' \/ reset'[x] = "seen"
                        \/ /\ mode = "line"
                           /\ \E i \in 1..Len(typed[Peer(x)]) : Len(typed[Peer(x)][i]) > BUFFER_LENGTH
    BY <1>1 DEF LeavesForReason
  <2>2. /\ Closed(Peer(x)) => Closed(Peer(x))'
        /\ reset[x] = "seen" => reset'[x] = "seen"
    BY <1>2, Peers DEF Effect
  <2>3. CASE sk[x] = "quit"
    BY <2>2, <2>3 DEF ChatInv, LeavesForReason
  <2>4. CASE x = s /\ Leaves(s) /\ sk[x] # "quit"
    <3>1. PICK c \in {"quit", "failed"} :
              /\ sk[s] = "recv" /\ Become(s, kb[s], c)
              /\ c = "quit" => /\ ~(mode = "packet" /\ got[s] # <<>>)
                               /\ \/ reset[s] = "seen" \/ Closed(Peer(s))
                                  \/ Asked(got[s]) = 0
      BY <2>4 DEF Leaves
    <3>2. c = "quit"
      BY <2>1, <2>4, <3>1 DEF Become, ChatInv, TypeOK
    <3>3. CASE reset[s] = "seen" \/ Closed(Peer(s))
      BY <2>2, <2>4, <3>3
    <3>4. CASE Asked(got[s]) = 0
      <4>1. mode # "packet"
        <5>1. SUFFICES ASSUME mode = "packet" PROVE FALSE
          OBVIOUS
        <5>2. got[s] = <<>> /\ Len(<<>>) = 0
          BY <3>1, <3>2, <5>1, EmptySeq
        <5>3. Asked(got[s]) = 2 - 0
          BY <5>1, <5>2 DEF Asked, HEAD
        <5> QED
          BY <3>4, <5>3
      <4> QED
        BY <2>4, <3>1, <3>4, <4>1, LongLine
    <3> QED
      BY <3>1, <3>2, <3>3, <3>4
  <2> QED
    BY <1>2, <2>1, <2>3, <2>4 DEF Effect
<1> QED
  BY <1>2, <1>3, <1>4, <1>5, <1>6 DEF Effect, ChatInv

(* The conjuncts that a step leaves alone when it leaves their variables   *)
(* alone.                                                                  *)
LEMMA ReasonKept ==
    ASSUME ChatInv, UNCHANGED <<mode, sk, kb, reset>>,
           \A x \in Sides : typed'[x] = typed[x] \/ \E l \in Seq(Unit) : typed'[x] = Append(typed[x], l)
    PROVE  LeavesForReason'
<1> SUFFICES ASSUME NEW x \in Sides, sk[x] = "quit"
             PROVE  \/ Closed(Peer(x)) \/ reset[x] = "seen"
                    \/ /\ mode = "line"
                       /\ \E i \in 1..Len(typed'[Peer(x)]) : Len(typed'[Peer(x)][i]) > BUFFER_LENGTH
  BY DEF LeavesForReason, Closed
<1>1. CASE Closed(Peer(x)) \/ reset[x] = "seen"
  BY <1>1
<1>2. CASE ~(Closed(Peer(x)) \/ reset[x] = "seen")
  <2>1. PICK i \in 1..Len(typed[Peer(x)]) : Len(typed[Peer(x)][i]) > BUFFER_LENGTH
    BY <1>2 DEF ChatInv, LeavesForReason
  <2>2. mode = "line"
    BY <1>2 DEF ChatInv, LeavesForReason
  <2>3. PICK ls \in Seq(Seq(Unit)) : ls = typed[Peer(x)]
    BY Peers DEF ChatInv, TypeOK
  <2>4. ASSUME NEW l \in Seq(Unit), typed'[Peer(x)] = Append(ls, l)
        PROVE  i \in 1..Len(typed'[Peer(x)]) /\ typed'[Peer(x)][i] = ls[i]
    <3>1. PICK m \in Nat : m = Len(ls) /\ i \in 1..m
      BY <2>3, LenProperties
    <3>2. Len(Append(ls, l)) = m + 1 /\ \A k \in 1..m : Append(ls, l)[k] = ls[k]
      BY <3>1, Appended
    <3>3. i \in 1..(m + 1)
      BY <3>1
    <3> QED
      BY <2>4, <3>1, <3>2, <3>3
  <2> QED
    BY <2>1, <2>2, <2>3, <2>4, Peers
<1> QED
  BY <1>1, <1>2

(* The user types a line.                                                  *)
LEMMA TypeStep ==
    ASSUME ChatInv, NEW s \in Sides, NEW n \in Lengths[s], Type(s, n)
    PROVE  ChatInv'
<1>1. /\ Peer(s) \in Sides /\ Peer(s) # s /\ Peer(Peer(s)) = s
      /\ \A x \in Sides : x = s \/ x = Peer(s)
  BY Peers
<1>2. n \in Nat \ {0}
  BY ChatAssumption
<1>3. PICK ls \in Seq(Seq(Unit)), ts \in Seq(Seq(Unit)), q \in Seq(Record) :
          ls = typed[s] /\ ts = sent[s] /\ q = printed[Peer(s)]
  BY <1>1 DEF ChatInv, TypeOK
<1>4. stdin[s] = <<>> /\ UNCHANGED <<mode, kb, out, sk, got, net, reset, sigusr1, sent, printed>>
  BY DEF Type
<1>5. Given(ls, ts, <<>>) /\ Shown(mode, q, ls, ts)
  BY <1>1, <1>3, <1>4 DEF ChatInv, Keyboard, Printed
<1>6. PICK c \in Nat : c = Counted(ls)
  BY <1>5, GivenCounts
<1>7. PICK l \in Seq(Unit) : /\ l = [i \in 1..n |-> <<IF i = n THEN "n" ELSE "c", c + i>>]
                             /\ Len(l) = n /\ Line(l, c)
  BY <1>2, NewLine
<1>8. /\ stdin' = [stdin EXCEPT ![s] = l]
      /\ typed' = [typed EXCEPT ![s] = Append(ls, l)]
  BY <1>3, <1>6, <1>7 DEF Type
<1>9. PICK as \in Seq(Seq(Unit)) : as = Append(ls, l)
  BY Appended
<1>10. /\ stdin' \in [Sides -> Seq(Unit)] /\ typed' \in [Sides -> Seq(Seq(Unit))]
       /\ stdin'[s] = l /\ stdin'[Peer(s)] = stdin[Peer(s)]
       /\ typed'[s] = as /\ typed'[Peer(s)] = typed[Peer(s)]
  BY <1>1, <1>8, <1>9 DEF ChatInv, TypeOK
<1>11. TypeOK'
  BY <1>4, <1>10 DEF ChatInv, TypeOK
<1>12. Given(as, ts, l)
  BY <1>2, <1>5, <1>6, <1>7, <1>9, GivenLine
<1>13. \A x \in Sides : Keyboard(x)'
  BY <1>1, <1>3, <1>4, <1>10, <1>12 DEF ChatInv, Keyboard
<1>14. \A x \in Sides : Connection(x)' /\ Partial(x)'
  BY <1>4 DEF ChatInv, Connection, Partial, Closed
<1>15. \A x \in Sides : Printed(x)'
  <2>1. Shown(mode, q, as, ts)
    BY <1>5, <1>9, ShownLater
  <2> QED
    BY <1>1, <1>3, <1>4, <1>10, <2>1 DEF ChatInv, Printed
<1>16. \A x \in Sides : Framed(x)'
  BY <1>4 DEF ChatInv, Framed, Stream
<1>17. Plain(s)'
  BY <1>1, <1>4, <1>10, TextIs DEF ChatInv, Plain, Stream
<1>18. Plain(Peer(s))'
  <2>1. PICK p \in Sides : p = Peer(s) /\ Peer(p) = s
    BY <1>1
  <2>2. \A z, c2 : Follows(ls, z, c2) => Follows(as, z, c2)
    BY <1>9, MoreTyped
  <2>3. Text(p)' = Text(p) /\ Stream(p)' = Stream(p)
    BY <1>4, <2>1, TextIs DEF Stream
  <2> QED
    BY <1>3, <1>4, <1>10, <2>1, <2>2, <2>3 DEF ChatInv, Plain, PlainStream
<1>19. LeavesForReason'
  BY <1>1, <1>3, <1>4, <1>9, <1>10, ReasonKept
<1> QED
  BY <1>1, <1>11, <1>13, <1>14, <1>15, <1>16, <1>17, <1>18, <1>19 DEF ChatInv

(* fgets returns, and the record is on its way.                            *)
LEMMA FetchStep ==
    ASSUME ChatInv, NEW s \in Sides, recv_keyboard(s)
    PROVE  ChatInv'
<1>1. /\ Peer(s) \in Sides /\ Peer(s) # s /\ Peer(Peer(s)) = s
      /\ \A x \in Sides : x = s \/ x = Peer(s)
  BY Peers
<1>2. PICK ls \in Seq(Seq(Unit)), ts \in Seq(Seq(Unit)), q \in Seq(Record), d \in Seq(Unit) :
          ls = typed[s] /\ ts = sent[s] /\ q = printed[Peer(s)] /\ d = stdin[s]
  BY <1>1 DEF ChatInv, TypeOK
<1>3. /\ kb[s] = "fgets" /\ d # <<>> /\ out[s] = <<>>
      /\ UNCHANGED <<mode, sk, got, net, reset, sigusr1, typed, printed>>
      /\ kb' = [kb EXCEPT ![s] = "write"]
  BY <1>2 DEF recv_keyboard, ChatInv, Connection
<1>4. Given(ls, ts, d) /\ Shown(mode, q, ls, ts)
  BY <1>1, <1>2 DEF ChatInv, Keyboard, Printed
<1>5. PICK n \in 0..Len(d) : n = fgets(d) /\ n \in 1..(BUFFER_LENGTH - 1)
  BY <1>3, Fetched, LenProperties
<1>6. PICK t \in Seq(Unit), r \in Seq(Unit) :
          t = SubSeq(d, 1, n) /\ r = SubSeq(d, n + 1, Len(d)) /\ Len(t) = n
  <2>1. /\ SubSeq(d, 1, n) \in Seq(Unit) /\ SubSeq(d, n + 1, Len(d)) \in Seq(Unit)
        /\ Len(SubSeq(d, 1, n)) = n
    BY Divided
  <2> QED
    BY <2>1
<1>7. d = t \o r
  BY <1>6, Parted
<1>8. PICK u \in Seq(Unit) : u = Frame(t)
  <2>1. Packet(t) \in Seq(Unit)
    BY Packets
  <2> QED
    BY <2>1 DEF Frame, Packet
<1>9. /\ stdin' = [stdin EXCEPT ![s] = r] /\ out' = [out EXCEPT ![s] = u]
      /\ sent' = [sent EXCEPT ![s] = Append(ts, t)]
  BY <1>2, <1>5, <1>6, <1>8 DEF recv_keyboard
<1>10. PICK as \in Seq(Seq(Unit)) : as = Append(ts, t)
  BY Appended
<1>11. /\ stdin' \in [Sides -> Seq(Unit)] /\ out' \in [Sides -> Seq(Unit)]
       /\ sent' \in [Sides -> Seq(Seq(Unit))] /\ kb' \in [Sides -> {"fgets", "write", "gone"}]
       /\ stdin'[s] = r /\ stdin'[Peer(s)] = stdin[Peer(s)]
       /\ out'[s] = u /\ out'[Peer(s)] = out[Peer(s)]
       /\ sent'[s] = as /\ sent'[Peer(s)] = sent[Peer(s)]
       /\ kb'[s] = "write" /\ kb'[Peer(s)] = kb[Peer(s)]
  BY <1>1, <1>3, <1>9, <1>10 DEF ChatInv, TypeOK
<1>12. TypeOK'
  BY <1>3, <1>11 DEF ChatInv, TypeOK
<1>13. Given(ls, as, r) /\ Follows(ls, t, Counted(ts)) /\ Counted(as) = Counted(ts) + Len(t)
  <2>1. Given(ls, ts, t \o r) /\ Len(t) \in 1..(BUFFER_LENGTH - 1)
    BY <1>4, <1>5, <1>6, <1>7
  <2>2. /\ Given(ls, Append(ts, t), r) /\ Follows(ls, t, Counted(ts))
        /\ Counted(Append(ts, t)) = Counted(ts) + Len(t)
    BY <2>1, GivenRecord
  <2> QED
    BY <1>10, <2>2
<1>14. \A x \in Sides : Keyboard(x)'
  BY <1>1, <1>2, <1>3, <1>11, <1>13 DEF ChatInv, Keyboard
<1>15. \A x \in Sides : Connection(x)' /\ Partial(x)'
  <2>1. \A x \in Sides : Closed(x) => Closed(x)'
    BY <1>1, <1>3, <1>11 DEF Closed
  <2>2. \A x \in Sides : Partial(x)'
    BY <1>3 DEF ChatInv, Partial
  <2>3. Connection(s)'
    BY <1>1, <1>3, <1>11, <2>1 DEF ChatInv, Connection
  <2>4. Connection(Peer(s))'
    BY <1>1, <1>3, <1>11, <2>1 DEF ChatInv, Connection
  <2> QED
    BY <1>1, <2>2, <2>3, <2>4
<1>16. \A x \in Sides : Printed(x)'
  <2>1. Shown(mode, q, ls, as)
    BY <1>4, <1>10, ShownLater
  <2> QED
    BY <1>1, <1>2, <1>3, <1>11, <2>1 DEF ChatInv, Printed
<1>17. Plain(s)' /\ Framed(s)'
  BY <1>1, <1>3, <1>11, TextIs DEF ChatInv, Plain, Framed, Stream
<1>18. PICK p \in Sides : p = Peer(s) /\ Peer(p) = s
  BY <1>1
<1>19. PICK z \in Seq(Unit) : z = Stream(p) /\ Stream(p)' = z \o u
  <2>1. PICK w \in Seq(Unit), g \in Seq(Unit) : w = net[p] /\ g = got[p]
    BY DEF ChatInv, TypeOK
  <2>2. Stream(p) = g \o (w \o <<>>) /\ Stream(p)' = g \o (w \o u)
    BY <1>3, <1>11, <1>18, <2>1 DEF Stream
  <2>3. g \o (w \o <<>>) \in Seq(Unit) /\ (g \o (w \o <<>>)) \o u = g \o (w \o u)
    BY OutLast
  <2> QED
    BY <2>2, <2>3
<1>20. PICK texts \in Seq(Seq(Unit)) :
          texts = Texts(q) /\ Len(texts) = Len(q) /\ Counted(texts) \in Nat /\ Text(p) = texts /\ Text(p)' = texts
  BY <1>2, <1>3, <1>4, <1>18, TextsOf, ShownCounts, TextIs
<1>21. Plain(p)'
  <2>1. SUFFICES ASSUME mode # "packet", sk[p] = "recv"
                 PROVE  PlainStream(z \o u, kb'[s] # "gone", ls, as, texts)
    BY <1>2, <1>3, <1>11, <1>18, <1>19, <1>20 DEF Plain
  <2>2. u = t
    BY <1>8, <2>1 DEF Frame
  <2>3. PlainStream(z, TRUE, ls, ts, texts)
    BY <1>2, <1>3, <1>18, <1>19, <1>20, <2>1 DEF ChatInv, Plain, PlainStream
  <2>4. PlainStream(z \o t, TRUE, ls, as, texts)
    BY <1>4, <1>10, <1>13, <1>20, <2>3, PlainMore, GivenCounts
  <2> QED
    BY <2>2, <2>4 DEF PlainStream
<1>22. Framed(p)'
  <2>1. SUFFICES ASSUME mode = "packet", sk[p] = "recv"
                 PROVE  FramedStream(z \o u, kb'[s] # "gone", as, Len(q))
    BY <1>2, <1>3, <1>11, <1>18, <1>19 DEF Framed
  <2>2. u = Packet(t)
    BY <1>8, <2>1 DEF Frame, Packet
  <2>3. FramedStream(z, TRUE, ts, Len(q))
    BY <1>2, <1>3, <1>18, <1>19, <2>1 DEF ChatInv, Framed, FramedStream
  <2>4. PICK k \in 0..Len(ts) : k = Len(q)
    BY <1>4, <1>20, <2>1, LenProperties DEF Shown, SameUpTo
  <2>5. FramedStream(z \o Packet(t), TRUE, as, k)
    BY <1>10, <2>3, <2>4, FramedMore
  <2> QED
    BY <2>2, <2>4, <2>5 DEF FramedStream
<1>23. LeavesForReason'
  <2> SUFFICES ASSUME NEW x \in Sides, sk[x] = "quit"
               PROVE  \/ Closed(Peer(x))' \/ reset[x] = "seen"
                      \/ /\ mode = "line"
                         /\ \E i \in 1..Len(typed[Peer(x)]) : Len(typed[Peer(x)][i]) > BUFFER_LENGTH
    BY <1>3 DEF LeavesForReason
  <2>1. Closed(Peer(x)) => Closed(Peer(x))'
    BY <1>1, <1>3, <1>11 DEF Closed
  <2> QED
    BY <2>1 DEF ChatInv, LeavesForReason
<1> QED
  BY <1>1, <1>12, <1>14, <1>15, <1>16, <1>17, <1>18, <1>21, <1>22, <1>23 DEF ChatInv

-----------------------------------------------------------------------------
(* recv_socket.                                                            *)

(* The child prints text t after taking a off the socket, b being left.    *)
Prints(s, a, b, t) ==
    /\ net[s] = a \o b /\ net' = [net EXCEPT ![s] = b] /\ got' = [got EXCEPT ![s] = <<>>]
    /\ \E o \in Overrun(t) : printed' = [printed EXCEPT ![s] = Append(@, [text |-> t, over |-> o])]

(* The child keeps a for a record that is not complete.                    *)
Keeps(s, a, b) ==
    /\ net[s] = a \o b /\ net' = [net EXCEPT ![s] = b] /\ got' = [got EXCEPT ![s] = @ \o a]
    /\ printed' = printed

(* With b left, the stream begins after one more packet.                   *)
RestFramed(s, b) ==
    FramedStream(b \o out[Peer(s)], kb[Peer(s)] # "gone", sent[Peer(s)], Len(printed[s]) + 1)

(* The text is the right one.                                              *)
NextText(s, a, b, t) ==
    /\ Len(t) > 0
    /\ mode # "packet" => t = got[s] \o a /\ Len(t) <= BUFFER_LENGTH
    /\ mode = "line" => /\ Len(printed[s]) + 1 \in 1..Len(typed[Peer(s)])
                        /\ t = typed[Peer(s)][Len(printed[s]) + 1]
    /\ mode = "packet" => /\ Len(printed[s]) + 1 \in 1..Len(sent[Peer(s)])
                          /\ t = sent[Peer(s)][Len(printed[s]) + 1]
                          /\ RestFramed(s, b)

LEMMA KeepStep ==
    ASSUME ChatInv, NEW s \in Sides, sk[s] = "recv", NEW a \in Seq(Unit), NEW b \in Seq(Unit), Keeps(s, a, b),
           UNCHANGED <<mode, stdin, kb, out, sk, reset, sigusr1, typed, sent>>,
           mode # "raw",
           mode = "line" => /\ Len(got[s]) + Len(a) <= BUFFER_LENGTH
                            /\ \A i \in 1..Len(a) : ~Newline(a[i])
    PROVE  ChatInv'
<1>1. /\ Peer(s) \in Sides /\ Peer(s) # s /\ Peer(Peer(s)) = s
      /\ \A x \in Sides : x = s \/ x = Peer(s)
  BY Peers
<1>2. PICK g \in Seq(Unit), o \in Seq(Unit), v \in Seq(Unit) :
          g = got[s] /\ o = out[Peer(s)] /\ v = g \o a
  BY <1>1, Concat DEF ChatInv, TypeOK
<1>3. /\ net[s] = a \o b /\ net' \in [Sides -> Seq(Unit)] /\ got' \in [Sides -> Seq(Unit)]
      /\ net'[s] = b /\ net'[Peer(s)] = net[Peer(s)]
      /\ got'[s] = v /\ got'[Peer(s)] = got[Peer(s)] /\ printed' = printed
  BY <1>1, <1>2 DEF Keeps, ChatInv, TypeOK
<1>4. TypeOK'
  BY <1>3 DEF ChatInv, TypeOK
<1>5. \A x \in Sides : Keyboard(x)' /\ Connection(x)' /\ Printed(x)'
  BY <1>3 DEF ChatInv, Keyboard, Connection, Closed, Printed
<1>6. Partial(s)'
  <2>1. mode' = mode
    OBVIOUS
  <2>2. ASSUME mode = "line"
        PROVE  Len(v) <= BUFFER_LENGTH /\ \A i \in 1..Len(v) : ~Newline(v[i])
    <3>1. PICK m \in Nat, n \in Nat : m = Len(g) /\ n = Len(a)
      BY LenProperties
    <3>2. /\ Len(v) = m + n
          /\ \A i \in 1..m : v[i] = g[i]
          /\ \A k \in 1..n : v[m + k] = a[k]
      BY <1>2, <3>1, Behind
    <3>3. \A i \in 1..m : ~Newline(g[i])
      BY <1>2, <2>2, <3>1 DEF ChatInv, Partial
    <3>4. \A i \in 1..n : ~Newline(a[i])
      BY <2>2, <3>1
    <3>5. m + n <= BUFFER_LENGTH
      BY <1>2, <2>2, <3>1
    <3>6. ASSUME NEW i \in 1..(m + n), i \notin 1..m
          PROVE  ~Newline(v[i])
      <4>1. i - m \in 1..n /\ i = m + (i - m)
        BY <3>6
      <4> QED
        BY <3>2, <3>4, <4>1
    <3> QED
      BY <3>2, <3>3, <3>5, <3>6
  <2> QED
    BY <1>3, <2>1, <2>2 DEF Partial
<1>7. Partial(Peer(s))'
  BY <1>1, <1>3 DEF ChatInv, Partial
<1>8. Same(s)
  <2>1. Stream(s) = g \o ((a \o b) \o o) /\ Stream(s)' = v \o (b \o o)
    BY <1>1, <1>2, <1>3 DEF Stream
  <2>2. PICK d \in Seq(Unit) : d = b \o o
    BY Concat
  <2>3. (g \o a) \o d = g \o (a \o d)
    BY Assoc
  <2>4. (a \o b) \o o = a \o (b \o o)
    BY Assoc
  <2> QED
    BY <1>2, <2>1, <2>2, <2>3, <2>4 DEF Same
<1>9. Same(Peer(s))
  BY <1>1, <1>3 DEF Same, Stream
<1>10. \A x \in Sides : Plain(x)' /\ Framed(x)'
  BY <1>1, <1>3, <1>8, <1>9, StreamsKept
<1>11. LeavesForReason'
  BY ReasonKept
<1> QED
  BY <1>1, <1>4, <1>5, <1>6, <1>7, <1>10, <1>11 DEF ChatInv

LEMMA RecordOf ==
    ASSUME NEW t \in Seq(Unit), NEW o \in Overrun(t)
    PROVE  \E f \in Record : /\ f = [text |-> t, over |-> o] /\ f.text = t
                             /\ f.over => ~(Len(t) < BUFFER_LENGTH)
<1>1. [text |-> t, over |-> o] \in Record
  BY DEF Record, Overrun
<1>2. o => ~(Len(t) < BUFFER_LENGTH)
  BY DEF Overrun
<1>3. [text |-> t, over |-> o].over = o /\ [text |-> t, over |-> o].text = t
  OBVIOUS
<1> QED
  BY <1>1, <1>2, <1>3

LEMMA PrintStep ==
    ASSUME ChatInv, NEW s \in Sides, sk[s] = "recv",
           NEW a \in Seq(Unit), NEW b \in Seq(Unit), NEW t \in Seq(Unit), Prints(s, a, b, t),
           UNCHANGED <<mode, stdin, kb, out, sk, reset, sigusr1, typed, sent>>,
           NextText(s, a, b, t)
    PROVE  ChatInv'
<1>1. /\ Peer(s) \in Sides /\ Peer(s) # s /\ Peer(Peer(s)) = s
      /\ \A x \in Sides : x = s \/ x = Peer(s)
  BY Peers
<1>2. PICK p \in Sides, ls \in Seq(Seq(Unit)), ts \in Seq(Seq(Unit)), q \in Seq(Record) :
          p = Peer(s) /\ ls = typed[p] /\ ts = sent[p] /\ q = printed[s]
  BY <1>1 DEF ChatInv, TypeOK
<1>3. PICK g \in Seq(Unit), o \in Seq(Unit), z \in Seq(Unit) : g = got[s] /\ o = out[p] /\ z = b \o o
  <2>1. got[s] \in Seq(Unit) /\ out[p] \in Seq(Unit)
    BY DEF ChatInv, TypeOK
  <2> QED
    BY <2>1, Concat
<1>4. PICK f \in Record : /\ f.text = t
                          /\ f.over => ~(Len(t) < BUFFER_LENGTH)
                          /\ printed' = [printed EXCEPT ![s] = Append(q, f)]
  <2>1. PICK e \in Overrun(t) : printed' = [printed EXCEPT ![s] = Append(q, [text |-> t, over |-> e])]
    BY <1>2 DEF Prints
  <2>2. PICK f \in Record : /\ f = [text |-> t, over |-> e] /\ f.text = t
                            /\ f.over => ~(Len(t) < BUFFER_LENGTH)
    BY RecordOf
  <2> QED
    BY <2>1, <2>2
<1>5. Given(ls, ts, stdin[p]) /\ Shown(mode, q, ls, ts)
  BY <1>1, <1>2 DEF ChatInv, Keyboard, Printed
<1>6. PICK texts \in Seq(Seq(Unit)), c \in Nat :
          texts = Texts(q) /\ Len(texts) = Len(q) /\ c = Counted(texts) /\ Text(s) = texts
  BY <1>2, <1>5, TextsOf, ShownCounts, TextIs
<1>7. f.over => mode # "packet" /\ Len(t) = BUFFER_LENGTH
  <2>1. BUFFER_LENGTH \in Nat /\ Len(t) \in Nat
    BY ChatAssumption, LenProperties
  <2>2. f.over => ~(Len(t) < BUFFER_LENGTH)
    BY <1>4
  <2>3. CASE mode = "packet"
    <3>1. Len(t) \in 1..(BUFFER_LENGTH - 1)
      BY <1>2, <1>5, <2>3 DEF Given, NextText
    <3>2. Len(t) < BUFFER_LENGTH
      BY <2>1, <3>1
    <3> QED
      BY <2>2, <3>2
  <2>4. CASE mode # "packet"
    <3>1. Len(t) <= BUFFER_LENGTH
      BY <2>4 DEF NextText
    <3>2. ~(Len(t) < BUFFER_LENGTH) => Len(t) = BUFFER_LENGTH
      BY <2>1, <3>1
    <3> QED
      BY <2>2, <2>4, <3>2
  <2> QED
    BY <2>3, <2>4
<1>8. mode # "packet" => Follows(ls, t \o z, c) /\ (kb[p] # "gone" => c + Len(t \o z) = Counted(ts))
  <2>1. SUFFICES ASSUME mode # "packet" PROVE Follows(ls, t \o z, c) /\ (kb[p] # "gone" => c + Len(t \o z) = Counted(ts))
    OBVIOUS
  <2>2. Stream(s) = g \o ((a \o b) \o o)
    BY <1>2, <1>3 DEF Stream, Prints
  <2>3. (g \o a) \o z = g \o (a \o z)
    BY Assoc
  <2>4. (a \o b) \o o = a \o (b \o o)
    BY Assoc
  <2>5. Stream(s) = t \o z
    BY <1>3, <2>1, <2>2, <2>3, <2>4 DEF NextText
  <2>6. PlainStream(Stream(s), kb[p] # "gone", ls, ts, texts)
    BY <1>2, <1>6, <2>1 DEF ChatInv, Plain
  <2> QED
    BY <1>6, <2>5, <2>6 DEF PlainStream
<1>9. Follows(ls, t, c)
  <2>1. CASE mode # "packet"
    BY <1>8, <2>1, FollowsJoined
  <2>2. CASE mode = "packet"
    <3>1. SameUpTo(texts, ts) /\ InOrder(ls, ts) /\ \A i \in 1..Len(ts) : Len(ts[i]) > 0
      BY <1>5, <1>6, <2>2, GivenCounts DEF Shown, Given
    <3>2. Len(texts) + 1 \in 1..Len(ts) /\ t = ts[Len(texts) + 1]
      BY <1>2, <1>6, <2>2 DEF NextText
    <3> QED
      BY <1>6, <3>1, <3>2, NextRecord
  <2> QED
    BY <2>1, <2>2
<1>10. PICK r \in Seq(Record) : r = Append(q, f) /\ Len(r) = Len(q) + 1
  BY Appended
<1>11. Shown(mode, r, ls, ts) /\ Texts(r) = Append(texts, t) /\ Counted(Append(texts, t)) = c + Len(t)
  <2>1. Follows(ls, t, Counted(Texts(q)))
    BY <1>6, <1>9
  <2>2. PICK m : m = mode
    OBVIOUS
  <2>3. Shown(m, q, ls, ts) /\ NextShown(m, q, ls, ts, f, t)
    BY <1>2, <1>4, <1>5, <1>7, <2>1, <2>2 DEF NextShown, NextText
  <2>4. /\ Shown(m, r, ls, ts) /\ Texts(r) = Append(Texts(q), t)
        /\ Counted(Append(Texts(q), t)) = Counted(Texts(q)) + Len(t)
    <3>1. Shown(m, q, ls, ts)
      BY <2>3
    <3>2. NextShown(m, q, ls, ts, f, t)
      BY <2>3
    <3>3. r = Append(q, f)
      BY <1>10
    <3>4. Shown(m, r, ls, ts)
      BY <3>1, <3>2, <3>3, ShownMore, Zenon
    <3>5. Texts(r) = Append(Texts(q), t)
      BY <1>4, <3>3, TextsMore
    <3>6. Counted(Append(texts, t)) = Counted(texts) + Len(t)
      <4>1. /\ InOrder(ls, texts) /\ \A i \in 1..Len(texts) : Len(texts[i]) > 0
            /\ Follows(ls, t, Counted(texts)) /\ Len(t) > 0
        BY <1>6, <3>1, <2>1, ShownCounts DEF Shown, NextText
      <4> QED
        BY <4>1, OneMoreText
    <3> QED
      BY <1>6, <3>4, <3>5, <3>6
  <2> QED
    BY <1>6, <2>2, <2>4
<1>12. /\ net' \in [Sides -> Seq(Unit)] /\ got' \in [Sides -> Seq(Unit)] /\ printed' \in [Sides -> Seq(Record)]
       /\ net'[s] = b /\ net'[p] = net[p] /\ got'[s] = <<>> /\ got'[p] = got[p]
       /\ printed'[s] = r /\ printed'[p] = printed[p]
  <2>1. <<>> \in Seq(Unit)
    BY EmptySeq
  <2> QED
    BY <1>1, <1>2, <1>4, <1>10, <2>1 DEF Prints, ChatInv, TypeOK
<1>13. TypeOK'
  BY <1>12 DEF ChatInv, TypeOK
<1>14. \A x \in Sides : Keyboard(x)' /\ Connection(x)'
  BY DEF ChatInv, Keyboard, Connection, Closed
<1>15. \A x \in Sides : Printed(x)' /\ Partial(x)'
  <2>1. Printed(s)' /\ Printed(p)'
    BY <1>1, <1>2, <1>11, <1>12 DEF ChatInv, Printed
  <2>2. Partial(s)'
    <3>1. BUFFER_LENGTH \in Nat /\ Len(<<>>) = 0 /\ \A i \in 1..0 : FALSE
      BY ChatAssumption, EmptySeq
    <3> QED
      BY <1>12, <3>1 DEF Partial
  <2>3. Partial(p)'
    BY <1>12 DEF ChatInv, Partial
  <2> QED
    BY <1>1, <1>2, <2>1, <2>2, <2>3
<1>16. Stream(s)' = z
  <2>1. <<>> \o z = z
    BY ConcatEmptySeq
  <2> QED
    BY <1>2, <1>3, <1>12, <2>1 DEF Stream
<1>17. Plain(s)'
  <2>1. SUFFICES ASSUME mode # "packet"
                 PROVE  PlainStream(z, kb[p] # "gone", ls, ts, Append(texts, t))
    BY <1>2, <1>11, <1>12, <1>16, TextIs DEF Plain
  <2>2. PICK m \in Nat, n \in Nat : m = Len(t) /\ n = Len(z) /\ Len(t \o z) = m + n
    <3>1. Len(t) \in Nat /\ Len(z) \in Nat
      BY LenProperties
    <3>2. Len(t \o z) = Len(t) + Len(z)
      BY Concat
    <3> QED
      BY <3>1, <3>2
  <2>3. Follows(ls, z, c + m)
    BY <1>8, <2>1, <2>2, FollowsJoined
  <2>4. kb[p] # "gone" => c + (m + n) = Counted(ts)
    BY <1>8, <2>1, <2>2
  <2>5. c + (m + n) = (c + m) + n
    OBVIOUS
  <2> QED
    BY <1>11, <2>2, <2>3, <2>4, <2>5 DEF PlainStream
<1>18. Framed(s)'
  <2>1. SUFFICES ASSUME mode = "packet"
                 PROVE  FramedStream(z, kb[p] # "gone", ts, Len(r))
    BY <1>2, <1>12, <1>16 DEF Framed
  <2> QED
    BY <1>2, <1>3, <1>10, <2>1 DEF RestFramed, NextText
<1>19. Plain(p)' /\ Framed(p)'
  BY <1>1, <1>2, <1>12, TextIs DEF ChatInv, Plain, Framed, Stream
<1>20. LeavesForReason'
  BY ReasonKept
<1> QED
  BY <1>1, <1>2, <1>13, <1>14, <1>15, <1>17, <1>18, <1>19, <1>20 DEF ChatInv

(* What a call takes off the socket.                                       *)
LEMMA Taken ==
    ASSUME ChatInv, NEW s \in Sides, NEW n \in 1..Len(net[s]), Take(s, n)
    PROVE  \E a \in Seq(Unit) : \E b \in Seq(Unit) :
              /\ a = SubSeq(net[s], 1, n) /\ Len(a) = n /\ net[s] = a \o b
              /\ net' = [net EXCEPT ![s] = b]
<1>1. PICK w \in Seq(Unit) : w = net[s] /\ net \in [Sides -> Seq(Unit)]
  BY DEF ChatInv, TypeOK
<1>2. n \in 0..Len(w)
  BY <1>1, LenProperties
<1>3. /\ SubSeq(w, 1, n) \in Seq(Unit) /\ Len(SubSeq(w, 1, n)) = n
      /\ SubSeq(w, n + 1, Len(w)) \in Seq(Unit)
  BY <1>2, Divided
<1>4. SubSeq(w, 1, n) \o SubSeq(w, n + 1, Len(w)) = w
  BY <1>2, Parted
<1>5. net' = [net EXCEPT ![s] = SubSeq(w, n + 1, Len(w))]
  BY <1>1 DEF Take
<1> QED
  BY <1>1, <1>3, <1>4, <1>5

(* chat: what one read brings is a text.                                   *)
LEMMA RawStep ==
    ASSUME ChatInv, NEW s \in Sides, sk[s] = "recv", NEW n \in 1..Len(net[s]), n <= Asked(got[s]),
           ReadRaw(s, n), UNCHANGED <<mode, stdin, kb, out, sk, reset, sigusr1, typed, sent>>
    PROVE  ChatInv'
<1>1. mode = "raw" /\ Take(s, n) /\ PrintRecord(s, SubSeq(net[s], 1, n))
  BY DEF ReadRaw
<1>2. PICK a \in Seq(Unit) : \E b \in Seq(Unit) :
          /\ a = SubSeq(net[s], 1, n) /\ Len(a) = n /\ net[s] = a \o b
          /\ net' = [net EXCEPT ![s] = b]
  BY <1>1, Taken
<1>3. PICK b \in Seq(Unit) :
          /\ a = SubSeq(net[s], 1, n) /\ Len(a) = n /\ net[s] = a \o b
          /\ net' = [net EXCEPT ![s] = b]
  BY <1>2
<1>4. Prints(s, a, b, a)
  BY <1>1, <1>3 DEF PrintRecord, Prints
<1>5. got[s] = <<>> /\ Len(<<>>) = 0 /\ <<>> \o a = a
  BY <1>1, EmptySeq, ConcatEmptySeq DEF ChatInv, Partial
<1>6. BUFFER_LENGTH \in Nat /\ net[s] \in Seq(Unit)
  BY ChatAssumption DEF ChatInv, TypeOK
<1>7. n > 0 /\ n <= BUFFER_LENGTH
  <2>1. Asked(got[s]) = BUFFER_LENGTH - 0
    BY <1>1, <1>5 DEF Asked
  <2>2. Len(net[s]) \in Nat
    BY <1>6, LenProperties
  <2> QED
    BY <1>6, <2>1, <2>2
<1>8. NextText(s, a, b, a)
  BY <1>1, <1>3, <1>5, <1>7 DEF NextText
<1> QED
  BY <1>4, <1>8, PrintStep

(* A call takes a, which makes the record v, and leaves b.                 *)
Cuts(s, a, b, v) == net[s] = a \o b /\ v = got[s] \o a

Regroups(g, a, b, o) == g \o ((a \o b) \o o) = (g \o a) \o (b \o o)

LEMMA Regroup ==
    ASSUME NEW g \in Seq(Unit), NEW a \in Seq(Unit), NEW b \in Seq(Unit), NEW o \in Seq(Unit)
    PROVE  Regroups(g, a, b, o)
<1>1. (a \o b) \o o = a \o (b \o o)
  BY Assoc
<1>2. PICK z \in Seq(Unit) : z = b \o o
  BY Concat
<1>3. (g \o a) \o z = g \o (a \o z)
  BY Assoc
<1> QED
  BY <1>1, <1>2, <1>3 DEF Regroups

LEMMA StreamTaken ==
    ASSUME NEW s \in Sides, got[s] \in Seq(Unit), out[Peer(s)] \in Seq(Unit),
           NEW a \in Seq(Unit), NEW b \in Seq(Unit), NEW v, Cuts(s, a, b, v)
    PROVE  Stream(s) = v \o (b \o out[Peer(s)])
<1>1. Regroups(got[s], a, b, out[Peer(s)])
  BY Regroup
<1> QED
  BY <1>1 DEF Regroups, Cuts, Stream

(* fixed-length: the packet is printed when it is complete.                *)
LEMMA PacketDone ==
    ASSUME ChatInv, NEW s \in Sides, sk[s] = "recv", mode = "packet",
           NEW a \in Seq(Unit), NEW b \in Seq(Unit), NEW v \in Seq(Unit), Cuts(s, a, b, v),
           PacketComplete(v)
    PROVE  \E t \in Seq(Unit) : t = SubSeq(v, HEAD + 1, Len(v)) /\ NextText(s, a, b, t)
<1>1. Peer(s) \in Sides
  BY Peers
<1>2. PICK ts \in Seq(Seq(Unit)), q \in Seq(Record), g \in Seq(Unit), o \in Seq(Unit) :
          ts = sent[Peer(s)] /\ q = printed[s] /\ g = got[s] /\ o = out[Peer(s)]
  BY <1>1 DEF ChatInv, TypeOK
<1>3. PICK z \in Seq(Unit) : z = b \o o
  BY Concat
<1>4. Stream(s) = v \o z
  <2>0. got[s] \in Seq(Unit) /\ out[Peer(s)] \in Seq(Unit)
    BY <1>2
  <2>1. Stream(s) = v \o (b \o out[Peer(s)])
    BY <2>0, StreamTaken
  <2> QED
    BY <1>2, <1>3, <2>1
<1>5. PICK k \in 0..Len(ts) : k = Len(q)
  <2>1. SameUpTo(Texts(q), ts)
    BY <1>1, <1>2 DEF ChatInv, Printed, Shown
  <2>2. Len(Texts(q)) = Len(q) /\ Len(q) \in Nat /\ Len(ts) \in Nat
    BY TextsOf, LenProperties
  <2> QED
    BY <2>1, <2>2 DEF SameUpTo
<1>6. FramedStream(v \o z, kb[Peer(s)] # "gone", ts, k)
  BY <1>2, <1>4, <1>5 DEF ChatInv, Framed
<1>7. /\ k + 1 \in 1..Len(ts) /\ SubSeq(v, HEAD + 1, Len(v)) = ts[k + 1]
      /\ FramedStream(z, FALSE, ts, k + 1)
  <2>1. FramedStream(v \o z, FALSE, ts, k)
    BY <1>6 DEF FramedStream
  <2> QED
    BY <2>1, FramedTaken
<1>8. FramedStream(z, kb[Peer(s)] # "gone", ts, k + 1)
  <2>1. CASE kb[Peer(s)] # "gone"
    <3>1. FramedStream(v \o z, TRUE, ts, k)
      BY <1>6, <2>1 DEF FramedStream
    <3>2. FramedStream(z, TRUE, ts, k + 1)
      BY <3>1, FramedTaken
    <3> QED
      BY <3>2 DEF FramedStream
  <2>2. CASE kb[Peer(s)] = "gone"
    BY <1>7, <2>2 DEF FramedStream
  <2> QED
    BY <2>1, <2>2
<1>9. PICK t \in Seq(Unit) : t = ts[k + 1]
  BY <1>7, ElementOfSeq
<1>10. Len(t) > 0
  <2>1. Given(typed[Peer(s)], ts, stdin[Peer(s)])
    BY <1>1, <1>2 DEF ChatInv, Keyboard
  <2>2. Len(t) \in 1..(BUFFER_LENGTH - 1)
    BY <1>7, <1>9, <2>1 DEF Given
  <2> QED
    BY <2>2, ChatAssumption
<1>11. RestFramed(s, b)
  BY <1>2, <1>3, <1>5, <1>8 DEF RestFramed
<1>12. NextText(s, a, b, t)
  BY <1>2, <1>5, <1>7, <1>9, <1>10, <1>11 DEF NextText
<1> QED
  BY <1>7, <1>9, <1>12

LEMMA PacketStep ==
    ASSUME ChatInv, NEW s \in Sides, sk[s] = "recv", NEW n \in 1..Len(net[s]), readn(s, n),
           UNCHANGED <<mode, stdin, kb, out, sk, reset, sigusr1, typed, sent>>
    PROVE  ChatInv'
<1>1. mode = "packet" /\ Take(s, n)
  BY DEF readn
<1>2. PICK a \in Seq(Unit) : \E b \in Seq(Unit) :
          /\ a = SubSeq(net[s], 1, n) /\ Len(a) = n /\ net[s] = a \o b
          /\ net' = [net EXCEPT ![s] = b]
  BY <1>1, Taken
<1>3. PICK b \in Seq(Unit) :
          /\ a = SubSeq(net[s], 1, n) /\ Len(a) = n /\ net[s] = a \o b
          /\ net' = [net EXCEPT ![s] = b]
  BY <1>2
<1>4. PICK v \in Seq(Unit) : v = got[s] \o a
  <2>1. got[s] \in Seq(Unit)
    BY DEF ChatInv, TypeOK
  <2> QED
    BY <2>1, Concat
<1>5. IF PacketComplete(v) THEN PrintRecord(s, SubSeq(v, HEAD + 1, Len(v)))
      ELSE got' = [got EXCEPT ![s] = v] /\ UNCHANGED printed
  BY <1>3, <1>4 DEF readn
<1>6. CASE PacketComplete(v)
  <2>1. Cuts(s, a, b, v)
    BY <1>3, <1>4 DEF Cuts
  <2>2. PICK t \in Seq(Unit) : t = SubSeq(v, HEAD + 1, Len(v)) /\ NextText(s, a, b, t)
    BY <1>1, <1>6, <2>1, PacketDone
  <2>3. PrintRecord(s, t)
    BY <1>5, <1>6, <2>2
  <2>4. Prints(s, a, b, t)
    BY <1>3, <2>3 DEF PrintRecord, Prints
  <2> QED
    BY <2>2, <2>4, PrintStep
<1>7. CASE ~PacketComplete(v)
  <2>1. Keeps(s, a, b)
    BY <1>3, <1>4, <1>5, <1>7 DEF Keeps
  <2>2. mode # "raw" /\ mode # "line"
    BY <1>1
  <2> QED
    BY <2>1, <2>2, KeepStep
<1> QED
  BY <1>6, <1>7

(* readline: the line is printed when its newline has come.                *)
EndsLine(a, k) == k > 0 /\ Newline(a[k]) /\ \A i \in 1..k : i < k => ~Newline(a[i])

LEMMA LineDone ==
    ASSUME ChatInv, NEW s \in Sides, sk[s] = "recv", mode = "line",
           NEW a \in Seq(Unit), NEW b \in Seq(Unit), NEW t \in Seq(Unit), Cuts(s, a, b, t),
           NEW k \in Nat, k = Len(a), EndsLine(a, k),
           Len(got[s]) + k <= BUFFER_LENGTH
    PROVE  NextText(s, a, b, t)
<1>1. Peer(s) \in Sides
  BY Peers
<1>2. PICK ls \in Seq(Seq(Unit)), ts \in Seq(Seq(Unit)), q \in Seq(Record) :
          ls = typed[Peer(s)] /\ ts = sent[Peer(s)] /\ q = printed[s]
  BY <1>1 DEF ChatInv, TypeOK
<1>3. PICK g \in Seq(Unit), o \in Seq(Unit), m \in Nat : g = got[s] /\ o = out[Peer(s)] /\ m = Len(g)
  <2>1. got[s] \in Seq(Unit) /\ out[Peer(s)] \in Seq(Unit)
    BY <1>1 DEF ChatInv, TypeOK
  <2> QED
    BY <2>1, LenProperties
<1>4. PICK z \in Seq(Unit) : z = b \o o
  BY Concat
<1>5. /\ Len(t) = m + k
      /\ \A i \in 1..m : t[i] = g[i]
      /\ \A j \in 1..k : t[m + j] = a[j]
      /\ \A i \in 1..Len(t) : i \in 1..m \/ \E j \in 1..k : i = m + j
  <2>1. t = g \o a
    BY <1>3 DEF Cuts
  <2>2. /\ Len(g \o a) = m + k
        /\ \A i \in 1..m : (g \o a)[i] = g[i]
        /\ \A j \in 1..k : (g \o a)[m + j] = a[j]
        /\ \A i \in 1..Len(g \o a) : i \in 1..m \/ \E j \in 1..k : i = m + j
    BY <1>3, Joined
  <2> QED
    BY <2>1, <2>2
<1>6. Given(ls, ts, stdin[Peer(s)]) /\ Shown(mode, q, ls, ts)
  BY <1>1, <1>2 DEF ChatInv, Keyboard, Printed
<1>7. PICK texts \in Seq(Seq(Unit)), c \in Nat :
          texts = Texts(q) /\ Len(texts) = Len(q) /\ c = Counted(texts) /\ Text(s) = texts
  BY <1>2, <1>6, TextsOf, ShownCounts, TextIs
<1>8. Lines(ls) /\ SameUpTo(texts, ls)
  BY <1>6, <1>7 DEF Given, Shown
<1>9. Follows(ls, t, c)
  <2>1. Stream(s) = t \o z
    <3>1. Stream(s) = t \o (b \o out[Peer(s)])
      <4>1. got[s] \in Seq(Unit) /\ out[Peer(s)] \in Seq(Unit)
        BY <1>3
      <4> QED
        BY <4>1, StreamTaken
    <3> QED
      BY <1>3, <1>4, <3>1
  <2>2. Follows(ls, t \o z, c)
    BY <1>2, <1>7, <2>1 DEF ChatInv, Plain, PlainStream
  <2> QED
    BY <2>2, FollowsJoined
<1>10. Len(t) > 0 /\ Len(t) = m + k /\ Newline(t[m + k])
  <2>1. k \in 1..k /\ m + k > 0 /\ Newline(a[k])
    BY DEF EndsLine
  <2> QED
    BY <1>5, <2>1
<1>11. \A i \in 1..Len(t) : i < Len(t) => ~Newline(t[i])
  <2>1. \A i \in 1..m : ~Newline(g[i])
    BY <1>3 DEF ChatInv, Partial
  <2>2. ASSUME NEW i \in 1..Len(t), i < Len(t)
        PROVE  ~Newline(t[i])
    <3>1. CASE i \in 1..m
      BY <1>5, <2>1, <3>1
    <3>2. ASSUME NEW j \in 1..k, i = m + j
          PROVE  ~Newline(t[i])
      <4>1. j < k
        BY <1>5, <2>2, <3>2
      <4>2. ~Newline(a[j])
        BY <4>1 DEF EndsLine
      <4> QED
        BY <1>5, <3>2, <4>2
    <3> QED
      BY <1>5, <3>1, <3>2
  <2> QED
    BY <2>2
<1>12. Len(texts) + 1 \in 1..Len(ls) /\ t = ls[Len(texts) + 1]
  <2>1. Follows(ls, t, Counted(texts)) /\ Newline(t[Len(t)])
    BY <1>7, <1>9, <1>10
  <2> QED
    BY <1>8, <1>10, <1>11, <2>1, WholeLine
<1>13. Len(t) <= BUFFER_LENGTH
  BY <1>3, <1>10
<1> QED
  BY <1>2, <1>7, <1>10, <1>12, <1>13 DEF NextText, Cuts

LEMMA LineStep ==
    ASSUME ChatInv, NEW s \in Sides, sk[s] = "recv", NEW n \in 1..Len(net[s]), n <= Asked(got[s]),
           readline(s, n), UNCHANGED <<mode, stdin, kb, out, sk, reset, sigusr1, typed, sent>>
    PROVE  ChatInv'
<1>1. mode = "line"
  BY DEF readline
<1>2. PICK w \in Seq(Unit), g \in Seq(Unit) : w = net[s] /\ g = got[s]
  BY DEF ChatInv, TypeOK
<1>3. PICK l \in Nat, m \in Nat : l = Len(w) /\ m = Len(g)
  BY LenProperties
<1>4. n \in 1..l /\ n \in 0..Len(w) /\ BUFFER_LENGTH \in Nat /\ m + n <= BUFFER_LENGTH
  <2>1. n \in 1..l /\ n \in 0..l
    BY <1>2, <1>3
  <2>2. n <= BUFFER_LENGTH - m
    BY <1>1, <1>2, <1>3 DEF Asked
  <2> QED
    BY <1>3, <2>1, <2>2, ChatAssumption
<1>5. /\ SubSeq(w, 1, n) \in Seq(Unit) /\ Len(SubSeq(w, 1, n)) = n
      /\ \A i \in 1..n : SubSeq(w, 1, n)[i] = w[i]
  BY <1>4, Divided
<1>6. PICK seen \in Seq(Unit) :
          seen = SubSeq(w, 1, n) /\ Len(seen) = n /\ \A i \in 1..n : seen[i] = w[i]
  BY <1>5
<1>7. PICK p : p = SelectInSeq(seen, Newline)
  OBVIOUS
<1>8. IF p # 0 THEN Take(s, p) /\ PrintRecord(s, g \o SubSeq(seen, 1, p))
      ELSE Take(s, n) /\ got' = [got EXCEPT ![s] = g \o seen] /\ UNCHANGED printed
  BY <1>2, <1>6, <1>7 DEF readline
<1>9. \/ p = 0 /\ \A i \in 1..n : ~Newline(seen[i])
      \/ p \in 1..n /\ Newline(seen[p]) /\ \A i \in 1..n : i < p => ~Newline(seen[i])
  BY <1>6, <1>7, FirstNewline
<1>10. CASE p = 0
  <2>1. Take(s, n) /\ n \in 1..Len(net[s]) /\ \A i \in 1..n : ~Newline(seen[i])
    BY <1>8, <1>9, <1>10
  <2>2. PICK a \in Seq(Unit) : \E b \in Seq(Unit) :
            /\ a = SubSeq(net[s], 1, n) /\ Len(a) = n /\ net[s] = a \o b
            /\ net' = [net EXCEPT ![s] = b]
    BY <2>1, Taken
  <2>3. PICK b \in Seq(Unit) :
            /\ a = SubSeq(net[s], 1, n) /\ Len(a) = n /\ net[s] = a \o b
            /\ net' = [net EXCEPT ![s] = b]
    BY <2>2
  <2>4. a = seen
    BY <1>2, <1>6, <2>3
  <2>5. Keeps(s, a, b)
    BY <1>2, <1>8, <1>10, <2>3, <2>4 DEF Keeps
  <2>6. /\ Len(got[s]) + Len(a) <= BUFFER_LENGTH
        /\ \A i \in 1..Len(a) : ~Newline(a[i])
    BY <1>2, <1>3, <1>4, <2>1, <2>3, <2>4
  <2>7. mode # "raw"
    BY <1>1
  <2> QED
    BY <2>5, <2>6, <2>7, KeepStep
<1>11. CASE p # 0
  <2>1. /\ p \in 1..n /\ Newline(seen[p]) /\ \A i \in 1..n : i < p => ~Newline(seen[i])
        /\ Take(s, p) /\ PrintRecord(s, g \o SubSeq(seen, 1, p))
    BY <1>8, <1>9, <1>11
  <2>2. p \in 1..Len(net[s]) /\ p \in 0..Len(w) /\ p \in 0..Len(seen) /\ p \in Nat /\ p > 0 /\ p <= n
    BY <1>2, <1>3, <1>4, <1>6, <2>1
  <2>3. PICK k \in Nat : k = p
    BY <2>2
  <2>4. k \in 1..Len(net[s]) /\ Take(s, k)
    BY <2>1, <2>2, <2>3
  <2>5. PICK a \in Seq(Unit) : \E b \in Seq(Unit) :
            /\ a = SubSeq(net[s], 1, k) /\ Len(a) = k /\ net[s] = a \o b
            /\ net' = [net EXCEPT ![s] = b]
    BY <2>4, Taken
  <2>6. PICK b \in Seq(Unit) :
            /\ a = SubSeq(net[s], 1, k) /\ Len(a) = k /\ net[s] = a \o b
            /\ net' = [net EXCEPT ![s] = b]
    BY <2>5
  <2>7. k \in 0..Len(w) /\ k \in 0..Len(seen)
    BY <2>2, <2>3
  <2>8. \A i \in 1..k : SubSeq(w, 1, k)[i] = w[i]
    BY <2>7, Divided
  <2>9. SubSeq(seen, 1, k) \in Seq(Unit) /\ Len(SubSeq(seen, 1, k)) = k /\ \A i \in 1..k : SubSeq(seen, 1, k)[i] = seen[i]
    BY <2>7, Divided
  <2>10. \A i \in 1..k : i \in 1..n
    BY <2>2, <2>3
  <2>11. \A i \in 1..k : a[i] = seen[i]
    BY <1>2, <1>6, <2>6, <2>8, <2>10
  <2>12. SubSeq(seen, 1, k) = a
    BY <2>6, <2>9, <2>11, SeqEqual
  <2>13. EndsLine(a, k)
    <3>1. k > 0 /\ k \in 1..k /\ Newline(seen[k]) /\ \A i \in 1..n : i < k => ~Newline(seen[i])
      BY <2>1, <2>2, <2>3
    <3> QED
      BY <2>10, <2>11, <3>1 DEF EndsLine
  <2>14. Len(got[s]) + k <= BUFFER_LENGTH
    BY <1>2, <1>3, <1>4, <2>2, <2>3
  <2>15. PICK t \in Seq(Unit) : t = g \o a /\ Cuts(s, a, b, t)
    <3>1. g \o a \in Seq(Unit)
      BY Concat
    <3> QED
      BY <1>2, <2>6, <3>1 DEF Cuts
  <2>16. NextText(s, a, b, t)
    BY <1>1, <2>6, <2>13, <2>14, <2>15, LineDone
  <2>17. PrintRecord(s, t)
    BY <1>2, <2>1, <2>3, <2>12, <2>15
  <2>18. Prints(s, a, b, t)
    BY <2>6, <2>17 DEF PrintRecord, Prints
  <2> QED
    BY <2>18, <2>16, PrintStep
<1> QED
  BY <1>10, <1>11

LEMMA ReceiveStep ==
    ASSUME ChatInv, NEW s \in Sides, recv_socket(s)
    PROVE  ChatInv'
<1>1. PICK n \in 1..Len(net[s]) : n <= Asked(got[s]) /\ (ReadRaw(s, n) \/ readn(s, n) \/ readline(s, n))
  BY DEF recv_socket
<1>2. sk[s] = "recv" /\ UNCHANGED <<mode, stdin, kb, out, sk, reset, sigusr1, typed, sent>>
  BY DEF recv_socket
<1>3. CASE ReadRaw(s, n)
  BY <1>1, <1>2, <1>3, RawStep
<1>4. CASE readn(s, n)
  BY <1>1, <1>2, <1>4, PacketStep
<1>5. CASE readline(s, n)
  BY <1>1, <1>2, <1>5, LineStep
<1> QED
  BY <1>1, <1>3, <1>4, <1>5

-----------------------------------------------------------------------------
LEMMA ChatStep ==
    ASSUME ChatInv, [Next]_vars
    PROVE  ChatInv'
<1>1. CASE Next
  <2>1. PICK s \in Sides : \/ Moves(s) \/ recv_keyboard(s) \/ recv_socket(s)
                           \/ \E n \in Lengths[s] : Type(s, n)
    BY <1>1, StepIs
  <2>2. CASE Moves(s)
    BY <2>2, MovesStep
  <2>3. CASE recv_keyboard(s)
    BY <2>3, FetchStep
  <2>4. CASE recv_socket(s)
    BY <2>4, ReceiveStep
  <2>5. ASSUME NEW n \in Lengths[s], Type(s, n)
        PROVE  ChatInv'
    BY <2>5, TypeStep
  <2> QED
    BY <2>1, <2>2, <2>3, <2>4, <2>5
<1>2. CASE UNCHANGED vars
  <2>1. UNCHANGED <<mode, stdin, kb, out, sk, got, net, reset, sigusr1, typed, sent, printed>>
    BY <1>2 DEF vars
  <2>2. TypeOK' /\ LeavesForReason'
    BY <2>1 DEF ChatInv, TypeOK, LeavesForReason, Closed
  <2>3. \A p \in Sides : Keyboard(p)' /\ Connection(p)'
    BY <2>1 DEF ChatInv, Keyboard, Connection, Closed
  <2>4. \A s \in Sides : Plain(s)' /\ Framed(s)' /\ Partial(s)' /\ Printed(s)'
    BY <2>1 DEF ChatInv, Plain, Framed, Stream, Text, Partial, Printed
  <2> QED
    BY <2>2, <2>3, <2>4 DEF ChatInv
<1> QED
  BY <1>1, <1>2

(* The chat programs, whichever they are, never leave ChatInv: what is     *)
(* typed, fetched by fgets, on its way and printed fits together.          *)
THEOREM ChatInvariant == Spec => []ChatInv
BY ChatInit, ChatStep, PTL DEF Spec

LEMMA PrefixIs ==
    ASSUME NEW texts \in Seq(Seq(Unit)), NEW ts \in Seq(Seq(Unit)), SameUpTo(texts, ts)
    PROVE  IsPrefix(texts, ts)
<1>1. PICK n \in 0..Len(ts) : n = Len(texts)
  <2>1. Len(texts) \in Nat /\ Len(ts) \in Nat /\ Len(texts) <= Len(ts)
    BY LenProperties DEF SameUpTo
  <2> QED
    BY <2>1
<1>2. /\ SubSeq(ts, 1, n) \in Seq(Seq(Unit)) /\ Len(SubSeq(ts, 1, n)) = n
      /\ \A i \in 1..n : SubSeq(ts, 1, n)[i] = ts[i]
  BY Divided
<1>3. SubSeq(ts, 1, n) = texts
  BY <1>1, <1>2, SeqEqual DEF SameUpTo
<1> QED
  BY <1>1, <1>3 DEF IsPrefix, SameUpTo

(* recv_keyboard and recv_socket of chat, fixed-length and readline: for   *)
(* lines of any length and a recv_buf of any size, what a side prints is   *)
(* what its peer typed, in order, record by record with packets and line   *)
(* by line with readline, and fputs reads on behind recv_buf only after a  *)
(* record that fills it.                                                   *)
THEOREM RecordsKeptHolds == Spec => []RecordsKept
<1>1. ChatInv => RecordsKept
  <2> SUFFICES ASSUME ChatInv, NEW s \in Sides
               PROVE  /\ InOrder(typed[Peer(s)], Text(s))
                      /\ mode = "packet" => IsPrefix(Text(s), sent[Peer(s)])
                      /\ mode = "line" => IsPrefix(Text(s), typed[Peer(s)])
                      /\ \A i \in 1..Len(printed[s]) :
                            printed[s][i].over => mode # "packet" /\ Len(Text(s)[i]) = BUFFER_LENGTH
    BY DEF RecordsKept
  <2>1. PICK ls \in Seq(Seq(Unit)), ts \in Seq(Seq(Unit)), q \in Seq(Record) :
            ls = typed[Peer(s)] /\ ts = sent[Peer(s)] /\ q = printed[s]
    BY Peers DEF ChatInv, TypeOK
  <2>2. Shown(mode, q, ls, ts)
    BY <2>1 DEF ChatInv, Printed
  <2>3. PICK texts \in Seq(Seq(Unit)) :
            texts = Text(s) /\ texts = Texts(q) /\ \A i \in 1..Len(q) : texts[i] = q[i].text
    BY <2>1, TextIs, TextsOf
  <2>4. InOrder(ls, texts)
    BY <2>2, <2>3 DEF Shown
  <2>5. mode = "packet" => IsPrefix(texts, ts)
    BY <2>2, <2>3, PrefixIs DEF Shown
  <2>6. mode = "line" => IsPrefix(texts, ls)
    BY <2>2, <2>3, PrefixIs DEF Shown
  <2>7. \A i \in 1..Len(q) : q[i].over => mode # "packet" /\ Len(texts[i]) = BUFFER_LENGTH
    BY <2>2, <2>3 DEF Shown
  <2> QED
    BY <2>1, <2>3, <2>4, <2>5, <2>6, <2>7
<1> QED
  BY <1>1, ChatInvariant, PTL

(* recv_socket: a child ends the conversation, and its parent, only when   *)
(* the peer has gone, the connection was reset, or a line of more than     *)
(* recv_buf made recv_peek ask for nothing.                                *)
THEOREM LeavesForReasonHolds == Spec => []LeavesForReason
<1>1. ChatInv => LeavesForReason
  BY DEF ChatInv
<1> QED
  BY <1>1, ChatInvariant, PTL
=============================================================================
