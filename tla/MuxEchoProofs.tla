--------------------------- MODULE MuxEchoProofs ---------------------------
(***************************************************************************)
(* Proofs about the multiplexing echo servers for any clients, any number  *)
(* of descriptors and any size of the buffer: poll_server never blocks in  *)
(* read, what a client gets back is its own, and no client that waits for  *)
(* its answers ends the service.                                           *)
(***************************************************************************)
EXTENDS MuxEcho, SequenceTheorems, FiniteSetTheorems, WellFoundedInduction, TLAPS

-----------------------------------------------------------------------------
(* The inductive invariant.                                                *)

Fds == 0..MaxFds
Unit == (Clients \cup {None}) \X Int

TypeOK ==
    /\ kind \in {"select", "poll", "epoll"} /\ pc \in {"wait", "round", "write", "down"}
    /\ client_sockets \in [1..MaxFds -> Clients \cup {None}] /\ max_pos \in Fds
    /\ ready \subseteq Fds /\ nready \in Int /\ cur \in Fds
    /\ recv_buf \in [1..B -> Unit] /\ queue \in Seq(Clients)
    /\ cl \in [Clients -> {"new", "open", "left"}] /\ sent \in [Clients -> Nat]
    /\ net \in [Clients -> Seq(Unit)] /\ reset \in [Clients -> {"no", "pending", "seen"}]
    /\ unread \in [Clients -> Nat] /\ echoed \in [Clients -> Seq(Unit)]
    /\ short \in BOOLEAN /\ dirty \subseteq Clients

(* A client has connected before it is in the table or waits to be         *)
(* accepted, and it is in one place only.                                  *)
Places ==
    /\ \A d \in Conns : cl[client_sockets[d]] # "new"
    /\ \A i \in 1..Len(queue) : cl[queue[i]] # "new"
    /\ \A d, e \in Conns : client_sockets[d] = client_sockets[e] => d = e
    /\ \A i, j \in 1..Len(queue) : queue[i] = queue[j] => i = j
    /\ \A d \in Conns, i \in 1..Len(queue) : client_sockets[d] # queue[i]

(* What the round still has to look at is there.                           *)
Round ==
    /\ 0 \in ready => queue # <<>>
    /\ \A d \in ready : d # 0 => d \in Conns
    /\ pc = "write" => cur \in ready /\ cur # 0

(* poll_server counts the reported events that it has not yet looked at.   *)
(* They come first in the table, so the count is used up before it reaches *)
(* the entry of a connection it accepted in this round.                    *)
Pending(R) ==
    /\ R # {} /\ nready = Cardinality(R) /\ R \subseteq 0..max_pos
    /\ \A x \in ready \ R, y \in R : y < x
    /\ \A d \in R : Readable(d) \/ (pc = "write" /\ d = cur)
    /\ pc = "write" => cur = Min(ready)

Countdown ==
    kind = "poll" /\ pc \in {"round", "write"} => \E R \in SUBSET ready : Pending(R)

(* Between read and write the server holds data of client c.               *)
Holds(c) == pc = "write" /\ client_sockets[cur] = c
Held(c) == IF Holds(c) THEN B ELSE 0

(* Who left with data under way is known to have done so.                  *)
Left(c) ==
    /\ reset[c] # "no" => cl[c] = "left"
    /\ pc # "down" /\ cl[c] = "left" /\ (net[c] # <<>> \/ reset[c] # "no" \/ Holds(c)) => c \in dirty

(* As long as reads fill the buffer, the units of a client that stays are  *)
(* in order: answered, held and not yet read.                              *)
InOrder(c) ==
    /\ Len(echoed[c]) + Held(c) + Len(net[c]) = B * sent[c]
    /\ \A i \in 1..Len(net[c]) : net[c][i] = <<c, Len(echoed[c]) + Held(c) + i>>
    /\ Holds(c) => \A k \in 1..B : recv_buf[k] = <<c, Len(echoed[c]) + k>>

Data(c) ==
    /\ \A i \in 1..Len(net[c]) : net[c][i][1] = c
    /\ Holds(c) /\ kind = "epoll" => \A k \in 1..B : recv_buf[k][1] = c \/ recv_buf[k] = Zero
    /\ ~short /\ cl[c] # "left" /\ pc # "down" => InOrder(c)
    /\ \A k \in 1..Len(echoed[c]) :
          \/ echoed[c][k] = <<c, k>>
          \/ short /\ (kind = "epoll" => echoed[c][k][1] = c \/ echoed[c][k] = Zero)
    /\ ~short => Len(echoed[c]) <= B * sent[c]

MuxInv ==
    /\ TypeOK /\ Places /\ Round /\ Countdown /\ DownForReason
    /\ \A c \in Clients : Left(c)
    /\ \A c \in Clients : Data(c)

-----------------------------------------------------------------------------
(* Numbers and sequences.                                                  *)

(* A set of numbers has a least element, and Min is that one.              *)
LEMMA LeastOf ==
    ASSUME NEW T, T \subseteq Nat, T # {}
    PROVE  Min(T) \in T /\ \A j \in T : Min(T) <= j
<1>1. PICK k \in T : \A j \in T : ~(<<j, k>> \in OpToRel(<, Nat))
  BY NatLessThanWellFounded, WFMin
<1>2. \A j \in T : <<j, k>> \in OpToRel(<, Nat) <=> j < k
  BY DEF OpToRel
<1>3. \A j \in T : ~(j < k)
  BY <1>1, <1>2, Zenon
<1>4. \E x \in T : \A j \in T : x <= j
  BY <1>3
<1> QED
  BY <1>4 DEF Min

LEMMA LesserOf ==
    ASSUME NEW a \in Nat, NEW b \in Nat
    PROVE  Min({a, b}) \in Nat /\ Min({a, b}) <= a /\ Min({a, b}) <= b
<1>1. {a, b} \subseteq Nat /\ {a, b} # {}
  OBVIOUS
<1> QED
  BY <1>1, LeastOf

LEMMA GreaterOf ==
    ASSUME NEW a \in Nat, NEW b \in Nat
    PROVE  Max({a, b}) \in {a, b} /\ a <= Max({a, b}) /\ b <= Max({a, b})
<1>1. \E x \in {a, b} : \A y \in {a, b} : x >= y
  <2>1. CASE a <= b
    BY <2>1
  <2>2. CASE ~(a <= b)
    BY <2>2
  <2> QED
    BY <2>1, <2>2
<1>2. Max({a, b}) \in {a, b} /\ \A y \in {a, b} : Max({a, b}) >= y
  BY <1>1 DEF Max
<1> QED
  BY <1>2

(* Sets of descriptors are finite sets of numbers.                         *)
LEMMA FdSets ==
    ASSUME NEW T \in SUBSET Fds
    PROVE  /\ T \subseteq Nat /\ IsFiniteSet(T) /\ Cardinality(T) \in Nat
           /\ Cardinality(T) = 0 <=> T = {}
           /\ \A d \in T : Cardinality(T \ {d}) = Cardinality(T) - 1
<1>1. 0 \in Int /\ MaxFds \in Int
  BY SizesAssumption
<1>2. IsFiniteSet(Fds)
  BY <1>1, FS_Interval DEF Fds
<1>3. IsFiniteSet(T)
  BY <1>2, FS_Subset
<1>4. T \subseteq Nat
  BY SizesAssumption DEF Fds
<1> QED
  BY <1>3, <1>4, FS_CardinalityType, FS_EmptySet, FS_RemoveElement

LEMMA RestLength ==
    ASSUME NEW m \in Nat, NEW k \in Nat, k <= m
    PROVE  (IF k + 1 <= m THEN m - (k + 1) + 1 ELSE 0) = m - k
OBVIOUS

(* What read takes off the front of s, and what it leaves.                 *)
LEMMA Divided ==
    ASSUME NEW S, NEW s \in Seq(S), NEW n \in 0..Len(s)
    PROVE  /\ SubSeq(s, 1, n) \in Seq(S) /\ Len(SubSeq(s, 1, n)) = n
           /\ \A i \in 1..n : SubSeq(s, 1, n)[i] = s[i]
           /\ SubSeq(s, n + 1, Len(s)) \in Seq(S)
           /\ Len(SubSeq(s, n + 1, Len(s))) = Len(s) - n
           /\ \A i \in 1..(Len(s) - n) : SubSeq(s, n + 1, Len(s))[i] = s[n + i]
<1>1. Len(s) \in Nat /\ n \in Nat /\ n <= Len(s) /\ s \in [1..Len(s) -> S]
  BY LenProperties
<1>2. /\ SubSeq(s, 1, n) \in Seq(S)
      /\ Len(SubSeq(s, 1, n)) = IF 1 <= n THEN n - 1 + 1 ELSE 0
      /\ \A i \in 1..(n - 1 + 1) : SubSeq(s, 1, n)[i] = s[1 + i - 1]
  <2>1. \A i \in 1..n : s[i] \in S
    BY <1>1
  <2> QED
    BY <1>1, <2>1, SubSeqProperties
<1>3. /\ SubSeq(s, n + 1, Len(s)) \in Seq(S)
      /\ Len(SubSeq(s, n + 1, Len(s))) = IF n + 1 <= Len(s) THEN Len(s) - (n + 1) + 1 ELSE 0
      /\ \A i \in 1..(Len(s) - (n + 1) + 1) : SubSeq(s, n + 1, Len(s))[i] = s[n + 1 + i - 1]
  <2>1. \A i \in (n + 1)..Len(s) : s[i] \in S
    BY <1>1
  <2>2. n + 1 \in Int /\ Len(s) \in Int
    BY <1>1
  <2> QED
    BY <2>1, <2>2, SubSeqProperties
<1>4. Len(SubSeq(s, 1, n)) = n /\ \A i \in 1..n : SubSeq(s, 1, n)[i] = s[i]
  <2>1. n - 1 + 1 = n /\ \A i \in 1..n : 1 + i - 1 = i
    BY <1>1
  <2>2. (IF 1 <= n THEN n - 1 + 1 ELSE 0) = n
    BY <1>1
  <2> QED
    BY <1>2, <2>1, <2>2
<1>5. /\ Len(SubSeq(s, n + 1, Len(s))) = Len(s) - n
      /\ \A i \in 1..(Len(s) - n) : SubSeq(s, n + 1, Len(s))[i] = s[n + i]
  <2>1. Len(s) - (n + 1) + 1 = Len(s) - n /\ \A i \in 1..(Len(s) - n) : n + 1 + i - 1 = n + i
    BY <1>1
  <2>2. (IF n + 1 <= Len(s) THEN Len(s) - (n + 1) + 1 ELSE 0) = Len(s) - n
    <3>1. PICK m \in Nat, k \in Nat : m = Len(s) /\ k = n /\ k <= m
      BY <1>1
    <3>2. (IF k + 1 <= m THEN m - (k + 1) + 1 ELSE 0) = m - k
      BY <3>1, RestLength
    <3> QED
      BY <3>1, <3>2
  <2> QED
    BY <1>3, <2>1, <2>2
<1> QED
  BY <1>2, <1>3, <1>4, <1>5

(* A buffer written behind s.                                              *)
LEMMA Extended ==
    ASSUME NEW S, NEW s \in Seq(S), NEW b \in [1..B -> S]
    PROVE  /\ s \o b \in Seq(S) /\ Len(s \o b) = Len(s) + B /\ Len(s) \in Nat
           /\ \A i \in 1..Len(s) : (s \o b)[i] = s[i]
           /\ \A k \in 1..B : (s \o b)[Len(s) + k] = b[k]
           /\ \A i \in 1..(Len(s) + B) : i \in 1..Len(s) \/ \E k \in 1..B : i = Len(s) + k
<1>1. b \in Seq(S) /\ Len(b) = B /\ Len(s) \in Nat /\ B \in Nat
  BY LenProperties, SizesAssumption
<1>2. /\ s \o b \in Seq(S) /\ Len(s \o b) = Len(s) + Len(b)
      /\ \A i \in 1..(Len(s) + Len(b)) : (s \o b)[i] = IF i <= Len(s) THEN s[i] ELSE b[i - Len(s)]
  BY <1>1, ConcatProperties
<1>3. PICK m \in Nat : m = Len(s)
  BY <1>1
<1>4. \A i \in 1..m : i \in 1..(m + B) /\ i <= m
  BY <1>1, <1>3
<1>5. \A k \in 1..B : m + k \in 1..(m + B) /\ ~(m + k <= m) /\ m + k - m = k
  BY <1>1, <1>3
<1>6. ASSUME NEW i \in 1..(m + B), i \notin 1..m
      PROVE  \E k \in 1..B : i = m + k
  <2>1. i - m \in 1..B /\ i = m + (i - m)
    BY <1>1, <1>3, <1>6
  <2> QED
    BY <2>1
<1> QED
  BY <1>1, <1>2, <1>3, <1>4, <1>5, <1>6

-----------------------------------------------------------------------------
(* What a step keeps.                                                      *)

LEMMA MuxInit == Init => MuxInv
<1> SUFFICES ASSUME Init
             PROVE  MuxInv
  OBVIOUS
<1>1. TypeOK
  <2>1. 0 \in Fds
    BY SizesAssumption DEF Fds
  <2>2. <<>> \in Seq(Unit) /\ <<>> \in Seq(Clients) /\ Junk \in Unit
    BY EmptySeq DEF Junk, Unit
  <2>3. /\ kind \in {"select", "poll", "epoll"} /\ client_sockets \in [1..MaxFds -> Clients \cup {None}]
        /\ recv_buf \in [1..B -> Unit] /\ short \in BOOLEAN
    BY <2>2, SizesAssumption DEF Init
  <2>4. /\ cl \in [Clients -> {"new", "open", "left"}] /\ sent \in [Clients -> Nat]
        /\ net \in [Clients -> Seq(Unit)] /\ reset \in [Clients -> {"no", "pending", "seen"}]
        /\ unread \in [Clients -> Nat] /\ echoed \in [Clients -> Seq(Unit)]
    BY <2>2 DEF Init
  <2>5. /\ pc \in {"wait", "round", "write", "down"} /\ max_pos \in Fds /\ ready \subseteq Fds
        /\ nready \in Int /\ cur \in Fds /\ queue \in Seq(Clients) /\ dirty \subseteq Clients
    BY <2>1, <2>2 DEF Init
  <2> QED
    BY <2>3, <2>4, <2>5 DEF TypeOK
<1>2. Conns = {} /\ Len(queue) = 0
  BY EmptySeq DEF Init, Conns
<1>3. Places /\ Round /\ Countdown /\ DownForReason
  BY <1>2 DEF Places, Round, Countdown, DownForReason, Init
<1>4. ASSUME NEW c \in Clients
      PROVE  Left(c) /\ Data(c)
  <2>1. net[c] = <<>> /\ echoed[c] = <<>> /\ sent[c] = 0 /\ Len(<<>>) = 0 /\ reset[c] = "no"
    BY EmptySeq DEF Init
  <2>2. ~Holds(c) /\ Held(c) = 0
    BY DEF Init, Holds, Held
  <2>3. B * 0 = 0
    BY SizesAssumption
  <2>4. InOrder(c)
    BY <2>1, <2>2, <2>3 DEF InOrder
  <2> QED
    BY <2>1, <2>2, <2>3, <2>4 DEF Left, Data
<1> QED
  BY <1>1, <1>3, <1>4 DEF MuxInv

LEMMA DataKept ==
    ASSUME NEW c \in Clients, Data(c),
           net'[c] = net[c], echoed'[c] = echoed[c], sent'[c] = sent[c],
           UNCHANGED <<kind, recv_buf, short>>,
           cl'[c] # "left" => cl[c] # "left", pc' # "down" => pc # "down",
           pc' # "down" => (Holds(c)' <=> Holds(c))
    PROVE  Data(c)'
<1>1. CASE pc' = "down"
  <2>1. ~Holds(c)'
    BY <1>1 DEF Holds
  <2> QED
    BY <1>1, <2>1 DEF Data, Zero
<1>2. CASE pc' # "down"
  <2>1. (Holds(c)' <=> Holds(c)) /\ Held(c)' = Held(c)
    BY <1>2 DEF Held
  <2>2. InOrder(c) => InOrder(c)'
    BY <2>1 DEF InOrder
  <2> QED
    BY <1>2, <2>1, <2>2 DEF Data, Zero
<1> QED
  BY <1>1, <1>2

LEMMA LeftKept ==
    ASSUME NEW c \in Clients, Left(c), cl'[c] = cl[c], net'[c] # <<>> => net[c] # <<>>,
           reset'[c] = reset[c], dirty' = dirty, pc' # "down" => pc # "down",
           Holds(c)' => Holds(c)
    PROVE  Left(c)'
BY DEF Left

LEMMA PlacesKept ==
    ASSUME TypeOK, Places, UNCHANGED <<client_sockets, queue>>,
           \A c \in Clients : cl[c] # "new" => cl'[c] # "new"
    PROVE  Places'
<1>1. Conns' = Conns /\ \A d \in Conns : client_sockets[d] \in Clients
  BY DEF Conns, TypeOK
<1>2. \A i \in 1..Len(queue) : queue[i] \in Clients
  <2>1. queue \in Seq(Clients)
    BY DEF TypeOK
  <2> QED
    BY <2>1, LenProperties
<1> QED
  BY <1>1, <1>2 DEF Places

LEMMA ReadableKept ==
    ASSUME TypeOK, UNCHANGED client_sockets, queue # <<>> => queue' # <<>>, NEW d \in Fds, Readable(d),
           \A c \in Clients : /\ c = client_sockets[d] /\ net[c] # <<>> => net'[c] # <<>>
                              /\ cl[c] = "left" => cl'[c] = "left"
                              /\ reset[c] # "no" => reset'[c] # "no"
    PROVE  Readable(d)'
<1>1. CASE d = 0
  BY <1>1 DEF Readable
<1>2. CASE d # 0
  <2>1. client_sockets[d] # None
    BY <1>2 DEF Readable
  <2>2. client_sockets[d] \in Clients
    <3>1. d \in 1..MaxFds
      BY <1>2, SizesAssumption DEF Fds
    <3> QED
      BY <2>1, <3>1 DEF TypeOK
  <2> QED
    BY <1>2, <2>1, <2>2 DEF Readable
<1> QED
  BY <1>1, <1>2

LEMMA CountdownKept ==
    ASSUME Countdown, UNCHANGED <<kind, pc, ready, nready, max_pos, cur>>,
           \A d \in ready : Readable(d) => Readable(d)'
    PROVE  Countdown'
<1> SUFFICES ASSUME kind' = "poll", pc' \in {"round", "write"}
             PROVE  \E R \in SUBSET ready' : Pending(R)'
  BY DEF Countdown
<1>1. PICK R \in SUBSET ready : Pending(R)
  BY DEF Countdown
<1>2. Pending(R)'
  BY <1>1 DEF Pending
<1> QED
  BY <1>1, <1>2

(* A step of a client, which may not touch the server's state.             *)
LEMMA ClientKeeps ==
    ASSUME MuxInv, UNCHANGED <<kind, pc, client_sockets, max_pos, ready, nready, cur, recv_buf, short>>,
           queue # <<>> => queue' # <<>>, pc = "down" => UNCHANGED <<queue, dirty>>,
           \A c \in Clients : /\ net[c] # <<>> => net'[c] # <<>>
                              /\ cl[c] = "left" => cl'[c] = "left"
                              /\ reset[c] # "no" => reset'[c] # "no"
    PROVE  Round' /\ Countdown' /\ DownForReason' /\ \A c \in Clients : Holds(c)' <=> Holds(c)
<1>1. TypeOK
  BY DEF MuxInv
<1>2. Conns' = Conns /\ Free' = Free
  BY DEF Conns, Free
<1>3. Round'
  BY <1>2 DEF MuxInv, Round
<1>4. \A d \in ready : Readable(d) => Readable(d)'
  <2>1. \A d \in ready : d \in Fds
    BY <1>1 DEF TypeOK
  <2> QED
    BY <1>1, <2>1, ReadableKept
<1>5. Countdown'
  BY <1>4, CountdownKept DEF MuxInv
<1>6. DownForReason'
  BY <1>2 DEF MuxInv, DownForReason
<1>7. \A c \in Clients : Holds(c)' <=> Holds(c)
  BY DEF Holds
<1> QED
  BY <1>3, <1>5, <1>6, <1>7

-----------------------------------------------------------------------------
(* The clients' steps.                                                     *)

LEMMA ConnectStep ==
    ASSUME MuxInv, NEW c \in Clients, Connect(c)
    PROVE  MuxInv'
<1>1. /\ pc # "down" /\ ~Known(c) /\ cl' = [cl EXCEPT ![c] = "open"] /\ queue' = Append(queue, c)
      /\ sent' = [sent EXCEPT ![c] = 0] /\ net' = [net EXCEPT ![c] = <<>>]
      /\ reset' = [reset EXCEPT ![c] = "no"] /\ unread' = [unread EXCEPT ![c] = 0]
      /\ echoed' = [echoed EXCEPT ![c] = <<>>]
      /\ UNCHANGED <<kind, pc, client_sockets, max_pos, ready, nready, cur, recv_buf, short, dirty>>
  BY DEF Connect, server
<1>2. TypeOK
  BY DEF MuxInv
<1>3. /\ cl'[c] = "open" /\ sent'[c] = 0 /\ net'[c] = <<>> /\ reset'[c] = "no" /\ echoed'[c] = <<>>
      /\ \A d \in Clients : d # c => /\ cl'[d] = cl[d] /\ sent'[d] = sent[d] /\ net'[d] = net[d]
                                     /\ reset'[d] = reset[d] /\ echoed'[d] = echoed[d]
  BY <1>1, <1>2 DEF TypeOK
<1>4. queue \in Seq(Clients)
  BY <1>2 DEF TypeOK
<1>5. /\ queue' \in Seq(Clients) /\ Len(queue') = Len(queue) + 1 /\ Len(queue) \in Nat
      /\ queue'[Len(queue) + 1] = c /\ \A i \in 1..Len(queue) : queue'[i] = queue[i] /\ queue[i] \in Clients
  BY <1>1, <1>4, AppendProperties, LenProperties
<1>6. queue' # <<>>
  <2>1. Len(queue') # 0
    BY <1>5
  <2> QED
    BY <2>1, EmptySeq
<1>7. TypeOK'
  BY <1>1, <1>2, <1>5 DEF TypeOK
<1>8. Places'
  <2>1. Conns' = Conns /\ client_sockets' = client_sockets
    BY <1>1 DEF Conns
  <2>2. \A d \in Conns : client_sockets[d] \in Clients /\ client_sockets[d] # c
    BY <1>1, <1>2 DEF Conns, TypeOK, Known
  <2>3. \A i \in 1..Len(queue) : queue[i] # c
    BY <1>1 DEF Known
  <2>4. PICK m \in Nat : m = Len(queue)
    BY <1>5
  <2>5. \A i \in 1..(m + 1) : i \in 1..m \/ i = m + 1
    BY <2>4
  <2>6. \A i \in 1..(m + 1) : queue'[i] = c \/ (i \in 1..m /\ queue'[i] = queue[i])
    BY <1>5, <2>4, <2>5
  <2>7. \A d \in Conns : cl'[client_sockets[d]] # "new"
    BY <1>3, <2>2 DEF MuxInv, Places
  <2>8. \A i \in 1..(m + 1) : cl'[queue'[i]] # "new"
    BY <1>3, <1>5, <2>3, <2>4, <2>6 DEF MuxInv, Places
  <2>9. ASSUME NEW i \in 1..(m + 1), NEW j \in 1..(m + 1), queue'[i] = queue'[j]
        PROVE  i = j
    BY <1>5, <2>3, <2>4, <2>5, <2>9 DEF MuxInv, Places
  <2>10. \A d \in Conns, i \in 1..(m + 1) : client_sockets[d] # queue'[i]
    BY <2>2, <2>4, <2>6 DEF MuxInv, Places
  <2>11. \A d, e \in Conns : client_sockets[d] = client_sockets[e] => d = e
    BY DEF MuxInv, Places
  <2>12. Len(queue') = m + 1
    BY <1>5, <2>4
  <2> QED
    BY <2>1, <2>7, <2>8, <2>9, <2>10, <2>11, <2>12 DEF Places
<1>9. \A d \in Conns : client_sockets[d] \in Clients /\ client_sockets[d] # c
  BY <1>1, <1>2 DEF Conns, TypeOK, Known
<1>10. Conns' = Conns /\ Free' = Free
  BY <1>1 DEF Conns, Free
<1>11. Round'
  BY <1>1, <1>6, <1>10 DEF MuxInv, Round
<1>12. \A d \in ready : Readable(d) => Readable(d)'
  <2>1. ASSUME NEW d \in ready, Readable(d), d # 0
        PROVE  Readable(d)'
    <3>1. d \in Conns
      BY <2>1 DEF MuxInv, Round
    <3>2. client_sockets[d] \in Clients /\ client_sockets[d] # c /\ client_sockets' = client_sockets
      BY <1>1, <1>9, <3>1
    <3> QED
      BY <1>3, <2>1, <3>2 DEF Readable
  <2> QED
    BY <1>6, <2>1 DEF Readable
<1>13. Countdown' /\ DownForReason'
  BY <1>1, <1>12, CountdownKept DEF MuxInv, DownForReason
<1>14. ~Holds(c) /\ ~Holds(c)' /\ \A d \in Clients : Holds(d)' <=> Holds(d)
  <2>1. pc = "write" => cur \in Conns
    BY DEF MuxInv, Round
  <2> QED
    BY <1>1, <1>9, <2>1 DEF Holds
<1>15. \A d \in Clients : Left(d)'
  <2>1. Left(c)'
    BY <1>3 DEF Left
  <2>2. ASSUME NEW d \in Clients, d # c
        PROVE  Left(d)'
    BY <1>1, <1>3, <1>14, <2>2 DEF MuxInv, Left
  <2> QED
    BY <2>1, <2>2
<1>16. \A d \in Clients : Data(d)'
  <2>1. Data(c)'
    <3>1. Len(echoed'[c]) = 0 /\ Len(net'[c]) = 0 /\ sent'[c] = 0 /\ B \in Nat
      BY <1>3, EmptySeq, SizesAssumption
    <3>2. Held(c)' = 0
      BY <1>14 DEF Held
    <3>3. InOrder(c)'
      BY <1>14, <3>1, <3>2 DEF InOrder
    <3> QED
      BY <1>14, <3>1, <3>3 DEF Data
  <2>2. ASSUME NEW d \in Clients, d # c
        PROVE  Data(d)'
    <3>1. Held(d)' = Held(d)
      BY <1>14 DEF Held
    <3>2. InOrder(d) => InOrder(d)'
      BY <1>1, <1>3, <1>14, <2>2, <3>1 DEF InOrder
    <3> QED
      BY <1>1, <1>3, <1>14, <2>2, <3>2 DEF MuxInv, Data
  <2> QED
    BY <2>1, <2>2
<1> QED
  BY <1>7, <1>8, <1>11, <1>13, <1>15, <1>16 DEF MuxInv

LEMMA ReceiveStep ==
    ASSUME MuxInv, NEW c \in Clients, Receive(c)
    PROVE  MuxInv'
<1>1. /\ unread' = [unread EXCEPT ![c] = unread[c] - Min({B, unread[c]})]
      /\ UNCHANGED <<kind, pc, client_sockets, max_pos, ready, nready, cur, recv_buf,
                     queue, cl, sent, net, reset, echoed, short, dirty>>
  BY DEF Receive, server
<1>2. TypeOK
  BY DEF MuxInv
<1>3. TypeOK'
  <2>1. unread[c] \in Nat /\ B \in Nat
    BY <1>2, SizesAssumption DEF TypeOK
  <2>2. unread[c] - Min({B, unread[c]}) \in Nat
    <3>1. PICK k \in Nat : k = Min({B, unread[c]}) /\ k <= unread[c]
      BY <2>1, LesserOf
    <3> QED
      BY <2>1, <3>1
  <2>3. unread' \in [Clients -> Nat]
    BY <1>1, <1>2, <2>2 DEF TypeOK
  <2> QED
    BY <1>1, <1>2, <2>3 DEF TypeOK
<1>4. Places'
  BY <1>1, <1>2, PlacesKept DEF MuxInv
<1>5. Round' /\ Countdown' /\ DownForReason' /\ \A d \in Clients : Holds(d)' <=> Holds(d)
  BY <1>1, ClientKeeps
<1>6. \A d \in Clients : Left(d)' /\ Data(d)'
  BY <1>1, <1>5, LeftKept, DataKept DEF MuxInv
<1> QED
  BY <1>3, <1>4, <1>5, <1>6 DEF MuxInv

LEMMA GoneStep ==
    ASSUME MuxInv, NEW c \in Clients, ServerClosed(c)
    PROVE  MuxInv'
<1>1. /\ pc = "down" /\ cl' = [cl EXCEPT ![c] = "left"]
      /\ UNCHANGED <<kind, pc, client_sockets, max_pos, ready, nready, cur, recv_buf,
                     queue, sent, net, reset, unread, echoed, short, dirty>>
  BY DEF ServerClosed, server
<1>2. TypeOK
  BY DEF MuxInv
<1>3. cl'[c] = "left" /\ \A d \in Clients : d # c => cl'[d] = cl[d]
  BY <1>1, <1>2 DEF TypeOK
<1>4. TypeOK'
  BY <1>1, <1>2 DEF TypeOK
<1>5. Places'
  BY <1>1, <1>2, <1>3, PlacesKept DEF MuxInv
<1>6. Round' /\ Countdown' /\ DownForReason' /\ \A d \in Clients : Holds(d)' <=> Holds(d)
  BY <1>1, <1>3, ClientKeeps
<1>7. \A d \in Clients : Left(d)'
  BY <1>1, <1>3 DEF MuxInv, Left
<1>8. \A d \in Clients : Data(d)'
  BY <1>1, <1>3, <1>6, DataKept DEF MuxInv
<1> QED
  BY <1>4, <1>5, <1>6, <1>7, <1>8 DEF MuxInv

LEMMA LeaveStep ==
    ASSUME MuxInv, NEW c \in Clients, Leave(c)
    PROVE  MuxInv'
<1>1. /\ cl[c] = "open" /\ pc # "down" /\ cl' = [cl EXCEPT ![c] = "left"]
      /\ reset' = [reset EXCEPT ![c] = IF unread[c] > 0 THEN "pending" ELSE reset[c]]
      /\ unread' = [unread EXCEPT ![c] = 0]
      /\ dirty' = IF UnderWay(c) THEN dirty \cup {c} ELSE dirty
      /\ UNCHANGED <<kind, pc, client_sockets, max_pos, ready, nready, cur, recv_buf,
                     queue, sent, net, echoed, short>>
  BY DEF Leave, server
<1>2. TypeOK
  BY DEF MuxInv
<1>3. /\ cl'[c] = "left" /\ \A d \in Clients : d # c => cl'[d] = cl[d] /\ reset'[d] = reset[d]
      /\ reset'[c] = IF unread[c] > 0 THEN "pending" ELSE reset[c]
  BY <1>1, <1>2 DEF TypeOK
<1>4. reset[c] = "no"
  BY <1>1 DEF MuxInv, Left
<1>5. TypeOK'
  BY <1>1, <1>2 DEF TypeOK
<1>6. Places'
  BY <1>1, <1>2, <1>3, PlacesKept DEF MuxInv
<1>7. Round' /\ Countdown' /\ DownForReason' /\ \A d \in Clients : Holds(d)' <=> Holds(d)
  BY <1>1, <1>3, <1>4, ClientKeeps
<1>8. ASSUME NEW d \in Clients
      PROVE  Left(d)'
  <2>1. CASE d # c
    BY <1>1, <1>3, <1>7, <2>1 DEF MuxInv, Left
  <2>2. CASE d = c
    <3>1. net[c] # <<>> \/ reset'[c] # "no" \/ Holds(c) => c \in dirty'
      BY <1>1, <1>3, <1>4 DEF UnderWay, Holds
    <3> QED
      BY <1>1, <1>3, <1>7, <2>2, <3>1 DEF Left
  <2> QED
    BY <2>1, <2>2
<1>9. \A d \in Clients : Data(d)'
  BY <1>1, <1>3, <1>7, DataKept DEF MuxInv
<1> QED
  BY <1>5, <1>6, <1>7, <1>8, <1>9 DEF MuxInv

LEMMA MoreLines ==
    ASSUME NEW s \in Nat
    PROVE  B * s \in Nat /\ B * (s + 1) = B * s + B
BY SizesAssumption

LEMMA SendStep ==
    ASSUME MuxInv, NEW c \in Clients, Send(c)
    PROVE  MuxInv'
<1>1. /\ cl[c] = "open" /\ pc # "down" /\ sent' = [sent EXCEPT ![c] = sent[c] + 1]
      /\ net' = [net EXCEPT ![c] = net[c] \o [k \in 1..B |-> <<c, B * sent[c] + k>>]]
      /\ UNCHANGED <<kind, pc, client_sockets, max_pos, ready, nready, cur, recv_buf,
                     queue, cl, reset, unread, echoed, short, dirty>>
  BY DEF Send, server
<1>2. TypeOK
  BY DEF MuxInv
<1>3. PICK line : line = [k \in 1..B |-> <<c, B * sent[c] + k>>]
  OBVIOUS
<1>4. /\ net[c] \in Seq(Unit) /\ sent[c] \in Nat /\ echoed[c] \in Seq(Unit)
      /\ line \in [1..B -> Unit] /\ \A k \in 1..B : line[k] = <<c, B * sent[c] + k>>
  <2>1. net[c] \in Seq(Unit) /\ sent[c] \in Nat /\ echoed[c] \in Seq(Unit)
    BY <1>2 DEF TypeOK
  <2>2. \A k \in 1..B : B * sent[c] + k \in Int
    BY <2>1, MoreLines, SizesAssumption
  <2> QED
    BY <1>3, <2>1, <2>2 DEF Unit
<1>5. /\ net'[c] = net[c] \o line /\ sent'[c] = sent[c] + 1
      /\ \A d \in Clients : d # c => net'[d] = net[d] /\ sent'[d] = sent[d]
  BY <1>1, <1>2, <1>3 DEF TypeOK
<1>6. PICK m \in Nat, s \in Nat, k0 \in Nat : m = Len(net[c]) /\ s = B * sent[c] /\ k0 = Len(echoed[c])
  BY <1>4, MoreLines, LenProperties
<1>7. /\ net'[c] \in Seq(Unit) /\ Len(net'[c]) = m + B
      /\ \A i \in 1..m : net'[c][i] = net[c][i]
      /\ \A k \in 1..B : net'[c][m + k] = <<c, s + k>>
      /\ \A i \in 1..(m + B) : i \in 1..m \/ \E k \in 1..B : i = m + k
  <2>1. /\ net[c] \o line \in Seq(Unit) /\ Len(net[c] \o line) = m + B
        /\ \A i \in 1..m : (net[c] \o line)[i] = net[c][i]
        /\ \A k \in 1..B : (net[c] \o line)[m + k] = line[k]
        /\ \A i \in 1..(m + B) : i \in 1..m \/ \E k \in 1..B : i = m + k
    <3>1. PICK a \in Seq(Unit), b \in [1..B -> Unit] : a = net[c] /\ b = line
      BY <1>4
    <3>2. /\ a \o b \in Seq(Unit) /\ Len(a \o b) = Len(a) + B
          /\ \A i \in 1..Len(a) : (a \o b)[i] = a[i]
          /\ \A k \in 1..B : (a \o b)[Len(a) + k] = b[k]
          /\ \A i \in 1..(Len(a) + B) : i \in 1..Len(a) \/ \E k \in 1..B : i = Len(a) + k
      BY Extended
    <3>3. m = Len(a)
      BY <1>6, <3>1
    <3> QED
      BY <3>1, <3>2, <3>3, Zenon
  <2>2. \A k \in 1..B : line[k] = <<c, s + k>>
    BY <1>4, <1>6
  <2> QED
    BY <1>5, <2>1, <2>2
<1>8. net'[c] # <<>>
  <2>1. m + B # 0
    BY <1>6, SizesAssumption
  <2> QED
    BY <1>7, <2>1, EmptySeq
<1>9. TypeOK'
  <2>1. net' \in [Clients -> Seq(Unit)] /\ sent' \in [Clients -> Nat]
    BY <1>1, <1>2, <1>4, <1>5, <1>7 DEF TypeOK
  <2> QED
    BY <1>1, <1>2, <2>1 DEF TypeOK
<1>10. Places'
  BY <1>1, <1>2, PlacesKept DEF MuxInv
<1>11. Round' /\ Countdown' /\ DownForReason' /\ \A d \in Clients : Holds(d)' <=> Holds(d)
  BY <1>1, <1>5, <1>8, ClientKeeps
<1>12. ASSUME NEW d \in Clients
       PROVE  Left(d)'
  BY <1>1, <1>5, <1>11 DEF MuxInv, Left
<1>13. Data(c)'
  <2>1. \A i \in 1..(m + B) : net'[c][i][1] = c
    <3> TAKE i \in 1..(m + B)
    <3>1. CASE i \in 1..m
      BY <1>6, <1>7, <3>1 DEF MuxInv, Data
    <3>2. CASE \E k \in 1..B : i = m + k
      BY <1>7, <3>2
    <3> QED
      BY <1>7, <3>1, <3>2
  <2>2. (Holds(c)' <=> Holds(c)) /\ Held(c)' = Held(c) /\ Held(c) \in Nat
    BY <1>11, SizesAssumption DEF Held
  <2>3. PICK h \in Nat : h = Held(c)
    BY <2>2
  <2>4. B * sent'[c] = s + B /\ B \in Nat
    BY <1>4, <1>5, <1>6, MoreLines, SizesAssumption
  <2>5. ASSUME ~short
        PROVE  InOrder(c)'
    <3>1. InOrder(c)
      BY <1>1, <2>5 DEF MuxInv, Data
    <3>2. k0 + h + m = s /\ \A i \in 1..m : net[c][i] = <<c, k0 + h + i>>
      BY <1>6, <2>3, <3>1 DEF InOrder
    <3>3. k0 + h + (m + B) = s + B
      BY <3>2, SizesAssumption
    <3>4. \A i \in 1..(m + B) : net'[c][i] = <<c, k0 + h + i>>
      <4> TAKE i \in 1..(m + B)
      <4>1. CASE i \in 1..m
        BY <1>7, <3>2, <4>1
      <4>2. ASSUME NEW k \in 1..B, i = m + k
            PROVE  net'[c][i] = <<c, k0 + h + i>>
        <5>1. s + k = k0 + h + i
          BY <3>2, <4>2, SizesAssumption
        <5> QED
          BY <1>7, <4>2, <5>1
      <4> QED
        BY <1>7, <4>1, <4>2
    <3>5. Holds(c)' => \A k \in 1..B : recv_buf'[k] = <<c, k0 + k>>
      BY <1>1, <1>6, <2>2, <3>1 DEF InOrder
    <3>6. echoed'[c] = echoed[c] /\ Len(echoed'[c]) = k0 /\ Held(c)' = h /\ Len(net'[c]) = m + B
      BY <1>1, <1>6, <1>7, <2>2, <2>3
    <3> QED
      BY <2>4, <3>3, <3>4, <3>5, <3>6 DEF InOrder
  <2>6. ~short => Len(echoed'[c]) <= B * sent'[c]
    <3>1. ~short => k0 <= s
      BY <1>6 DEF MuxInv, Data
    <3>2. ~short => k0 <= s + B
      BY <1>6, <2>4, <3>1
    <3> QED
      BY <1>1, <1>6, <2>4, <3>2
  <2>7. /\ Holds(c) /\ kind = "epoll" => \A k \in 1..B : recv_buf[k][1] = c \/ recv_buf[k] = Zero
        /\ \A k \in 1..Len(echoed[c]) :
              \/ echoed[c][k] = <<c, k>>
              \/ short /\ (kind = "epoll" => echoed[c][k][1] = c \/ echoed[c][k] = Zero)
    BY DEF MuxInv, Data
  <2> QED
    BY <1>1, <1>7, <2>1, <2>2, <2>5, <2>6, <2>7 DEF Data, Zero
<1>14. ASSUME NEW d \in Clients
       PROVE  Data(d)'
  <2>1. CASE d # c
    BY <1>1, <1>5, <1>11, <2>1, DataKept DEF MuxInv
  <2> QED
    BY <1>13, <2>1
<1> QED
  BY <1>9, <1>10, <1>11, <1>12, <1>14 DEF MuxInv

-----------------------------------------------------------------------------
(* The server's steps.                                                     *)

(* Whose turn it is, a client's or the listening socket's.                 *)
LEMMA TurnOf ==
    ASSUME MuxInv, NEW d \in Fds, Turn(d), d # 0
    PROVE  /\ pc = "round" /\ d \in ready /\ d \in Conns /\ d \in 1..MaxFds
           /\ client_sockets[d] \in Clients /\ cl[client_sockets[d]] # "new"
<1>1. pc = "round" /\ d \in ready
  BY DEF Turn
<1>2. d \in Conns
  BY <1>1 DEF MuxInv, Round
<1> QED
  BY <1>1, <1>2 DEF Conns, MuxInv, TypeOK, Places

(* A round of poll_server looks at a reported event next.                  *)
LEMMA NextReported ==
    ASSUME TypeOK, NEW R \in SUBSET ready, Pending(R)
    PROVE  Min(ready) \in R
<1>1. ready \subseteq Nat /\ ready # {}
  <2>1. ready \in SUBSET Fds
    BY DEF TypeOK
  <2> QED
    BY <2>1, FdSets DEF Pending
<1>2. Min(ready) \in ready /\ \A j \in ready : Min(ready) <= j
  BY <1>1, LeastOf
<1>3. PICK y \in R : TRUE
  BY DEF Pending
<1>4. Min(ready) \in Nat /\ y \in Nat /\ Min(ready) <= y
  BY <1>1, <1>2, <1>3
<1>5. Min(ready) \in ready \ R => y < Min(ready)
  BY <1>3 DEF Pending
<1> QED
  BY <1>2, <1>4, <1>5

LEMMA WaitStep ==
    ASSUME MuxInv, Wait
    PROVE  MuxInv'
<1>1. /\ pc = "wait" /\ pc' = "round"
      /\ UNCHANGED <<kind, client_sockets, max_pos, cur, recv_buf,
                     queue, cl, sent, net, reset, unread, echoed, short, dirty>>
  BY DEF Wait
<1>2. TypeOK
  BY DEF MuxInv
<1>3. PICK all : /\ all = {d \in 0..(IF kind = "epoll" THEN MaxFds ELSE max_pos) : Readable(d)}
                 /\ all # {}
                 /\ \E r \in SUBSET all :
                       /\ kind # "epoll" => r = all
                       /\ ready' = r
                       /\ \E s \in Strays : nready' = Cardinality(r) + s
  BY DEF Wait
<1>4. PICK r \in SUBSET all : /\ kind # "epoll" => r = all
                              /\ ready' = r
                              /\ \E s \in Strays : nready' = Cardinality(r) + s
  BY <1>3
<1>5. r \in SUBSET Fds /\ \A d \in r : Readable(d)
  <2>1. 0..(IF kind = "epoll" THEN MaxFds ELSE max_pos) \subseteq Fds
    BY <1>2, SizesAssumption DEF TypeOK, Fds
  <2> QED
    BY <1>3, <1>4, <2>1
<1>6. Cardinality(r) \in Nat /\ (Cardinality(r) = 0 <=> r = {})
  BY <1>5, FdSets
<1>7. TypeOK'
  <2>1. nready' \in Int
    BY <1>4, <1>6 DEF Strays
  <2> QED
    BY <1>1, <1>2, <1>4, <1>5, <2>1 DEF TypeOK
<1>8. Places'
  BY <1>1, <1>2, PlacesKept DEF MuxInv
<1>9. Round'
  <2>1. \A d \in r : d # 0 => d \in Conns
    BY <1>5, SizesAssumption DEF Readable, Conns, Fds
  <2>2. 0 \in r => queue # <<>>
    BY <1>5 DEF Readable
  <2>3. Conns' = Conns
    BY <1>1 DEF Conns
  <2> QED
    BY <1>1, <1>4, <2>1, <2>2, <2>3 DEF Round
<1>10. Countdown'
  <2> SUFFICES ASSUME kind = "poll"
               PROVE  \E R \in SUBSET ready' : Pending(R)'
    BY <1>1 DEF Countdown
  <2>1. nready' = Cardinality(r) /\ r = all /\ r # {}
    BY <1>3, <1>4, <1>6 DEF Strays
  <2>2. r \subseteq 0..max_pos
    BY <1>3, <2>1
  <2>3. \A d \in r : Readable(d)'
    BY <1>1, <1>5 DEF Readable
  <2>4. Pending(r)'
    BY <1>1, <1>4, <2>1, <2>2, <2>3 DEF Pending
  <2> QED
    BY <1>4, <2>4
<1>11. \A c \in Clients : ~Holds(c) /\ ~Holds(c)'
  BY <1>1 DEF Holds
<1>12. \A c \in Clients : Left(c)' /\ Data(c)'
  BY <1>1, <1>11, LeftKept, DataKept DEF MuxInv
<1> QED
  BY <1>1, <1>7, <1>8, <1>9, <1>10, <1>12 DEF MuxInv, DownForReason

(* The server exits.                                                       *)
LEMMA ExitStep ==
    ASSUME MuxInv, pc # "down", pc' = "down",
           UNCHANGED <<kind, client_sockets, max_pos, ready, nready, cur, recv_buf,
                       queue, cl, sent, net, reset, unread, echoed, short, dirty>>,
           dirty # {} \/ (Free = {} /\ queue # <<>>)
    PROVE  MuxInv'
<1>1. TypeOK' /\ Conns' = Conns /\ Free' = Free
  BY DEF MuxInv, TypeOK, Conns, Free
<1>2. Places'
  BY PlacesKept DEF MuxInv
<1>3. Round' /\ Countdown' /\ DownForReason'
  BY <1>1 DEF MuxInv, Round, Countdown, DownForReason
<1>4. \A c \in Clients : ~Holds(c)'
  BY DEF Holds
<1>5. \A c \in Clients : Left(c)' /\ Data(c)'
  BY <1>4, LeftKept, DataKept DEF MuxInv
<1> QED
  BY <1>1, <1>2, <1>3, <1>5 DEF MuxInv

LEMMA AcceptFailsStep ==
    ASSUME MuxInv, AcceptFails
    PROVE  MuxInv'
<1>1. 0 \in ready /\ pc = "round" /\ Free = {}
  BY DEF AcceptFails, Turn
<1>2. queue # <<>>
  BY <1>1 DEF MuxInv, Round
<1> QED
  BY <1>1, <1>2, ExitStep DEF AcceptFails

LEMMA ReadFailsStep ==
    ASSUME MuxInv, NEW d \in 1..MaxFds, ReadFails(d)
    PROVE  MuxInv'
<1>1. Turn(d) /\ d # 0 /\ d \in Fds /\ reset[client_sockets[d]] = "pending"
  BY SizesAssumption DEF ReadFails, Fds
<1>2. pc = "round" /\ client_sockets[d] \in Clients
  BY <1>1, TurnOf
<1>3. client_sockets[d] \in dirty
  BY <1>1, <1>2 DEF MuxInv, Left
<1> QED
  BY <1>2, <1>3, ExitStep DEF ReadFails

LEMMA ReadEndStep ==
    ASSUME MuxInv, NEW d \in 1..MaxFds, ReadEnd(d)
    PROVE  MuxInv'
<1>1. /\ Turn(d) /\ d # 0 /\ d \in Fds /\ client_sockets' = [client_sockets EXCEPT ![d] = None]
      /\ pc' = "wait" /\ ready' = {} /\ nready' = 0
      /\ UNCHANGED <<kind, max_pos, cur, recv_buf,
                     queue, cl, sent, net, reset, unread, echoed, short, dirty>>
  BY SizesAssumption DEF ReadEnd, Proceed, Fds
<1>2. TypeOK /\ pc = "round"
  BY <1>1 DEF MuxInv, Turn
<1>3. TypeOK'
  BY <1>1, <1>2 DEF TypeOK
<1>4. Conns' \subseteq Conns /\ \A e \in Conns' : client_sockets'[e] = client_sockets[e]
  BY <1>1, <1>2 DEF Conns, TypeOK
<1>5. Places'
  BY <1>1, <1>4 DEF MuxInv, Places
<1>6. Round' /\ Countdown' /\ DownForReason'
  BY <1>1 DEF Round, Countdown, DownForReason
<1>7. \A c \in Clients : ~Holds(c) /\ ~Holds(c)'
  BY <1>1, <1>2 DEF Holds
<1>8. \A c \in Clients : Left(c)' /\ Data(c)'
  BY <1>1, <1>2, <1>7, LeftKept, DataKept DEF MuxInv
<1> QED
  BY <1>3, <1>5, <1>6, <1>8 DEF MuxInv

LEMMA AcceptStep ==
    ASSUME MuxInv, Accept
    PROVE  MuxInv'
<1>1. /\ pc = "round" /\ 0 \in ready /\ Free # {}
      /\ kind = "epoll" \/ 0 = Min(ready)
      /\ UNCHANGED <<kind, cur, recv_buf, cl, sent, net, reset, unread, echoed, short, dirty>>
  BY DEF Accept, Turn
<1>2. TypeOK
  BY DEF MuxInv
<1>3. PICK c : c = Head(queue)
  OBVIOUS
<1>4. queue # <<>> /\ queue \in Seq(Clients) /\ queue' = Tail(queue)
  BY <1>1, <1>2 DEF MuxInv, Round, TypeOK, Accept
<1>5. /\ c \in Clients /\ c = queue[1] /\ queue' \in Seq(Clients) /\ Len(queue') = Len(queue) - 1
      /\ Len(queue) \in Nat /\ Len(queue) > 0
      /\ \A k \in 1..Len(queue') : queue'[k] = queue[k + 1]
  <2>1. Len(queue) \in Nat /\ Len(queue) > 0
    BY <1>4, EmptySeq, LenProperties
  <2>2. /\ c \in Clients /\ queue' \in Seq(Clients) /\ Len(queue') = Len(queue) - 1
        /\ \A k \in 1..Len(queue') : queue'[k] = queue[k + 1]
    BY <1>3, <1>4, HeadTailProperties
  <2>3. c = queue[1]
    BY <1>3, <1>4
  <2> QED
    BY <2>1, <2>2, <2>3
<1>6. PICK i : i = Min(Free)
  OBVIOUS
<1>7. i \in 1..MaxFds /\ i \notin Conns
  <2>1. Free \subseteq Nat
    BY SizesAssumption DEF Free
  <2>2. i \in Free
    BY <1>1, <1>6, <2>1, LeastOf
  <2> QED
    BY <2>2 DEF Free
<1>8. PICK u \in Unreported(i) : Proceed((ready \ {0}) \cup u, AcceptCount)
  BY <1>6 DEF Accept
<1>9. u \subseteq {i} /\ (i \in u => kind # "epoll" /\ i > max_pos)
  BY <1>8 DEF Unreported
<1>10. /\ pc' \in {"wait", "round"} /\ ready' \subseteq (ready \ {0}) \cup u
       /\ pc' = "round" => ready' = (ready \ {0}) \cup u /\ nready' = AcceptCount /\ nready' # 0
       /\ pc' = "wait" => nready' = 0
  BY <1>8 DEF Proceed
<1>11. /\ client_sockets' = [client_sockets EXCEPT ![i] = c] /\ max_pos' = Max({max_pos, i})
  BY <1>3, <1>6 DEF Accept, NewMax
<1>12. /\ client_sockets'[i] = c /\ c # None
       /\ \A d \in 1..MaxFds : d # i => client_sockets'[d] = client_sockets[d]
       /\ Conns' = Conns \cup {i}
  <2>1. client_sockets'[i] = c /\ \A d \in 1..MaxFds : d # i => client_sockets'[d] = client_sockets[d]
    BY <1>2, <1>7, <1>11 DEF TypeOK
  <2>2. c # None
    BY <1>5, SizesAssumption
  <2> QED
    BY <1>7, <2>1, <2>2 DEF Conns
<1>13. i \in Nat /\ max_pos \in Nat /\ max_pos' \in Nat /\ i <= max_pos' /\ max_pos <= max_pos'
       /\ max_pos' \in Fds
  <2>1. i \in Nat /\ max_pos \in Nat
    BY <1>2, <1>7, SizesAssumption DEF TypeOK, Fds
  <2>2. max_pos' \in {max_pos, i} /\ max_pos <= max_pos' /\ i <= max_pos'
    BY <1>11, <2>1, GreaterOf
  <2>3. max_pos \in Fds /\ i \in Fds
    BY <1>2, <1>7, SizesAssumption DEF TypeOK, Fds
  <2> QED
    BY <2>1, <2>2, <2>3
<1>14. TypeOK'
  <2>1. client_sockets' \in [1..MaxFds -> Clients \cup {None}]
    BY <1>2, <1>5, <1>7, <1>11 DEF TypeOK
  <2>2. ready' \subseteq Fds
    BY <1>2, <1>7, <1>9, <1>10, SizesAssumption DEF TypeOK, Fds
  <2>3. nready' \in Int
    BY <1>2, <1>10 DEF TypeOK, AcceptCount, Counted
  <2>4. pc' \in {"wait", "round", "write", "down"}
    BY <1>10
  <2> QED
    BY <1>1, <1>2, <1>5, <1>13, <2>1, <2>2, <2>3, <2>4 DEF TypeOK
<1>15. Places'
  <2>1. \A k \in 1..Len(queue') : k + 1 \in 1..Len(queue) /\ k + 1 # 1
    BY <1>5
  <2>2. 1 \in 1..Len(queue)
    BY <1>5
  <2>3. \A k \in 1..Len(queue') : cl[queue'[k]] # "new" /\ queue'[k] # c
    BY <1>5, <2>1, <2>2 DEF MuxInv, Places
  <2>4. ASSUME NEW k \in 1..Len(queue'), NEW j \in 1..Len(queue'), queue'[k] = queue'[j]
        PROVE  k = j
    <3>1. k + 1 = j + 1
      BY <1>5, <2>1, <2>4 DEF MuxInv, Places
    <3> QED
      BY <3>1
  <2>5. \A d \in Conns : client_sockets'[d] = client_sockets[d] /\ client_sockets[d] # c
    BY <1>5, <1>7, <1>12, <2>2 DEF MuxInv, Places, Conns
  <2>6. \A d \in Conns, k \in 1..Len(queue') : client_sockets[d] # queue'[k]
    BY <1>5, <2>1 DEF MuxInv, Places
  <2>7. cl[c] # "new" /\ \A d \in Conns : cl[client_sockets[d]] # "new"
    BY <1>5, <2>2 DEF MuxInv, Places
  <2>8. \A d, e \in Conns : client_sockets[d] = client_sockets[e] => d = e
    BY DEF MuxInv, Places
  <2>9. \A d \in Conns' : cl'[client_sockets'[d]] # "new"
    BY <1>1, <1>12, <2>5, <2>7
  <2>10. \A d, e \in Conns' : client_sockets'[d] = client_sockets'[e] => d = e
    BY <1>12, <2>5, <2>8
  <2>11. \A d \in Conns', k \in 1..Len(queue') : client_sockets'[d] # queue'[k]
    BY <1>12, <2>3, <2>5, <2>6
  <2>12. \A k \in 1..Len(queue') : cl'[queue'[k]] # "new"
    BY <1>1, <2>3
  <2> QED
    BY <2>4, <2>9, <2>10, <2>11, <2>12 DEF Places
<1>16. Round'
  <2>1. 0 \notin ready'
    BY <1>7, <1>9, <1>10, SizesAssumption
  <2>2. \A d \in ready' : d # 0 => d \in Conns'
    BY <1>9, <1>10, <1>12 DEF MuxInv, Round
  <2> QED
    BY <1>10, <2>1, <2>2 DEF Round
<1>17. Countdown'
  <2> SUFFICES ASSUME kind = "poll", pc' = "round"
               PROVE  \E R \in SUBSET ready' : Pending(R)'
    BY <1>1, <1>10 DEF Countdown
  <2>1. PICK R \in SUBSET ready : Pending(R)
    BY <1>1 DEF MuxInv, Countdown
  <2>2. 0 \in R
    BY <1>1, <1>2, <2>1, NextReported
  <2>3. R \in SUBSET Fds
    BY <1>2 DEF TypeOK
  <2>4. R \ {0} \in SUBSET ready' /\ R \ {0} \in SUBSET Fds
    BY <1>10, <2>3
  <2>5. Cardinality(R \ {0}) = Cardinality(R) - 1 /\ nready = Cardinality(R)
    BY <2>1, <2>2, <2>3, FdSets DEF Pending
  <2>6. nready' = Cardinality(R \ {0}) /\ nready' # 0
    BY <1>10, <2>5 DEF AcceptCount, Counted
  <2>7. R \ {0} # {}
    BY <2>4, <2>6, FdSets
  <2>8. R \subseteq 0..max_pos
    BY <2>1 DEF Pending
  <2>9. R \ {0} \subseteq 0..max_pos'
    BY <1>13, <2>8
  <2>10. ASSUME NEW x \in ready' \ (R \ {0}), NEW y \in R \ {0}
         PROVE  y < x
    <3>1. CASE x \in ready \ R
      BY <2>1, <3>1 DEF Pending
    <3>2. CASE x = i /\ i > max_pos
      BY <1>13, <2>8, <3>2
    <3> QED
      BY <1>9, <1>10, <2>10, <3>1, <3>2
  <2>11. ASSUME NEW d \in R \ {0}
         PROVE  Readable(d)'
    <3>1. Readable(d) /\ d \in Conns
      BY <1>1, <2>1 DEF Pending, MuxInv, Round
    <3>2. client_sockets'[d] = client_sockets[d]
      BY <1>7, <1>12, <3>1 DEF Conns
    <3> QED
      BY <1>1, <3>1, <3>2 DEF Readable
  <2>12. Pending(R \ {0})'
    BY <2>6, <2>7, <2>9, <2>10, <2>11 DEF Pending
  <2> QED
    BY <2>4, <2>12
<1>18. \A d \in Clients : ~Holds(d) /\ ~Holds(d)'
  BY <1>1, <1>10 DEF Holds
<1>19. \A d \in Clients : Left(d)' /\ Data(d)'
  BY <1>1, <1>10, <1>18, LeftKept, DataKept DEF MuxInv
<1>20. DownForReason'
  BY <1>10 DEF DownForReason
<1> QED
  BY <1>14, <1>15, <1>16, <1>17, <1>19, <1>20 DEF MuxInv

(* The data of a client that the server does not turn to.                  *)
LEMMA OtherData ==
    ASSUME NEW c \in Clients, Data(c), ~Holds(c), ~Holds(c)', pc # "down",
           net'[c] = net[c], echoed'[c] = echoed[c], UNCHANGED <<kind, cl, sent>>,
           short => short'
    PROVE  Data(c)'
<1>1. Held(c) = 0 /\ Held(c)' = 0
  BY DEF Held
<1>2. InOrder(c) => InOrder(c)'
  BY <1>1 DEF InOrder
<1> QED
  BY <1>2 DEF Data, Zero

LEMMA ReadStep ==
    ASSUME MuxInv, NEW d \in 1..MaxFds, Read(d)
    PROVE  MuxInv'
<1>1. /\ Turn(d) /\ d # 0 /\ d \in Fds /\ (kind = "epoll" \/ d = Min(ready))
      /\ pc' = "write" /\ cur' = d
      /\ UNCHANGED <<kind, client_sockets, max_pos, ready, nready,
                     queue, cl, sent, reset, unread, echoed, dirty>>
  BY SizesAssumption DEF Read, Turn, Fds
<1>2. PICK c : c = client_sockets[d]
  OBVIOUS
<1>3. pc = "round" /\ d \in ready /\ d \in Conns /\ c \in Clients
  BY <1>1, <1>2, TurnOf
<1>4. TypeOK
  BY DEF MuxInv
<1>5. PICK n \in 1..Min({B, Len(net[c])}) :
         /\ recv_buf' = Filled(SubSeq(net[c], 1, n))
         /\ net' = [net EXCEPT ![c] = SubSeq(net[c], n + 1, Len(net[c]))]
         /\ short' = (short \/ n < B)
  BY <1>2 DEF Read
<1>6. PICK s \in Seq(Unit) : s = net[c]
  BY <1>3, <1>4 DEF TypeOK
<1>7. PICK m \in Nat : m = Len(s)
  BY LenProperties
<1>8. n \in Nat /\ n >= 1 /\ n <= B /\ n <= m /\ B \in Nat
  <2>1. PICK k \in Nat : k = Min({B, m}) /\ k <= B /\ k <= m
    BY LesserOf, SizesAssumption
  <2>2. n \in 1..k
    BY <1>5, <1>6, <1>7, <2>1
  <2> QED
    BY <2>1, <2>2, SizesAssumption
<1>9. PICK data, rest : data = SubSeq(s, 1, n) /\ rest = SubSeq(s, n + 1, Len(s))
  OBVIOUS
<1>10. /\ data \in Seq(Unit) /\ Len(data) = n /\ \A i \in 1..n : data[i] = s[i]
       /\ rest \in Seq(Unit) /\ Len(rest) = m - n /\ \A i \in 1..(m - n) : rest[i] = s[n + i]
  <2>1. n \in 0..Len(s)
    BY <1>7, <1>8
  <2> QED
    BY <1>7, <1>9, <2>1, Divided
<1>11. /\ recv_buf' = Filled(data) /\ net' = [net EXCEPT ![c] = rest]
       /\ net'[c] = rest /\ \A e \in Clients : e # c => net'[e] = net[e]
  BY <1>3, <1>4, <1>5, <1>6, <1>9 DEF TypeOK
<1>12. \A k \in 1..B : recv_buf'[k] = IF k <= n THEN data[k]
                                      ELSE IF kind = "epoll" THEN Zero ELSE recv_buf[k]
  BY <1>10, <1>11 DEF Filled
<1>13. \A k \in 1..B : k <= n => k \in 1..n /\ k \in 1..m
  BY <1>8
<1>14. \A k \in 1..m : s[k] \in Unit
  <2>1. s \in [1..Len(s) -> Unit]
    BY LenProperties
  <2> QED
    BY <1>7, <2>1
<1>15. TypeOK'
  <2>1. net' \in [Clients -> Seq(Unit)]
    BY <1>3, <1>4, <1>10, <1>11 DEF TypeOK
  <2>2. \A k \in 1..B : recv_buf'[k] \in Unit
    <3>1. Zero \in Unit
      BY DEF Zero, Unit
    <3>2. \A k \in 1..B : recv_buf[k] \in Unit
      BY <1>4 DEF TypeOK
    <3> QED
      BY <1>10, <1>12, <1>13, <1>14, <3>1, <3>2
  <2>3. recv_buf' \in [1..B -> Unit]
    <3>1. recv_buf' = [k \in 1..B |-> recv_buf'[k]]
      BY <1>11 DEF Filled
    <3> QED
      BY <2>2, <3>1
  <2>4. short' \in BOOLEAN
    BY <1>5
  <2> QED
    BY <1>1, <1>4, <2>1, <2>3, <2>4 DEF TypeOK
<1>16. Places'
  BY <1>1, <1>4, PlacesKept DEF MuxInv
<1>17. Conns' = Conns
  BY <1>1 DEF Conns
<1>18. Round'
  BY <1>1, <1>3, <1>17 DEF MuxInv, Round
<1>19. Countdown'
  <2> SUFFICES ASSUME kind = "poll"
               PROVE  \E R \in SUBSET ready' : Pending(R)'
    BY <1>1 DEF Countdown
  <2>1. PICK R \in SUBSET ready : Pending(R)
    BY <1>3 DEF MuxInv, Countdown
  <2>2. ASSUME NEW e \in R, e # d
        PROVE  Readable(e)'
    <3>1. Readable(e) /\ e \in Fds
      BY <1>3, <1>4, <2>1 DEF Pending, TypeOK
    <3>2. e = 0 \/ client_sockets[e] # c
      BY <1>2, <1>3, <2>2 DEF MuxInv, Round, Places
    <3>3. CASE e = 0
      BY <1>1, <3>1, <3>3 DEF Readable
    <3>4. CASE e # 0
      BY <1>1, <1>4, <1>11, <3>1, <3>2, <3>4, ReadableKept
    <3> QED
      BY <3>3, <3>4
  <2>3. Pending(R)'
    BY <1>1, <2>1, <2>2 DEF Pending
  <2> QED
    BY <1>1, <2>3
<1>20. \A e \in Clients : ~Holds(e) /\ (Holds(e)' <=> e = c)
  BY <1>1, <1>2, <1>3 DEF Holds
<1>21. ASSUME NEW e \in Clients
       PROVE  Left(e)'
  <2>1. CASE e # c
    BY <1>1, <1>3, <1>11, <1>20, <2>1, LeftKept DEF MuxInv
  <2>2. CASE e = c
    <3>1. net[c] # <<>>
      BY <1>6, <1>7, <1>8, EmptySeq
    <3> QED
      BY <1>1, <1>3, <2>2, <3>1 DEF MuxInv, Left
  <2> QED
    BY <2>1, <2>2
<1>22. Data(c)'
  <2>1. \A i \in 1..m : s[i][1] = c
    BY <1>3, <1>6, <1>7 DEF MuxInv, Data
  <2>2. \A i \in 1..(m - n) : n + i \in 1..m
    BY <1>7, <1>8
  <2>3. \A i \in 1..Len(net'[c]) : net'[c][i][1] = c
    <3>1. \A i \in 1..(m - n) : rest[i][1] = c
      BY <1>10, <2>1, <2>2
    <3>2. net'[c] = rest /\ Len(net'[c]) = m - n
      BY <1>10, <1>11
    <3> QED
      BY <3>1, <3>2, Zenon
  <2>4. kind = "epoll" => \A k \in 1..B : recv_buf'[k][1] = c \/ recv_buf'[k] = Zero
    BY <1>10, <1>12, <1>13, <2>1
  <2>5. ASSUME ~short', cl[c] # "left"
        PROVE  InOrder(c)'
    <3>1. n = B /\ ~short
      <4>1. ~(n < B) /\ ~short
        BY <1>5, <2>5, Zenon
      <4> QED
        BY <1>8, <4>1
    <3>2. InOrder(c) /\ Held(c) = 0 /\ Held(c)' = B
      BY <1>3, <1>20, <2>5, <3>1 DEF MuxInv, Data, Held
    <3>3. PICK k0 \in Nat, t \in Nat : k0 = Len(echoed[c]) /\ t = B * sent[c]
      <4>1. echoed[c] \in Seq(Unit) /\ sent[c] \in Nat
        BY <1>3, <1>4 DEF TypeOK
      <4> QED
        BY <4>1, LenProperties, MoreLines
    <3>4. k0 + 0 + m = t /\ \A i \in 1..m : s[i] = <<c, k0 + 0 + i>>
      BY <1>6, <1>7, <3>2, <3>3 DEF InOrder
    <3>5. k0 + B + (m - B) = t /\ \A i \in 1..m : s[i] = <<c, k0 + i>>
      BY <1>8, <3>4
    <3>6. \A i \in 1..(m - B) : B + i \in 1..m /\ k0 + (B + i) = k0 + B + i
      BY <1>8, <3>1
    <3>7. \A i \in 1..(m - B) : rest[i] = <<c, k0 + B + i>>
      BY <1>10, <3>1, <3>5, <3>6
    <3>8. \A k \in 1..B : recv_buf'[k] = <<c, k0 + k>>
      <4>1. \A k \in 1..B : k <= n
        BY <1>8, <3>1
      <4> QED
        BY <1>10, <1>12, <1>13, <3>5, <4>1
    <3>9. /\ Len(echoed'[c]) = k0 /\ B * sent'[c] = t /\ Len(net'[c]) = m - B /\ net'[c] = rest
      BY <1>1, <1>10, <1>11, <3>1, <3>3
    <3> QED
      BY <3>2, <3>5, <3>7, <3>8, <3>9 DEF InOrder
  <2>6. /\ \A k \in 1..Len(echoed[c]) :
              \/ echoed[c][k] = <<c, k>>
              \/ short /\ (kind = "epoll" => echoed[c][k][1] = c \/ echoed[c][k] = Zero)
        /\ ~short => Len(echoed[c]) <= B * sent[c]
    BY <1>3 DEF MuxInv, Data
  <2>7. short => short'
    BY <1>5
  <2> QED
    BY <1>1, <2>3, <2>4, <2>5, <2>6, <2>7 DEF Data, Zero
<1>23. ASSUME NEW e \in Clients
       PROVE  Data(e)'
  <2>1. CASE e # c
    BY <1>1, <1>3, <1>5, <1>11, <1>20, <2>1, OtherData DEF MuxInv
  <2> QED
    BY <1>22, <2>1
<1>24. DownForReason'
  BY <1>1 DEF DownForReason
<1> QED
  BY <1>15, <1>16, <1>18, <1>19, <1>21, <1>23, <1>24 DEF MuxInv

(* The round goes on after the answer to connection cur.                   *)
LEMMA AnsweredKeeps ==
    ASSUME MuxInv, pc = "write", Proceed(ready \ {cur}, Counted),
           UNCHANGED <<kind, client_sockets, max_pos, cur, queue, cl, net>>,
           \A c \in Clients : reset[c] # "no" => reset'[c] # "no"
    PROVE  /\ pc' \in {"wait", "round"} /\ ready' \subseteq Fds /\ nready' \in Int
           /\ Round' /\ Countdown' /\ DownForReason'
<1>1. TypeOK
  BY DEF MuxInv
<1>2. /\ pc' \in {"wait", "round"} /\ ready' \subseteq ready \ {cur}
      /\ pc' = "round" => ready' = ready \ {cur} /\ nready' = Counted /\ nready' # 0
      /\ pc' = "wait" => nready' = 0
  BY DEF Proceed
<1>3. ready' \subseteq Fds /\ nready' \in Int
  BY <1>1, <1>2 DEF TypeOK, Counted
<1>4. Conns' = Conns
  BY DEF Conns
<1>5. Round'
  BY <1>2, <1>4 DEF MuxInv, Round
<1>6. Countdown'
  <2> SUFFICES ASSUME kind = "poll", pc' = "round"
               PROVE  \E R \in SUBSET ready' : Pending(R)'
    BY <1>2 DEF Countdown
  <2>1. PICK R \in SUBSET ready : Pending(R)
    BY DEF MuxInv, Countdown
  <2>2. cur \in R
    BY <1>1, <2>1, NextReported DEF Pending
  <2>3. R \in SUBSET Fds
    BY <1>1 DEF TypeOK
  <2>4. R \ {cur} \in SUBSET ready' /\ R \ {cur} \in SUBSET Fds
    BY <1>2, <2>3
  <2>5. Cardinality(R \ {cur}) = Cardinality(R) - 1 /\ nready = Cardinality(R)
    BY <2>1, <2>2, <2>3, FdSets DEF Pending
  <2>6. nready' = Cardinality(R \ {cur}) /\ nready' # 0
    BY <1>2, <2>5 DEF Counted
  <2>7. R \ {cur} # {}
    BY <2>4, <2>6, FdSets
  <2>8. R \ {cur} \subseteq 0..max_pos'
    BY <2>1 DEF Pending
  <2>9. \A x \in ready' \ (R \ {cur}), y \in R \ {cur} : y < x
    BY <1>2, <2>1 DEF Pending
  <2>10. ASSUME NEW d \in R \ {cur}
         PROVE  Readable(d)'
    <3>1. Readable(d) /\ d \in Fds
      BY <2>1, <2>3 DEF Pending
    <3> QED
      BY <1>1, <3>1, ReadableKept
  <2>11. Pending(R \ {cur})'
    BY <2>6, <2>7, <2>8, <2>9, <2>10 DEF Pending
  <2> QED
    BY <2>4, <2>11
<1>7. DownForReason'
  BY <1>2 DEF DownForReason
<1> QED
  BY <1>2, <1>3, <1>5, <1>6, <1>7

LEMMA WriteStep ==
    ASSUME MuxInv, Write
    PROVE  MuxInv'
<1>1. /\ pc = "write"
      /\ UNCHANGED <<kind, client_sockets, max_pos, cur, recv_buf, queue, cl, sent, net, short, dirty>>
  BY DEF Write
<1>2. PICK c : c = client_sockets[cur]
  OBVIOUS
<1>3. TypeOK
  BY DEF MuxInv
<1>4. c \in Clients /\ cl[c] \in {"open", "left"} /\ cur \in Conns
  <2>1. cur \in Conns
    BY <1>1 DEF MuxInv, Round
  <2>2. c \in Clients
    BY <1>2, <1>3, <2>1 DEF Conns, TypeOK
  <2>3. cl[c] # "new"
    BY <1>2, <2>1 DEF MuxInv, Places
  <2> QED
    BY <1>3, <2>1, <2>2, <2>3 DEF TypeOK
<1>5. \A e \in Clients : Holds(e) <=> e = c
  BY <1>1, <1>2 DEF Holds
<1>6. CASE reset[c] = "seen"
  <2>1. pc' = "down" /\ UNCHANGED <<ready, nready, reset, unread, echoed>>
    BY <1>2, <1>6 DEF Write
  <2>2. c \in dirty
    BY <1>1, <1>4, <1>6 DEF MuxInv, Left
  <2> QED
    BY <1>1, <2>1, <2>2, ExitStep
<1>7. CASE reset[c] # "seen" /\ cl[c] = "left"
  <2>1. /\ reset' = [reset EXCEPT ![c] = "seen"]
        /\ Proceed(ready \ {cur}, Counted) /\ UNCHANGED <<unread, echoed>>
    BY <1>2, <1>7 DEF Write
  <2>2. reset'[c] = "seen" /\ \A e \in Clients : e # c => reset'[e] = reset[e]
    BY <1>3, <1>4, <2>1 DEF TypeOK
  <2>3. /\ pc' \in {"wait", "round"} /\ ready' \subseteq Fds /\ nready' \in Int
        /\ Round' /\ Countdown' /\ DownForReason'
    BY <1>1, <2>1, <2>2, AnsweredKeeps
  <2>4. TypeOK'
    <3>1. reset' \in [Clients -> {"no", "pending", "seen"}] /\ pc' \in {"wait", "round", "write", "down"}
      BY <1>3, <2>1, <2>3 DEF TypeOK
    <3> QED
      BY <1>1, <1>3, <2>1, <2>3, <3>1 DEF TypeOK
  <2>5. Places'
    BY <1>1, <1>3, PlacesKept DEF MuxInv
  <2>6. \A e \in Clients : ~Holds(e)'
    BY <2>3 DEF Holds
  <2>7. ASSUME NEW e \in Clients
        PROVE  Left(e)'
    <3>1. CASE e # c
      BY <1>1, <2>2, <2>6, <3>1, LeftKept DEF MuxInv
    <3>2. CASE e = c
      <4>1. c \in dirty
        BY <1>1, <1>4, <1>5, <1>7 DEF MuxInv, Left
      <4> QED
        BY <1>1, <1>7, <3>2, <4>1 DEF Left
    <3> QED
      BY <3>1, <3>2
  <2>8. ASSUME NEW e \in Clients
        PROVE  Data(e)'
    <3>1. CASE e # c
      BY <1>1, <1>5, <2>1, <2>6, <3>1, OtherData DEF MuxInv
    <3>2. CASE e = c
      <4>1. Data(c)
        BY <1>4 DEF MuxInv
      <4> QED
        BY <1>1, <1>7, <2>1, <2>6, <3>2, <4>1 DEF Data, Zero
    <3> QED
      BY <3>1, <3>2
  <2> QED
    BY <2>3, <2>4, <2>5, <2>7, <2>8 DEF MuxInv
<1>8. CASE reset[c] # "seen" /\ cl[c] = "open"
  <2>1. /\ echoed' = [echoed EXCEPT ![c] = echoed[c] \o recv_buf]
        /\ unread' = [unread EXCEPT ![c] = unread[c] + B]
        /\ Proceed(ready \ {cur}, Counted) /\ UNCHANGED reset
    BY <1>2, <1>8 DEF Write
  <2>2. /\ pc' \in {"wait", "round"} /\ ready' \subseteq Fds /\ nready' \in Int
        /\ Round' /\ Countdown' /\ DownForReason'
    BY <1>1, <2>1, AnsweredKeeps
  <2>3. PICK s \in Seq(Unit), b \in [1..B -> Unit] : s = echoed[c] /\ b = recv_buf
    BY <1>3, <1>4 DEF TypeOK
  <2>4. PICK k0 \in Nat : k0 = Len(s)
    BY LenProperties
  <2> DEFINE t == s \o b
  <2>5. /\ t \in Seq(Unit) /\ Len(t) = k0 + B /\ \A i \in 1..k0 : t[i] = s[i]
        /\ \A k \in 1..B : t[k0 + k] = b[k]
        /\ \A i \in 1..(k0 + B) : i \in 1..k0 \/ \E k \in 1..B : i = k0 + k
    BY <2>4, Extended
  <2>6. /\ echoed' = [echoed EXCEPT ![c] = t] /\ echoed'[c] = t
        /\ \A e \in Clients : e # c => echoed'[e] = echoed[e]
    BY <1>3, <1>4, <2>1, <2>3 DEF TypeOK
  <2> HIDE DEF t
  <2>7. TypeOK'
    <3>1. echoed' \in [Clients -> Seq(Unit)]
      BY <1>3, <1>4, <2>5, <2>6 DEF TypeOK
    <3>2. unread' \in [Clients -> Nat]
      <4>1. unread[c] + B \in Nat
        BY <1>3, <1>4, SizesAssumption DEF TypeOK
      <4> QED
        BY <1>3, <2>1, <4>1 DEF TypeOK
    <3>3. pc' \in {"wait", "round", "write", "down"}
      BY <2>2
    <3> QED
      BY <1>1, <1>3, <2>1, <2>2, <3>1, <3>2, <3>3 DEF TypeOK
  <2>8. Places'
    BY <1>1, <1>3, PlacesKept DEF MuxInv
  <2>9. \A e \in Clients : ~Holds(e)'
    BY <2>2 DEF Holds
  <2>10. \A e \in Clients : Left(e)'
    BY <1>1, <2>1, <2>9, LeftKept DEF MuxInv
  <2>11. Data(c)'
    <3>1. Data(c) /\ Holds(c) /\ Held(c) = B /\ Held(c)' = 0 /\ ~Holds(c)'
      BY <1>4, <1>5, <2>9 DEF MuxInv, Held
    <3>2. PICK m \in Nat, w \in Nat : m = Len(net[c]) /\ w = B * sent[c]
      <4>1. net[c] \in Seq(Unit) /\ sent[c] \in Nat
        BY <1>3, <1>4 DEF TypeOK
      <4> QED
        BY <4>1, LenProperties, MoreLines
    <3>3. ASSUME ~short
          PROVE  /\ k0 + B + m = w /\ \A i \in 1..m : net[c][i] = <<c, k0 + B + i>>
                 /\ \A k \in 1..B : b[k] = <<c, k0 + k>>
      <4>1. InOrder(c)
        BY <1>1, <1>8, <3>1, <3>3 DEF Data
      <4> QED
        BY <2>3, <2>4, <3>1, <3>2, <4>1 DEF InOrder
    <3>4. ASSUME ~short
          PROVE  InOrder(c)'
      <4>1. k0 + B + 0 + m = w /\ \A i \in 1..m : k0 + B + 0 + i = k0 + B + i
        BY <3>3, <3>4, SizesAssumption
      <4>2. Len(echoed'[c]) = k0 + B /\ net'[c] = net[c] /\ Len(net'[c]) = m /\ B * sent'[c] = w
        BY <1>1, <2>5, <2>6, <3>2
      <4>3. \A i \in 1..m : net[c][i] = <<c, k0 + B + 0 + i>>
        BY <3>3, <3>4, <4>1
      <4> QED
        BY <3>1, <4>1, <4>2, <4>3 DEF InOrder
    <3>5. ~short => k0 + B <= w
      BY <3>3, SizesAssumption
    <3>6. \A k \in 1..k0 :
             \/ s[k] = <<c, k>>
             \/ short /\ (kind = "epoll" => s[k][1] = c \/ s[k] = Zero)
      BY <2>3, <2>4, <3>1 DEF Data
    <3>7. kind = "epoll" => \A k \in 1..B : b[k][1] = c \/ b[k] = Zero
      BY <2>3, <3>1 DEF Data
    <3>8. ASSUME NEW i \in 1..(k0 + B)
          PROVE  \/ t[i] = <<c, i>>
                 \/ short /\ (kind = "epoll" => t[i][1] = c \/ t[i] = Zero)
      <4>1. CASE i \in 1..k0
        BY <2>5, <3>6, <4>1
      <4>2. ASSUME NEW k \in 1..B, i = k0 + k
            PROVE  \/ t[i] = <<c, i>>
                   \/ short /\ (kind = "epoll" => t[i][1] = c \/ t[i] = Zero)
        <5>1. t[i] = b[k]
          BY <2>5, <4>2
        <5>2. CASE short
          BY <3>7, <5>1, <5>2
        <5>3. CASE ~short
          BY <3>3, <4>2, <5>1, <5>3
        <5> QED
          BY <5>2, <5>3
      <4> QED
        BY <2>5, <4>1, <4>2
    <3>9. Len(echoed'[c]) = k0 + B /\ echoed'[c] = t /\ B * sent'[c] = w /\ net'[c] = net[c]
      BY <1>1, <2>5, <2>6, <3>2
    <3>10. \A i \in 1..Len(net[c]) : net[c][i][1] = c
      BY <3>1 DEF Data
    <3> QED
      BY <1>1, <3>1, <3>4, <3>5, <3>8, <3>9, <3>10 DEF Data, Zero
  <2>12. ASSUME NEW e \in Clients
         PROVE  Data(e)'
    <3>1. CASE e # c
      BY <1>1, <1>5, <2>6, <2>9, <3>1, OtherData DEF MuxInv
    <3> QED
      BY <2>11, <3>1
  <2> QED
    BY <2>2, <2>7, <2>8, <2>10, <2>12 DEF MuxInv
<1> QED
  BY <1>4, <1>6, <1>7, <1>8

LEMMA MuxStep == MuxInv /\ [Next]_vars => MuxInv'
<1> SUFFICES ASSUME MuxInv, [Next]_vars
             PROVE  MuxInv'
  OBVIOUS
<1>1. CASE Wait \/ Accept \/ AcceptFails \/ Write
  BY <1>1, WaitStep, AcceptStep, AcceptFailsStep, WriteStep
<1>2. ASSUME NEW d \in 1..MaxFds, Read(d) \/ ReadEnd(d) \/ ReadFails(d)
      PROVE  MuxInv'
  BY <1>2, ReadStep, ReadEndStep, ReadFailsStep
<1>3. ASSUME NEW c \in Clients, Client(c)
      PROVE  MuxInv'
  BY <1>3, ConnectStep, SendStep, ReceiveStep, LeaveStep, GoneStep DEF Client
<1>4. CASE UNCHANGED vars
  <2>1. UNCHANGED <<kind, pc, client_sockets, max_pos, ready, nready, cur, recv_buf,
                    queue, cl, sent, net, reset, unread, echoed, short, dirty>>
    BY <1>4 DEF vars, server
  <2>2. TypeOK'
    BY <2>1 DEF MuxInv, TypeOK
  <2>3. Places'
    BY <2>1, PlacesKept DEF MuxInv
  <2>4. Round' /\ Countdown' /\ DownForReason' /\ \A c \in Clients : Holds(c)' <=> Holds(c)
    BY <2>1, ClientKeeps
  <2>5. \A c \in Clients : Left(c)' /\ Data(c)'
    BY <2>1, <2>4, LeftKept, DataKept DEF MuxInv
  <2> QED
    BY <2>2, <2>3, <2>4, <2>5 DEF MuxInv
<1> QED
  BY <1>1, <1>2, <1>3, <1>4 DEF Next, Server

LEMMA MuxInvariant == Spec => []MuxInv
BY MuxInit, MuxStep, PTL DEF Spec

-----------------------------------------------------------------------------
(* Results.                                                                *)

(* poll_server never blocks in the read of a connection that it accepted   *)
(* in the same round, whose revents nobody set: it has counted nready down *)
(* to zero by then.                                                        *)
THEOREM PollNeverBlocks == Spec => []NeverBlocks
<1>1. MuxInv => NeverBlocks
  <2> SUFFICES ASSUME MuxInv, Blocked, kind # "select"
               PROVE  FALSE
    BY DEF NeverBlocks
  <2>1. kind = "poll" /\ pc = "round" /\ TypeOK
    BY DEF Blocked, MuxInv, TypeOK
  <2>2. PICK R \in SUBSET ready : Pending(R)
    BY <2>1 DEF MuxInv, Countdown
  <2>3. Min(ready) \in R
    BY <2>1, <2>2, NextReported
  <2> QED
    BY <2>1, <2>2, <2>3 DEF Pending, Blocked
<1> QED
  BY <1>1, MuxInvariant, PTL

(* What the servers write to a client is the client's own data, in order,  *)
(* as long as every read fills recv_buf; what follows a short read is its  *)
(* own or zeroes in epoll_server, which clears the buffer.                 *)
THEOREM AnswersOwn == Spec => []OwnDataBack
<1>1. MuxInv => OwnDataBack
  BY DEF MuxInv, Data, OwnDataBack
<1> QED
  BY <1>1, MuxInvariant, PTL

(* The server exits only when accept finds no descriptor, or for a client  *)
(* that closed with data under way: the reset makes read fail or raises    *)
(* SIGPIPE.                                                                *)
THEOREM ExitsForReason == Spec => []DownForReason
BY MuxInvariant, PTL DEF MuxInv
=============================================================================
