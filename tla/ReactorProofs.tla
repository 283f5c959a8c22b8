--------------------------- MODULE ReactorProofs ---------------------------
(***************************************************************************)
(* Proofs about the epoll reactor for any set of clients, any table, any   *)
(* descriptor limit and any buffer: what a client is sent is its own data  *)
(* in order, and a connection is closed for its own client's reason.       *)
(***************************************************************************)
EXTENDS Reactor, SequenceTheorems, WellFoundedInduction, TLAPS

-----------------------------------------------------------------------------
(* The inductive invariant.                                                *)

Unit == Clients \X Nat

TypeOK ==
    /\ fd \in [Events -> Clients \cup {None}] /\ call_back \in [Events -> {"recvdata", "senddata"}]
    /\ status \in [Events -> {0, 1}] /\ buf \in [Events -> Seq(Unit)]
    /\ len \in [Events -> Nat] /\ age \in [Events -> 0..Timeout]
    /\ checkpos \in Events /\ pc \in {"sweep", "wait", "dispatch", "down"}
    /\ batch \subseteq Events \cup {Listen} /\ queue \in Seq(Clients)
    /\ conn \in [Clients -> {"new", "queued", "open", "leaked", "closed"}]
    /\ left \subseteq Clients /\ sent \in [Clients -> Nat] /\ net \in [Clients -> Seq(Unit)]
    /\ reset \in [Clients -> {"no", "pending", "seen"}]
    /\ echoed \in [Clients -> Seq(Unit)] /\ silent \in [Clients -> 0..Timeout]
    /\ full \subseteq Clients /\ cut \subseteq Clients

(* How many units of a client the server has read.                         *)
Taken(c) == sent[c] - Len(net[c])

(* An entry in use belongs to one open connection, whose age it keeps.     *)
Table ==
    /\ \A e \in Events : status[e] = 1 =>
          fd[e] \in Clients /\ conn[fd[e]] = "open" /\ age[e] = silent[fd[e]]
    /\ \A e, f \in Events : status[e] = 1 /\ status[f] = 1 /\ fd[e] = fd[f] => e = f

(* Whoever waits to be accepted waits once.                                *)
Waiting ==
    /\ \A i \in 1..Len(queue) : conn[queue[i]] = "queued"
    /\ \A i, j \in 1..Len(queue) : queue[i] = queue[j] => i = j

(* What was reported ready is so still when its turn comes.                *)
Reported ==
    /\ batch # {} => pc = "dispatch"
    /\ Listen \in batch => queue # <<>>
    /\ \A e \in batch : e # Listen =>
          /\ status[e] = 1
          /\ call_back[e] = "recvdata" => net[fd[e]] # <<>> \/ fd[e] \in left

(* The units of a client, numbered as it wrote them: sent back, read and   *)
(* not yet read.                                                           *)
Stream(c) ==
    /\ Taken(c) >= 0
    /\ \A i \in 1..Len(net[c]) : net[c][i] = <<c, Taken(c) + i>>
    /\ conn[c] \in {"new", "queued"} => Taken(c) = 0 /\ echoed[c] = <<>>
    /\ reset[c] # "no" => c \in left
    /\ reset[c] = "seen" => Taken(c) >= 1
    /\ \A i \in 1..Len(echoed[c]) : echoed[c][i][1] = c
    /\ \A i, j \in 1..Len(echoed[c]) : i < j => echoed[c][i][2] < echoed[c][j][2]
    /\ c \notin cut => \A i \in 1..Len(echoed[c]) : echoed[c][i] = <<c, i>>

(* The units in the hands of entry e: what recvdata left for senddata.     *)
InHand(e) == IF call_back[e] = "senddata" THEN Len(buf[e]) ELSE 0

Served(e, c) ==
    /\ call_back[e] = "senddata" =>
          /\ Len(buf[e]) >= 1 /\ Len(buf[e]) <= Taken(c)
          /\ \A i \in 1..Len(buf[e]) : buf[e][i] = <<c, Taken(c) - Len(buf[e]) + i>>
          /\ len[e] = Len(buf[e]) \/ (len[e] = 0 /\ c \in full)
          /\ reset[c] = "seen" => Taken(c) > Len(buf[e])
    /\ \A i \in 1..Len(echoed[c]) : echoed[c][i][2] <= Taken(c) - InHand(e)
    /\ c \notin cut => Len(echoed[c]) = Taken(c) - InHand(e)

ReactorInv ==
    /\ TypeOK /\ Table /\ Waiting /\ Reported
    /\ \A c \in Clients : Stream(c)
    /\ \A e \in Events, c \in Clients : status[e] = 1 /\ fd[e] = c => Served(e, c)

-----------------------------------------------------------------------------
(* Operators of the libraries.                                             *)

LEMMA MinOfTwo ==
    ASSUME NEW a \in Nat, NEW b \in Nat
    PROVE  Min({a, b}) \in {a, b} /\ Min({a, b}) <= a /\ Min({a, b}) <= b
<1>1. \E x \in {a, b} : \A y \in {a, b} : x <= y
  <2>1. CASE a <= b
    BY <2>1
  <2>2. CASE ~(a <= b)
    BY <2>2
  <2> QED
    BY <2>1, <2>2
<1>2. Min({a, b}) \in {a, b} /\ \A y \in {a, b} : Min({a, b}) <= y
  BY <1>1 DEF Min
<1> QED
  BY <1>2

(* A set of numbers has a least element.                                   *)
LEMMA LeastNumber ==
    ASSUME NEW T, T \subseteq Nat, T # {}
    PROVE  \E k \in T : \A j \in T : k <= j
<1>1. PICK k \in T : \A j \in T : ~(<<j, k>> \in OpToRel(<, Nat))
  BY NatLessThanWellFounded, WFMin
<1>2. \A j \in T : <<j, k>> \in OpToRel(<, Nat) <=> j < k
  BY DEF OpToRel
<1>3. \A j \in T : ~(j < k)
  BY <1>1, <1>2, Zenon
<1> QED
  BY <1>3

LEMMA FirstUnused ==
    ASSUME Unused # {}
    PROVE  Min(Unused) \in Events /\ status[Min(Unused)] = 0
<1>1. Unused \subseteq Nat
  BY SizesAssumption DEF Unused, Events
<1>2. \E k \in Unused : \A j \in Unused : k <= j
  BY <1>1, LeastNumber
<1>3. Min(Unused) \in Unused
  BY <1>2 DEF Min
<1> QED
  BY <1>3 DEF Unused

LEMMA RestLength ==
    ASSUME NEW m \in Nat, NEW k \in Nat, k <= m
    PROVE  (IF k + 1 <= m THEN m - (k + 1) + 1 ELSE 0) = m - k
OBVIOUS

LEMMA Joined ==
    ASSUME NEW S, NEW s \in Seq(S), NEW m \in Seq(S), NEW k, NEW n, k = Len(s), n = Len(m)
    PROVE  /\ s \o m \in Seq(S) /\ Len(s \o m) = k + n
           /\ \A i \in 1..(k + n) : (s \o m)[i] = IF i <= k THEN s[i] ELSE m[i - k]
BY ConcatProperties

(* What recv takes off the front of s, and what it leaves.                 *)
LEMMA Divided ==
    ASSUME NEW S, NEW s \in Seq(S), NEW n \in 0..Len(s)
    PROVE  /\ SubSeq(s, 1, n) \in Seq(S) /\ Len(SubSeq(s, 1, n)) = n
           /\ \A i \in 1..n : SubSeq(s, 1, n)[i] = s[i]
           /\ SubSeq(s, n + 1, Len(s)) \in Seq(S)
           /\ Len(SubSeq(s, n + 1, Len(s))) = Len(s) - n
           /\ \A i \in 1..(Len(s) - n) : SubSeq(s, n + 1, Len(s))[i] = s[n + i]
<1>1. Len(s) \in Nat /\ n \in Nat /\ n <= Len(s) /\ s \in [1..Len(s) -> S]
  BY LenProperties
<1>2. /\ SubSeq(s, 1, n) \in Seq(S)
      /\ Len(SubSeq(s, 1, n)) = IF 1 <= n THEN n - 1 + 1 ELSE 0
      /\ \A i \in 1..(n - 1 + 1) : SubSeq(s, 1, n)[i] = s[1 + i - 1]
  <2>1. \A i \in 1..n : s[i] \in S
    BY <1>1
  <2> QED
    BY <1>1, <2>1, SubSeqProperties
<1>3. /\ SubSeq(s, n + 1, Len(s)) \in Seq(S)
      /\ Len(SubSeq(s, n + 1, Len(s))) = IF n + 1 <= Len(s) THEN Len(s) - (n + 1) + 1 ELSE 0
      /\ \A i \in 1..(Len(s) - (n + 1) + 1) : SubSeq(s, n + 1, Len(s))[i] = s[n + 1 + i - 1]
  <2>1. \A i \in (n + 1)..Len(s) : s[i] \in S
    BY <1>1
  <2>2. n + 1 \in Int /\ Len(s) \in Int
    BY <1>1
  <2> QED
    BY <2>1, <2>2, SubSeqProperties
<1>4. Len(SubSeq(s, 1, n)) = n /\ \A i \in 1..n : SubSeq(s, 1, n)[i] = s[i]
  <2>1. n - 1 + 1 = n /\ \A i \in 1..n : 1 + i - 1 = i
    BY <1>1
  <2>2. (IF 1 <= n THEN n - 1 + 1 ELSE 0) = n
    BY <1>1
  <2> QED
    BY <1>2, <2>1, <2>2
<1>5. /\ Len(SubSeq(s, n + 1, Len(s))) = Len(s) - n
      /\ \A i \in 1..(Len(s) - n) : SubSeq(s, n + 1, Len(s))[i] = s[n + i]
  <2>1. Len(s) - (n + 1) + 1 = Len(s) - n /\ \A i \in 1..(Len(s) - n) : n + 1 + i - 1 = n + i
    BY <1>1
  <2>2. (IF n + 1 <= Len(s) THEN Len(s) - (n + 1) + 1 ELSE 0) = Len(s) - n
    <3>1. PICK m \in Nat, k \in Nat : m = Len(s) /\ k = n /\ k <= m
      BY <1>1
    <3>2. (IF k + 1 <= m THEN m - (k + 1) + 1 ELSE 0) = m - k
      BY <3>1, RestLength
    <3> QED
      BY <3>1, <3>2
  <2> QED
    BY <1>3, <2>1, <2>2
<1> QED
  BY <1>2, <1>3, <1>4, <1>5

-----------------------------------------------------------------------------
(* What a step keeps.                                                      *)

LEMMA StreamKept ==
    ASSUME NEW c \in Clients, Stream(c),
           sent'[c] = sent[c], net'[c] = net[c], echoed'[c] = echoed[c],
           reset'[c] = reset[c] \/ (reset'[c] # "seen" /\ c \in left'), c \in left => c \in left',
           conn'[c] \in {"new", "queued"} => conn[c] \in {"new", "queued"},
           c \notin cut' => c \notin cut
    PROVE  Stream(c)'
<1>1. Taken(c)' = Taken(c)
  BY DEF Taken
<1> QED
  BY <1>1 DEF Stream

LEMMA ServedKept ==
    ASSUME NEW e \in Events, NEW c \in Clients, Served(e, c),
           call_back'[e] = call_back[e], buf'[e] = buf[e], len'[e] = len[e],
           sent'[c] = sent[c], net'[c] = net[c], echoed'[c] = echoed[c],
           reset'[c] = "seen" => reset[c] = "seen", c \in full => c \in full',
           c \notin cut' => c \notin cut
    PROVE  Served(e, c)'
<1>1. Taken(c)' = Taken(c) /\ InHand(e)' = InHand(e)
  BY DEF Taken, InHand
<1> QED
  BY <1>1 DEF Served

(* Entries are numbers, the listening socket's is another one.             *)
LEMMA ListenApart == Listen \notin Events
BY SizesAssumption DEF Listen, Events

LEMMA ReactorInit == Init => ReactorInv
<1> SUFFICES ASSUME Init
             PROVE  ReactorInv
  OBVIOUS
<1>1. TypeOK
  <2>1. 0 \in Events
    BY SizesAssumption DEF Events
  <2>2. <<>> \in Seq(Unit) /\ <<>> \in Seq(Clients) /\ 0 \in 0..Timeout /\ Timeout \in 0..Timeout
    BY SizesAssumption, EmptySeq
  <2> QED
    BY <2>1, <2>2 DEF Init, TypeOK
<1>2. Table /\ Reported /\ Waiting
  BY EmptySeq DEF Init, Table, Reported, Waiting
<1>3. ASSUME NEW c \in Clients
      PROVE  Stream(c)
  <2>1. Len(<<>>) = 0 /\ net[c] = <<>> /\ echoed[c] = <<>> /\ sent[c] = 0 /\ reset[c] = "no"
    BY EmptySeq DEF Init
  <2>2. Taken(c) = 0
    <3>1. Len(net[c]) = 0 /\ sent[c] = 0
      BY <2>1
    <3> QED
      BY <3>1 DEF Taken
  <2> QED
    BY <2>1, <2>2 DEF Stream
<1>4. \A e \in Events : status[e] # 1
  BY DEF Init
<1> QED
  BY <1>1, <1>2, <1>3, <1>4 DEF ReactorInv

-----------------------------------------------------------------------------
(* The steps that move no data of the connections.                         *)

(* The table, the connections and the streams stay as they are.            *)
LEMMA AllKept ==
    ASSUME ReactorInv,
           UNCHANGED <<fd, call_back, status, buf, len, age, queue, conn, left, sent, net, reset,
                       echoed, silent, full, cut>>
    PROVE  /\ Table' /\ Waiting' /\ \A c \in Clients : Stream(c)'
           /\ \A e \in Events, c \in Clients : status'[e] = 1 /\ fd'[e] = c => Served(e, c)'
<1>1. Table' /\ Waiting'
  BY DEF ReactorInv, Table, Waiting
<1>2. \A c \in Clients : Stream(c)'
  BY StreamKept DEF ReactorInv
<1>3. \A e \in Events, c \in Clients : status'[e] = 1 /\ fd'[e] = c => Served(e, c)'
  BY ServedKept DEF ReactorInv
<1> QED
  BY <1>1, <1>2, <1>3

LEMMA WaitStep ==
    ASSUME ReactorInv, epoll_wait
    PROVE  ReactorInv'
<1>1. /\ pc = "wait" /\ batch' = {e \in Events \cup {Listen} : Ready(e)}
      /\ pc' = IF batch' = {} THEN "sweep" ELSE "dispatch"
      /\ UNCHANGED <<ulimit, fd, call_back, status, buf, len, age, checkpos, queue, conn, left, sent,
                     net, reset, echoed, silent, full, cut>>
  BY DEF epoll_wait, table
<1>2. TypeOK'
  BY <1>1 DEF ReactorInv, TypeOK
<1>3. Reported'
  <2>1. \A e \in batch' : Ready(e)
    BY <1>1
  <2> QED
    BY <1>1, <2>1 DEF Ready, Reported
<1> QED
  BY <1>1, <1>2, <1>3, AllKept DEF ReactorInv

LEMMA WaitFailsStep ==
    ASSUME ReactorInv, WaitFails
    PROVE  ReactorInv'
<1>1. /\ pc = "wait" /\ pc' = "down"
      /\ UNCHANGED <<ulimit, fd, call_back, status, buf, len, age, checkpos, batch, queue, conn, left,
                     sent, net, reset, echoed, silent, full, cut>>
  BY DEF WaitFails, table
<1>2. TypeOK'
  BY <1>1 DEF ReactorInv, TypeOK
<1>3. Reported'
  BY <1>1 DEF ReactorInv, Reported
<1> QED
  BY <1>1, <1>2, <1>3, AllKept DEF ReactorInv

LEMMA NoDescriptorStep ==
    ASSUME ReactorInv, AcceptFails
    PROVE  ReactorInv'
<1>1. /\ pc = "dispatch" /\ batch' = batch \ {Listen} /\ pc' = IF batch' = {} THEN "sweep" ELSE "dispatch"
      /\ UNCHANGED <<ulimit, fd, call_back, status, buf, len, age, checkpos, queue, conn, left, sent,
                     net, reset, echoed, silent, full, cut>>
  BY DEF AcceptFails, Dispatched, table
<1>2. TypeOK'
  BY <1>1 DEF ReactorInv, TypeOK
<1>3. Reported'
  BY <1>1 DEF ReactorInv, Reported
<1> QED
  BY <1>1, <1>2, <1>3, AllKept DEF ReactorInv

LEMMA PipeStep ==
    ASSUME ReactorInv, NEW e \in Events, BrokenPipe(e)
    PROVE  ReactorInv'
<1>1. /\ pc' = "down" /\ batch' = {}
      /\ UNCHANGED <<ulimit, fd, call_back, status, buf, len, age, checkpos, queue, conn, left, sent,
                     net, reset, echoed, silent, full, cut>>
  BY DEF BrokenPipe, table
<1>2. TypeOK'
  BY <1>1 DEF ReactorInv, TypeOK
<1>3. Reported'
  BY <1>1 DEF Reported
<1> QED
  BY <1>1, <1>2, <1>3, AllKept DEF ReactorInv

(* A second passes for an entry as it does for its connection.             *)
LEMMA TickStep ==
    ASSUME ReactorInv, Tick
    PROVE  ReactorInv'
<1>1. /\ age' = [e \in Events |-> Min({Timeout, age[e] + 1})]
      /\ silent' = [c \in Clients |-> IF conn[c] \in {"open", "leaked"}
                                      THEN Min({Timeout, silent[c] + 1}) ELSE silent[c]]
      /\ UNCHANGED <<ulimit, fd, call_back, status, buf, len, checkpos, pc, batch,
                     queue, conn, left, sent, net, reset, echoed, full, cut>>
  BY DEF Tick
<1>2. TypeOK'
  <2>1. \A n \in 0..Timeout : Min({Timeout, n + 1}) \in 0..Timeout
    <3> SUFFICES ASSUME NEW n \in 0..Timeout
                 PROVE  Min({Timeout, n + 1}) \in 0..Timeout
      OBVIOUS
    <3>1. Timeout \in Nat /\ n + 1 \in Nat
      BY SizesAssumption
    <3>2. Min({Timeout, n + 1}) \in {Timeout, n + 1} /\ Min({Timeout, n + 1}) <= Timeout
      BY <3>1, MinOfTwo
    <3> QED
      BY <3>1, <3>2
  <2>2. age' \in [Events -> 0..Timeout] /\ silent' \in [Clients -> 0..Timeout]
    BY <1>1, <2>1 DEF ReactorInv, TypeOK
  <2> QED
    BY <1>1, <2>2 DEF ReactorInv, TypeOK
<1>3. Table'
  <2>1. ASSUME NEW e \in Events, status[e] = 1
        PROVE  age'[e] = silent'[fd[e]]
    <3>1. fd[e] \in Clients /\ conn[fd[e]] = "open" /\ age[e] = silent[fd[e]]
      BY <2>1 DEF ReactorInv, Table
    <3> QED
      BY <1>1, <3>1
  <2> QED
    BY <1>1, <2>1 DEF ReactorInv, Table
<1>4. Waiting' /\ Reported'
  BY <1>1 DEF ReactorInv, Waiting, Reported
<1>5. \A c \in Clients : Stream(c)'
  BY <1>1, StreamKept DEF ReactorInv
<1>6. \A e \in Events, c \in Clients : status'[e] = 1 /\ fd'[e] = c => Served(e, c)'
  BY <1>1, ServedKept DEF ReactorInv
<1> QED
  BY <1>2, <1>3, <1>4, <1>5, <1>6 DEF ReactorInv

LEMMA ConnectStep ==
    ASSUME ReactorInv, NEW c \in Clients, Connect(c)
    PROVE  ReactorInv'
<1>1. /\ conn[c] = "new" /\ conn' = [conn EXCEPT ![c] = "queued"] /\ queue' = Append(queue, c)
      /\ UNCHANGED <<ulimit, fd, call_back, status, buf, len, age, checkpos, pc, batch, left, sent, net,
                     reset, echoed, silent, full, cut>>
  BY DEF Connect, table
<1>2. TypeOK
  BY DEF ReactorInv
<1>3. conn'[c] = "queued" /\ \A d \in Clients : d # c => conn'[d] = conn[d]
  BY <1>1, <1>2 DEF TypeOK
<1>4. /\ queue \in Seq(Clients) /\ queue' \in Seq(Clients) /\ queue' # <<>>
      /\ Len(queue) \in Nat /\ Len(queue') = Len(queue) + 1
      /\ \A i \in 1..Len(queue) : queue'[i] = queue[i] /\ queue[i] \in Clients
      /\ queue'[Len(queue) + 1] = c
  <2>1. queue \in Seq(Clients)
    BY <1>2 DEF TypeOK
  <2>2. Len(queue) \in Nat /\ \A i \in 1..Len(queue) : queue[i] \in Clients
    BY <2>1, LenProperties
  <2> QED
    BY <1>1, <2>1, <2>2, AppendProperties
<1>5. TypeOK'
  BY <1>1, <1>2, <1>4 DEF TypeOK
<1>6. Table'
  <2>1. \A e \in Events : status[e] = 1 => fd[e] # c
    BY <1>1 DEF ReactorInv, Table
  <2> QED
    BY <1>1, <1>3, <2>1 DEF ReactorInv, Table
<1>7. Waiting'
  <2>1. \A i \in 1..Len(queue) : conn[queue[i]] = "queued" /\ queue[i] # c
    BY <1>1 DEF ReactorInv, Waiting
  <2>2. \A i \in 1..Len(queue') : i \in 1..Len(queue) \/ i = Len(queue) + 1
    BY <1>4
  <2>3. \A i \in 1..Len(queue') : conn'[queue'[i]] = "queued"
    BY <1>3, <1>4, <2>1, <2>2
  <2>4. ASSUME NEW i \in 1..Len(queue'), NEW j \in 1..Len(queue'), queue'[i] = queue'[j]
        PROVE  i = j
    BY <1>4, <2>1, <2>2, <2>4 DEF ReactorInv, Waiting
  <2> QED
    BY <2>3, <2>4 DEF Waiting
<1>8. Reported'
  BY <1>1, <1>4 DEF ReactorInv, Reported
<1>9. \A d \in Clients : Stream(d)'
  BY <1>1, <1>3, StreamKept DEF ReactorInv
<1>10. \A e \in Events, d \in Clients : status'[e] = 1 /\ fd'[e] = d => Served(e, d)'
  BY <1>1, ServedKept DEF ReactorInv
<1> QED
  BY <1>5, <1>6, <1>7, <1>8, <1>9, <1>10 DEF ReactorInv

LEMMA LeaveStep ==
    ASSUME ReactorInv, NEW c \in Clients, Leave(c)
    PROVE  ReactorInv'
<1>1. /\ c \notin left /\ left' = left \cup {c}
      /\ UNCHANGED reset \/ reset' = [reset EXCEPT ![c] = "pending"]
      /\ UNCHANGED <<ulimit, fd, call_back, status, buf, len, age, checkpos, pc, batch, queue, conn, sent,
                     net, echoed, silent, full, cut>>
  BY DEF Leave, table
<1>2. TypeOK
  BY DEF ReactorInv
<1>3. \A d \in Clients : reset'[d] = reset[d] \/ (d = c /\ reset'[d] = "pending")
  BY <1>1, <1>2 DEF TypeOK
<1>4. TypeOK'
  BY <1>1, <1>2 DEF TypeOK
<1>5. Table' /\ Waiting' /\ Reported'
  BY <1>1 DEF ReactorInv, Table, Waiting, Reported
<1>6. ASSUME NEW d \in Clients
      PROVE  Stream(d)'
  BY <1>1, <1>3, StreamKept DEF ReactorInv
<1>7. ASSUME NEW e \in Events, NEW d \in Clients, status'[e] = 1 /\ fd'[e] = d
      PROVE  Served(e, d)'
  BY <1>1, <1>3, <1>7, ServedKept DEF ReactorInv
<1> QED
  BY <1>4, <1>5, <1>6, <1>7 DEF ReactorInv

(* A client writes: the unit waits behind the others.                      *)
LEMMA SendStep ==
    ASSUME ReactorInv, NEW c \in Clients, Send(c)
    PROVE  ReactorInv'
<1>1. /\ conn[c] \in {"queued", "open", "leaked"} /\ sent' = [sent EXCEPT ![c] = sent[c] + 1]
      /\ net' = [net EXCEPT ![c] = Append(net[c], <<c, sent[c] + 1>>)]
      /\ UNCHANGED <<ulimit, fd, call_back, status, buf, len, age, checkpos, pc, batch, queue, conn, left,
                     reset, echoed, silent, full, cut>>
  BY DEF Send, table
<1>2. TypeOK /\ Stream(c)
  BY DEF ReactorInv
<1>3. PICK old, new : old = net[c] /\ new = net'[c]
  OBVIOUS
<1>4. PICK k \in Nat : k = sent[c]
  BY <1>2 DEF TypeOK
<1>5. /\ old \in Seq(Unit) /\ new \in Seq(Unit) /\ new # <<>> /\ Len(old) \in Nat
      /\ Len(new) = Len(old) + 1 /\ \A i \in 1..Len(old) : new[i] = old[i]
      /\ new[Len(old) + 1] = <<c, k + 1>>
  <2>1. <<c, k + 1>> \in Unit
    BY <1>4 DEF Unit
  <2>2. new = Append(old, <<c, k + 1>>) /\ old \in Seq(Unit)
    BY <1>1, <1>2, <1>3, <1>4 DEF TypeOK
  <2> QED
    BY <2>1, <2>2, AppendProperties, LenProperties
<1>6. sent'[c] = k + 1 /\ \A d \in Clients : d # c => sent'[d] = sent[d] /\ net'[d] = net[d]
  BY <1>1, <1>2, <1>4 DEF TypeOK
<1>7. Taken(c)' = Taken(c) /\ Taken(c) = k - Len(old)
  <2>1. Taken(c) = k - Len(old) /\ Taken(c)' = (k + 1) - (Len(old) + 1)
    BY <1>3, <1>4, <1>5, <1>6 DEF Taken
  <2> QED
    BY <1>4, <1>5, <2>1
<1>8. TypeOK'
  <2>1. sent' \in [Clients -> Nat] /\ net' \in [Clients -> Seq(Unit)]
    BY <1>1, <1>2, <1>3, <1>4, <1>5, <1>6 DEF TypeOK
  <2> QED
    BY <1>1, <1>2, <2>1 DEF TypeOK
<1>9. Table' /\ Waiting' /\ Reported'
  <2>1. Table' /\ Waiting'
    BY <1>1 DEF ReactorInv, Table, Waiting
  <2>2. \A d \in Clients : net[d] # <<>> => net'[d] # <<>>
    BY <1>3, <1>5, <1>6
  <2>3. \A e \in batch : e # Listen => e \in Events /\ status[e] = 1
    BY <1>2 DEF ReactorInv, Reported, TypeOK
  <2>4. \A e \in batch : e # Listen => fd[e] \in Clients
    BY <2>3 DEF ReactorInv, Table
  <2>5. Reported'
    BY <1>1, <2>2, <2>4 DEF ReactorInv, Reported
  <2> QED
    BY <2>1, <2>5
<1>10. ASSUME NEW d \in Clients
       PROVE  Stream(d)'
  <2>1. CASE d # c
    BY <1>1, <1>6, <2>1, StreamKept DEF ReactorInv
  <2>2. CASE d = c
    <3>1. \A i \in 1..Len(new) : new[i] = <<c, Taken(c) + i>>
      <4>1. \A i \in 1..Len(new) : i \in 1..Len(old) \/ i = Len(old) + 1
        BY <1>5
      <4>2. \A i \in 1..Len(old) : old[i] = <<c, Taken(c) + i>>
        BY <1>2, <1>3 DEF Stream
      <4>3. Taken(c) + (Len(old) + 1) = k + 1
        BY <1>4, <1>5, <1>7
      <4> QED
        BY <1>5, <4>1, <4>2, <4>3
    <3> QED
      BY <1>1, <1>2, <1>3, <1>7, <2>2, <3>1 DEF Stream
  <2> QED
    BY <2>1, <2>2
<1>11. ASSUME NEW e \in Events, NEW d \in Clients, status'[e] = 1 /\ fd'[e] = d
       PROVE  Served(e, d)'
  <2>1. Served(e, d)
    BY <1>1, <1>11 DEF ReactorInv
  <2>2. CASE d # c
    BY <1>1, <1>6, <2>1, <2>2, ServedKept
  <2>3. CASE d = c
    <3>1. InHand(e)' = InHand(e)
      BY <1>1 DEF InHand
    <3> QED
      BY <1>1, <1>7, <2>1, <2>3, <3>1 DEF Served
  <2> QED
    BY <2>2, <2>3
<1> QED
  BY <1>8, <1>9, <1>10, <1>11 DEF ReactorInv

-----------------------------------------------------------------------------
(* The steps that close, accept, read and write.                           *)

LEMMA SweepStep ==
    ASSUME ReactorInv, SweepIdle
    PROVE  ReactorInv'
<1>1. PICK idle : /\ idle = {e \in Swept : status[e] = 1 /\ age[e] >= Timeout}
                  /\ status' = [e \in Events |-> IF e \in idle THEN 0 ELSE status[e]]
                  /\ conn' = [c \in Clients |-> IF \E e \in idle : fd[e] = c THEN "closed" ELSE conn[c]]
  BY DEF SweepIdle
<1>2. /\ pc = "sweep" /\ pc' = "wait" /\ checkpos' = (checkpos + Sweep) % MAX_EVENTS
      /\ UNCHANGED <<ulimit, fd, call_back, buf, len, age, batch, queue, left, sent, net, reset, echoed,
                     silent, full, cut>>
  BY DEF SweepIdle
<1>3. TypeOK
  BY DEF ReactorInv
<1>4. \A n \in Nat : n % MAX_EVENTS \in Events
  <2>1. MAX_EVENTS \in Nat /\ MAX_EVENTS > 0
    BY SizesAssumption
  <2> QED
    BY <2>1 DEF Events
<1>5. checkpos \in Nat /\ Sweep \in Nat
  BY <1>3, SizesAssumption DEF TypeOK, Events
<1>6. idle \subseteq Events /\ checkpos' \in Events
  <2>1. \A i \in 0..(Sweep - 1) : checkpos + i \in Nat
    BY <1>5
  <2>2. checkpos + Sweep \in Nat
    BY <1>5
  <2> QED
    BY <1>1, <1>2, <1>4, <2>1, <2>2 DEF Swept
<1>7. \A e \in idle : status[e] = 1 /\ fd[e] \in Clients /\ conn[fd[e]] = "open"
  BY <1>1, <1>6 DEF ReactorInv, Table
<1>8. \A e \in Events : status'[e] = 1 => status[e] = 1 /\ e \notin idle
  BY <1>1
<1>9. \A c \in Clients : conn'[c] = conn[c] \/ (conn'[c] = "closed" /\ conn[c] = "open")
  BY <1>1, <1>7
<1>10. TypeOK'
  <2>1. status' \in [Events -> {0, 1}]
    BY <1>1, <1>3 DEF TypeOK
  <2>2. conn' \in [Clients -> {"new", "queued", "open", "leaked", "closed"}]
    BY <1>1, <1>3 DEF TypeOK
  <2> QED
    BY <1>2, <1>3, <1>6, <2>1, <2>2 DEF TypeOK
<1>11. Table'
  <2>1. ASSUME NEW e \in Events, status'[e] = 1
        PROVE  conn'[fd[e]] = "open" /\ fd[e] \in Clients
    <3>1. status[e] = 1 /\ e \notin idle /\ fd[e] \in Clients /\ conn[fd[e]] = "open"
      BY <1>8, <2>1 DEF ReactorInv, Table
    <3>2. ~\E f \in idle : fd[f] = fd[e]
      BY <1>6, <1>7, <3>1 DEF ReactorInv, Table
    <3> QED
      BY <1>1, <3>1, <3>2
  <2> QED
    BY <1>2, <1>8, <2>1 DEF ReactorInv, Table
<1>12. Waiting'
  <2>1. \A i \in 1..Len(queue) : queue[i] \in Clients
    BY <1>3, LenProperties DEF TypeOK
  <2> QED
    BY <1>2, <1>9, <2>1 DEF ReactorInv, Waiting
<1>13. Reported'
  <2>1. batch = {}
    BY <1>2 DEF ReactorInv, Reported
  <2> QED
    BY <1>2, <2>1 DEF Reported
<1>14. \A c \in Clients : Stream(c)'
  BY <1>2, <1>9, StreamKept DEF ReactorInv
<1>15. \A e \in Events, c \in Clients : status'[e] = 1 /\ fd'[e] = c => Served(e, c)'
  BY <1>2, <1>8, ServedKept DEF ReactorInv
<1> QED
  BY <1>10, <1>11, <1>12, <1>13, <1>14, <1>15 DEF ReactorInv

LEMMA AcceptStep ==
    ASSUME ReactorInv, acceptconn
    PROVE  ReactorInv'
<1>1. /\ pc = "dispatch" /\ Listen \in batch /\ batch' = batch \ {Listen}
      /\ pc' = IF batch' = {} THEN "sweep" ELSE "dispatch"
      /\ UNCHANGED <<ulimit, buf, len, checkpos, left, sent, net, reset, echoed, full, cut>>
  BY DEF acceptconn, Dispatched
<1>2. TypeOK
  BY DEF ReactorInv
<1>3. PICK c : c = Head(queue)
  OBVIOUS
<1>4. queue # <<>> /\ queue \in Seq(Clients) /\ queue' = Tail(queue)
  BY <1>1, <1>2 DEF ReactorInv, Reported, TypeOK, acceptconn
<1>5. /\ c \in Clients /\ c = queue[1] /\ queue' \in Seq(Clients) /\ Len(queue') = Len(queue) - 1
      /\ Len(queue) \in Nat /\ Len(queue) > 0
      /\ \A i \in 1..Len(queue') : queue'[i] = queue[i + 1] /\ queue[i + 1] \in Clients
  <2>1. Len(queue) \in Nat /\ Len(queue) > 0 /\ queue \in [1..Len(queue) -> Clients]
    BY <1>4, EmptySeq, LenProperties
  <2>2. /\ c \in Clients /\ queue' \in Seq(Clients) /\ Len(queue') = Len(queue) - 1
        /\ \A i \in 1..Len(queue') : queue'[i] = queue[i + 1]
    BY <1>3, <1>4, HeadTailProperties
  <2>3. c = queue[1]
    BY <1>3, <1>4
  <2>4. \A i \in 1..Len(queue') : i + 1 \in 1..Len(queue)
    BY <2>1, <2>2
  <2> QED
    BY <2>1, <2>2, <2>3, <2>4
<1>6. conn[c] = "queued" /\ \A i \in 1..Len(queue') : queue[i + 1] # c /\ conn[queue[i + 1]] = "queued"
  <2>1. \A i \in 1..Len(queue') : i + 1 \in 1..Len(queue) /\ i + 1 # 1
    BY <1>5
  <2>2. 1 \in 1..Len(queue)
    BY <1>5
  <2> QED
    BY <1>5, <2>1, <2>2 DEF ReactorInv, Waiting
<1>7. \A e \in Events : status[e] = 1 => fd[e] # c
  BY <1>6 DEF ReactorInv, Table
<1>8. /\ silent' = [silent EXCEPT ![c] = 0] /\ 0 \in 0..Timeout
      /\ silent'[c] = 0 /\ \A d \in Clients : d # c => silent'[d] = silent[d]
  BY <1>2, <1>3, <1>5, SizesAssumption DEF acceptconn, TypeOK
<1>9. /\ conn'[c] \in {"leaked", "open"}
      /\ \A d \in Clients : d # c => conn'[d] = conn[d]
  BY <1>2, <1>3, <1>5 DEF acceptconn, TypeOK
<1>10. Waiting'
  <2>1. \A i \in 1..Len(queue') : conn'[queue'[i]] = "queued"
    BY <1>5, <1>6, <1>9
  <2>2. ASSUME NEW i \in 1..Len(queue'), NEW j \in 1..Len(queue'), queue'[i] = queue'[j]
        PROVE  i = j
    <3>1. i + 1 \in 1..Len(queue) /\ j + 1 \in 1..Len(queue) /\ queue[i + 1] = queue[j + 1]
      BY <1>5, <2>2
    <3>2. i + 1 = j + 1
      BY <3>1 DEF ReactorInv, Waiting
    <3> QED
      BY <3>2
  <2> QED
    BY <2>1, <2>2 DEF Waiting
<1>11. \A d \in Clients : Stream(d)'
  <2>1. \A d \in Clients : conn'[d] \in {"new", "queued"} => conn[d] \in {"new", "queued"}
    BY <1>6, <1>9
  <2> QED
    BY <1>1, <2>1, StreamKept DEF ReactorInv
<1>12. CASE UNCHANGED <<fd, call_back, status, age>> /\ conn' = [conn EXCEPT ![c] = "leaked"]
  <2>1. UNCHANGED <<fd, call_back, status, age>> /\ conn' = [conn EXCEPT ![c] = "leaked"]
    BY <1>12
  <2>2. TypeOK'
    BY <1>1, <1>2, <1>5, <1>8, <2>1 DEF TypeOK
  <2>3. Table'
    BY <1>7, <1>8, <1>9, <2>1 DEF ReactorInv, Table
  <2>4. Reported'
    BY <1>1, <2>1 DEF ReactorInv, Reported
  <2>5. \A e \in Events, d \in Clients : status'[e] = 1 /\ fd'[e] = d => Served(e, d)'
    BY <1>1, <2>1, ServedKept DEF ReactorInv
  <2> QED
    BY <1>10, <1>11, <2>2, <2>3, <2>4, <2>5 DEF ReactorInv
<1>13. CASE Unused # {} /\ conn' = [conn EXCEPT ![c] = "open"] /\ EventSet(Min(Unused), c, "recvdata")
  <2>1. PICK e \in Events : e = Min(Unused) /\ status[e] = 0
    BY <1>13, FirstUnused
  <2>2. /\ fd' = [fd EXCEPT ![e] = c] /\ call_back' = [call_back EXCEPT ![e] = "recvdata"]
        /\ status' = [status EXCEPT ![e] = 1] /\ age' = [age EXCEPT ![e] = 0]
        /\ conn' = [conn EXCEPT ![c] = "open"]
    BY <1>13, <2>1 DEF EventSet
  <2>3. /\ fd'[e] = c /\ call_back'[e] = "recvdata" /\ age'[e] = 0 /\ conn'[c] = "open"
        /\ \A f \in Events : f # e => /\ fd'[f] = fd[f] /\ call_back'[f] = call_back[f]
                                      /\ status'[f] = status[f] /\ age'[f] = age[f]
    BY <1>2, <1>5, <2>2 DEF TypeOK
  <2>4. TypeOK'
    BY <1>1, <1>2, <1>5, <1>8, <2>2 DEF TypeOK
  <2>5. Table'
    <3>1. \A f \in Events : status'[f] = 1 /\ f # e =>
             /\ status[f] = 1 /\ fd'[f] = fd[f] /\ fd[f] # c /\ fd[f] \in Clients /\ conn'[fd[f]] = "open"
             /\ age'[f] = silent'[fd[f]]
      BY <1>7, <1>8, <1>9, <2>3 DEF ReactorInv, Table
    <3>2. \A f \in Events : status'[f] = 1 =>
             fd'[f] \in Clients /\ conn'[fd'[f]] = "open" /\ age'[f] = silent'[fd'[f]]
      BY <1>5, <1>8, <2>3, <3>1
    <3>3. \A f, g \in Events : status'[f] = 1 /\ status'[g] = 1 /\ fd'[f] = fd'[g] => f = g
      BY <2>3, <3>1 DEF ReactorInv, Table
    <3> QED
      BY <3>2, <3>3 DEF Table
  <2>6. Reported'
    <3>1. \A f \in batch' : f # Listen => f # e /\ f \in Events
      BY <1>1, <1>2, <2>1 DEF ReactorInv, Reported, TypeOK
    <3> QED
      BY <1>1, <2>3, <3>1 DEF ReactorInv, Reported
  <2>7. ASSUME NEW f \in Events, NEW d \in Clients, status'[f] = 1 /\ fd'[f] = d
        PROVE  Served(f, d)'
    <3>1. CASE f # e
      BY <1>1, <2>3, <2>7, <3>1, ServedKept DEF ReactorInv
    <3>2. CASE f = e
      <4>1. d = c /\ call_back'[e] # "senddata"
        BY <2>3, <2>7, <3>2
      <4>2. Taken(c) = 0 /\ echoed[c] = <<>> /\ Len(echoed[c]) = 0
        BY <1>5, <1>6, EmptySeq DEF ReactorInv, Stream
      <4>3. Taken(c)' = 0 /\ echoed'[c] = <<>> /\ Len(echoed'[c]) = 0 /\ InHand(e)' = 0
        BY <1>1, <4>1, <4>2 DEF Taken, InHand
      <4> QED
        BY <3>2, <4>1, <4>3 DEF Served
    <3> QED
      BY <3>1, <3>2
  <2> QED
    BY <1>10, <1>11, <2>4, <2>5, <2>6, <2>7 DEF ReactorInv
<1> QED
  BY <1>3, <1>12, <1>13 DEF acceptconn

(* The entry whose turn it is.                                             *)
LEMMA TurnOf ==
    ASSUME ReactorInv, NEW e \in Events, Dispatched(e)
    PROVE  /\ e # Listen /\ status[e] = 1 /\ fd[e] \in Clients /\ conn[fd[e]] = "open"
           /\ call_back[e] = "recvdata" => net[fd[e]] # <<>> \/ fd[e] \in left
           /\ Served(e, fd[e]) /\ Stream(fd[e])
           /\ \A f \in Events : status[f] = 1 /\ f # e => fd[f] # fd[e]
<1>1. e # Listen /\ e \in batch
  BY ListenApart DEF Dispatched
<1>2. status[e] = 1 /\ (call_back[e] = "recvdata" => net[fd[e]] # <<>> \/ fd[e] \in left)
  BY <1>1 DEF ReactorInv, Reported
<1>3. fd[e] \in Clients /\ conn[fd[e]] = "open" /\ \A f \in Events : status[f] = 1 /\ f # e => fd[f] # fd[e]
  BY <1>2 DEF ReactorInv, Table
<1> QED
  BY <1>1, <1>2, <1>3 DEF ReactorInv

(* The entry is given up, with what it held.                               *)
LEMMA CloseStep ==
    ASSUME ReactorInv, NEW e \in Events, Dispatched(e), EventClose(e),
           UNCHANGED <<ulimit, buf, len, checkpos, queue, left, sent, net, echoed, silent, full, cut>>,
           reset' \in [Clients -> {"no", "pending", "seen"}],
           \A d \in Clients : d # fd[e] => reset'[d] = reset[d],
           \/ reset'[fd[e]] = reset[fd[e]]
           \/ fd[e] \in left /\ Taken(fd[e]) >= 1
    PROVE  ReactorInv'
<1>1. PICK c \in Clients : c = fd[e]
  BY TurnOf
<1>2. /\ pc = "dispatch" /\ batch' = batch \ {e} /\ pc' = IF batch' = {} THEN "sweep" ELSE "dispatch"
      /\ status' = [status EXCEPT ![e] = 0] /\ conn' = [conn EXCEPT ![c] = "closed"]
      /\ UNCHANGED <<fd, call_back, age>>
  BY <1>1 DEF Dispatched, EventClose
<1>3. TypeOK
  BY DEF ReactorInv
<1>4. /\ status'[e] = 0 /\ \A f \in Events : f # e => status'[f] = status[f]
      /\ conn'[c] = "closed" /\ \A d \in Clients : d # c => conn'[d] = conn[d]
  BY <1>2, <1>3 DEF TypeOK
<1>5. /\ conn[c] = "open" /\ Stream(c) /\ \A f \in Events : status[f] = 1 /\ f # e => fd[f] # c
  BY <1>1, TurnOf
<1>6. TypeOK'
  BY <1>2, <1>3 DEF TypeOK
<1>7. Table'
  BY <1>2, <1>4, <1>5 DEF ReactorInv, Table
<1>8. Waiting'
  <2>1. queue \in Seq(Clients)
    BY <1>3 DEF TypeOK
  <2>2. \A i \in 1..Len(queue) : queue[i] \in Clients
    BY <2>1, LenProperties
  <2>3. \A i \in 1..Len(queue) : conn[queue[i]] = "queued"
    BY DEF ReactorInv, Waiting
  <2>4. \A i \in 1..Len(queue) : queue[i] # c
    BY <1>5, <2>3
  <2>5. \A i \in 1..Len(queue) : conn'[queue[i]] = "queued"
    BY <1>4, <2>2, <2>3, <2>4
  <2> QED
    BY <2>5 DEF ReactorInv, Waiting
<1>9. Reported'
  <2>1. \A f \in batch' : f # Listen => f \in Events /\ f # e
    BY <1>2, <1>3 DEF TypeOK
  <2> QED
    BY <1>2, <1>4, <2>1 DEF ReactorInv, Reported
<1>10. ASSUME NEW d \in Clients
       PROVE  Stream(d)'
  <2>1. CASE d # c
    BY <1>1, <1>4, <2>1, StreamKept DEF ReactorInv
  <2>2. CASE d = c
    <3>1. Taken(c)' = Taken(c)
      BY DEF Taken
    <3>2. (reset'[c] # "no" => c \in left) /\ (reset'[c] = "seen" => Taken(c) >= 1)
      BY <1>1, <1>5 DEF Stream
    <3> QED
      BY <1>4, <1>5, <2>2, <3>1, <3>2 DEF Stream
  <2> QED
    BY <2>1, <2>2
<1>11. ASSUME NEW f \in Events, NEW d \in Clients, status'[f] = 1 /\ fd'[f] = d
       PROVE  Served(f, d)'
  <2>1. status[f] = 1 /\ f # e /\ fd[f] = d /\ d # c
    BY <1>2, <1>4, <1>5, <1>11
  <2> QED
    BY <1>1, <1>2, <2>1, ServedKept DEF ReactorInv
<1> QED
  BY <1>6, <1>7, <1>8, <1>9, <1>10, <1>11 DEF ReactorInv

(* An entry that serves its client once more, with callback f.             *)
LEMMA ServeStep ==
    ASSUME ReactorInv, NEW e \in Events, Dispatched(e), NEW c \in Clients, c = fd[e],
           NEW f \in {"recvdata", "senddata"}, EventSet(e, c, f),
           UNCHANGED <<ulimit, checkpos, queue, left, sent, conn>>,
           silent' = [silent EXCEPT ![c] = 0],
           buf' \in [Events -> Seq(Unit)], len' \in [Events -> Nat],
           net' \in [Clients -> Seq(Unit)], echoed' \in [Clients -> Seq(Unit)],
           reset' \in [Clients -> {"no", "pending", "seen"}],
           full' \in {full, full \cup {c}}, cut' \in {cut, cut \cup {c}},
           \A g \in Events : g # e => buf'[g] = buf[g] /\ len'[g] = len[g],
           \A d \in Clients : d # c => net'[d] = net[d] /\ echoed'[d] = echoed[d] /\ reset'[d] = reset[d],
           Stream(c)', Served(e, c)'
    PROVE  /\ ReactorInv'
           /\ call_back'[e] = f
<1>1. TypeOK
  BY DEF ReactorInv
<1>2. /\ pc = "dispatch" /\ batch' = batch \ {e} /\ pc' = IF batch' = {} THEN "sweep" ELSE "dispatch"
      /\ fd' = [fd EXCEPT ![e] = c] /\ call_back' = [call_back EXCEPT ![e] = f]
      /\ status' = [status EXCEPT ![e] = 1] /\ age' = [age EXCEPT ![e] = 0]
  BY DEF Dispatched, EventSet
<1>3. /\ fd'[e] = c /\ call_back'[e] = f /\ status'[e] = 1 /\ age'[e] = 0
      /\ \A g \in Events : g # e => /\ fd'[g] = fd[g] /\ call_back'[g] = call_back[g]
                                    /\ status'[g] = status[g] /\ age'[g] = age[g]
      /\ silent'[c] = 0 /\ \A d \in Clients : d # c => silent'[d] = silent[d]
      /\ 0 \in 0..Timeout
  BY <1>1, <1>2, SizesAssumption DEF TypeOK
<1>4. conn[c] = "open" /\ \A g \in Events : status[g] = 1 /\ g # e => fd[g] # c
  BY TurnOf
<1>5. TypeOK'
  <2>1. /\ fd' \in [Events -> Clients \cup {None}] /\ call_back' \in [Events -> {"recvdata", "senddata"}]
        /\ status' \in [Events -> {0, 1}] /\ age' \in [Events -> 0..Timeout]
        /\ silent' \in [Clients -> 0..Timeout]
    BY <1>1, <1>2, <1>3 DEF TypeOK
  <2>2. /\ batch' \subseteq Events \cup {Listen} /\ pc' \in {"sweep", "wait", "dispatch", "down"}
        /\ full' \subseteq Clients /\ cut' \subseteq Clients
    BY <1>1, <1>2 DEF TypeOK
  <2> QED
    BY <1>1, <2>1, <2>2 DEF TypeOK
<1>6. Table'
  <2>1. \A g \in Events : status'[g] = 1 /\ g # e =>
           /\ status[g] = 1 /\ fd'[g] = fd[g] /\ fd[g] # c /\ fd[g] \in Clients /\ conn[fd[g]] = "open"
           /\ age'[g] = silent'[fd[g]]
    BY <1>3, <1>4 DEF ReactorInv, Table
  <2>2. \A g \in Events : status'[g] = 1 =>
           fd'[g] \in Clients /\ conn'[fd'[g]] = "open" /\ age'[g] = silent'[fd'[g]]
    BY <1>3, <1>4, <2>1
  <2>3. \A g, h \in Events : status'[g] = 1 /\ status'[h] = 1 /\ fd'[g] = fd'[h] => g = h
    BY <1>3, <2>1 DEF ReactorInv, Table
  <2> QED
    BY <2>2, <2>3 DEF Table
<1>7. Waiting'
  BY DEF ReactorInv, Waiting
<1>8. Reported'
  <2>1. \A g \in batch' : g # Listen => g \in Events /\ g # e /\ status[g] = 1
    BY <1>1, <1>2 DEF TypeOK, ReactorInv, Reported
  <2>2. \A g \in batch' : g # Listen => fd[g] \in Clients /\ fd[g] # c
    BY <1>4, <2>1 DEF ReactorInv, Table
  <2>3. \A g \in batch' : g # Listen =>
           /\ status'[g] = 1 /\ fd'[g] = fd[g] /\ call_back'[g] = call_back[g]
           /\ net'[fd[g]] = net[fd[g]]
    BY <1>3, <2>1, <2>2
  <2>4. \A g \in batch' : g # Listen =>
           (call_back[g] = "recvdata" => net[fd[g]] # <<>> \/ fd[g] \in left)
    BY <1>2 DEF ReactorInv, Reported
  <2>5. ASSUME NEW g \in batch', g # Listen
        PROVE  /\ status'[g] = 1
               /\ call_back'[g] = "recvdata" => net'[fd'[g]] # <<>> \/ fd'[g] \in left'
    <3>1. left' = left /\ net'[fd'[g]] = net[fd[g]] /\ fd'[g] = fd[g] /\ call_back'[g] = call_back[g]
      BY <2>3, <2>5
    <3> QED
      BY <2>3, <2>4, <2>5, <3>1
  <2>6. Listen \in batch' => queue' # <<>>
    BY <1>2 DEF ReactorInv, Reported
  <2>7. batch' # {} => pc' = "dispatch"
    BY <1>2
  <2> QED
    BY <2>5, <2>6, <2>7 DEF Reported
<1>9. ASSUME NEW d \in Clients
      PROVE  Stream(d)'
  <2>1. CASE d # c
    BY <2>1, StreamKept DEF ReactorInv
  <2> QED
    BY <2>1
<1>10. ASSUME NEW g \in Events, NEW d \in Clients, status'[g] = 1 /\ fd'[g] = d
       PROVE  Served(g, d)'
  <2>1. CASE g # e
    <3>1. status[g] = 1 /\ fd[g] = d /\ d # c /\ call_back'[g] = call_back[g]
      BY <1>3, <1>4, <1>10, <2>1
    <3>2. Served(g, d)
      BY <3>1 DEF ReactorInv
    <3> QED
      BY <2>1, <3>1, <3>2, ServedKept
  <2>2. CASE g = e
    BY <1>3, <1>10, <2>2
  <2> QED
    BY <2>1, <2>2
<1> QED
  BY <1>3, <1>5, <1>6, <1>7, <1>8, <1>9, <1>10 DEF ReactorInv


(* recv: the units move from the connection to the entry's buffer.         *)
LEMMA RecvStep ==
    ASSUME ReactorInv, NEW e \in Events, recvdata(e)
    PROVE  ReactorInv'
<1>1. PICK c \in Clients : c = fd[e]
  BY TurnOf DEF recvdata
<1>2. Dispatched(e) /\ call_back[e] = "recvdata"
  BY DEF recvdata
<1>3. /\ conn[c] = "open" /\ Stream(c) /\ Served(e, c)
      /\ net[c] # <<>> \/ c \in left
  BY <1>1, <1>2, TurnOf
<1>4. TypeOK
  BY DEF ReactorInv
<1>5. net[c] \in Seq(Unit) /\ Len(net[c]) \in Nat /\ sent[c] \in Nat
  <2>1. net[c] \in Seq(Unit) /\ sent[c] \in Nat
    BY <1>4 DEF TypeOK
  <2> QED
    BY <2>1, LenProperties
<1>6. /\ Min({BUFLEN, Len(net[c])}) \in Nat
      /\ Min({BUFLEN, Len(net[c])}) <= BUFLEN /\ Min({BUFLEN, Len(net[c])}) <= Len(net[c])
  BY <1>5, MinOfTwo, SizesAssumption
<1>7. PICK n \in 0..Min({BUFLEN, Len(net[c])}) :
        /\ n = 0 <=> net[c] = <<>>
        /\ net' = [net EXCEPT ![c] = SubSeq(net[c], n + 1, Len(net[c]))]
        /\ n = 0 => EventClose(e) /\ UNCHANGED <<buf, len, silent, full>>
        /\ n # 0 => /\ buf' = [buf EXCEPT ![e] = SubSeq(net[c], 1, n)]
                    /\ \E l \in Stored(n) : len' = [len EXCEPT ![e] = l]
                    /\ EventSet(e, c, "senddata")
                    /\ silent' = [silent EXCEPT ![c] = 0]
                    /\ full' = IF n = BUFLEN THEN full \cup {c} ELSE full
                    /\ UNCHANGED conn
  BY <1>1, Zenon DEF recvdata
<1>8. UNCHANGED <<ulimit, checkpos, queue, left, sent, reset, echoed, cut>>
  BY DEF recvdata
<1>9. n \in 0..Len(net[c]) /\ n <= BUFLEN /\ n \in Nat
  <2>1. PICK k \in Nat : k = Min({BUFLEN, Len(net[c])}) /\ k <= BUFLEN /\ k <= Len(net[c])
    BY <1>6
  <2>2. n \in 0..k
    BY <2>1
  <2>3. PICK m \in Nat : m = Len(net[c]) /\ k <= m
    BY <1>5, <2>1
  <2>4. n \in 0..m /\ n <= BUFLEN /\ n \in Nat
    BY <2>1, <2>2, <2>3, SizesAssumption
  <2> QED
    BY <2>3, <2>4
<1>10. /\ SubSeq(net[c], 1, n) \in Seq(Unit) /\ Len(SubSeq(net[c], 1, n)) = n
       /\ \A i \in 1..n : SubSeq(net[c], 1, n)[i] = net[c][i]
       /\ SubSeq(net[c], n + 1, Len(net[c])) \in Seq(Unit)
       /\ Len(SubSeq(net[c], n + 1, Len(net[c]))) = Len(net[c]) - n
       /\ \A i \in 1..(Len(net[c]) - n) : SubSeq(net[c], n + 1, Len(net[c]))[i] = net[c][n + i]
  BY <1>5, <1>9, Divided
<1>11. CASE n = 0
  <2>1. Len(net[c]) = 0
    BY <1>7, <1>11, EmptySeq
  <2>2. SubSeq(net[c], n + 1, Len(net[c])) = <<>>
    <3>1. Len(SubSeq(net[c], n + 1, Len(net[c]))) = 0
      BY <1>10, <1>11, <2>1
    <3> QED
      BY <1>10, <3>1, EmptySeq
  <2>3. net' = [net EXCEPT ![c] = net[c]]
    BY <1>7, <1>11, <2>2
  <2>4. net' = net
    BY <1>4, <2>3 DEF TypeOK
  <2>5. reset' \in [Clients -> {"no", "pending", "seen"}]
    BY <1>4, <1>8 DEF TypeOK
  <2>6. EventClose(e) /\ UNCHANGED <<buf, len, silent, full>>
    BY <1>7, <1>11
  <2> QED
    BY <1>2, <1>8, <2>4, <2>5, <2>6, CloseStep
<1>12. CASE n # 0
  <2>1. PICK l \in Stored(n) : len' = [len EXCEPT ![e] = l]
    BY <1>7, <1>12
  <2>2. /\ buf' = [buf EXCEPT ![e] = SubSeq(net[c], 1, n)] /\ EventSet(e, c, "senddata")
        /\ silent' = [silent EXCEPT ![c] = 0]
        /\ full' = (IF n = BUFLEN THEN full \cup {c} ELSE full) /\ conn' = conn
    BY <1>7, <1>12
  <2>3. l \in Nat /\ (l = n \/ (l = 0 /\ c \in full'))
    <3>1. CASE n < BUFLEN
      BY <1>9, <2>1, <3>1 DEF Stored
    <3>2. CASE n = BUFLEN
      <4>1. c \in full' /\ ~(n < BUFLEN)
        BY <1>9, <2>2, <3>2
      <4>2. l \in {n, 0}
        BY <2>1, <4>1 DEF Stored
      <4> QED
        BY <1>9, <4>1, <4>2
    <3> QED
      BY <1>9, <3>1, <3>2, SizesAssumption
  <2>4. buf' \in [Events -> Seq(Unit)] /\ len' \in [Events -> Nat] /\ net' \in [Clients -> Seq(Unit)]
    BY <1>4, <1>7, <1>10, <2>1, <2>2, <2>3 DEF TypeOK
  <2>5. /\ \A g \in Events : g # e => buf'[g] = buf[g] /\ len'[g] = len[g]
        /\ \A d \in Clients : d # c => net'[d] = net[d]
        /\ buf'[e] = SubSeq(net[c], 1, n) /\ len'[e] = l
        /\ net'[c] = SubSeq(net[c], n + 1, Len(net[c]))
    BY <1>4, <1>7, <2>1, <2>2 DEF TypeOK
  <2>6. call_back'[e] = "senddata"
    BY <1>4, <2>2 DEF EventSet, TypeOK
  <2>7. PICK m \in Nat, t \in Nat : m = Len(net[c]) /\ t = Taken(c)
    <3>1. Taken(c) \in Nat
      <4>1. Taken(c) \in Int /\ Taken(c) >= 0
        BY <1>3, <1>5 DEF Taken, Stream
      <4> QED
        BY <4>1
    <3> QED
      BY <1>5, <3>1
  <2>8. Len(net'[c]) = m - n /\ Len(buf'[e]) = n
    BY <1>10, <2>5, <2>7
  <2>9. Taken(c)' = t + n
    <3>1. sent'[c] = t + m
      <4>1. sent[c] - m = t
        BY <2>7 DEF Taken
      <4> QED
        BY <1>5, <1>8, <2>7, <4>1
    <3> QED
      BY <1>9, <2>7, <2>8, <3>1 DEF Taken
  <2>10. Stream(c)'
    <3>1. \A i \in 1..(m - n) : net'[c][i] = <<c, t + n + i>>
      <4> TAKE i \in 1..(m - n)
      <4>1. n + i \in 1..m /\ t + (n + i) = t + n + i
        BY <1>9, <2>7
      <4>2. net[c][n + i] = <<c, t + (n + i)>>
        BY <1>3, <2>7, <4>1 DEF Stream
      <4> QED
        BY <1>10, <2>5, <2>7, <4>1, <4>2
    <3>2. t + n >= 1
      BY <1>9, <1>12, <2>7
    <3>3. reset'[c] # "no" => c \in left'
      BY <1>3, <1>8 DEF Stream
    <3>4. /\ \A i \in 1..Len(echoed'[c]) : echoed'[c][i][1] = c
          /\ \A i, j \in 1..Len(echoed'[c]) : i < j => echoed'[c][i][2] < echoed'[c][j][2]
          /\ c \notin cut' => \A i \in 1..Len(echoed'[c]) : echoed'[c][i] = <<c, i>>
      BY <1>3, <1>8 DEF Stream
    <3>5. conn'[c] = "open"
      BY <1>3, <2>2
    <3>6. t + n >= 0
      BY <1>9, <2>7
    <3> QED
      BY <2>8, <2>9, <3>1, <3>2, <3>3, <3>4, <3>5, <3>6 DEF Stream
  <2>11. Served(e, c)'
    <3>1. \A i \in 1..n : buf'[e][i] = <<c, t + n - n + i>>
      <4> TAKE i \in 1..n
      <4>1. i \in 1..m /\ t + n - n + i = t + i
        BY <1>9, <2>7
      <4>2. net[c][i] = <<c, t + i>>
        BY <1>3, <2>7, <4>1 DEF Stream
      <4> QED
        BY <1>10, <2>5, <4>1, <4>2
    <3>2. n >= 1 /\ n <= t + n /\ t + n - n = t
      BY <1>9, <1>12, <2>7
    <3>3. reset'[c] = "seen" => t + n > n
      <4>1. reset[c] = "seen" => t >= 1
        BY <1>3, <2>7 DEF Stream
      <4> QED
        BY <1>8, <1>9, <2>7, <4>1
    <3>4. InHand(e) = 0 /\ InHand(e)' = n
      BY <1>2, <2>6, <2>8 DEF InHand
    <3>5. t - 0 = t
      BY <2>7
    <3>6. /\ \A i \in 1..Len(echoed[c]) : echoed[c][i][2] <= t
          /\ c \notin cut => Len(echoed[c]) = t
      BY <1>3, <2>7, <3>4, <3>5 DEF Served
    <3>7. /\ \A i \in 1..Len(echoed'[c]) : echoed'[c][i][2] <= t + n - n
          /\ c \notin cut' => Len(echoed'[c]) = t + n - n
      BY <1>8, <3>2, <3>6
    <3>8. len'[e] = n \/ (len'[e] = 0 /\ c \in full')
      BY <2>3, <2>5
    <3> QED
      BY <2>6, <2>8, <2>9, <3>1, <3>2, <3>3, <3>4, <3>7, <3>8 DEF Served
  <2>12. /\ echoed' \in [Clients -> Seq(Unit)] /\ reset' \in [Clients -> {"no", "pending", "seen"}]
         /\ full' \in {full, full \cup {c}} /\ cut' \in {cut, cut \cup {c}}
    BY <1>4, <1>8, <2>2 DEF TypeOK
  <2>13. \A d \in Clients : d # c => net'[d] = net[d] /\ echoed'[d] = echoed[d] /\ reset'[d] = reset[d]
    BY <1>8, <2>5
  <2>14. \A g \in Events : g # e => buf'[g] = buf[g] /\ len'[g] = len[g]
    BY <2>5
  <2>15. UNCHANGED <<ulimit, checkpos, queue, left, sent, conn>>
    BY <1>8, <2>2
  <2> QED
    BY <1>1, <1>2, <2>2, <2>4, <2>10, <2>11, <2>12, <2>13, <2>14, <2>15, ServeStep
<1> QED
  BY <1>11, <1>12

(* send: what the client is sent continues what it was sent before.        *)
LEMMA SendDataStep ==
    ASSUME ReactorInv, NEW e \in Events, senddata(e)
    PROVE  ReactorInv'
<1>1. PICK c \in Clients : c = fd[e]
  BY TurnOf DEF senddata
<1>2. Dispatched(e) /\ call_back[e] = "senddata"
  BY <1>1 DEF senddata
<1>3. conn[c] = "open" /\ Stream(c) /\ Served(e, c)
  BY <1>1, <1>2, TurnOf
<1>4. TypeOK
  BY DEF ReactorInv
<1>5. PICK n \in Sendable(c, len[e]) :
        /\ n = 0 => EventClose(e) /\ UNCHANGED <<echoed, silent, cut>>
        /\ n # 0 => /\ echoed' = [echoed EXCEPT ![c] = echoed[c] \o SubSeq(buf[e], 1, n)]
                    /\ EventSet(e, c, AfterSend)
                    /\ silent' = [silent EXCEPT ![c] = 0]
                    /\ cut' = IF n < len[e] THEN cut \cup {c} ELSE cut
                    /\ UNCHANGED conn
        /\ reset' = [reset EXCEPT ![c] = IF c \in left /\ len[e] > 0 THEN "seen" ELSE reset[c]]
  BY <1>1, Zenon DEF senddata
<1>6. UNCHANGED <<ulimit, buf, len, checkpos, queue, left, sent, net, full>>
  BY DEF senddata
<1>7. /\ buf[e] \in Seq(Unit) /\ echoed[c] \in Seq(Unit) /\ net[c] \in Seq(Unit) /\ sent[c] \in Nat
      /\ len[e] \in Nat /\ reset[c] \in {"no", "pending", "seen"}
  BY <1>4 DEF TypeOK
<1>8. PICK t \in Nat, b \in Nat, k \in Nat : t = Taken(c) /\ b = Len(buf[e]) /\ k = Len(echoed[c])
  <2>1. Len(buf[e]) \in Nat /\ Len(echoed[c]) \in Nat /\ Len(net[c]) \in Nat
    BY <1>7, LenProperties
  <2>2. Taken(c) \in Int /\ Taken(c) >= 0
    BY <1>3, <1>7, <2>1 DEF Taken, Stream
  <2> QED
    BY <2>1, <2>2
<1>9. /\ b >= 1 /\ b <= t
      /\ \A i \in 1..b : buf[e][i] = <<c, t - b + i>>
      /\ len[e] = b \/ (len[e] = 0 /\ c \in full)
      /\ \A i \in 1..k : echoed[c][i][2] <= t - b
      /\ c \notin cut => k = t - b
  BY <1>2, <1>3, <1>8 DEF Served, InHand
<1>10. /\ reset' \in [Clients -> {"no", "pending", "seen"}]
       /\ \A d \in Clients : d # c => reset'[d] = reset[d]
       /\ reset'[c] = reset[c] \/ c \in left
  BY <1>4, <1>5 DEF TypeOK
<1>11. Taken(c)' = t
  BY <1>6, <1>8 DEF Taken
<1>12. t >= 1
  BY <1>8, <1>9
<1>13. CASE n = 0
  <2>1. EventClose(e) /\ UNCHANGED <<echoed, silent, cut>>
    BY <1>5, <1>13
  <2>2. reset'[fd[e]] = reset[fd[e]] \/ (fd[e] \in left /\ Taken(fd[e]) >= 1)
    BY <1>1, <1>8, <1>10, <1>12
  <2>3. \A d \in Clients : d # fd[e] => reset'[d] = reset[d]
    BY <1>1, <1>10
  <2> QED
    BY <1>2, <1>6, <1>10, <2>1, <2>2, <2>3, CloseStep
<1>14. CASE n # 0
  <2>1. /\ echoed' = [echoed EXCEPT ![c] = echoed[c] \o SubSeq(buf[e], 1, n)]
        /\ EventSet(e, c, "recvdata") /\ silent' = [silent EXCEPT ![c] = 0]
        /\ cut' = (IF n < len[e] THEN cut \cup {c} ELSE cut) /\ conn' = conn
    BY <1>5, <1>14 DEF AfterSend
  <2>2. len[e] # 0 /\ n \in 1..len[e]
    BY <1>14 DEF Sendable
  <2>3. len[e] = b /\ n \in Nat /\ n >= 1 /\ n <= b /\ n \in 0..Len(buf[e])
    BY <1>8, <1>9, <2>2
  <2>4. /\ SubSeq(buf[e], 1, n) \in Seq(Unit) /\ Len(SubSeq(buf[e], 1, n)) = n
        /\ \A i \in 1..n : SubSeq(buf[e], 1, n)[i] = buf[e][i]
    BY <1>7, <2>3, Divided
  <2>5. echoed'[c] = echoed[c] \o SubSeq(buf[e], 1, n) /\ \A d \in Clients : d # c => echoed'[d] = echoed[d]
    BY <1>4, <2>1 DEF TypeOK
  <2>6. /\ echoed'[c] \in Seq(Unit) /\ Len(echoed'[c]) = k + n
        /\ \A i \in 1..(k + n) : echoed'[c][i] = IF i <= k THEN echoed[c][i]
                                                 ELSE SubSeq(buf[e], 1, n)[i - k]
    <3>1. PICK m \in Seq(Unit) : m = SubSeq(buf[e], 1, n) /\ Len(m) = n
      BY <2>4
    <3>2. echoed'[c] = echoed[c] \o m
      BY <2>5, <3>1
    <3>3. /\ echoed[c] \o m \in Seq(Unit) /\ Len(echoed[c] \o m) = k + n
          /\ \A i \in 1..(k + n) : (echoed[c] \o m)[i] = IF i <= k THEN echoed[c][i] ELSE m[i - k]
      BY <1>7, <1>8, <3>1, Joined
    <3> QED
      BY <3>1, <3>2, <3>3, Zenon
  <2>7. ASSUME NEW i \in 1..(k + n)
        PROVE  /\ i <= k => i \in 1..k /\ echoed'[c][i] = echoed[c][i]
               /\ i > k => echoed'[c][i] = <<c, t - b + (i - k)>>
    <3>1. CASE i <= k
      <4>1. i \in 1..k /\ ~(i > k)
        BY <1>8, <3>1
      <4> QED
        BY <2>6, <3>1, <4>1
    <3>2. CASE i > k
      <4>1. i - k \in 1..n /\ i - k \in 1..b /\ ~(i <= k)
        BY <1>8, <2>3, <3>2
      <4>2. echoed'[c][i] = SubSeq(buf[e], 1, n)[i - k]
        BY <2>6, <4>1
      <4>3. SubSeq(buf[e], 1, n)[i - k] = buf[e][i - k]
        BY <2>4, <4>1
      <4>4. buf[e][i - k] = <<c, t - b + (i - k)>>
        BY <1>9, <4>1
      <4> QED
        BY <4>1, <4>2, <4>3, <4>4
    <3> QED
      BY <1>8, <3>1, <3>2
  <2>8. \A i \in 1..(k + n) : echoed'[c][i][1] = c
    <3> TAKE i \in 1..(k + n)
    <3>1. CASE i <= k
      <4>1. i \in 1..k /\ echoed'[c][i] = echoed[c][i]
        BY <2>7, <3>1
      <4>2. echoed[c][i][1] = c
        BY <1>3, <1>8, <4>1 DEF Stream
      <4> QED
        BY <4>1, <4>2
    <3>2. CASE i > k
      <4>1. echoed'[c][i] = <<c, t - b + (i - k)>>
        BY <2>7, <3>2
      <4> QED
        BY <4>1
    <3> QED
      BY <1>8, <2>3, <3>1, <3>2
  <2>9. ASSUME NEW i \in 1..(k + n)
        PROVE  echoed'[c][i][2] \in Int /\ echoed'[c][i][2] <= t
    <3>1. CASE i <= k
      <4>1. i \in 1..k /\ echoed'[c][i] = echoed[c][i]
        BY <2>7, <3>1
      <4>2. echoed[c][i][2] <= t - b
        BY <1>9, <4>1
      <4>3. echoed[c][i] \in Unit
        <5>1. echoed[c] \in [1..k -> Unit]
          BY <1>7, <1>8, LenProperties
        <5> QED
          BY <4>1, <5>1
      <4>4. PICK x \in Nat : x = echoed[c][i][2] /\ x <= t - b
        BY <4>2, <4>3 DEF Unit
      <4>5. x <= t
        BY <1>8, <4>4
      <4> QED
        BY <4>1, <4>4, <4>5
    <3>2. CASE i > k
      <4>1. echoed'[c][i] = <<c, t - b + (i - k)>>
        BY <2>7, <3>2
      <4>2. t - b + (i - k) \in Int /\ t - b + (i - k) <= t
        BY <1>8, <2>3, <3>2
      <4> QED
        BY <4>1, <4>2
    <3> QED
      BY <1>8, <2>3, <3>1, <3>2
  <2>10. ASSUME NEW i \in 1..(k + n), NEW j \in 1..(k + n), i < j
         PROVE  echoed'[c][i][2] < echoed'[c][j][2]
    <3>1. CASE j <= k
      <4>1. i \in 1..k /\ j \in 1..k /\ i <= k
        BY <1>8, <2>3, <2>10, <3>1
      <4>2. echoed'[c][i] = echoed[c][i] /\ echoed'[c][j] = echoed[c][j]
        BY <2>7, <3>1, <4>1
      <4>3. echoed[c][i][2] < echoed[c][j][2]
        BY <1>3, <1>8, <2>10, <4>1 DEF Stream
      <4> QED
        BY <4>2, <4>3
    <3>2. CASE i <= k /\ j > k
      <4>1. i \in 1..k /\ echoed'[c][i] = echoed[c][i] /\ echoed'[c][j] = <<c, t - b + (j - k)>>
        BY <2>7, <3>2
      <4>2. echoed'[c][i][2] \in Int /\ echoed'[c][i][2] <= t - b
        BY <1>9, <2>9, <4>1
      <4>3. t - b < t - b + (j - k) /\ t - b + (j - k) \in Int
        BY <1>8, <2>3, <3>2
      <4>4. PICK x \in Int, y \in Int : x = echoed'[c][i][2] /\ y = t - b /\ x <= y
        BY <1>8, <4>2
      <4>5. PICK z \in Int : z = t - b + (j - k) /\ y < z
        BY <4>3, <4>4, Zenon
      <4>6. x < z
        BY <4>4, <4>5
      <4>7. echoed'[c][j][2] = z
        BY <4>1, <4>5
      <4>8. echoed'[c][i][2] < echoed'[c][j][2] <=> x < z
        BY <4>4, <4>7, Zenon
      <4> QED
        BY <4>6, <4>8, Zenon
    <3>3. CASE i > k
      <4>1. j > k
        BY <1>8, <2>3, <2>10, <3>3
      <4>2. echoed'[c][i] = <<c, t - b + (i - k)>> /\ echoed'[c][j] = <<c, t - b + (j - k)>>
        BY <2>7, <3>3, <4>1
      <4>3. t - b + (i - k) < t - b + (j - k)
        BY <1>8, <2>3, <2>10
      <4> QED
        BY <4>2, <4>3
    <3> QED
      BY <1>8, <2>3, <3>1, <3>2, <3>3
  <2>11. ASSUME c \notin cut'
         PROVE  c \notin cut /\ n = b /\ k = t - b /\ \A i \in 1..(k + n) : echoed'[c][i] = <<c, i>>
    <3>1. c \notin cut /\ n = b
      BY <2>1, <2>3, <2>11
    <3>2. k = t - b
      BY <1>9, <3>1
    <3>3. \A i \in 1..k : echoed[c][i] = <<c, i>>
      BY <1>3, <1>8, <3>1 DEF Stream
    <3>4. ASSUME NEW i \in 1..(k + n)
          PROVE  echoed'[c][i] = <<c, i>>
      <4>1. CASE i <= k
        BY <2>7, <3>3, <4>1
      <4>2. CASE i > k
        <5>1. t - b + (i - k) = i
          BY <1>8, <2>3, <3>2
        <5> QED
          BY <2>7, <4>2, <5>1
      <4> QED
        BY <1>8, <2>3, <4>1, <4>2
    <3> QED
      BY <3>1, <3>2, <3>4
  <2>12. Stream(c)'
    <3>1. \A i \in 1..Len(net'[c]) : net'[c][i] = <<c, t + i>>
      BY <1>3, <1>6, <1>8 DEF Stream
    <3>2. (reset'[c] # "no" => c \in left') /\ (reset'[c] = "seen" => t >= 1)
      BY <1>3, <1>6, <1>10, <1>12 DEF Stream
    <3>3. conn'[c] = "open" /\ t >= 0
      BY <1>3, <1>8, <2>1
    <3> QED
      BY <1>11, <2>6, <2>8, <2>10, <2>11, <3>1, <3>2, <3>3 DEF Stream
  <2>13. Served(e, c)'
    <3>1. call_back'[e] = "recvdata"
      BY <1>4, <2>1 DEF EventSet, TypeOK
    <3>2. InHand(e)' = 0 /\ t - 0 = t
      BY <1>8, <3>1 DEF InHand
    <3>3. ASSUME c \notin cut'
          PROVE  k + n = t
      <4>1. n = b /\ k = t - b
        BY <2>11, <3>3
      <4> QED
        BY <4>1
    <3> QED
      BY <1>11, <2>6, <2>9, <3>1, <3>2, <3>3 DEF Served
  <2>14. echoed' \in [Clients -> Seq(Unit)]
    BY <1>4, <2>1, <2>5, <2>6 DEF TypeOK
  <2>15. /\ buf' \in [Events -> Seq(Unit)] /\ len' \in [Events -> Nat] /\ net' \in [Clients -> Seq(Unit)]
         /\ full' \in {full, full \cup {c}} /\ cut' \in {cut, cut \cup {c}}
    BY <1>4, <1>6, <2>1 DEF TypeOK
  <2>16. \A d \in Clients : d # c => net'[d] = net[d] /\ echoed'[d] = echoed[d] /\ reset'[d] = reset[d]
    BY <1>6, <1>10, <2>5
  <2>17. \A g \in Events : g # e => buf'[g] = buf[g] /\ len'[g] = len[g]
    BY <1>6
  <2>18. UNCHANGED <<ulimit, checkpos, queue, left, sent, conn>>
    BY <1>6, <2>1
  <2> QED
    BY <1>1, <1>2, <1>10, <2>1, <2>12, <2>13, <2>14, <2>15, <2>16, <2>17, <2>18, ServeStep
<1> QED
  BY <1>13, <1>14

LEMMA ReactorStep == ReactorInv /\ [Next]_vars => ReactorInv'
<1> SUFFICES ASSUME ReactorInv, [Next]_vars
             PROVE  ReactorInv'
  OBVIOUS
<1>1. CASE SweepIdle
  BY <1>1, SweepStep
<1>2. CASE epoll_wait
  BY <1>2, WaitStep
<1>3. CASE acceptconn
  BY <1>3, AcceptStep
<1>4. CASE AcceptFails
  BY <1>4, NoDescriptorStep
<1>5. ASSUME NEW e \in Events, recvdata(e) \/ senddata(e) \/ BrokenPipe(e)
      PROVE  ReactorInv'
  BY <1>5, RecvStep, SendDataStep, PipeStep
<1>6. CASE Tick
  BY <1>6, TickStep
<1>7. ASSUME NEW c \in Clients, Connect(c) \/ Send(c) \/ Leave(c)
      PROVE  ReactorInv'
  BY <1>7, ConnectStep, SendStep, LeaveStep
<1>9. CASE WaitFails
  BY <1>9, WaitFailsStep
<1>8. CASE UNCHANGED vars
  <2>1. UNCHANGED <<fd, call_back, status, buf, len, age, queue, conn, left, sent, net, reset,
                    echoed, silent, full, cut>>
    BY <1>8 DEF vars, table
  <2>2. UNCHANGED <<checkpos, pc, batch>>
    BY <1>8 DEF vars
  <2>3. TypeOK' /\ Reported'
    BY <2>1, <2>2 DEF ReactorInv, TypeOK, Reported
  <2> QED
    BY <2>1, <2>3, AllKept DEF ReactorInv
<1> QED
  BY <1>1, <1>2, <1>3, <1>4, <1>5, <1>6, <1>7, <1>8, <1>9 DEF Next, Loop

LEMMA ReactorInvariant == Spec => []ReactorInv
BY ReactorInit, ReactorStep, PTL DEF Spec

-----------------------------------------------------------------------------
(* Results.                                                                *)

(* What senddata sends to a client is the client's own data, in the order  *)
(* it was written, each unit once, and without gaps before the first short *)
(* send: whatever entries and buffers recvdata and acceptconn reuse.       *)
THEOREM EchoOrdered == Spec => []EchoedInOrder
<1>1. ReactorInv => EchoedInOrder
  BY DEF ReactorInv, Stream, EchoedInOrder
<1> QED
  BY <1>1, ReactorInvariant, PTL

(* One step closes a connection for its own client's reason only.          *)
LEMMA StepCloses ==
    ASSUME ReactorInv, [Next]_vars, NEW c \in Clients, conn[c] = "open", conn'[c] = "closed"
    PROVE  c \in left \/ silent[c] >= Timeout \/ c \in full
<1>1. TypeOK
  BY DEF ReactorInv
<1>2. CASE SweepIdle
  <2>1. PICK idle : /\ idle = {e \in Swept : status[e] = 1 /\ age[e] >= Timeout}
                    /\ conn' = [d \in Clients |-> IF \E e \in idle : fd[e] = d THEN "closed" ELSE conn[d]]
    BY <1>2 DEF SweepIdle
  <2>2. PICK e \in Swept : status[e] = 1 /\ age[e] >= Timeout /\ fd[e] = c
    BY <2>1
  <2>3. e \in Events
    <3>1. PICK i \in 0..(Sweep - 1) : e = (checkpos + i) % MAX_EVENTS
      BY <2>2 DEF Swept
    <3>2. checkpos \in Nat /\ i \in Nat /\ MAX_EVENTS \in Nat /\ MAX_EVENTS > 0
      BY <1>1, SizesAssumption DEF TypeOK, Events
    <3> QED
      BY <3>1, <3>2 DEF Events
  <2>4. age[e] = silent[c]
    BY <2>2, <2>3 DEF ReactorInv, Table
  <2> QED
    BY <2>2, <2>4
<1>3. CASE acceptconn
  <2>1. PICK d \in {Head(queue)} : conn' = [conn EXCEPT ![d] = "leaked"] \/ conn' = [conn EXCEPT ![d] = "open"]
    BY <1>3 DEF acceptconn
  <2> QED
    BY <1>1, <2>1 DEF TypeOK
<1>4. ASSUME NEW e \in Events, recvdata(e) \/ senddata(e)
      PROVE  c \in left \/ c \in full
  <2>1. Dispatched(e)
    BY <1>4 DEF recvdata, senddata
  <2>2. /\ fd[e] \in Clients /\ Served(e, fd[e]) /\ Stream(fd[e])
        /\ call_back[e] = "recvdata" => net[fd[e]] # <<>> \/ fd[e] \in left
    BY <2>1, TurnOf
  <2>3. conn' # conn
    OBVIOUS
  <2>4. EventClose(e)
    BY <1>4, <2>3 DEF recvdata, senddata
  <2>5. fd[e] = c
    BY <1>1, <2>2, <2>4 DEF EventClose, TypeOK
  <2>6. CASE recvdata(e)
    <3>1. net[c] = <<>> /\ call_back[e] = "recvdata"
      BY <2>3, <2>5, <2>6 DEF recvdata
    <3> QED
      BY <2>2, <2>5, <3>1
  <2>7. CASE senddata(e)
    <3>1. call_back[e] = "senddata"
      BY <2>7 DEF senddata
    <3>2. PICK n \in Sendable(c, len[e]) : n = 0
      BY <2>3, <2>5, <2>7 DEF senddata
    <3>3. len[e] = 0 \/ reset[c] = "pending"
      <4>1. len[e] \in Nat
        BY <1>1 DEF TypeOK
      <4> QED
        BY <3>2, <4>1 DEF Sendable
    <3>4. CASE reset[c] = "pending"
      BY <2>2, <2>5, <3>4 DEF Stream
    <3>5. CASE len[e] = 0
      BY <2>2, <2>5, <3>1, <3>5 DEF Served
    <3> QED
      BY <3>3, <3>4, <3>5
  <2> QED
    BY <1>4, <2>6, <2>7
<1>5. CASE Tick \/ epoll_wait \/ WaitFails \/ AcceptFails \/ \E e \in Events : BrokenPipe(e)
  BY <1>5 DEF Tick, epoll_wait, WaitFails, AcceptFails, BrokenPipe
<1>6. ASSUME NEW d \in Clients, Connect(d) \/ Send(d) \/ Leave(d)
      PROVE  FALSE
  BY <1>1, <1>6 DEF Connect, Send, Leave, TypeOK
<1>7. CASE UNCHANGED vars
  BY <1>7 DEF vars
<1> QED
  BY <1>2, <1>3, <1>4, <1>5, <1>6, <1>7 DEF Next, Loop

(* One step ends the reactor for a client that left unanswered, or for a   *)
(* signal that interrupts epoll_wait.                                      *)
LEMMA StepEnds ==
    ASSUME ReactorInv, Next, pc' = "down"
    PROVE  stopped' \/ \E c \in left : reset[c] = "seen" /\ sent[c] > 1
<1>1. TypeOK
  BY DEF ReactorInv
<1>2. ASSUME NEW e \in Events, BrokenPipe(e)
      PROVE  \E c \in left : reset[c] = "seen" /\ sent[c] > 1
  <2>1. e # Listen /\ e \in batch /\ call_back[e] = "senddata" /\ reset[fd[e]] = "seen"
    BY <1>2 DEF BrokenPipe
  <2>2. status[e] = 1
    BY <2>1 DEF ReactorInv, Reported
  <2>3. PICK c \in Clients : c = fd[e]
    BY <2>2 DEF ReactorInv, Table
  <2>4. Served(e, c) /\ Stream(c)
    BY <2>2, <2>3 DEF ReactorInv
  <2>5. c \in left
    BY <2>1, <2>3, <2>4 DEF Stream
  <2>6. Len(buf[e]) >= 1 /\ Taken(c) > Len(buf[e])
    BY <2>1, <2>3, <2>4 DEF Served
  <2>7. Len(buf[e]) \in Nat /\ Len(net[c]) \in Nat /\ sent[c] \in Nat
    <3>1. buf[e] \in Seq(Unit) /\ net[c] \in Seq(Unit) /\ sent[c] \in Nat
      BY <1>1 DEF TypeOK
    <3> QED
      BY <3>1, LenProperties
  <2>8. PICK b \in Nat, m \in Nat : b = Len(buf[e]) /\ m = Len(net[c]) /\ b >= 1 /\ sent[c] - m > b
    BY <2>6, <2>7 DEF Taken
  <2>9. sent[c] > 1
    BY <2>7, <2>8
  <2> QED
    BY <2>1, <2>3, <2>5, <2>9
<1>3. CASE SweepIdle \/ epoll_wait
  BY <1>3 DEF SweepIdle, epoll_wait
<1>4. CASE acceptconn \/ AcceptFails
  BY <1>4 DEF acceptconn, AcceptFails, Dispatched
<1>5. ASSUME NEW e \in Events, recvdata(e) \/ senddata(e)
      PROVE  FALSE
  <2>1. Dispatched(e)
    BY <1>5 DEF recvdata, senddata
  <2> QED
    BY <2>1 DEF Dispatched
<1>6. CASE Tick
  BY <1>6 DEF Tick
<1>7. ASSUME NEW d \in Clients, Connect(d) \/ Send(d) \/ Leave(d)
      PROVE  FALSE
  BY <1>7 DEF Connect, Send, Leave
<1>8. CASE WaitFails
  BY <1>8 DEF WaitFails
<1> QED
  BY <1>2, <1>3, <1>4, <1>5, <1>6, <1>7, <1>8 DEF Next, Loop

(* SweepIdle, recvdata and senddata close a connection only for what its   *)
(* own client did or left undone - or after a recv that filled the buffer  *)
(* and lost len - and the reactor ends only by BrokenPipe, for a client    *)
(* that left after more than one unit and whose reset has arrived, or by   *)
(* WaitFails, when a signal interrupts epoll_wait.                         *)
THEOREM ConnectionsClosedForReason == Spec => ClosedForReason
<1>1. ReactorInv /\ [Next]_vars =>
        [/\ \A c \in Clients :
               (conn[c] = "open" /\ conn'[c] = "closed")
                  => c \in left \/ silent[c] >= Timeout \/ c \in full
         /\ pc' = "down" => stopped' \/ \E c \in left : reset[c] = "seen" /\ sent[c] > 1]_vars
  BY StepCloses, StepEnds, Zenon
<1> QED
  BY <1>1, ReactorInvariant, PTL DEF Spec, ClosedForReason
=============================================================================
