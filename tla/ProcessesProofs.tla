--------------------------- MODULE ProcessesProofs --------------------------
(***************************************************************************)
(* Proofs about the programs whose processes meet only in the kernel:      *)
(* dinner.c for any number of philosophers, any of whom may be killed at   *)
(* any time; mq-notify.c, for any capacity of the queue and any number of  *)
(* messages sent; and mq-echo, for any set of clients, any lines and any   *)
(* capacity.                                                               *)
(***************************************************************************)
EXTENDS MCProcesses, Integers, SequenceTheorems, WellFoundedInduction, TLAPS

-----------------------------------------------------------------------------
(* dinner.c.  TypeOK and ForksExclusive together are inductive: a fork in  *)
(* a hand is 0, so nobody else's semop goes through, and putting it back   *)
(* makes it 1, not 2.                                                      *)

(* The two forks of a philosopher are two forks of the table.              *)
LEMMA TwoForks ==
    ASSUME NEW no \in Phils
    PROVE  /\ Left(no) \in Phils
           /\ Right(no) \in Phils
           /\ Left(no) # Right(no)
<1>1. N \in Nat /\ N >= 2 /\ no \in Int /\ 0 <= no /\ no <= N - 1
  BY TableAssumption DEF Phils
<1>2. CASE no = N - 1
  <2>1. (no + 1) % N = 0
    BY <1>1, <1>2
  <2> QED
    BY <1>1, <1>2, <2>1 DEF Left, Right, Phils
<1>3. CASE no # N - 1
  <2>1. (no + 1) % N = no + 1
    BY <1>1, <1>3
  <2> QED
    BY <1>1, <1>3, <2>1 DEF Left, Right, Phils
<1> QED
  BY <1>2, <1>3

TableInv == TypeOK /\ ForksExclusive

LEMMA InitTable == Init => TableInv
BY TwoForks, TableAssumption DEF Init, TableInv, TypeOK, ForksExclusive

LEMMA NextTable == TableInv /\ [Next]_vars => TableInv'
<1> SUFFICES ASSUME TableInv, [Next]_vars
             PROVE  TableInv'
  OBVIOUS
<1>0. /\ forks \in [Phils -> {0, 1}]
      /\ pc \in [Phils -> {"thinking", "hungry", "eating"}]
      /\ killed \in SUBSET Phils
  BY DEF TableInv, TypeOK
<1>1. ASSUME NEW no \in Phils, GetHungry(no)
      PROVE  TableInv'
  BY <1>0, <1>1 DEF GetHungry, TableInv, TypeOK, ForksExclusive
<1>2. ASSUME NEW no \in Phils, wait_for_forks(no)
      PROVE  TableInv'
  <2>1. Left(no) \in Phils /\ Right(no) \in Phils
    BY TwoForks
  <2>2. forks' = [forks EXCEPT ![Left(no)] = 0, ![Right(no)] = 0]
    BY <1>2 DEF wait_for_forks
  <2>3. pc' = [pc EXCEPT ![no] = "eating"]
    BY <1>2 DEF wait_for_forks
  <2>4. TypeOK'
    BY <1>0, <1>2, <2>1, <2>2, <2>3 DEF wait_for_forks, TypeOK
  <2>5. ASSUME NEW j \in Phils, j # no, pc[j] = "eating"
        PROVE  {Left(no), Right(no)} \cap {Left(j), Right(j)} = {}
    <3>1. forks[Left(no)] > 0 /\ forks[Right(no)] > 0
      BY <1>2 DEF wait_for_forks, ForksFree
    <3>2. forks[Left(j)] = 0 /\ forks[Right(j)] = 0
      BY <2>5 DEF TableInv, ForksExclusive
    <3> QED
      BY <3>1, <3>2
  <2>6. \A i \in Phils : pc'[i] = "eating" => i = no \/ pc[i] = "eating"
    BY <1>0, <2>3
  <2>7. \A i, j \in Phils :
           i # j /\ pc'[i] = "eating" /\ pc'[j] = "eating" =>
               {Left(i), Right(i)} \cap {Left(j), Right(j)} = {}
    BY <2>5, <2>6 DEF TableInv, ForksExclusive
  <2>8. \A i \in Phils : pc'[i] = "eating" => forks'[Left(i)] = 0 /\ forks'[Right(i)] = 0
    <3> SUFFICES ASSUME NEW i \in Phils, pc'[i] = "eating"
                 PROVE  forks'[Left(i)] = 0 /\ forks'[Right(i)] = 0
      OBVIOUS
    <3>1. Left(i) \in Phils /\ Right(i) \in Phils
      BY TwoForks
    <3>2. i # no => forks[Left(i)] = 0 /\ forks[Right(i)] = 0
      BY <2>6 DEF TableInv, ForksExclusive
    <3> QED
      BY <1>0, <2>1, <2>2, <3>1, <3>2
  <2> QED
    BY <2>4, <2>7, <2>8 DEF TableInv, ForksExclusive, Left, Right
<1>3. ASSUME NEW no \in Phils, return_forks(no)
      PROVE  TableInv'
  <2>1. Left(no) \in Phils /\ Right(no) \in Phils /\ Left(no) # Right(no)
    BY TwoForks
  <2>2. pc[no] = "eating" /\ pc' = [pc EXCEPT ![no] = "thinking"] /\ killed' = killed
    BY <1>3 DEF return_forks
  <2>3. forks[Left(no)] = 0 /\ forks[Right(no)] = 0
    BY <2>2 DEF TableInv, ForksExclusive
  <2>4. forks' = [forks EXCEPT ![Left(no)] = 1, ![Right(no)] = 1]
    BY <1>0, <1>3, <2>1, <2>3 DEF return_forks, PutBack
  <2>5. TypeOK'
    BY <1>0, <2>1, <2>2, <2>4 DEF TypeOK
  <2>6. \A i \in Phils : pc'[i] = "eating" => i # no /\ pc[i] = "eating"
    BY <1>0, <2>2
  <2>7. \A i, j \in Phils :
           i # j /\ pc'[i] = "eating" /\ pc'[j] = "eating" =>
               {Left(i), Right(i)} \cap {Left(j), Right(j)} = {}
    BY <2>6 DEF TableInv, ForksExclusive
  <2>8. \A i \in Phils : pc'[i] = "eating" => forks'[Left(i)] = 0 /\ forks'[Right(i)] = 0
    <3> SUFFICES ASSUME NEW i \in Phils, pc'[i] = "eating"
                 PROVE  forks'[Left(i)] = 0 /\ forks'[Right(i)] = 0
      OBVIOUS
    <3>1. Left(i) \in Phils /\ Right(i) \in Phils
      BY TwoForks
    <3>2. {Left(i), Right(i)} \cap {Left(no), Right(no)} = {}
      BY <2>2, <2>6 DEF TableInv, ForksExclusive
    <3>3. forks[Left(i)] = 0 /\ forks[Right(i)] = 0
      BY <2>6 DEF TableInv, ForksExclusive
    <3> QED
      BY <1>0, <2>1, <2>4, <3>1, <3>2, <3>3
  <2> QED
    BY <2>5, <2>7, <2>8 DEF TableInv, ForksExclusive, Left, Right
<1>4. ASSUME NEW no \in Phils, Kill(no)
      PROVE  TableInv'
  BY <1>0, <1>4 DEF Kill, TableInv, TypeOK, ForksExclusive
<1>5. CASE UNCHANGED vars
  BY <1>5 DEF vars, TableInv, TypeOK, ForksExclusive
<1> QED
  BY <1>1, <1>2, <1>3, <1>4, <1>5 DEF Next, have_dinner

(* Types: in particular a fork's semaphore never exceeds 1, for any number *)
(* of philosophers.                                                        *)
THEOREM TypeCorrect == Spec => []TypeOK
<1>1. TableInv => TypeOK
  BY DEF TableInv
<1> QED
  BY <1>1, InitTable, NextTable, PTL DEF Spec

(* No fork is ever in two hands, for any number of philosophers and        *)
(* whoever is killed.                                                      *)
THEOREM ForksAreExclusive == Spec => []ForksExclusive
<1>1. TableInv => ForksExclusive
  BY DEF TableInv
<1> QED
  BY <1>1, InitTable, NextTable, PTL DEF Spec

-----------------------------------------------------------------------------
(* mq-notify.c.                                                            *)

(* NeverDeaf is not inductive: it must be known that the registration is   *)
(* made only by main and by the handler, and that no signal is pending     *)
(* while the handler runs, for the one message that woke it is still there *)
(* and the kernel notifies of the first message only.                      *)
NotifyInv ==
    /\ Notify!NeverDeaf
    /\ npc = "start" => ~registered
    /\ npc \in {"start", "notify", "receive"} => ~pending

LEMMA NotifyInit ==
    ASSUME MaxMsg \in Nat, MaxSends \in Nat
    PROVE  Notify!Init => NotifyInv
<1> SUFFICES ASSUME Notify!Init
             PROVE  NotifyInv
  OBVIOUS
<1>1. curmsgs \in 0..MaxMsg /\ sends \in 0..MaxSends
  BY DEF Notify!Init
<1> QED
  BY <1>1, Zenon DEF NotifyInv, Notify!Init, Notify!NeverDeaf, Notify!TypeOK

LEMMA NotifyStep ==
    ASSUME MaxMsg \in Nat, MaxSends \in Nat, NotifyInv, [Notify!Next]_Notify!vars
    PROVE  NotifyInv'
<1> USE DEF NotifyInv, Notify!NeverDeaf, Notify!TypeOK
<1>1. CASE Notify!mq_send
  <2>1. curmsgs' \in 0..MaxMsg /\ sends' \in 0..MaxSends /\ curmsgs' > 0 /\ npc' = npc
    BY <1>1 DEF Notify!mq_send
  <2>2. CASE Notify!Notifies
    <3>1. registered /\ ~(curmsgs > 0)
      BY <2>2 DEF Notify!Notifies
    <3>2. ~pending /\ npc \notin {"start", "notify", "receive", "exited"}
      BY <3>1, Zenon
    <3> QED
      BY <1>1, <2>1, <2>2, <3>1, <3>2, Zenon DEF Notify!mq_send
  <2>3. CASE ~Notify!Notifies
    BY <1>1, <2>1, <2>3, Zenon DEF Notify!mq_send
  <2> QED
    BY <2>2, <2>3
<1>2. CASE Notify!Start
  BY <1>2, Zenon DEF Notify!Start, Notify!mq_notify
<1>3. CASE Notify!Signal
  BY <1>3, Zenon DEF Notify!Signal
<1>4. CASE Notify!Reregister
  <2>1. npc = "notify" /\ ~registered /\ ~pending /\ curmsgs > 0
    BY <1>4, Zenon DEF Notify!Reregister, Notify!mq_notify
  <2>2. registered' /\ npc' = "receive" /\ UNCHANGED <<curmsgs, sends, pending>>
    BY <1>4, <2>1, Zenon DEF Notify!Reregister, Notify!mq_notify
  <2> QED
    BY <2>1, <2>2, Zenon
<1>5. CASE Notify!Receive
  <2>1. npc = "receive" /\ registered /\ ~pending
    BY <1>5, Zenon DEF Notify!Receive
  <2>2. curmsgs' \in 0..MaxMsg /\ npc' = "pause" /\ UNCHANGED <<sends, registered, pending>>
    BY <1>5 DEF Notify!Receive
  <2> QED
    BY <2>1, <2>2, Zenon
<1>6. CASE UNCHANGED Notify!vars
  BY <1>6 DEF Notify!vars
<1> QED
  BY <1>1, <1>2, <1>3, <1>4, <1>5, <1>6 DEF Notify!Next, Notify!handle_sigusr1

(* mq-notify.c never loses its registration, never finds it taken, and     *)
(* never blocks in mq_receive inside the handler, however many messages    *)
(* arrive and whenever they do.                                            *)
THEOREM NotificationKept ==
    ASSUME Notify!NotifyConstants
    PROVE  Notify!Spec => []NeverDeaf
<1>0. MaxMsg \in Nat /\ MaxSends \in Nat
  BY DEF Notify!NotifyConstants
<1>1. Notify!Init => NotifyInv
  BY <1>0, NotifyInit
<1>2. NotifyInv /\ [Notify!Next]_Notify!vars => NotifyInv'
  BY <1>0, NotifyStep
<1>3. NotifyInv => Notify!NeverDeaf
  BY DEF NotifyInv
<1> QED
  BY <1>1, <1>2, <1>3, PTL DEF Notify!Spec, NeverDeaf

-----------------------------------------------------------------------------
(* mq-echo.                                                                *)

(* A message is at position 0 when it is in the server's hands, otherwise  *)
(* at its place in the queue.                                              *)
Positions == 0..Len(queue)
Message(k) == IF k = 0 THEN server ELSE queue[k]

(* Every message is a request or an answer of a client that waits for it   *)
(* or was killed, and carries the line the client sent.                    *)
Accounted(m) ==
    /\ m \in Echo!Messages
    /\ m.mtype \in {Echo!Request, m.pid}
    /\ m.text = line[m.pid]
    /\ epc[m.pid] \in {"msgrcv", "killed"}

(* No client has two messages under way, not even a killed one, and a      *)
(* client that waits has one.                                              *)
EchoInv ==
    /\ Echo!TypeOK
    /\ \A k \in Positions : Message(k) = Echo!NoMessage \/ Accounted(Message(k))
    /\ \A j, k \in Positions :
          Message(j) # Echo!NoMessage /\ Message(j).pid = Message(k).pid => j = k
    /\ \A c \in EchoClients : epc[c] = "msgrcv" => \E k \in Positions : Message(k).pid = c
    /\ \A c \in EchoClients : epc[c] \in {"fgets", "ended"} => shown[c] = line[c]

(* msgrcv takes one message out and closes the gap.                        *)
LEMMA RemoveAtProperties ==
    ASSUME NEW S, NEW s \in Seq(S), NEW k \in 1..Len(s)
    PROVE  /\ Echo!RemoveAt(s, k) \in Seq(S)
           /\ Len(Echo!RemoveAt(s, k)) = Len(s) - 1
           /\ \A j \in 1..(Len(s) - 1) :
                 Echo!RemoveAt(s, k)[j] = IF j < k THEN s[j] ELSE s[j + 1]
<1> DEFINE a == SubSeq(s, 1, k - 1)
           b == SubSeq(s, k + 1, Len(s))
<1>1. /\ Len(s) \in Nat /\ k \in Int /\ 1 <= k /\ k <= Len(s)
      /\ \A i \in 1..(k - 1) : s[i] \in S
      /\ \A i \in (k + 1)..Len(s) : s[i] \in S
  BY LenProperties
<1>2. /\ a \in Seq(S)
      /\ Len(a) = IF 1 <= k - 1 THEN (k - 1) - 1 + 1 ELSE 0
      /\ \A i \in 1..((k - 1) - 1 + 1) : a[i] = s[1 + i - 1]
  BY <1>1, SubSeqProperties
<1>3. /\ b \in Seq(S)
      /\ Len(b) = IF k + 1 <= Len(s) THEN Len(s) - (k + 1) + 1 ELSE 0
      /\ \A i \in 1..(Len(s) - (k + 1) + 1) : b[i] = s[(k + 1) + i - 1]
  BY <1>1, SubSeqProperties
<1>4. Echo!RemoveAt(s, k) = a \o b
  BY DEF Echo!RemoveAt
<1> HIDE DEF a, b
<1>5. Len(a) = k - 1 /\ Len(b) = Len(s) - k
  BY <1>1, <1>2, <1>3
<1>6. /\ a \o b \in Seq(S)
      /\ Len(a \o b) = Len(a) + Len(b)
      /\ \A i \in 1..(Len(a) + Len(b)) : (a \o b)[i] = IF i <= Len(a) THEN a[i] ELSE b[i - Len(a)]
  BY <1>2, <1>3, ConcatProperties
<1>7. ASSUME NEW j \in 1..(Len(s) - 1)
      PROVE  (a \o b)[j] = IF j < k THEN s[j] ELSE s[j + 1]
  <2>0. j \in 1..(Len(a) + Len(b))
    BY <1>1, <1>5
  <2>1. CASE j < k
    <3>1. j \in 1..((k - 1) - 1 + 1) /\ 1 + j - 1 = j /\ j <= Len(a)
      BY <1>1, <1>5, <2>1
    <3>2. (a \o b)[j] = a[j]
      BY <1>6, <2>0, <3>1
    <3> QED
      BY <1>2, <2>1, <3>1, <3>2
  <2>2. CASE j >= k
    <3> DEFINE i == j - Len(a)
    <3>1. i \in 1..(Len(s) - (k + 1) + 1) /\ (k + 1) + i - 1 = j + 1 /\ ~(j <= Len(a)) /\ ~(j < k)
      BY <1>1, <1>5, <2>2
    <3>2. (a \o b)[j] = b[i]
      BY <1>6, <2>0, <3>1
    <3> HIDE DEF i
    <3>3. b[i] = s[(k + 1) + i - 1]
      BY <1>3, <3>1
    <3> QED
      BY <3>1, <3>2, <3>3
  <2>3. j < k \/ j >= k
    BY <1>1
  <2> QED
    BY <2>1, <2>2, <2>3, Zenon
<1>8. Len(a \o b) = Len(s) - 1
  BY <1>1, <1>5, <1>6
<1> QED
  BY <1>4, <1>6, <1>7, <1>8

(* A step that only carries messages from place to place, changing their   *)
(* types, keeps the account: from[j] is where the message now at j was.    *)
LEMMA MessagesMoved ==
    ASSUME Echo!EchoConstants, EchoInv, Echo!TypeOK', UNCHANGED <<epc, line, shown>>,
           NEW from \in [Positions' -> Positions],
           \A j \in Positions' :
              \/ Message(j)' = Echo!NoMessage
              \/ /\ Message(j)' \in Echo!Messages
                 /\ Message(j)'.pid = Message(from[j]).pid
                 /\ Message(j)'.text = Message(from[j]).text
                 /\ Message(j)'.mtype \in {Echo!Request, Message(j)'.pid},
           \A i, j \in Positions' :
              from[i] = from[j] /\ Message(i)' # Echo!NoMessage /\ Message(j)' # Echo!NoMessage => i = j,
           \A k \in Positions : Message(k) # Echo!NoMessage =>
              \E j \in Positions' : from[j] = k /\ Message(j)' # Echo!NoMessage
    PROVE  EchoInv'
<1>1. Echo!NoMessage.pid = Echo!Nobody /\ Echo!Nobody \notin EchoClients
  BY DEF Echo!NoMessage, Echo!EchoConstants
<1>2. \A m \in Echo!Messages : m.pid \in EchoClients /\ m.pid # Echo!Nobody /\ m # Echo!NoMessage
  BY <1>1 DEF Echo!Messages
<1>3. ASSUME NEW j \in Positions', Message(j)' # Echo!NoMessage
      PROVE  /\ Accounted(Message(j))'
             /\ Message(from[j]) # Echo!NoMessage
             /\ Message(j)'.pid = Message(from[j]).pid
  <2>1. Message(j)' \in Echo!Messages /\ Message(j)'.pid = Message(from[j]).pid
    BY <1>3
  <2>2. Message(from[j]) # Echo!NoMessage
    BY <1>1, <1>2, <2>1
  <2>3. Accounted(Message(from[j]))
    BY <2>2 DEF EchoInv
  <2> QED
    BY <1>3, <2>1, <2>2, <2>3 DEF Accounted
<1>4. ASSUME NEW i \in Positions', NEW j \in Positions',
             Message(i)' # Echo!NoMessage, Message(i)'.pid = Message(j)'.pid
      PROVE  i = j
  <2>1. Message(j)' # Echo!NoMessage
    BY <1>1, <1>2, <1>4
  <2>2. from[i] = from[j]
    BY <1>3, <1>4, <2>1 DEF EchoInv
  <2> QED
    BY <1>4, <2>1, <2>2
<1>5. ASSUME NEW c \in EchoClients, epc'[c] = "msgrcv"
      PROVE  \E j \in Positions' : Message(j)'.pid = c
  <2>1. PICK k \in Positions : Message(k).pid = c
    BY <1>5 DEF EchoInv
  <2>2. Message(k) # Echo!NoMessage
    BY <1>1, <2>1
  <2>3. PICK j \in Positions' : from[j] = k /\ Message(j)' # Echo!NoMessage
    BY <2>2
  <2> QED
    BY <1>3, <2>1, <2>3
<1>6. \A c \in EchoClients : epc'[c] \in {"fgets", "ended"} => shown'[c] = line'[c]
  BY DEF EchoInv
<1> QED
  BY <1>3, <1>4, <1>5, <1>6 DEF EchoInv

LEMMA EchoInit == ASSUME Echo!EchoConstants, Echo!Init PROVE EchoInv
<1>1. Len(queue) = 0 /\ queue \in Seq(Echo!Messages) /\ Positions = {0} /\ Message(0) = Echo!NoMessage
  BY EmptySeq DEF Echo!Init, Positions, Message
<1>2. Echo!TypeOK
  BY <1>1 DEF Echo!Init, Echo!TypeOK, Echo!EchoConstants
<1> QED
  BY <1>1, <1>2 DEF Echo!Init, EchoInv

(* A set of numbers has a least element.                                   *)
LEMMA LeastNumber ==
    ASSUME NEW T, T \subseteq Nat, T # {}
    PROVE  \E k \in T : \A j \in T : k <= j
<1>1. PICK k \in T : \A j \in T : ~(<<j, k>> \in OpToRel(<, Nat))
  BY NatLessThanWellFounded, WFMin
<1>2. \A j \in T : <<j, k>> \in OpToRel(<, Nat) <=> j < k
  BY DEF OpToRel
<1>3. \A j \in T : ~(j < k)
  BY <1>1, <1>2, Zenon
<1> QED
  BY <1>3

(* The first message of a type, which msgrcv takes, is a message of it.    *)
LEMMA FirstIsOfType ==
    ASSUME NEW t, Echo!TypeOK, Echo!OfType(t) # {}
    PROVE  Echo!FirstOf(t) \in Echo!OfType(t)
<1>1. Echo!OfType(t) \in SUBSET Nat /\ Echo!OfType(t) # {}
  BY LenProperties DEF Echo!OfType, Echo!TypeOK
<1>2. PICK k \in Echo!OfType(t) : \A j \in Echo!OfType(t) : k <= j
  BY <1>1, LeastNumber
<1> QED
  BY <1>2 DEF Echo!FirstOf

(* The server takes the first request out of the queue into its hands.     *)
LEMMA EchoServerReceives ==
    ASSUME Echo!EchoConstants, EchoInv, Echo!ServerReceives
    PROVE  EchoInv'
<1>0. PICK k0 : k0 = Echo!FirstOf(Echo!Request)
  OBVIOUS
<1>1. /\ server = Echo!NoMessage /\ server' = queue[k0] /\ queue' = Echo!RemoveAt(queue, k0)
      /\ UNCHANGED <<epc, line, shown, kills>>
  BY <1>0 DEF Echo!ServerReceives, Echo!Wanted
<1>2. k0 \in 1..Len(queue) /\ queue[k0].mtype = Echo!Request
  BY <1>0, FirstIsOfType DEF Echo!ServerReceives, Echo!Wanted, Echo!OfType, EchoInv
<1>3. queue \in Seq(Echo!Messages) /\ Len(queue) \in Nat /\ queue[k0] \in Echo!Messages
  BY <1>2, LenProperties, ElementOfSeq DEF EchoInv, Echo!TypeOK
<1>4. /\ queue' \in Seq(Echo!Messages) /\ Len(queue') = Len(queue) - 1
      /\ \A j \in 1..(Len(queue) - 1) : queue'[j] = IF j < k0 THEN queue[j] ELSE queue[j + 1]
  BY <1>1, <1>2, <1>3, RemoveAtProperties
<1>5. Echo!TypeOK'
  BY <1>1, <1>3, <1>4 DEF EchoInv, Echo!TypeOK, Echo!EchoConstants
<1>6. PICK from \in [Positions' -> Positions] :
         from = [j \in Positions' |-> IF j = 0 THEN k0 ELSE IF j < k0 THEN j ELSE j + 1]
  <2>1. \A j \in Positions' : (IF j = 0 THEN k0 ELSE IF j < k0 THEN j ELSE j + 1) \in Positions
    BY <1>2, <1>3, <1>4 DEF Positions
  <2> QED
    BY <2>1
<1>7. ASSUME NEW j \in Positions'
      PROVE  /\ Message(j)' = Message(from[j])
             /\ Message(j)' \in Echo!Messages
             /\ Message(j)'.mtype \in {Echo!Request, Message(j)'.pid}
             /\ from[j] # 0
  <2>1. Message(j)' = Message(from[j]) /\ from[j] # 0
    BY <1>1, <1>2, <1>3, <1>4, <1>6 DEF Positions, Message
  <2>2. from[j] \in 1..Len(queue)
    BY <1>3, <1>6, <2>1 DEF Positions
  <2>3. Message(from[j]) = queue[from[j]] /\ queue[from[j]] \in Echo!Messages
    BY <1>3, <2>1, <2>2, ElementOfSeq DEF Message
  <2>4. Echo!NoMessage \notin Echo!Messages
    BY DEF Echo!NoMessage, Echo!Messages, Echo!EchoConstants
  <2>5. Accounted(Message(from[j]))
    BY <1>6, <2>3, <2>4 DEF EchoInv
  <2> QED
    BY <2>1, <2>3, <2>5 DEF Accounted
<1>8. \A i, j \in Positions' : from[i] = from[j] => i = j
  BY <1>2, <1>3, <1>4, <1>6 DEF Positions
<1>9. ASSUME NEW k \in Positions, Message(k) # Echo!NoMessage
      PROVE  \E j \in Positions' : from[j] = k /\ Message(j)' # Echo!NoMessage
  <2>1. k # 0
    BY <1>1, <1>9 DEF Message
  <2>2. PICK j : j = IF k = k0 THEN 0 ELSE IF k < k0 THEN k ELSE k - 1
    OBVIOUS
  <2>3. j \in Positions' /\ from[j] = k
    BY <1>2, <1>3, <1>4, <1>6, <2>1, <2>2 DEF Positions
  <2> QED
    BY <1>7, <1>9, <2>3
<1> QED
  BY <1>1, <1>5, <1>6, <1>7, <1>8, <1>9, MessagesMoved

(* The server puts the message back at the end, addressed to its sender.   *)
LEMMA EchoServerSends ==
    ASSUME Echo!EchoConstants, EchoInv, Echo!ServerSends
    PROVE  EchoInv'
<1>0. PICK L : L = Len(queue)
  OBVIOUS
<1>1. /\ server # Echo!NoMessage /\ server' = Echo!NoMessage /\ queue' = Append(queue, Echo!Answer)
      /\ L < Capacity
      /\ UNCHANGED <<epc, line, shown, kills>>
  BY <1>0 DEF Echo!ServerSends, Echo!HasRoom
<1>2. /\ server \in Echo!Messages /\ server.pid \in EchoClients
      /\ Echo!Answer \in Echo!Messages /\ Echo!Answer.pid = server.pid /\ Echo!Answer.text = server.text
      /\ Echo!Answer.mtype = server.pid
  BY <1>1 DEF EchoInv, Echo!TypeOK, Echo!Answer, Echo!Messages
<1>3. queue \in Seq(Echo!Messages) /\ L \in Nat
  BY <1>0, LenProperties DEF EchoInv, Echo!TypeOK
<1>4. /\ queue' \in Seq(Echo!Messages) /\ Len(queue') = L + 1
      /\ \A j \in 1..L : queue'[j] = queue[j]
      /\ queue'[L + 1] = Echo!Answer
  BY <1>0, <1>1, <1>2, <1>3, AppendProperties
<1>5. Echo!TypeOK'
  BY <1>1, <1>3, <1>4 DEF EchoInv, Echo!TypeOK, Echo!EchoConstants
<1>6. PICK from \in [Positions' -> Positions] :
         from = [j \in Positions' |-> IF j = L + 1 THEN 0 ELSE j]
  <2>1. \A j \in Positions' : (IF j = L + 1 THEN 0 ELSE j) \in Positions
    BY <1>0, <1>3, <1>4 DEF Positions
  <2> QED
    BY <2>1
<1>7. /\ Message(0)' = Echo!NoMessage
      /\ Message(L + 1)' = Echo!Answer /\ Message(0) = server
      /\ \A j \in 1..L : Message(j)' = queue[j] /\ Message(j) = queue[j] /\ queue[j] \in Echo!Messages
  BY <1>0, <1>1, <1>3, <1>4, ElementOfSeq DEF Message
<1>8. Echo!NoMessage \notin Echo!Messages
  BY DEF Echo!NoMessage, Echo!Messages, Echo!EchoConstants
<1>9. Positions' = 0..(L + 1) /\ Positions = 0..L
  BY <1>0, <1>4 DEF Positions
<1>10. ASSUME NEW j \in Positions', j # 0
       PROVE  /\ Message(j)' \in Echo!Messages
              /\ Message(j)'.pid = Message(from[j]).pid
              /\ Message(j)'.text = Message(from[j]).text
              /\ Message(j)'.mtype \in {Echo!Request, Message(j)'.pid}
  <2>1. CASE j = L + 1
    BY <1>2, <1>6, <1>7, <1>9, <2>1
  <2>2. CASE j # L + 1
    <3>1. j \in 1..L /\ from[j] = j
      BY <1>3, <1>6, <1>9, <1>10, <2>2
    <3>2. Message(j)' = Message(j) /\ Message(j) \in Echo!Messages
      BY <1>7, <3>1
    <3>3. Accounted(Message(j))
      BY <1>3, <1>8, <1>9, <3>1, <3>2 DEF EchoInv
    <3> QED
      BY <3>1, <3>2, <3>3 DEF Accounted
  <2> QED
    BY <2>1, <2>2
<1>11. \A i, j \in Positions' : from[i] = from[j] /\ i # 0 /\ j # 0 => i = j
  BY <1>3, <1>6, <1>9
<1>12. ASSUME NEW k \in Positions, Message(k) # Echo!NoMessage
       PROVE  \E j \in Positions' : from[j] = k /\ Message(j)' # Echo!NoMessage
  <2>1. PICK j \in Positions' : from[j] = k /\ j # 0
    BY <1>3, <1>6, <1>9
  <2> QED
    BY <1>8, <1>10, <2>1
<1> QED
  BY <1>1, <1>5, <1>6, <1>7, <1>10, <1>11, <1>12, MessagesMoved

(* A client that neither waits nor was killed has no message under way.    *)
LEMMA NothingUnderWay ==
    ASSUME Echo!EchoConstants, EchoInv, NEW c \in EchoClients, epc[c] \notin {"msgrcv", "killed"}
    PROVE  \A k \in Positions : Message(k).pid # c
BY DEF EchoInv, Echo!EchoConstants, Accounted, Echo!NoMessage

(* What changes nothing but the pc of a client, and perhaps the line of    *)
(* one that has no message under way.                                      *)
LEMMA EchoTypes ==
    ASSUME Echo!EchoConstants, EchoInv, NEW c \in EchoClients, Echo!Types(c)
    PROVE  EchoInv'
<1>1. PICK l \in Lines : line' = [line EXCEPT ![c] = l]
  BY DEF Echo!Types
<1>2. /\ epc[c] = "fgets" /\ epc' = [epc EXCEPT ![c] = "msgsnd"]
      /\ UNCHANGED <<queue, server, shown, kills>>
  BY DEF Echo!Types
<1>3. Echo!TypeOK'
  BY <1>1, <1>2 DEF EchoInv, Echo!TypeOK
<1>4. Positions' = Positions /\ \A k \in Positions : Message(k)' = Message(k)
  BY <1>2 DEF Positions, Message
<1>5. \A k \in Positions : Message(k).pid # c
  BY <1>2, NothingUnderWay
<1>6. \A k \in Positions : Accounted(Message(k)) => Accounted(Message(k))'
  BY <1>1, <1>2, <1>4, <1>5 DEF Accounted, EchoInv, Echo!TypeOK, Echo!Messages
<1>7. \A d \in EchoClients : d # c => epc'[d] = epc[d] /\ line'[d] = line[d]
  BY <1>1, <1>2 DEF EchoInv, Echo!TypeOK
<1>8. epc'[c] = "msgsnd"
  BY <1>2 DEF EchoInv, Echo!TypeOK
<1> QED
  BY <1>2, <1>3, <1>4, <1>6, <1>7, <1>8 DEF EchoInv

LEMMA EchoStops ==
    ASSUME Echo!EchoConstants, EchoInv, NEW c \in EchoClients, Echo!EndOfInput(c) \/ Echo!Kill(c)
    PROVE  EchoInv'
<1>1. UNCHANGED <<queue, server, line, shown>>
  BY DEF Echo!EndOfInput, Echo!Kill
<1>2. Echo!TypeOK'
  BY DEF Echo!EndOfInput, Echo!Kill, EchoInv, Echo!TypeOK, Echo!EchoConstants
<1>3. Positions' = Positions /\ \A k \in Positions : Message(k)' = Message(k)
  BY <1>1 DEF Positions, Message
<1>4. /\ epc'[c] = "killed" \/ (epc[c] = "fgets" /\ epc'[c] = "ended")
      /\ \A d \in EchoClients : d # c => epc'[d] = epc[d]
  BY DEF Echo!EndOfInput, Echo!Kill, EchoInv, Echo!TypeOK
<1>5. \A k \in Positions : Accounted(Message(k)) => Accounted(Message(k))'
  BY <1>1, <1>3, <1>4 DEF Accounted, Echo!Messages
<1> QED
  BY <1>1, <1>2, <1>3, <1>4, <1>5 DEF EchoInv

(* A request joins the queue, the only message of its client.              *)
LEMMA EchoClientSends ==
    ASSUME Echo!EchoConstants, EchoInv, NEW c \in EchoClients, Echo!ClientSends(c)
    PROVE  EchoInv'
<1>0. PICK L, m : L = Len(queue) /\ m = [mtype |-> Echo!Request, pid |-> c, text |-> line[c]]
  OBVIOUS
<1>1. /\ epc[c] = "msgsnd" /\ epc' = [epc EXCEPT ![c] = "msgrcv"]
      /\ queue' = Append(queue, m) /\ L < Capacity
      /\ UNCHANGED <<server, line, shown, kills>>
  BY <1>0 DEF Echo!ClientSends, Echo!HasRoom
<1>2. m \in Echo!Messages /\ m.pid = c /\ m.text = line[c] /\ m.mtype = Echo!Request /\ m # Echo!NoMessage
  BY <1>0 DEF EchoInv, Echo!TypeOK, Echo!Messages, Echo!NoMessage, Echo!EchoConstants
<1>3. queue \in Seq(Echo!Messages) /\ L \in Nat
  BY <1>0, LenProperties DEF EchoInv, Echo!TypeOK
<1>4. /\ queue' \in Seq(Echo!Messages) /\ Len(queue') = L + 1
      /\ \A j \in 1..L : queue'[j] = queue[j]
      /\ queue'[L + 1] = m
  BY <1>0, <1>1, <1>2, <1>3, AppendProperties
<1>5. Echo!TypeOK'
  BY <1>1, <1>3, <1>4 DEF EchoInv, Echo!TypeOK, Echo!EchoConstants
<1>6. Positions' = Positions \cup {L + 1} /\ Positions = 0..L
  BY <1>0, <1>3, <1>4 DEF Positions
<1>7. /\ \A k \in Positions : Message(k)' = Message(k)
      /\ Message(L + 1)' = m
  BY <1>1, <1>3, <1>4, <1>6 DEF Message
<1>8. \A k \in Positions : Message(k).pid # c
  BY <1>1, NothingUnderWay
<1>9. epc'[c] = "msgrcv" /\ \A d \in EchoClients : d # c => epc'[d] = epc[d]
  BY <1>1 DEF EchoInv, Echo!TypeOK
<1>10. \A k \in Positions : Accounted(Message(k)) => Accounted(Message(k))'
  BY <1>1, <1>7, <1>8, <1>9 DEF Accounted, Echo!Messages
<1>11. Accounted(Message(L + 1))'
  BY <1>1, <1>2, <1>7, <1>9 DEF Accounted
<1>12. \A k \in Positions' : Message(k)' = Echo!NoMessage \/ Accounted(Message(k))'
  BY <1>6, <1>7, <1>10, <1>11 DEF EchoInv
<1>13. \A j, k \in Positions' :
          Message(j)' # Echo!NoMessage /\ Message(j)'.pid = Message(k)'.pid => j = k
  <2>1. \A j, k \in Positions :
           Message(j)' # Echo!NoMessage /\ Message(j)'.pid = Message(k)'.pid => j = k
    BY <1>7 DEF EchoInv
  <2>2. \A k \in Positions : Message(k)'.pid # c
    BY <1>7, <1>8
  <2>3. Message(L + 1)'.pid = c
    BY <1>2, <1>7
  <2> QED
    BY <1>6, <2>1, <2>2, <2>3
<1>14. ASSUME NEW d \in EchoClients, epc'[d] = "msgrcv"
       PROVE  \E k \in Positions' : Message(k)'.pid = d
  <2>1. CASE d = c
    BY <1>2, <1>6, <1>7, <2>1
  <2>2. CASE d # c
    BY <1>6, <1>7, <1>9, <1>14, <2>2 DEF EchoInv
  <2> QED
    BY <2>1, <2>2
<1>15. \A d \in EchoClients : epc'[d] \in {"fgets", "ended"} => shown'[d] = line'[d]
  BY <1>1, <1>9 DEF EchoInv
<1> QED
  BY <1>5, <1>12, <1>13, <1>14, <1>15 DEF EchoInv

(* What a client takes from the queue is its own message, with its line.   *)
LEMMA EchoClientReceives ==
    ASSUME Echo!EchoConstants, EchoInv, NEW c \in EchoClients, Echo!ClientReceives(c)
    PROVE  EchoInv'
<1>0. PICK L, k0 : L = Len(queue) /\ k0 = Echo!FirstOf(c)
  OBVIOUS
<1>1. /\ epc[c] = "msgrcv" /\ epc' = [epc EXCEPT ![c] = "fgets"]
      /\ shown' = [shown EXCEPT ![c] = queue[k0].text]
      /\ queue' = Echo!RemoveAt(queue, k0)
      /\ UNCHANGED <<server, line, kills>>
  BY <1>0 DEF Echo!ClientReceives, Echo!Inbox, Echo!FirstOf
<1>2. k0 \in 1..L /\ queue[k0].mtype = c
  BY <1>0, FirstIsOfType DEF Echo!ClientReceives, Echo!Inbox, Echo!OfType, EchoInv
<1>3. queue \in Seq(Echo!Messages) /\ L \in Nat /\ queue[k0] \in Echo!Messages
  BY <1>0, <1>2, LenProperties, ElementOfSeq DEF EchoInv, Echo!TypeOK
<1>4. /\ queue' \in Seq(Echo!Messages) /\ Len(queue') = L - 1
      /\ \A j \in 1..(L - 1) : queue'[j] = IF j < k0 THEN queue[j] ELSE queue[j + 1]
  BY <1>0, <1>1, <1>2, <1>3, RemoveAtProperties
<1>5. Positions' = 0..(L - 1) /\ Positions = 0..L
  BY <1>0, <1>4 DEF Positions
<1>6. k0 \in Positions /\ Message(k0) = queue[k0] /\ Message(k0) # Echo!NoMessage
  BY <1>2, <1>3, <1>5 DEF Message, Echo!Messages, Echo!NoMessage, Echo!EchoConstants
<1>7. Message(k0).pid = c /\ queue[k0].text = line[c]
  BY <1>2, <1>6 DEF EchoInv, Accounted, Echo!EchoConstants
<1>8. shown'[c] = line'[c] /\ \A d \in EchoClients : d # c => shown'[d] = shown[d]
  BY <1>1, <1>7 DEF EchoInv, Echo!TypeOK
<1>9. epc'[c] = "fgets" /\ \A d \in EchoClients : d # c => epc'[d] = epc[d]
  BY <1>1 DEF EchoInv, Echo!TypeOK
<1>10. Echo!TypeOK'
  BY <1>0, <1>1, <1>3, <1>4, <1>7 DEF EchoInv, Echo!TypeOK, Echo!EchoConstants
<1>11. PICK from \in [Positions' -> Positions] :
          from = [j \in Positions' |-> IF j < k0 THEN j ELSE j + 1]
  <2>1. \A j \in Positions' : (IF j < k0 THEN j ELSE j + 1) \in Positions
    BY <1>2, <1>3, <1>5
  <2> QED
    BY <2>1
<1>12. \A j \in Positions' : Message(j)' = Message(from[j]) /\ from[j] # k0
  BY <1>1, <1>2, <1>3, <1>4, <1>5, <1>11 DEF Message
<1>13. \A i, j \in Positions' : from[i] = from[j] => i = j
  BY <1>2, <1>3, <1>5, <1>11
<1>14. \A k \in Positions : k # k0 => \E j \in Positions' : from[j] = k
  <2> SUFFICES ASSUME NEW k \in Positions, k # k0
               PROVE  \E j \in Positions' : from[j] = k
    OBVIOUS
  <2>1. CASE k < k0
    BY <1>2, <1>3, <1>5, <1>11, <2>1
  <2>2. CASE k > k0
    <3>1. k - 1 \in Positions' /\ from[k - 1] = k
      BY <1>2, <1>3, <1>5, <1>11, <2>2
    <3> QED
      BY <3>1
  <2> QED
    BY <1>2, <1>3, <1>5, <2>1, <2>2
<1>15. \A k \in Positions : Message(k).pid = c => k = k0
  BY <1>6, <1>7 DEF EchoInv
<1>16. ASSUME NEW j \in Positions'
       PROVE  Message(j)' = Echo!NoMessage \/ Accounted(Message(j))'
  <2>1. from[j] \in Positions /\ Message(j)' = Message(from[j]) /\ Message(from[j]).pid # c
    BY <1>11, <1>12, <1>15
  <2>2. Message(from[j]) = Echo!NoMessage \/ Accounted(Message(from[j]))
    BY <2>1 DEF EchoInv
  <2> QED
    BY <1>1, <1>9, <2>1, <2>2 DEF Accounted, Echo!Messages
<1>17. \A i, j \in Positions' :
          Message(i)' # Echo!NoMessage /\ Message(i)'.pid = Message(j)'.pid => i = j
  BY <1>11, <1>12, <1>13 DEF EchoInv
<1>18. ASSUME NEW d \in EchoClients, epc'[d] = "msgrcv"
       PROVE  \E j \in Positions' : Message(j)'.pid = d
  <2>1. d # c /\ epc[d] = "msgrcv"
    BY <1>9, <1>18
  <2>2. PICK k \in Positions : Message(k).pid = d
    BY <2>1 DEF EchoInv
  <2>3. PICK j \in Positions' : from[j] = k
    BY <1>7, <1>14, <2>1, <2>2
  <2> QED
    BY <1>12, <2>2, <2>3
<1>19. \A d \in EchoClients : epc'[d] \in {"fgets", "ended"} => shown'[d] = line'[d]
  BY <1>1, <1>8, <1>9 DEF EchoInv
<1> QED
  BY <1>10, <1>16, <1>17, <1>18, <1>19 DEF EchoInv

LEMMA EchoStep ==
    ASSUME Echo!EchoConstants, EchoInv, [Echo!Next]_Echo!vars
    PROVE  EchoInv'
<1>1. CASE Echo!handle_echo_server
  BY <1>1, EchoServerReceives, EchoServerSends DEF Echo!handle_echo_server
<1>2. ASSUME NEW c \in EchoClients, Echo!handle_echo_client(c)
      PROVE  EchoInv'
  BY <1>2, EchoTypes, EchoClientSends, EchoClientReceives DEF Echo!handle_echo_client
<1>3. ASSUME NEW c \in EchoClients, Echo!EndOfInput(c) \/ Echo!Kill(c)
      PROVE  EchoInv'
  BY <1>3, EchoStops
<1>4. CASE UNCHANGED Echo!vars
  <2>1. Positions' = Positions /\ \A k \in Positions : Message(k)' = Message(k)
    BY <1>4 DEF Echo!vars, Positions, Message
  <2>2. \A k \in Positions : Accounted(Message(k))' = Accounted(Message(k))
    BY <1>4, <2>1 DEF Echo!vars, Accounted
  <2> QED
    BY <1>4, <2>1, <2>2 DEF Echo!vars, EchoInv, Echo!TypeOK
<1> QED
  BY <1>1, <1>2, <1>3, <1>4 DEF Echo!Next

(* The account of the messages, in the words of the property.              *)
LEMMA EchoInvImplies == ASSUME Echo!EchoConstants, EchoInv PROVE Echo!OneUnderWay
<1>1. Len(queue) \in Nat /\ Len(queue) <= Capacity /\ Capacity \in Nat
  BY LenProperties DEF EchoInv, Echo!TypeOK, Echo!EchoConstants
<1>2. \A c \in EchoClients : Echo!Outstanding(c) = {k \in Positions : Message(k).pid = c}
  BY <1>1 DEF Echo!Outstanding, Positions, Message
<1>3. ASSUME NEW c \in EchoClients, epc[c] = "msgrcv"
      PROVE  \E k \in 0..Capacity : Echo!Outstanding(c) = {k}
  <2>1. PICK k \in Positions : Message(k).pid = c
    BY <1>3 DEF EchoInv
  <2>2. Message(k) # Echo!NoMessage
    BY <2>1 DEF Echo!NoMessage, Echo!EchoConstants
  <2>3. \A j \in Positions : Message(j).pid = c => j = k
    BY <2>1, <2>2 DEF EchoInv
  <2>4. Echo!Outstanding(c) = {k} /\ k \in 0..Capacity
    BY <1>1, <1>2, <2>1, <2>3 DEF Positions
  <2> QED
    BY <2>4
<1>4. \A c \in EchoClients : epc[c] \in {"fgets", "msgsnd", "ended"} => Echo!Outstanding(c) = {}
  BY <1>2, NothingUnderWay
<1> QED
  BY <1>3, <1>4 DEF Echo!OneUnderWay, EchoInv

(* In mq-echo a client that waits has exactly one message under way, and   *)
(* one that does not wait has none and has printed the line it sent, for   *)
(* any number of clients on one queue, killed ones included.               *)
THEOREM EchoOneUnderWay ==
    ASSUME Echo!EchoConstants
    PROVE  Echo!Spec => []OneUnderWay
<1>1. Echo!Init => EchoInv
  BY EchoInit
<1>2. EchoInv /\ [Echo!Next]_Echo!vars => EchoInv'
  BY EchoStep
<1>3. EchoInv => Echo!OneUnderWay
  BY EchoInvImplies
<1> QED
  BY <1>1, <1>2, <1>3, PTL DEF Echo!Spec, OneUnderWay

=============================================================================
