------------------------------ MODULE MuxEcho -------------------------------
(* The multiplexing echo servers of network/socket/codes/echo and their       *)
(* clients: select_server, shutdown_server (the same program with a pause      *)
(* between read and write), poll_server and epoll_server, with select_client   *)
(* or shutdown_client.  One process serves every connection, so what one       *)
(* client does to it is done to all of them.                                   *)
(*                                                                             *)
(* Descriptor 0 stands for the listening socket, 1..MaxFds for the             *)
(* connections: accept returns the lowest free descriptor and the table has    *)
(* its lowest free entry at the same place.  A buffer holds B units of data;   *)
(* <<c, k>> is the k-th unit that client c writes.                             *)
EXTENDS Integers, Sequences, FiniteSets, FiniteSetsExt

CONSTANTS Kinds,    \* subset of {"select", "poll", "epoll"}
          Clients,
          None,     \* the -1 of a free table entry
          MaxFds,   \* how many connections the descriptor limit allows
          B,        \* sizeof(recv_buf)
          Size,     \* events per epoll_wait
          MaxMsgs,  \* [Clients -> Nat]: bound on the lines typed at a client
          Returning \* the clients that may come back after they left

ASSUME SizesAssumption ==
    /\ Kinds \subseteq {"select", "poll", "epoll"}
    /\ MaxFds \in Nat /\ B \in Nat \ {0} /\ None \notin Clients

VARIABLES kind,
          pc,              \* "wait", "round", "write" or "down"
          client_sockets,  \* [1..MaxFds -> Clients \cup {None}]
          max_pos,
          ready,           \* descriptors reported and not yet visited in this round
          nready,
          cur,             \* the descriptor between read and write
          recv_buf,
          queue,           \* connections not yet accepted
          cl,              \* [Clients -> {"new", "open", "left"}]
          sent,            \* [Clients -> Nat]: lines written so far
          net,             \* [Clients -> Seq(unit)]: not yet read by the server
          reset,           \* [Clients -> ...]: "no", "pending" (the server's next call fails), "seen"
          unread,          \* [Clients -> Nat]: units not yet read by the client
          echoed,          \* [Clients -> Seq(unit)]: history: what was written to the client
          short,           \* history: some read returned less than a buffer
          dirty            \* history: clients that left with data under way

server == <<pc, client_sockets, max_pos, ready, nready, cur, recv_buf>>
vars == <<kind, server, queue, cl, sent, net, reset, unread, echoed, short, dirty>>

Zero == <<None, 0>>   \* what memset leaves
Junk == <<None, -1>>  \* what an uninitialised array holds

Conns == {d \in 1..MaxFds : client_sockets[d] # None}
Free == (1..MaxFds) \ Conns

Init ==
    /\ kind \in Kinds
    /\ pc = "wait" /\ client_sockets = [d \in 1..MaxFds |-> None] /\ max_pos = 0
    /\ ready = {} /\ nready = 0 /\ cur = 0
    /\ recv_buf = [k \in 1..B |-> Junk]
    /\ queue = <<>> /\ cl = [c \in Clients |-> "new"] /\ sent = [c \in Clients |-> 0]
    /\ net = [c \in Clients |-> <<>>] /\ reset = [c \in Clients |-> "no"]
    /\ unread = [c \in Clients |-> 0] /\ echoed = [c \in Clients |-> <<>>]
    /\ short = FALSE /\ dirty = {}

-----------------------------------------------------------------------------
(* The server's loop *)

\* The kernel reports a connection with data, with its end or with an error.
Readable(d) ==
    IF d = 0 THEN queue # <<>>
    ELSE LET c == client_sockets[d]
         IN  c # None /\ (net[c] # <<>> \/ cl[c] = "left" \/ reset[c] # "no")

\* What may be counted beside: select's allset is never cleared, so standard
\* input may be in it.
Strays == IF kind = "select" THEN {0, 1} ELSE {0}

Wait ==
    /\ pc = "wait"
    /\ LET all == {d \in 0..(IF kind = "epoll" THEN MaxFds ELSE max_pos) : Readable(d)}
       IN  /\ all # {}
           /\ \E r \in SUBSET all :
                 /\ IF kind = "epoll" THEN Cardinality(r) = Min({Size, Cardinality(all)}) ELSE r = all
                 /\ ready' = r
                 /\ \E s \in Strays : nready' = Cardinality(r) + s
    /\ pc' = "round"
    /\ UNCHANGED <<kind, client_sockets, max_pos, cur, recv_buf,
                   queue, cl, sent, net, reset, unread, echoed, short, dirty>>

\* select and poll count their events down, and stop at zero.
Counted == IF kind = "epoll" THEN nready ELSE nready - 1

\* The round goes on with descriptors r and n events to come.
Proceed(r, n) ==
    IF r = {} \/ n = 0 THEN pc' = "wait" /\ ready' = {} /\ nready' = 0
    ELSE pc' = "round" /\ ready' = r /\ nready' = n

\* The listening socket is looked at first, then the table in its order;
\* epoll reports in any order.
Turn(d) == pc = "round" /\ d \in ready /\ (kind = "epoll" \/ d = Min(ready))

\* An entry used for the first time was not in the call that reported the
\* events: its revents, or its word of the set, is whatever was there.
Unreported(i) == IF kind # "epoll" /\ i > max_pos THEN {{}, {i}} ELSE {{}}

\* Mutant: the listening socket is not counted.
AcceptCount_Same == nready

AcceptCount == Counted

\* Mutant: the comparison is the wrong way round.
NewMax_Swapped(i) == Min({max_pos, i})

NewMax(i) == Max({max_pos, i})

Accept ==
    /\ Turn(0) /\ Free # {}
    /\ LET i == Min(Free)
       IN  /\ client_sockets' = [client_sockets EXCEPT ![i] = Head(queue)]
           /\ max_pos' = NewMax(i)
           /\ \E u \in Unreported(i) : Proceed((ready \ {0}) \cup u, AcceptCount)
    /\ queue' = Tail(queue)
    /\ UNCHANGED <<kind, cur, recv_buf, cl, sent, net, reset, unread, echoed, short, dirty>>

\* accept fails for want of a descriptor and ends the server.
AcceptFails ==
    /\ Turn(0) /\ Free = {}
    /\ pc' = "down"
    /\ UNCHANGED <<kind, client_sockets, max_pos, ready, nready, cur, recv_buf,
                   queue, cl, sent, net, reset, unread, echoed, short, dirty>>

\* Mutant: no server clears its buffer.
Filled_NotCleared(data) == [k \in 1..B |-> IF k <= Len(data) THEN data[k] ELSE recv_buf[k]]

\* epoll_server clears its buffer, the others leave in it what was there.
Filled(data) ==
    [k \in 1..B |-> IF k <= Len(data) THEN data[k]
                    ELSE IF kind = "epoll" THEN Zero ELSE recv_buf[k]]

Read(d) ==
    /\ Turn(d) /\ d # 0
    /\ LET c == client_sockets[d]
       IN  \E n \in 1..Min({B, Len(net[c])}) :
              /\ recv_buf' = Filled(SubSeq(net[c], 1, n))
              /\ net' = [net EXCEPT ![c] = SubSeq(@, n + 1, Len(@))]
              /\ short' = (short \/ n < B)
    /\ pc' = "write" /\ cur' = d
    /\ UNCHANGED <<kind, client_sockets, max_pos, ready, nready,
                   queue, cl, sent, reset, unread, echoed, dirty>>

AtEnd(c) == net[c] = <<>> /\ (reset[c] = "seen" \/ (reset[c] = "no" /\ cl[c] = "left"))

\* Mutant: the loop goes on to write after the end of the stream.
ReadEnd_FallsThrough(d) ==
    /\ Turn(d) /\ d # 0 /\ AtEnd(client_sockets[d])
    /\ pc' = "write" /\ cur' = d
    /\ UNCHANGED <<kind, client_sockets, max_pos, ready, nready, recv_buf,
                   queue, cl, sent, net, reset, unread, echoed, short, dirty>>

\* read returned 0: the connection is closed and the rest of the round dropped.
ReadEnd(d) ==
    /\ Turn(d) /\ d # 0 /\ AtEnd(client_sockets[d])
    /\ client_sockets' = [client_sockets EXCEPT ![d] = None]
    /\ Proceed({}, 0)
    /\ UNCHANGED <<kind, max_pos, cur, recv_buf,
                   queue, cl, sent, net, reset, unread, echoed, short, dirty>>

\* read returned -1: the server exits.
ReadFails(d) ==
    /\ Turn(d) /\ d # 0
    /\ net[client_sockets[d]] = <<>> /\ reset[client_sockets[d]] = "pending"
    /\ pc' = "down"
    /\ UNCHANGED <<kind, client_sockets, max_pos, ready, nready, cur, recv_buf,
                   queue, cl, sent, net, reset, unread, echoed, short, dirty>>

\* The whole of recv_buf is written, whatever was read.  A client that has
\* closed answers with a reset; the next write after one raises SIGPIPE.
Write ==
    /\ pc = "write"
    /\ LET c == client_sockets[cur]
       IN  CASE reset[c] = "seen" ->
                  pc' = "down" /\ UNCHANGED <<ready, nready, reset, unread, echoed>>
             [] reset[c] # "seen" /\ cl[c] = "left" ->
                  /\ reset' = [reset EXCEPT ![c] = "seen"]
                  /\ Proceed(ready \ {cur}, Counted) /\ UNCHANGED <<unread, echoed>>
             [] reset[c] # "seen" /\ cl[c] = "open" ->
                  /\ echoed' = [echoed EXCEPT ![c] = @ \o recv_buf]
                  /\ unread' = [unread EXCEPT ![c] = @ + B]
                  /\ Proceed(ready \ {cur}, Counted) /\ UNCHANGED reset
    /\ UNCHANGED <<kind, client_sockets, max_pos, cur, recv_buf, queue, cl, sent, net, short, dirty>>

-----------------------------------------------------------------------------
(* The clients *)

\* c names a connection that the server has accepted or will accept.
Known(c) == (\E i \in 1..Len(queue) : queue[i] = c) \/ \E d \in 1..MaxFds : client_sockets[d] = c

\* A client comes, or comes back when its last connection is over: then the
\* name stands for a new one.
Connect(c) ==
    /\ cl[c] = "new" \/ (cl[c] = "left" /\ c \in Returning)
    /\ pc # "down" /\ ~Known(c)
    /\ cl' = [cl EXCEPT ![c] = "open"] /\ queue' = Append(queue, c)
    /\ sent' = [sent EXCEPT ![c] = 0] /\ net' = [net EXCEPT ![c] = <<>>]
    /\ reset' = [reset EXCEPT ![c] = "no"] /\ unread' = [unread EXCEPT ![c] = 0]
    /\ echoed' = [echoed EXCEPT ![c] = <<>>]
    /\ UNCHANGED <<kind, server, short, dirty>>

\* A line is typed; the whole of send_buf is written.
Send(c) ==
    /\ cl[c] = "open" /\ pc # "down" /\ sent[c] < MaxMsgs[c]
    /\ sent' = [sent EXCEPT ![c] = @ + 1]
    /\ net' = [net EXCEPT ![c] = @ \o [k \in 1..B |-> <<c, B * sent[c] + k>>]]
    /\ UNCHANGED <<kind, server, queue, cl, reset, unread, echoed, short, dirty>>

\* The client prints what its read returns, a buffer at most.
Receive(c) ==
    /\ cl[c] = "open" /\ unread[c] > 0
    /\ unread' = [unread EXCEPT ![c] = @ - Min({B, @})]
    /\ UNCHANGED <<kind, server, queue, cl, sent, net, reset, echoed, short, dirty>>

UnderWay(c) ==
    net[c] # <<>> \/ unread[c] > 0 \/ (pc = "write" /\ client_sockets[cur] = c)

\* End of input closes the socket, with a reset if something was left unread.
\* (shutdown_client goes on to a select that fails on the closed socket.)
Leave(c) ==
    /\ cl[c] = "open" /\ pc # "down"
    /\ cl' = [cl EXCEPT ![c] = "left"]
    /\ reset' = [reset EXCEPT ![c] = IF unread[c] > 0 THEN "pending" ELSE @]
    /\ unread' = [unread EXCEPT ![c] = 0]
    /\ dirty' = IF UnderWay(c) THEN dirty \cup {c} ELSE dirty
    /\ UNCHANGED <<kind, server, queue, sent, net, echoed, short>>

\* read returned 0 or failed: the server has gone.
ServerClosed(c) ==
    /\ cl[c] = "open" /\ pc = "down" /\ unread[c] = 0
    /\ cl' = [cl EXCEPT ![c] = "left"]
    /\ UNCHANGED <<kind, server, queue, sent, net, reset, unread, echoed, short, dirty>>

Server == \/ Wait \/ Accept \/ AcceptFails \/ Write
          \/ \E d \in 1..MaxFds : Read(d) \/ ReadEnd(d) \/ ReadFails(d)
Client(c) == Connect(c) \/ Send(c) \/ Receive(c) \/ Leave(c) \/ ServerClosed(c)

Next == Server \/ \E c \in Clients : Client(c)

Fairness == WF_vars(Server) /\ \A c \in Clients : WF_vars(Receive(c) \/ ServerClosed(c))
Spec == Init /\ [][Next]_vars /\ Fairness

-----------------------------------------------------------------------------
(* Properties *)

\* The server is inside a read that has nothing to return, and serves nobody.
Blocked == /\ pc = "round" /\ kind # "epoll" /\ 0 \notin ready
           /\ ~Readable(Min(ready))

\* The entry of a connection that was accepted in the same round is looked at
\* with an uninitialised revents.  Counting nready down ends the round before
\* that, so that poll_server never blocks in read; select_server needs its
\* uncleared allset to be one event out as well.
NeverBlocks == Blocked => kind = "select"

\* A client gets back what it wrote and nothing else as long as every read
\* fills the buffer.  After a short read epoll_server fills up with zeroes,
\* the others with what an earlier client, or nobody, left in recv_buf.
OwnDataBack ==
    \A c \in Clients :
        /\ \A k \in 1..Len(echoed[c]) :
              \/ echoed[c][k] = <<c, k>>
              \/ short /\ (kind = "epoll" => echoed[c][k][1] = c \/ echoed[c][k] = Zero)
        /\ ~short => Len(echoed[c]) <= B * sent[c]

\* The server goes down only for a client that left before it had read the
\* answers to all it wrote, or for want of descriptors: clients that wait for
\* their answers never end the service for the others.
DownForReason ==
    pc = "down" => dirty # {} \/ (Free = {} /\ queue # <<>>)

\* The connection of entry d has written what is not yet read or answered.
Waiting(d) ==
    LET c == client_sockets[d]
    IN  c # None /\ (net[c] # <<>> \/ (cl[c] = "open" /\ Len(echoed[c]) < B * sent[c]))

\* A round is dropped before it comes to entry d.
Dropped(d) == \E e \in 1..MaxFds : ReadEnd(e) /\ (kind = "epoll" \/ e < d)

\* What is written on an accepted connection is read and answered in full,
\* unless the server is down or blocked in read, or rounds are dropped again
\* and again because other clients leave: for select and poll those in the
\* entries before it, so that the first entry is always served.
EverybodyServed ==
    \A d \in 1..MaxFds :
        []<><<Dropped(d)>>_vars \/ (Waiting(d) ~> (~Waiting(d) \/ pc = "down" \/ Blocked))
=============================================================================
