------------------------------ MODULE Reactor -------------------------------
(* The epoll reactor of network/socket/codes/epoll-reactor: one thread, a      *)
(* table of events, each with the callback that serves its connection next     *)
(* (recvdata or senddata), and a sweep that closes connections silent for      *)
(* Timeout seconds, a part of the table at a time.                             *)
EXTENDS Naturals, Sequences, FiniteSets, FiniteSetsExt

CONSTANTS Clients,
          None,
          MAX_EVENTS,  \* entries of g_events, the listening socket's apart
          Limits,      \* how many connections the descriptor limit may allow
          BUFLEN,
          Timeout,     \* seconds of silence (60)
          Sweep,       \* entries looked at per turn of the loop (100)
          Leavers,     \* bound: the clients that may close
          MaxUnits     \* [Clients -> Nat]: bound on what a client writes

ASSUME SizesAssumption ==
    /\ MAX_EVENTS \in Nat \ {0} /\ BUFLEN \in Nat \ {0}
    /\ Timeout \in Nat /\ Sweep \in Nat
    /\ None \notin Clients

Events == 0..(MAX_EVENTS - 1)
Listen == MAX_EVENTS

VARIABLES ulimit,     \* the descriptor limit the program was started with
          fd,         \* [Events -> Clients \cup {None}]
          call_back,  \* [Events -> {"recvdata", "senddata"}]
          status,     \* [Events -> {0, 1}]: 1 when in the epoll set
          buf,        \* [Events -> Seq(unit)]: buf and what recv left in it
          len,        \* [Events -> Nat]
          age,        \* [Events -> 0..Timeout]: time(NULL) - last_active
          checkpos,
          pc,         \* "sweep", "wait", "dispatch" or "down"
          batch,      \* events reported and not yet dispatched
          stopped,    \* history: a signal interrupted epoll_wait
          queue,      \* connections not yet accepted
          conn,       \* [Clients -> {"new", "queued", "open", "leaked", "closed"}]: the server's end
          left,       \* clients that have closed
          sent,       \* [Clients -> Nat]: units written by the client
          net,        \* [Clients -> Seq(unit)]: not yet read by the server
          reset,      \* [Clients -> ...]: "no", "pending" (the server's next call fails), "seen"
          echoed,     \* [Clients -> Seq(unit)]: history: what the client was sent
          silent,     \* [Clients -> 0..Timeout]: history: seconds since data moved
          full,       \* history: clients of which a recv filled the buffer
          cut         \* history: clients to which a send was short

table == <<fd, call_back, status, buf, len, age>>
vars == <<ulimit, table, checkpos, pc, batch, stopped, queue, conn, left, sent, net, reset, echoed, silent, full, cut>>

Init ==
    /\ ulimit \in Limits
    /\ fd = [e \in Events |-> None] /\ call_back = [e \in Events |-> "recvdata"]
    /\ status = [e \in Events |-> 0] /\ buf = [e \in Events |-> <<>>]
    /\ len = [e \in Events |-> 0] /\ age = [e \in Events |-> Timeout]
    /\ checkpos = 0 /\ pc = "sweep" /\ batch = {} /\ stopped = FALSE /\ queue = <<>>
    /\ conn = [c \in Clients |-> "new"] /\ left = {} /\ sent = [c \in Clients |-> 0]
    /\ net = [c \in Clients |-> <<>>] /\ reset = [c \in Clients |-> "no"]
    /\ echoed = [c \in Clients |-> <<>>]
    /\ silent = [c \in Clients |-> 0] /\ full = {} /\ cut = {}

-----------------------------------------------------------------------------
(* The table *)

\* Mutant: last_active is set for a new connection only.
EventSet_KeepsTime(e, c, f) ==
    /\ fd' = [fd EXCEPT ![e] = c]
    /\ call_back' = [call_back EXCEPT ![e] = f]
    /\ status' = [status EXCEPT ![e] = 1]
    /\ age' = [age EXCEPT ![e] = IF fd[e] = c THEN @ ELSE 0]

\* eventset and eventadd together: entry e serves connection c with callback f.
\* status is 0 before, so that the descriptor is added to the epoll set.
EventSet(e, c, f) ==
    /\ fd' = [fd EXCEPT ![e] = c]
    /\ call_back' = [call_back EXCEPT ![e] = f]
    /\ status' = [status EXCEPT ![e] = 1]
    /\ age' = [age EXCEPT ![e] = 0]

\* eventdel and close: the entry is free again, the rest of it stays.
EventClose(e) ==
    /\ status' = [status EXCEPT ![e] = 0]
    /\ conn' = [conn EXCEPT ![fd[e]] = "closed"]
    /\ UNCHANGED <<fd, call_back, age>>

Unused == {e \in Events : status[e] = 0}
OpenFds == {c \in Clients : conn[c] \in {"open", "leaked"}}

-----------------------------------------------------------------------------
(* The loop *)

\* Mutant: the sweep starts at the first entry every time.
Swept_Always == {i % MAX_EVENTS : i \in 0..(Sweep - 1)}

\* The entries one sweep looks at.
Swept == {(checkpos + i) % MAX_EVENTS : i \in 0..(Sweep - 1)}

\* The sweep over the next entries; checkpos goes round.
SweepIdle ==
    /\ pc = "sweep"
    /\ LET idle == {e \in Swept : status[e] = 1 /\ age[e] >= Timeout}
       IN  /\ status' = [e \in Events |-> IF e \in idle THEN 0 ELSE status[e]]
           /\ conn' = [c \in Clients |-> IF \E e \in idle : fd[e] = c THEN "closed" ELSE conn[c]]
    /\ checkpos' = (checkpos + Sweep) % MAX_EVENTS
    /\ pc' = "wait"
    /\ UNCHANGED <<ulimit, stopped, fd, call_back, buf, len, age, batch, queue, left, sent, net, reset, echoed, silent, full, cut>>

Ready(e) ==
    IF e = Listen THEN queue # <<>>
    ELSE status[e] = 1 /\ (call_back[e] = "recvdata" => net[fd[e]] # <<>> \/ fd[e] \in left)

\* epoll_wait returns what is ready, or nothing after a second.
epoll_wait ==
    /\ pc = "wait"
    /\ batch' = {e \in Events \cup {Listen} : Ready(e)}
    /\ pc' = IF batch' = {} THEN "sweep" ELSE "dispatch"
    /\ UNCHANGED <<ulimit, stopped, table, checkpos, queue, conn, left, sent, net, reset, echoed, silent, full, cut>>

\* The reactor is stopped and continued (^Z and fg) while it waits: epoll_wait
\* returns -1 with EINTR, and the loop is left.
WaitFails ==
    /\ pc = "wait"
    /\ stopped' = TRUE
    /\ pc' = "down"
    /\ UNCHANGED <<ulimit, table, checkpos, batch, queue, conn, left, sent, net, reset, echoed, silent, full, cut>>

Dispatched(e) ==
    /\ pc = "dispatch" /\ e \in batch
    /\ batch' = batch \ {e}
    /\ pc' = IF batch' = {} THEN "sweep" ELSE "dispatch"

\* Without a free entry, or when fcntl fails, the connection is neither served
\* nor closed.
acceptconn ==
    /\ Dispatched(Listen) /\ Cardinality(OpenFds) < ulimit
    /\ LET c == Head(queue)
       IN  \/ conn' = [conn EXCEPT ![c] = "leaked"] /\ UNCHANGED <<fd, call_back, status, age>>
           \/ /\ Unused # {}
              /\ conn' = [conn EXCEPT ![c] = "open"] /\ EventSet(Min(Unused), c, "recvdata")
    /\ silent' = [silent EXCEPT ![Head(queue)] = 0]
    /\ queue' = Tail(queue)
    /\ UNCHANGED <<ulimit, stopped, buf, len, checkpos, left, sent, net, reset, echoed, full, cut>>

\* accept fails for want of a descriptor; the connection stays where it is.
AcceptFails ==
    /\ Dispatched(Listen) /\ Cardinality(OpenFds) >= ulimit
    /\ UNCHANGED <<ulimit, stopped, table, checkpos, queue, conn, left, sent, net, reset, echoed, silent, full, cut>>

\* The terminator behind a full buffer falls on the low byte of len, which is
\* stored before it in the program but may be after it in the build.
Stored(n) == IF n < BUFLEN THEN {n} ELSE {n, 0}

recvdata(e) ==
    /\ e # Listen /\ Dispatched(e) /\ call_back[e] = "recvdata"
    /\ LET c == fd[e]
       IN  \E n \in 0..Min({BUFLEN, Len(net[c])}) :
              /\ n = 0 <=> net[c] = <<>>
              /\ net' = [net EXCEPT ![c] = SubSeq(@, n + 1, Len(@))]
              /\ IF n = 0 THEN EventClose(e) /\ UNCHANGED <<buf, len, silent, full>>
                 ELSE /\ buf' = [buf EXCEPT ![e] = SubSeq(net[c], 1, n)]
                      /\ \E l \in Stored(n) : len' = [len EXCEPT ![e] = l]
                      /\ EventSet(e, c, "senddata")
                      /\ silent' = [silent EXCEPT ![c] = 0]
                      /\ full' = IF n = BUFLEN THEN full \cup {c} ELSE full
                      /\ UNCHANGED conn
    /\ UNCHANGED <<ulimit, stopped, checkpos, queue, left, sent, reset, echoed, cut>>

\* send returns n, -1 counted as 0: part of the data or all of it, nothing
\* after a reset.  What a client that has closed is sent brings the reset,
\* which may take its time.
Sendable(c, l) == IF l = 0 \/ reset[c] = "pending" THEN {0} ELSE 1..l

\* Mutant: the callback is not changed back.
AfterSend_Same == "senddata"

\* The callback that follows senddata.
AfterSend == "recvdata"

\* What is left of a short send is forgotten.
senddata(e) ==
    /\ e # Listen /\ Dispatched(e) /\ call_back[e] = "senddata"
    /\ LET c == fd[e]
       IN  \E n \in Sendable(c, len[e]) :
              /\ IF n = 0 THEN EventClose(e) /\ UNCHANGED <<echoed, silent, cut>>
                 ELSE /\ echoed' = [echoed EXCEPT ![c] = @ \o SubSeq(buf[e], 1, n)]
                      /\ EventSet(e, c, AfterSend)
                      /\ silent' = [silent EXCEPT ![c] = 0]
                      /\ cut' = IF n < len[e] THEN cut \cup {c} ELSE cut
                      /\ UNCHANGED conn
              /\ reset' = [reset EXCEPT ![c] = IF c \in left /\ len[e] > 0 THEN "seen" ELSE @]
    /\ UNCHANGED <<ulimit, stopped, buf, len, checkpos, queue, left, sent, net, full>>

\* A send after the reset has arrived raises SIGPIPE, even one of no data,
\* which ends the reactor.
BrokenPipe(e) ==
    /\ e # Listen /\ pc = "dispatch" /\ e \in batch /\ call_back[e] = "senddata"
    /\ reset[fd[e]] = "seen"
    /\ pc' = "down" /\ batch' = {}
    /\ UNCHANGED <<ulimit, stopped, table, checkpos, queue, conn, left, sent, net, reset, echoed, silent, full, cut>>

-----------------------------------------------------------------------------
(* Time and the clients *)

Tick ==
    /\ pc # "down"
    /\ age' = [e \in Events |-> Min({Timeout, age[e] + 1})]
    /\ silent' = [c \in Clients |-> IF conn[c] \in {"open", "leaked"}
                                    THEN Min({Timeout, silent[c] + 1}) ELSE silent[c]]
    /\ UNCHANGED <<ulimit, stopped, fd, call_back, status, buf, len, checkpos, pc, batch,
                   queue, conn, left, sent, net, reset, echoed, full, cut>>

Connect(c) ==
    /\ conn[c] = "new" /\ pc # "down"
    /\ conn' = [conn EXCEPT ![c] = "queued"] /\ queue' = Append(queue, c)
    /\ UNCHANGED <<ulimit, stopped, table, checkpos, pc, batch, left, sent, net, reset, echoed, silent, full, cut>>

Send(c) ==
    /\ conn[c] \in {"queued", "open", "leaked"} /\ c \notin left /\ pc # "down"
    /\ sent[c] < MaxUnits[c]
    /\ sent' = [sent EXCEPT ![c] = @ + 1]
    /\ net' = [net EXCEPT ![c] = Append(@, <<c, sent[c] + 1>>)]
    /\ UNCHANGED <<ulimit, stopped, table, checkpos, pc, batch, queue, conn, left, reset, echoed, silent, full, cut>>

\* Closing with answers unread resets the connection.
Leave(c) ==
    /\ c \in Leavers \ left /\ conn[c] # "new" /\ pc # "down"
    /\ left' = left \cup {c}
    /\ \/ UNCHANGED reset
       \/ echoed[c] # <<>> /\ reset' = [reset EXCEPT ![c] = "pending"]
    /\ UNCHANGED <<ulimit, stopped, table, checkpos, pc, batch, queue, conn, sent, net, echoed, silent, full, cut>>

Loop == SweepIdle \/ epoll_wait \/ acceptconn \/ AcceptFails
        \/ \E e \in Events : recvdata(e) \/ senddata(e) \/ BrokenPipe(e)

Next == Loop \/ Tick \/ WaitFails \/ \E c \in Clients : Connect(c) \/ Send(c) \/ Leave(c)

Fairness == WF_vars(Loop) /\ WF_vars(Tick)
Spec == Init /\ [][Next]_vars /\ Fairness

-----------------------------------------------------------------------------
(* Properties *)

\* A connection is closed only when its client has gone, when no data has moved
\* for the time-out, or - the terminator overwriting len - after a recv that
\* filled the buffer.  No entry's reuse and no event left in a batch closes
\* somebody else's connection.  The reactor as a whole goes down only for a
\* client that left before it was answered, or because it was stopped and
\* continued while it waited: then epoll_wait fails with EINTR.
ClosedForReason ==
    [][/\ \A c \in Clients :
             (conn[c] = "open" /\ conn'[c] = "closed")
                => c \in left \/ silent[c] >= Timeout \/ c \in full
       /\ pc' = "down" => stopped' \/ \E c \in left : reset[c] = "seen" /\ sent[c] > 1]_vars

\* A client is sent its own data, in order and each unit once, although
\* entries and their buffers pass from one client to the next; units are
\* missing only after a short send, or when the connection ends.
EchoedInOrder ==
    \A c \in Clients :
        /\ \A i \in 1..Len(echoed[c]) : echoed[c][i][1] = c
        /\ \A i, j \in 1..Len(echoed[c]) : i < j => echoed[c][i][2] < echoed[c][j][2]
        /\ c \notin cut => \A i \in 1..Len(echoed[c]) : echoed[c][i] = <<c, i>>

\* A connection whose client stays silent, or has gone, is closed in the end,
\* wherever it is in the table - except one that was accepted into a full table
\* or without success of fcntl, which has no entry.
IdleClosed ==
    \A c \in Clients : (conn[c] = "open") ~> (conn[c] = "closed" \/ silent[c] = 0 \/ pc = "down")
=============================================================================
