------------------------------ MODULE ForkEcho ------------------------------
(***************************************************************************)
(* echo/server.c and echo/client.c: a TCP echo server that forks one       *)
(* process per connection and reaps it in a SIGCHLD handler.  The handler  *)
(* interrupts the parent between any two of its statements; SIGCHLD does   *)
(* not queue: any number of deaths leaves one pending signal.  signal() of *)
(* the C library restarts an accept() that the handler interrupted.        *)
(*                                                                         *)
(* The child that serves client c is called c too.  Data is counted in     *)
(* units; a line is a block of Block units, and a read may return less.    *)
(***************************************************************************)
EXTENDS Naturals, Sequences, FiniteSets

CONSTANTS
    Clients,
    MaxLines,  \* bound of the model: lines a client sends
    Block      \* units of a line: sizeof(send_buf)

Server == "server"  \* the parent process
NoConn == "none"

VARIABLES
    client,   \* "off", "fgets", "read" or "closed"
    lines,    \* lines a client has sent
    up, down, \* units on their way to the server, to the client
    backlog,  \* connections not yet accepted
    parent,   \* the parent's next statement: "accept", "fork", "close"; "exited"
    conn,     \* its conn_sockfd
    fds,      \* the connection descriptors each server process has open
    child,    \* per client: "none", "read", "write", "zombie", "reaped"
    buf,      \* units in the child's recv_buf
    pending,  \* is SIGCHLD pending for the parent?
    handling  \* is the parent in handle_sigchld?

clientVars == <<client, lines, up, down>>
parentVars == <<backlog, parent, conn>>
signalVars == <<pending, handling>>
vars == <<clientVars, parentVars, fds, child, buf, signalVars>>

Zombies == {c \in Clients : child[c] = "zombie"}
Holders(c) == {p \in Clients \cup {Server} : c \in fds[p]}
InBacklog(c) == \E k \in 1..Len(backlog) : backlog[k] = c

(* Nobody on the server's side is going to serve c any more.               *)
Dropped(c) == Holders(c) = {} /\ ~InBacklog(c)

-----------------------------------------------------------------------------
(* client.c.                                                               *)

(* main, lines 55-70.                                                      *)
Connect(c) ==
    /\ client[c] = "off" /\ parent # "exited"
    /\ client' = [client EXCEPT ![c] = "fgets"]
    /\ backlog' = Append(backlog, c)
    /\ UNCHANGED <<lines, up, down, parent, conn, fds, child, buf, signalVars>>

(* handle_client, lines 27-30; SIGPIPE is ignored, the write may be lost.  *)
SendLine(c) ==
    /\ client[c] = "fgets" /\ lines[c] < MaxLines
    /\ lines' = [lines EXCEPT ![c] = @ + 1]
    /\ up' = IF Dropped(c) THEN up ELSE [up EXCEPT ![c] = @ + Block]
    /\ client' = [client EXCEPT ![c] = "read"]
    /\ UNCHANGED <<down, parentVars, fds, child, buf, signalVars>>

(* Lines 32-43: any part of what has come, but no more than a block.       *)
ReadEcho(c) ==
    /\ client[c] = "read"
    /\ \E n \in 1..Block : n <= down[c] /\ down' = [down EXCEPT ![c] = @ - n]
    /\ client' = [client EXCEPT ![c] = "fgets"]
    /\ UNCHANGED <<lines, up, parentVars, fds, child, buf, signalVars>>

(* Lines 33-39: end of stream or an error.                                 *)
ServerGone(c) ==
    /\ client[c] = "read" /\ down[c] = 0 /\ Dropped(c)
    /\ client' = [client EXCEPT ![c] = "closed"]
    /\ UNCHANGED <<lines, up, down, parentVars, fds, child, buf, signalVars>>

(* Line 47 after the end of the input.                                     *)
Close(c) ==
    /\ client[c] = "fgets"
    /\ client' = [client EXCEPT ![c] = "closed"]
    /\ UNCHANGED <<lines, up, down, parentVars, fds, child, buf, signalVars>>

Reads(c) == ReadEcho(c) \/ ServerGone(c)

-----------------------------------------------------------------------------
(* server.c, main.  The parent runs when it is not in the handler.         *)
AtParent(stmt) == parent = stmt /\ ~handling

Accept ==
    /\ AtParent("accept") /\ backlog # <<>>
    /\ conn' = Head(backlog)
    /\ backlog' = Tail(backlog)
    /\ fds' = [fds EXCEPT ![Server] = @ \cup {conn'}]
    /\ parent' = "fork"
    /\ UNCHANGED <<clientVars, child, buf, signalVars>>

(* Line 99: accept fails and the parent exits; the kernel resets what has  *)
(* not been accepted, as no child keeps the listening socket (line 109).   *)
AcceptFails ==
    /\ AtParent("accept")
    /\ parent' = "exited"
    /\ backlog' = <<>>
    /\ fds' = [fds EXCEPT ![Server] = {}]
    /\ UNCHANGED <<clientVars, conn, child, buf, signalVars>>

(* Line 105: the child gets a copy of every descriptor of the parent.      *)
Fork ==
    /\ AtParent("fork")
    /\ child' = [child EXCEPT ![conn] = "read"]
    /\ fds' = [fds EXCEPT ![conn] = fds[Server]]
    /\ parent' = "close"
    /\ UNCHANGED <<clientVars, backlog, conn, buf, signalVars>>

(* fork() = -1 also takes the else branch of line 113.                     *)
ForkFails ==
    /\ AtParent("fork")
    /\ parent' = "close"
    /\ UNCHANGED <<clientVars, backlog, conn, fds, child, buf, signalVars>>

(* Mutant: the parent keeps the connection open.                           *)
ParentCloses_Missing ==
    /\ AtParent("close")
    /\ parent' = "accept" /\ conn' = NoConn
    /\ UNCHANGED <<clientVars, backlog, fds, child, buf, signalVars>>

(* Line 115.                                                               *)
ParentCloses ==
    /\ AtParent("close")
    /\ fds' = [fds EXCEPT ![Server] = @ \ {conn}]
    /\ parent' = "accept" /\ conn' = NoConn
    /\ UNCHANGED <<clientVars, backlog, child, buf, signalVars>>

(* handle_sigchld.                                                         *)
HandlerStarts ==
    /\ pending /\ ~handling /\ parent # "exited"
    /\ pending' = FALSE /\ handling' = TRUE
    /\ UNCHANGED <<clientVars, parentVars, fds, child, buf>>

(* Mutant: one wait(), as in the commented line 50.                        *)
Reaping_One == FALSE

(* Line 53: go on while waitpid finds somebody.                            *)
Reaping == TRUE

Waitpid ==
    /\ handling /\ Zombies # {}
    /\ \E c \in Zombies :
          /\ child' = [child EXCEPT ![c] = "reaped"]
          /\ handling' = Reaping
    /\ UNCHANGED <<clientVars, parentVars, fds, buf, pending>>

HandlerReturns ==
    /\ handling /\ Zombies = {}
    /\ handling' = FALSE
    /\ UNCHANGED <<clientVars, parentVars, fds, child, buf, pending>>

handle_sigchld == HandlerStarts \/ Waitpid \/ HandlerReturns

-----------------------------------------------------------------------------
(* server.c, handle_client, in the child of c.                             *)

ChildReads(c) ==
    /\ child[c] = "read"
    /\ \E n \in 1..Block : /\ n <= up[c]
                           /\ up' = [up EXCEPT ![c] = @ - n]
                           /\ buf' = [buf EXCEPT ![c] = n]
    /\ child' = [child EXCEPT ![c] = "write"]
    /\ UNCHANGED <<client, lines, down, parentVars, fds, signalVars>>

(* Mutant: what was read is printed and not written back.                  *)
Echoed_Nothing(c) == 0

(* Line 39: what was read, as much as was read.                            *)
Echoed(c) == buf[c]

ChildWrites(c) ==
    /\ child[c] = "write"
    /\ down' = IF client[c] = "closed" THEN down ELSE [down EXCEPT ![c] = @ + Echoed(c)]
    /\ buf' = [buf EXCEPT ![c] = 0]
    /\ child' = [child EXCEPT ![c] = "read"]
    /\ UNCHANGED <<client, lines, up, parentVars, fds, signalVars>>

(* Exit closes the descriptors and sends SIGCHLD: after the end of the     *)
(* stream (29-33 and 111), after an error of read (36), or by SIGPIPE in   *)
(* the write to a client that has closed.  A reset may overtake data.      *)
ChildExits(c) ==
    /\ child[c] \in {"read", "write"} /\ client[c] = "closed"
    /\ child' = [child EXCEPT ![c] = "zombie"]
    /\ fds' = [fds EXCEPT ![c] = {}]
    /\ pending' = TRUE
    /\ buf' = [buf EXCEPT ![c] = 0]
    /\ UNCHANGED <<clientVars, parentVars, handling>>

handle_client(c) == ChildReads(c) \/ ChildWrites(c) \/ ChildExits(c)

-----------------------------------------------------------------------------
Init ==
    /\ client = [c \in Clients |-> "off"] /\ lines = [c \in Clients |-> 0]
    /\ up = [c \in Clients |-> 0] /\ down = [c \in Clients |-> 0]
    /\ backlog = <<>> /\ parent = "accept" /\ conn = NoConn
    /\ fds = [p \in Clients \cup {Server} |-> {}]
    /\ child = [c \in Clients |-> "none"] /\ buf = [c \in Clients |-> 0]
    /\ pending = FALSE /\ handling = FALSE

ParentStep == Accept \/ Fork \/ ParentCloses

Next ==
    \/ ParentStep \/ AcceptFails \/ ForkFails \/ handle_sigchld
    \/ \E c \in Clients : \/ Connect(c) \/ SendLine(c) \/ Close(c)
                          \/ Reads(c) \/ handle_client(c)

(* Processes are scheduled and a pending signal is delivered; nobody has   *)
(* to connect or to type, no call has to fail.                             *)
Fairness ==
    /\ WF_vars(ParentStep) /\ WF_vars(handle_sigchld)
    /\ \A c \in Clients : WF_vars(Reads(c)) /\ WF_vars(handle_client(c))

Spec == Init /\ [][Next]_vars /\ Fairness

-----------------------------------------------------------------------------
(* Types; no more is under way than was sent.                              *)
TypeOK ==
    /\ client \in [Clients -> {"off", "fgets", "read", "closed"}]
    /\ lines \in [Clients -> 0..MaxLines]
    /\ up \in [Clients -> 0..(MaxLines * Block)] /\ down \in [Clients -> 0..(MaxLines * Block)]
    /\ backlog \in Seq(Clients) /\ conn \in Clients \cup {NoConn}
    /\ parent \in {"accept", "fork", "close", "exited"}
    /\ (parent \in {"fork", "close"}) = (conn # NoConn)
    /\ fds \in [Clients \cup {Server} -> SUBSET Clients]
    /\ child \in [Clients -> {"none", "read", "write", "zombie", "reaped"}]
    /\ buf \in [Clients -> 0..Block]
    /\ pending \in BOOLEAN /\ handling \in BOOLEAN

(* Every zombie is reaped (readme.md, method 3), by the handler or, if the *)
(* parent is gone, by init.                                                *)
ZombiesReaped ==
    \A c \in Clients : child[c] = "zombie" ~> child[c] = "reaped" \/ parent = "exited"

(* A client that waits for its echo gets an answer or the end of the       *)
(* stream: a short read never leaves it waiting for data that nobody is    *)
(* going to send.                                                          *)
ReaderAnswered == \A c \in Clients : client[c] = "read" ~> client[c] # "read"

(* When a client has closed, every server process lets go of the           *)
(* connection: neither the parent nor a child that inherited it keeps it.  *)
ConnectionsReleased == \A c \in Clients : client[c] = "closed" ~> Holders(c) = {}

=============================================================================
