------------------------------- MODULE MqEcho -------------------------------
(***************************************************************************)
(* mq-echo/server.c and client.c: an echo service over ONE System V        *)
(* message queue.  Requests have type 1, answers have the client's pid as  *)
(* their type; msgrcv takes the first message of the type asked for, and   *)
(* msgsnd blocks while the queue is full.                                  *)
(***************************************************************************)
EXTENDS Naturals, Sequences, FiniteSets, SequencesExt

CONSTANTS
    Clients,  \* their pids
    Lines,    \* what a user may type
    Capacity, \* messages of MSGMAX bytes that fit: 2 by default
    MaxKills  \* how many clients may be killed

Request == "1"  \* message type 1
Nobody == "none"

(* Message types, pids and the absence of a message are told apart: no     *)
(* process has pid 1 but init.                                             *)
EchoConstants ==
    /\ Request \notin Clients /\ Nobody \notin Clients
    /\ Capacity \in Nat /\ MaxKills \in Nat

VARIABLES
    queue,  \* the kernel's queue: it outlives the clients
    server, \* the message in the server's hands between msgrcv and msgsnd
    pc,     \* of a client: "fgets", "msgsnd", "msgrcv", "ended" or "killed"
    line,   \* the line a client sent last
    shown,  \* what it last printed
    kills

vars == <<queue, server, pc, line, shown, kills>>

Messages == [mtype : Clients \cup {Request}, pid : Clients, text : Lines]
NoMessage == [mtype |-> Request, pid |-> Nobody, text |-> Nobody]

HasRoom == Len(queue) < Capacity
OfType(t) == {k \in 1..Len(queue) : queue[k].mtype = t}
FirstOf(t) == CHOOSE k \in OfType(t) : \A j \in OfType(t) : k <= j

-----------------------------------------------------------------------------
(* server.c, handle_echo_server.                                           *)

(* Line 31.                                                                *)
Wanted == Request

ServerReceives ==
    /\ server = NoMessage /\ OfType(Wanted) # {}
    /\ server' = queue[FirstOf(Wanted)]
    /\ queue' = RemoveAt(queue, FirstOf(Wanted))
    /\ UNCHANGED <<pc, line, shown, kills>>

(* Mutant: the message goes back with the type it came with.               *)
Answer_SameType == server

(* Lines 35 and 39.                                                        *)
Answer == [server EXCEPT !.mtype = server.pid]

ServerSends ==
    /\ server # NoMessage /\ HasRoom
    /\ queue' = Append(queue, Answer)
    /\ server' = NoMessage
    /\ UNCHANGED <<pc, line, shown, kills>>

handle_echo_server == ServerReceives \/ ServerSends

-----------------------------------------------------------------------------
(* client.c, handle_echo_client.                                           *)

(* Line 35.                                                                *)
Types(c) ==
    /\ pc[c] = "fgets"
    /\ \E l \in Lines : line' = [line EXCEPT ![c] = l]
    /\ pc' = [pc EXCEPT ![c] = "msgsnd"]
    /\ UNCHANGED <<queue, server, shown, kills>>

EndOfInput(c) ==
    /\ pc[c] = "fgets"
    /\ pc' = [pc EXCEPT ![c] = "ended"]
    /\ UNCHANGED <<queue, server, line, shown, kills>>

(* Lines 38-40.                                                            *)
ClientSends(c) ==
    /\ pc[c] = "msgsnd" /\ HasRoom
    /\ queue' = Append(queue, [mtype |-> Request, pid |-> c, text |-> line[c]])
    /\ pc' = [pc EXCEPT ![c] = "msgrcv"]
    /\ UNCHANGED <<server, line, shown, kills>>

(* Mutant: the client takes whatever is there.                             *)
Inbox_Any(c) == 1..Len(queue)

(* Line 44.                                                                *)
Inbox(c) == OfType(c)

(* Lines 44-49.                                                            *)
ClientReceives(c) ==
    /\ pc[c] = "msgrcv" /\ Inbox(c) # {}
    /\ LET k == CHOOSE k \in Inbox(c) : \A j \in Inbox(c) : k <= j
       IN  /\ shown' = [shown EXCEPT ![c] = queue[k].text]
           /\ queue' = RemoveAt(queue, k)
    /\ pc' = [pc EXCEPT ![c] = "fgets"]
    /\ UNCHANGED <<server, line, kills>>

handle_echo_client(c) == Types(c) \/ ClientSends(c) \/ ClientReceives(c)

(* A client is killed; its messages stay where they are.                   *)
Kill(c) ==
    /\ pc[c] \notin {"ended", "killed"} /\ kills < MaxKills
    /\ pc' = [pc EXCEPT ![c] = "killed"]
    /\ kills' = kills + 1
    /\ UNCHANGED <<queue, server, line, shown>>

-----------------------------------------------------------------------------
Init ==
    /\ queue = <<>> /\ server = NoMessage
    /\ pc = [c \in Clients |-> "fgets"]
    /\ line \in [Clients -> Lines]
    /\ shown = line
    /\ kills = 0

Next ==
    \/ handle_echo_server
    \/ \E c \in Clients : handle_echo_client(c) \/ EndOfInput(c) \/ Kill(c)

(* Server and clients are scheduled; users need not type.                  *)
Fairness ==
    /\ WF_vars(handle_echo_server)
    /\ \A c \in Clients : WF_vars(ClientSends(c) \/ ClientReceives(c))

Spec == Init /\ [][Next]_vars /\ Fairness

-----------------------------------------------------------------------------
(* Types; the queue keeps to its limit.                                    *)
TypeOK ==
    /\ queue \in Seq(Messages) /\ Len(queue) <= Capacity
    /\ server \in Messages \cup {NoMessage}
    /\ pc \in [Clients -> {"fgets", "msgsnd", "msgrcv", "ended", "killed"}]
    /\ line \in [Clients -> Lines] /\ shown \in [Clients -> Lines]
    /\ kills \in 0..MaxKills

(* The messages of client c, wherever they are.                            *)
Outstanding(c) ==
    {k \in 1..Len(queue) : queue[k].pid = c} \cup (IF server.pid = c THEN {0} ELSE {})

(* A client that waits has exactly one message under way, one that does    *)
(* not wait has none and has printed the line it sent: no request is       *)
(* dropped, answered twice or taken by another client, although both       *)
(* directions share a queue.                                               *)
OneUnderWay ==
    /\ TypeOK
    /\ \A c \in Clients :
          /\ pc[c] = "msgrcv" => \E k \in 0..Capacity : Outstanding(c) = {k}
          /\ pc[c] \in {"fgets", "msgsnd", "ended"} => Outstanding(c) = {}
          /\ pc[c] \in {"fgets", "ended"} => shown[c] = line[c]

(* The deadlock that readme.md, line 3, describes: the server holds an     *)
(* answer, the queue is full, and no living client is going to empty it.   *)
Stuck ==
    /\ server # NoMessage /\ ~HasRoom
    /\ \A k \in 1..Len(queue) :
          queue[k].mtype # Request => pc[queue[k].mtype] # "msgrcv"

(* That deadlock is the only thing that can keep a request from being      *)
(* answered, and it takes more clients than the queue holds messages,      *)
(* killed ones included: no client contributes two messages to it.         *)
AnsweredUnlessStuck ==
    \A c \in Clients :
        pc[c] = "msgrcv" ~>
            \/ pc[c] # "msgrcv"
            \/ Stuck /\ Cardinality({d \in Clients : Outstanding(d) # {}}) > Capacity

=============================================================================
