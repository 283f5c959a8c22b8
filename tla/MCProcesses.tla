---------------------------- MODULE MCProcesses -----------------------------
(* The programs whose processes meet only in the kernel, each on its own   *)
(* from the start: the table of dinner.c, three clients of mq-echo on a    *)
(* queue of two messages, mq-notify.c with a few runs of mq-send, or the   *)
(* forking echo server with two clients.                                   *)
EXTENDS Dinner

CONSTANTS EchoClients, ForkClients, Lines, Capacity, MaxClientKills, MaxMsg, MaxSends, EarlyMsgs,
          MaxLines, Block

VARIABLES running,
          queue, server, epc, line, shown, kills,
          curmsgs, sends, registered, pending, npc,
          client, lines, up, down, backlog, parent, conn, fds, child, buf, sigchld, handling

Echo == INSTANCE MqEcho WITH Clients <- EchoClients, MaxKills <- MaxClientKills, pc <- epc
Notify == INSTANCE MqNotify WITH pc <- npc
Forking == INSTANCE ForkEcho WITH Clients <- ForkClients, pending <- sigchld

ASSUME QueueConstants == Echo!EchoConstants /\ Notify!NotifyConstants

evars == <<queue, server, epc, line, shown, kills>>
nvars == <<curmsgs, sends, registered, pending, npc>>
fvars == <<client, lines, up, down, backlog, parent, conn, fds, child, buf, sigchld, handling>>

(* What stands in a program that does not run does not matter.             *)
MCInit ==
    /\ running \in {"mqecho", "dinner", "mqnotify", "forkecho"}
    /\ Init /\ Echo!Init /\ Notify!Init /\ Forking!Init
    /\ running # "mqecho" => line = [c \in EchoClients |-> CHOOSE l \in Lines : TRUE]
    /\ running # "mqnotify" => curmsgs = 0

(* The philosophers never all stop; the users of the other programs may.   *)
MCNext ==
    \/ running = "dinner" /\ Next /\ UNCHANGED <<running, evars, nvars, fvars>>
    \/ running = "mqecho" /\ Echo!Next /\ UNCHANGED <<running, vars, nvars, fvars>>
    \/ running = "mqnotify" /\ Notify!Next /\ UNCHANGED <<running, vars, evars, fvars>>
    \/ running = "forkecho" /\ Forking!Next /\ UNCHANGED <<running, vars, evars, nvars>>
    \/ running # "dinner" /\ UNCHANGED <<running, vars, evars, nvars, fvars>>

(* The fairness of each program, while it is the one that runs; what is    *)
(* checked of MqNotify here needs none.                                    *)
MCFairness ==
    /\ \A no \in Phils : WF_vars(running = "dinner" /\ have_dinner(no))
    /\ WF_evars(running = "mqecho" /\ Echo!handle_echo_server)
    /\ \A c \in EchoClients :
          WF_evars(running = "mqecho" /\ (Echo!ClientSends(c) \/ Echo!ClientReceives(c)))
    /\ WF_fvars(running = "forkecho" /\ Forking!ParentStep)
    /\ WF_fvars(running = "forkecho" /\ Forking!handle_sigchld)
    /\ \A c \in ForkClients : /\ WF_fvars(running = "forkecho" /\ Forking!Reads(c))
                            /\ WF_fvars(running = "forkecho" /\ Forking!handle_client(c))

MCSpec == MCInit /\ [][MCNext]_<<running, vars, evars, nvars, fvars>> /\ MCFairness

(* mq-echo: a waiting client has one message under way, one that does not  *)
(* wait has none and has printed the line it sent.                         *)
OneUnderWay == Echo!OneUnderWay

(* mq-echo: only the deadlock of a full queue keeps a request from being   *)
(* answered, and it takes more clients than the queue holds messages.      *)
AnsweredUnlessStuck == Echo!AnsweredUnlessStuck

(* mq-notify.c: the registration is never lost or doubled, and the handler *)
(* always finds a message.                                                 *)
NeverDeaf == Notify!NeverDeaf

(* echo/server.c: every zombie is reaped, by the handler of SIGCHLD or by  *)
(* init.                                                                   *)
ZombiesReaped == Forking!ZombiesReaped

(* echo/client.c: a client that waits for its echo gets an answer or the   *)
(* end of the stream.                                                      *)
ReaderAnswered == Forking!ReaderAnswered

(* echo/server.c: every process lets go of a connection whose client has   *)
(* closed.                                                                 *)
ConnectionsReleased == Forking!ConnectionsReleased

=============================================================================
