------------------------------ MODULE MqNotify ------------------------------
(***************************************************************************)
(* posix-mq/mq-notify.c with mq-send.c: a process that is told by SIGUSR1  *)
(* that a POSIX message queue has got a message.  A registration with      *)
(* mq_notify is used up by one notification, and the kernel notifies only  *)
(* when a message arrives in an EMPTY queue.  The handler registers again, *)
(* then receives one message.  SIGUSR1 is blocked while it runs, and does  *)
(* not queue.                                                              *)
(***************************************************************************)
EXTENDS Naturals

CONSTANTS
    MaxMsg,   \* mq_maxmsg of a queue made with default attributes (10)
    MaxSends, \* bound of the model: runs of mq-send
    EarlyMsgs \* may messages be in the queue before mq-notify is started?

NotifyConstants == MaxMsg \in Nat /\ MaxSends \in Nat

VARIABLES
    curmsgs,    \* messages in the queue
    sends,      \* runs of mq-send so far
    registered, \* is the process registered for a notification?
    pending,    \* is SIGUSR1 pending?
    pc          \* main: "start", "pause"; handler: "notify", "receive"; "exited"

vars == <<curmsgs, sends, registered, pending, pc>>

-----------------------------------------------------------------------------
(* The kernel's rule.                                                      *)
Notifies == registered /\ curmsgs = 0

(* mq-send.c, line 33; blocks while the queue is full.                     *)
mq_send ==
    /\ sends < MaxSends /\ curmsgs < MaxMsg
    /\ EarlyMsgs \/ pc # "start"
    /\ curmsgs' = curmsgs + 1
    /\ sends' = sends + 1
    /\ IF Notifies
       THEN pending' = TRUE /\ registered' = FALSE
       ELSE UNCHANGED <<pending, registered>>
    /\ UNCHANGED pc

(* mq_notify fails with EBUSY when somebody is registered already.         *)
mq_notify(from, to) ==
    /\ pc = from
    /\ registered' = TRUE
    /\ pc' = IF registered THEN "exited" ELSE to
    /\ UNCHANGED <<curmsgs, sends, pending>>

(* main, lines 56-72.                                                      *)
Start == mq_notify("start", "pause")

(* Line 78: the signal ends pause() and runs the handler.                  *)
Signal ==
    /\ pc = "pause" /\ pending
    /\ pending' = FALSE
    /\ pc' = "notify"
    /\ UNCHANGED <<curmsgs, sends, registered>>

(* Mutant: the handler does not register again.                            *)
Reregister_Missing ==
    /\ pc = "notify"
    /\ pc' = "receive"
    /\ UNCHANGED <<curmsgs, sends, registered, pending>>

(* handle_sigusr1, lines 28-34.                                            *)
Reregister == mq_notify("notify", "receive")

(* Lines 38-49: one message.                                               *)
Receive ==
    /\ pc = "receive" /\ curmsgs > 0
    /\ curmsgs' = curmsgs - 1
    /\ pc' = "pause"
    /\ UNCHANGED <<sends, registered, pending>>

handle_sigusr1 == Signal \/ Reregister \/ Receive

-----------------------------------------------------------------------------
Init ==
    /\ curmsgs \in IF EarlyMsgs THEN 0..MaxMsg ELSE {0}
    /\ sends = 0
    /\ registered = FALSE /\ pending = FALSE
    /\ pc = "start"

Next == mq_send \/ Start \/ handle_sigusr1

(* The process is scheduled; nobody has to run mq-send.                    *)
Fairness == WF_vars(Start \/ handle_sigusr1)

Spec == Init /\ [][Next]_vars /\ Fairness

-----------------------------------------------------------------------------
(* Types.                                                                  *)
TypeOK ==
    /\ curmsgs \in 0..MaxMsg /\ sends \in 0..MaxSends
    /\ registered \in BOOLEAN /\ pending \in BOOLEAN
    /\ pc \in {"start", "pause", "notify", "receive", "exited"}

(* The registration is never lost and never doubled: once started, the     *)
(* process is registered or a notification is on its way, so mq_notify     *)
(* does not fail with EBUSY and the process does not exit.  Whenever the   *)
(* handler is about to run or runs, there is a message for it: mq_receive  *)
(* never blocks inside the signal handler.                                 *)
NeverDeaf ==
    /\ TypeOK
    /\ pending \/ pc \in {"notify", "receive"} => curmsgs > 0
    /\ pc # "start" => /\ pc # "exited"
                       /\ registered # (pending \/ pc = "notify")

(* readme.md, lines 9-20: every message sent is received and printed.     *)
AllReceived == curmsgs > 0 ~> curmsgs = 0

=============================================================================
