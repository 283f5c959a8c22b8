----------------------------- MODULE MCThreads ------------------------------
(* The programs whose threads share memory, each on its own from the       *)
(* start: posix-produce-consume.c, three producers and two consumers over  *)
(* three slots; cond-produce-consume.c, two producers and three consumers; *)
(* or one of the Python examples on locks.                                 *)
EXTENDS PosixProduceConsume

CONSTANTS CondProducers, CondConsumers, MaxTotal,
          NoOwner, Programs, Typing, Watering, Low, High, GetSize, PutSize, Eaters, Cooks, Initial

VARIABLES running,
          total, cpc, awake,
          program, code, at, owner, money, money_lock, read, size, raced, gaveup

Cond == INSTANCE CondProduceConsume
    WITH Producers <- CondProducers, Consumers <- CondConsumers, pc <- cpc
Py == INSTANCE PyLocks
    WITH None <- NoOwner, Times <- <<Typing, Watering>>, Producers <- Cooks, Consumers <- Eaters

ASSUME ConsumersAndBound == Cond!CondConstants
ASSUME PythonConstants == Py!PyConstants

cvars == <<total, cpc, awake>>
yvars == <<program, code, at, owner, money, money_lock, read, size, raced, gaveup>>

(* When no Python program runs, which one it would be does not matter.     *)
MCInit ==
    /\ running \in {"posix", "cond", "python"}
    /\ Init /\ Cond!Init /\ Py!Init
    /\ running # "python" => program = "lock_mutex"

(* The threads of C never end; a Python program may, or is deadlocked.     *)
MCNext ==
    \/ running = "posix" /\ Next /\ UNCHANGED <<running, cvars, yvars>>
    \/ running = "cond" /\ Cond!Next /\ UNCHANGED <<running, vars, yvars>>
    \/ running = "python" /\ Py!Next /\ UNCHANGED <<running, vars, cvars>>
    \/ running = "python" /\ UNCHANGED <<running, vars, cvars, yvars>>

(* The fairness of each program, while it is the one that runs.            *)
MCFairness ==
    /\ \A c \in Consumers : WF_vars(running = "posix" /\ handle_consume(c))
    /\ \A p \in Producers : WF_vars(running = "posix" /\ handle_produce(p))
    /\ \A p \in CondProducers : WF_cvars(running = "cond" /\ Cond!handle_produce(p))
    /\ \A c \in CondConsumers : WF_cvars(running = "cond" /\ Cond!handle_consume(c))
    /\ \A t \in Py!Threads : WF_yvars(running = "python" /\ Py!Thread(t))

MCSpec == MCInit /\ [][MCNext]_<<running, vars, cvars, yvars>> /\ MCFairness

(* cond-produce-consume.c: no wake-up of pthread_cond_signal is lost, and  *)
(* nobody consumes from an empty warehouse.                                *)
NoLostWakeup == Cond!NoLostWakeup

(* cond-produce-consume.c: a consumer does not sleep for ever while the    *)
(* warehouse has products.                                                 *)
WaitersServed == Cond!WaitersServed

(* lock_mutex.py, lock_my.py, global_alter.py: what the locks keep of the  *)
(* additions to money.                                                     *)
UpdatesKept == Py!UpdatesKept

(* deadlock.py and the others: only the two threads of deadlock.py can     *)
(* wait for ever, each for the lock the other holds.                       *)
StuckOnlyInEmbrace == Py!StuckOnlyInEmbrace

(* The Python programs that are meant to end do, with locks left held only *)
(* by who gave up, and synchronize.py goes round.                          *)
EndsOrGoesRound == running = "python" => Py!EndsOrGoesRound

=============================================================================
