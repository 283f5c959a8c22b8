------------------------- MODULE CondProduceConsume -------------------------
(***************************************************************************)
(* produce-consume/cond-produce-consume.c: producers count products up,    *)
(* consumers count them down, with a mutex and a condition variable.  The  *)
(* shared counter is only touched under the mutex, so a critical section,  *)
(* up to the unlock or the wait, is one step.                              *)
(***************************************************************************)
EXTENDS Naturals, FiniteSets

CONSTANTS
    Producers, Consumers, \* the threads
    MaxTotal              \* bound of the model: the code has none

CondConstants == IsFiniteSet(Consumers) /\ MaxTotal \in Nat

VARIABLES
    total, \* products in the warehouse
    pc,    \* of a consumer: "lock" (49), "wait" (56), "woken" (56), "sleep" (67)
    awake  \* is a producer past its sleep(1)?

vars == <<total, pc, awake>>

Waiting == {c \in Consumers : pc[c] = "wait"}
Woken == {c \in Consumers : pc[c] = "woken"}

-----------------------------------------------------------------------------
(* Mutant: the signal is sent only when the warehouse was empty.           *)
pthread_cond_signal_OnlyFirst ==
    IF total = 0 /\ Waiting # {}
    THEN \E c \in Waiting : pc' = [pc EXCEPT ![c] = "woken"]
    ELSE UNCHANGED pc

(* Line 95: wakes one waiting thread, if there is one.                     *)
pthread_cond_signal ==
    IF Waiting # {}
    THEN \E c \in Waiting : pc' = [pc EXCEPT ![c] = "woken"]
    ELSE UNCHANGED pc

(* handle_produce, lines 87-97.                                            *)
Produce(p) ==
    /\ awake[p] /\ total < MaxTotal
    /\ total' = total + 1
    /\ pthread_cond_signal
    /\ awake' = [awake EXCEPT ![p] = FALSE]

(* Line 99.                                                                *)
ProducerSleeps(p) ==
    /\ ~awake[p]
    /\ awake' = [awake EXCEPT ![p] = TRUE]
    /\ UNCHANGED <<total, pc>>

handle_produce(p) == Produce(p) \/ ProducerSleeps(p)

-----------------------------------------------------------------------------
(* Mutant: if instead of while around the wait: a woken thread does not    *)
(* look at total again.                                                    *)
MustWait_If(c) == total = 0 /\ pc[c] = "lock"

(* Line 51, before the wait and again after it.                            *)
MustWait(c) == total = 0

(* handle_consume, lines 49-65.                                            *)
Consume(c) ==
    /\ pc[c] \in {"lock", "woken"}
    /\ IF MustWait(c)
       THEN pc' = [pc EXCEPT ![c] = "wait"] /\ UNCHANGED total
       ELSE pc' = [pc EXCEPT ![c] = "sleep"] /\ total' = total - 1
    /\ UNCHANGED awake

(* Line 67.                                                                *)
ConsumerSleeps(c) ==
    /\ pc[c] = "sleep"
    /\ pc' = [pc EXCEPT ![c] = "lock"]
    /\ UNCHANGED <<total, awake>>

handle_consume(c) == Consume(c) \/ ConsumerSleeps(c)

(* pthread_cond_wait may return without a signal.                          *)
SpuriousWakeup(c) ==
    /\ pc[c] = "wait"
    /\ pc' = [pc EXCEPT ![c] = "woken"]
    /\ UNCHANGED <<total, awake>>

-----------------------------------------------------------------------------
Init ==
    /\ total = 0
    /\ pc = [c \in Consumers |-> "lock"]
    /\ awake = [p \in Producers |-> TRUE]

Next ==
    \/ \E p \in Producers : handle_produce(p)
    \/ \E c \in Consumers : handle_consume(c) \/ SpuriousWakeup(c)

(* Threads are scheduled and sleeps end; spurious wake-ups need not come.  *)
Fairness ==
    /\ \A p \in Producers : WF_vars(handle_produce(p))
    /\ \A c \in Consumers : WF_vars(handle_consume(c))

Spec == Init /\ [][Next]_vars /\ Fairness

-----------------------------------------------------------------------------
(* Types; no product is consumed from an empty warehouse.                  *)
TypeOK ==
    /\ total \in 0..MaxTotal
    /\ pc \in [Consumers -> {"lock", "wait", "woken", "sleep"}]
    /\ awake \in [Producers -> BOOLEAN]

(* No lost wake-up: as long as a consumer waits, there is for every        *)
(* product in the warehouse a consumer that was woken and has not yet      *)
(* looked; and nobody consumes from an empty warehouse.                    *)
NoLostWakeup ==
    /\ TypeOK
    /\ Waiting # {} => total <= Cardinality(Woken)

(* A consumer does not sleep for ever on a warehouse that keeps having     *)
(* products, whoever else takes and brings them.                           *)
WaitersServed ==
    \A c \in Consumers : (pc[c] = "wait" /\ total > 0) ~> (pc[c] # "wait" \/ total = 0)

=============================================================================
