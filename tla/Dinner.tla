------------------------------- MODULE Dinner -------------------------------
(***************************************************************************)
(* dinner/dinner.c: philosopher processes around a table take both forks   *)
(* in one semop on a System V semaphore set, one semaphore per fork.  The  *)
(* operation has no SEM_UNDO flag: a philosopher that is killed while      *)
(* eating keeps its forks.                                                 *)
(***************************************************************************)
EXTENDS Naturals, FiniteSets

CONSTANTS
    N,       \* philosophers and forks; 5 in the code
    MaxKills \* how many philosophers may be killed

ASSUME TableAssumption == N \in Nat /\ N >= 2
ASSUME KillsNat == MaxKills \in Nat

VARIABLES
    forks,   \* value of each semaphore: 1 when the fork is on the table
    pc,      \* what each philosopher is doing
    killed   \* the philosophers that were killed

vars == <<forks, pc, killed>>

Phils == 0..(N - 1)

(* Lines 38-40 and 57-59: the two semaphores of philosopher no.            *)
Left(no) == no
Right(no) == (no + 1) % N

-----------------------------------------------------------------------------
(* have_dinner, lines 83-87.                                               *)
GetHungry(no) ==
    /\ no \notin killed /\ pc[no] = "thinking"
    /\ pc' = [pc EXCEPT ![no] = "hungry"]
    /\ UNCHANGED <<forks, killed>>

(* Mutant: a philosopher looks at the left fork only.                      *)
ForksFree_LeftOnly(no) == forks[Left(no)] > 0

(* semop blocks until both decrements are possible.                        *)
ForksFree(no) == forks[Left(no)] > 0 /\ forks[Right(no)] > 0

wait_for_forks(no) ==
    /\ no \notin killed /\ pc[no] = "hungry"
    /\ ForksFree(no)
    /\ forks' = [forks EXCEPT ![Left(no)] = 0, ![Right(no)] = 0]
    /\ pc' = [pc EXCEPT ![no] = "eating"]
    /\ UNCHANGED killed

(* Mutant: only the left fork goes back.                                   *)
PutBack_LeftOnly(no) == [forks EXCEPT ![Left(no)] = @ + 1]

PutBack(no) == [forks EXCEPT ![Left(no)] = @ + 1, ![Right(no)] = @ + 1]

return_forks(no) ==
    /\ no \notin killed /\ pc[no] = "eating"
    /\ forks' = PutBack(no)
    /\ pc' = [pc EXCEPT ![no] = "thinking"]
    /\ UNCHANGED killed

have_dinner(no) == GetHungry(no) \/ wait_for_forks(no) \/ return_forks(no)

(* A philosopher dies; nothing is given back.                              *)
Kill(no) ==
    /\ no \notin killed /\ Cardinality(killed) < MaxKills
    /\ killed' = killed \cup {no}
    /\ UNCHANGED <<forks, pc>>

-----------------------------------------------------------------------------
(* main, lines 107-113: every semaphore is 1 before the first fork().      *)
Init ==
    /\ forks = [i \in Phils |-> 1]
    /\ pc = [no \in Phils |-> "thinking"]
    /\ killed = {}

Next == \E no \in Phils : have_dinner(no) \/ Kill(no)

(* Processes are scheduled and sleeps end; semop may keep a philosopher    *)
(* waiting as long as others keep taking the forks.                        *)
Fairness == \A no \in Phils : WF_vars(have_dinner(no))

Spec == Init /\ [][Next]_vars /\ Fairness

-----------------------------------------------------------------------------
(* Types; the semaphores never exceed 1.                                   *)
TypeOK ==
    /\ forks \in [Phils -> {0, 1}]
    /\ pc \in [Phils -> {"thinking", "hungry", "eating"}]
    /\ killed \in SUBSET Phils

(* No fork is in two hands: philosophers that share a fork never eat       *)
(* together, and a fork in use is not on the table.                        *)
ForksExclusive ==
    /\ \A i, j \in Phils :
          i # j /\ pc[i] = "eating" /\ pc[j] = "eating" =>
              {Left(i), Right(i)} \cap {Left(j), Right(j)} = {}
    /\ \A i \in Phils : pc[i] = "eating" => forks[Left(i)] = 0 /\ forks[Right(i)] = 0

(* The philosophers that share a fork with no.                             *)
Neighbours(no) ==
    {j \in Phils \ {no} : {Left(j), Right(j)} \cap {Left(no), Right(no)} # {}}

(* readme.md: no deadlock.  A hungry philosopher eats, or a neighbour      *)
(* keeps eating, and a killed one blocks nobody but its neighbours,        *)
(* because who waits holds no fork.                                        *)
Progress ==
    \A no \in Phils :
        pc[no] = "hungry" ~>
            \/ pc[no] = "eating"
            \/ \E j \in Neighbours(no) \ killed : pc[j] = "eating"
            \/ ({no} \cup Neighbours(no)) \cap killed # {}

=============================================================================
