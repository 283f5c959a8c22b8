------------------------------ MODULE PyLocks -------------------------------
(* The Python examples of thread/ on shared data and locks: global_alter,      *)
(* lock_my, lock_mutex, deadlock, deadlock_timeout, synchronize and            *)
(* producer_consumer.  A thread is the sequence of steps of its function       *)
(* between which the interpreter may switch threads.  "money+=1" is two of     *)
(* them, money is read and money is assigned.                                  *)
EXTENDS Naturals, Sequences

CONSTANTS Programs,     \* names of the programs
          None,         \* no thread holds the lock
          Times,        \* <<typing, watering>>: how often each adds 1 to money
          Low, High,    \* when consumers eat and producers produce (50 and 100)
          GetSize, PutSize,      \* portions eaten and produced at a time (5 and 30)
          Producers, Consumers,  \* how many there are
          Initial       \* portions at the start

\* The batches of all consumers together are at most what one of them has
\* seen when it begins to eat: 5 times 5 and 51 in the code.
PyConstants ==
    /\ Programs \subseteq {"global_alter", "lock_my", "lock_mutex", "deadlock",
                           "deadlock_timeout", "synchronize", "producer_consumer"}
    /\ Times[1] \in Nat /\ Times[2] \in Nat /\ None \notin Nat
    /\ Low \in Nat /\ GetSize \in Nat /\ PutSize \in Nat
    /\ Producers \in Nat /\ Consumers \in Nat /\ Initial \in Nat
    /\ Consumers * GetSize <= Low + 1

Locks == {"mutex", "my_lock", "your_lock", "lock1", "lock2", "lock3"}

Threads == 1..(IF Producers + Consumers > 3 THEN Producers + Consumers ELSE 3)

VARIABLES program,
          code,    \* [Threads -> Seq(step)]: the functions of the program's threads
          at,      \* [thread -> Nat]: the step a thread comes to next
          owner,   \* [Locks -> thread or None]
          money, money_lock,
          read,    \* [thread -> Nat]: the money a thread has read and not yet assigned
          size,    \* q.qsize()
          raced,   \* history: money_lock was taken while it was taken
          gaveup   \* history: threads whose acquire timed out

vars == <<program, code, at, owner, money, money_lock, read, size, raced, gaveup>>

-----------------------------------------------------------------------------
(* The programs *)

Repeat(n, steps) == [k \in 1..(n * Len(steps)) |-> steps[((k - 1) % Len(steps)) + 1]]
Increase == <<<<"load", "money">>, <<"store", "money">>>>

global_alter(n) == Repeat(n, Increase)
lock_my(n) == <<<<"test", "money_lock">>, <<"set", "money_lock">>>> \o Repeat(n, Increase)
              \o <<<<"clear", "money_lock">>>>
\* Mutant: the mutex is not used.
lock_mutex_Unlocked(n) == Repeat(n, Increase)

lock_mutex(n) ==
    Repeat(n, <<<<"acquire", "mutex">>>> \o Increase \o <<<<"release", "mutex">>>>)

deadlock(mine, yours) ==
    <<<<"acquire", mine>>, <<"acquire", yours>>, <<"release", mine>>, <<"release", yours>>>>
deadlock_timeout(mine, yours) ==
    <<<<"acquire", mine>>, <<"timed", yours>>, <<"release", mine>>, <<"release", yours>>>>

\* Mutant: a thread releases its own lock instead of the next one.
synchronize_Own(own, next) == <<<<"acquire", own>>, <<"release", own>>, <<"again", own>>>>

synchronize(own, next) == <<<<"acquire", own>>, <<"release", next>>, <<"again", own>>>>

Producer == <<<<"below", "q">>>> \o Repeat(PutSize, <<<<"put", "q">>>>) \o <<<<"again", "q">>>>
Consumer == <<<<"above", "q">>>> \o Repeat(GetSize, <<<<"get", "q">>>>) \o <<<<"again", "q">>>>

\* The threads of a program, as a sequence.
Code(p) ==
    CASE p = "global_alter" -> <<global_alter(Times[1]), global_alter(Times[2])>>
      [] p = "lock_my" -> <<lock_my(Times[1]), lock_my(Times[2])>>
      [] p = "lock_mutex" -> <<lock_mutex(Times[1]), lock_mutex(Times[2])>>
      [] p = "deadlock" -> <<deadlock("my_lock", "your_lock"), deadlock("your_lock", "my_lock")>>
      [] p = "deadlock_timeout" ->
            <<deadlock_timeout("my_lock", "your_lock"), deadlock_timeout("your_lock", "my_lock")>>
      [] p = "synchronize" ->
            <<synchronize("lock1", "lock2"), synchronize("lock2", "lock3"), synchronize("lock3", "lock1")>>
      [] p = "producer_consumer" ->
            Repeat(Producers, <<Producer>>) \o Repeat(Consumers, <<Consumer>>)

Ended(t) == at[t] > Len(code[t])
Step(t) == IF Ended(t) THEN <<"end", "end">> ELSE code[t][at[t]]

\* lock2 and lock3 are taken by the main thread, 0, before it starts the others.
Init ==
    /\ program \in Programs
    /\ code = LET c == Code(program) IN [t \in Threads |-> IF t <= Len(c) THEN c[t] ELSE <<>>]
    /\ at = [t \in Threads |-> 1]
    /\ owner = [l \in Locks |-> IF l \in {"lock2", "lock3"} THEN 0 ELSE None]
    /\ money = 0 /\ money_lock = FALSE /\ read = [t \in Threads |-> 0]
    /\ size = Initial /\ raced = FALSE /\ gaveup = {}

-----------------------------------------------------------------------------
(* The steps *)

Does(t, op) == Step(t)[1] = op /\ at' = [at EXCEPT ![t] = @ + 1]

\* A lock may be released by a thread that did not take it.
Acquire(t) ==
    /\ Does(t, "acquire") \/ Does(t, "timed")
    /\ owner[Step(t)[2]] = None
    /\ owner' = [owner EXCEPT ![Step(t)[2]] = t]
    /\ UNCHANGED <<program, code, money, money_lock, read, size, raced, gaveup>>

\* acquire(timeout=5) returns False: the function ends, its own lock still held.
TimeOut(t) ==
    /\ Step(t)[1] = "timed" /\ owner[Step(t)[2]] # None
    /\ at' = [at EXCEPT ![t] = Len(code[t]) + 1]
    /\ gaveup' = gaveup \cup {t}
    /\ UNCHANGED <<program, code, owner, money, money_lock, read, size, raced>>

Release(t) ==
    /\ Does(t, "release")
    /\ owner' = [owner EXCEPT ![Step(t)[2]] = None]
    /\ UNCHANGED <<program, code, money, money_lock, read, size, raced, gaveup>>

LoadMoney(t) ==
    /\ Does(t, "load")
    /\ read' = [read EXCEPT ![t] = money]
    /\ UNCHANGED <<program, code, owner, money, money_lock, size, raced, gaveup>>

StoreMoney(t) ==
    /\ Does(t, "store")
    /\ money' = read[t] + 1
    /\ UNCHANGED <<program, code, owner, money_lock, read, size, raced, gaveup>>

\* The loop around the test spins until money_lock is False.
TestFlag(t) ==
    /\ Does(t, "test") /\ ~money_lock
    /\ UNCHANGED <<program, code, owner, money, money_lock, read, size, raced, gaveup>>

SetFlag(t) ==
    /\ Does(t, "set")
    /\ raced' = (raced \/ money_lock) /\ money_lock' = TRUE
    /\ UNCHANGED <<program, code, owner, money, read, size, gaveup>>

ClearFlag(t) ==
    /\ Does(t, "clear")
    /\ money_lock' = FALSE
    /\ UNCHANGED <<program, code, owner, money, read, size, raced, gaveup>>

\* Mutant: a consumer eats at the limit already.
Enough_OrEqual == size >= Low

\* q.qsize() is looked at once for a whole batch.
Enough == size > Low
CheckQueue(t) ==
    /\ \/ Does(t, "below") /\ size < High
       \/ Does(t, "above") /\ Enough
    /\ UNCHANGED <<program, code, owner, money, money_lock, read, size, raced, gaveup>>

\* q.put, q.get: get waits while the queue is empty.
UseQueue(t) ==
    /\ \/ Does(t, "put") /\ size' = size + 1
       \/ Does(t, "get") /\ size > 0 /\ size' = size - 1
    /\ UNCHANGED <<program, code, owner, money, money_lock, read, raced, gaveup>>

Again(t) ==
    /\ Step(t)[1] = "again"
    /\ at' = [at EXCEPT ![t] = 1]
    /\ UNCHANGED <<program, code, owner, money, money_lock, read, size, raced, gaveup>>

Thread(t) == \/ Acquire(t) \/ TimeOut(t) \/ Release(t) \/ LoadMoney(t) \/ StoreMoney(t)
             \/ TestFlag(t) \/ SetFlag(t) \/ ClearFlag(t)
             \/ CheckQueue(t) \/ UseQueue(t) \/ Again(t)

Next == \E t \in Threads : Thread(t)

Fairness == \A t \in Threads : WF_vars(Thread(t))
Spec == Init /\ [][Next]_vars /\ Fairness

-----------------------------------------------------------------------------
(* Properties *)

AllEnded == \A t \in Threads : Ended(t)

\* When the threads have ended, money is the number of additions with the
\* mutex, whatever the switches.  With the home-made lock it is, unless both
\* threads saw money_lock free before either took it; and nothing is ever
\* counted twice, with or without a lock.
UpdatesKept ==
    /\ money <= Times[1] + Times[2]
    /\ AllEnded /\ money < Times[1] + Times[2]
          => \/ program \notin {"lock_my", "lock_mutex"}
             \/ program = "lock_my" /\ raced

\* No thread waits for ever except in deadlock, where each holds the lock the
\* other wants.  Giving up leaves one's own lock held, but a thread still
\* waiting for it gives up as well; a consumer that has seen more than Low
\* portions never finds the queue empty, although all of them look before any
\* of them eats.
Waits(t) == \/ Step(t)[1] = "acquire" /\ owner[Step(t)[2]] # None
            \/ Step(t)[1] = "get" /\ size = 0
StuckOnlyInEmbrace ==
    /\ (~AllEnded /\ \A t \in Threads : Ended(t) \/ Waits(t))
          => /\ program = "deadlock"
             /\ owner["my_lock"] = 1 /\ owner["your_lock"] = 2
    /\ \A t \in Threads : ~(Step(t)[1] = "get" /\ size = 0)

\* Every program that is meant to end does so, and leaves a lock held only when
\* its owner gave up; in synchronize the ball keeps going round.
EndsOrGoesRound ==
    /\ program \in {"global_alter", "lock_my", "lock_mutex", "deadlock_timeout"}
          ~> AllEnded /\ \A l \in Locks : owner[l] \in {None, 0} \cup gaveup
    /\ program = "synchronize" => \A t \in 1..3 : []<>(Step(t)[1] = "release")
=============================================================================
