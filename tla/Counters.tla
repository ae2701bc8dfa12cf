------------------------------ MODULE Counters ------------------------------
(***************************************************************************)
(* The programs of rec08-threads and rec09-mutex in which threads share a  *)
(* counter: mutex_ex1 and mutex_ex3 have an atomic one, mutex_ex2 a mutex, *)
(* 5_expert_thread neither, and 3_intermediate_thread a single thread that *)
(* increments a variable of main().  They start and join their threads in  *)
(* the same way.                                                           *)
(***************************************************************************)
EXTENDS Integers, FiniteSets

CONSTANTS
    NUM_THREADS,
    ROUNDS,   \* of the loops of mutex_ex1 and mutex_ex2
    TOTAL,    \* of mutex_ex3
    Free      \* the owner of a mutex that nobody holds

CountProgram ==
    {"mutex_ex1", "mutex_ex2", "mutex_ex3", "intermediate_thread", "expert_thread"}

ASSUME CountersAssumption ==
    /\ NUM_THREADS \in Nat \ {0} /\ ROUNDS \in Nat \ {0} /\ TOTAL \in Nat \ {0, 1}
    /\ Free \notin 1 .. NUM_THREADS

VARIABLES
    program,       \* the program that runs
    main_pc, next, \* control of main() and the index of its loops
    pc, i,         \* control of the threads and their rounds
    val,           \* what a thread has read of the counter
    counter, lock,
    printed        \* how often mutex_ex3 has printed each number
countVars == <<program, main_pc, next, pc, i, val, counter, lock, printed>>

Threads == IF program = "intermediate_thread" THEN 1 ELSE NUM_THREADS
Thread == 1 .. NUM_THREADS

\* The largest number mutex_ex3 hands out.
Last == TOTAL + NUM_THREADS - 1

FirstValue ==
    CASE program = "mutex_ex3" -> 1
      [] program = "intermediate_thread" -> 5
      [] OTHER -> 0

CountStart ==
    /\ main_pc = (IF program \in CountProgram THEN "create" ELSE "done") /\ next = 1
    /\ pc = [t \in Thread |-> "unborn"] /\ i = [t \in Thread |-> 0]
    /\ val = [t \in Thread |-> 0]
    /\ counter = FirstValue /\ lock = Free
    /\ printed = [n \in 2 .. Last + 1 |-> 0]

-----------------------------------------------------------------------------
(***************************************************************************)
(* main()                                                                  *)
(***************************************************************************)
\* The first statement of a thread that shares the counter with nothing but luck
\* is the load.
FirstPc == IF program \in {"intermediate_thread", "expert_thread"} THEN "load" ELSE "loop"

Advance(here, there) ==
    /\ next' = IF next = Threads THEN 1 ELSE next + 1
    /\ main_pc' = IF next = Threads THEN there ELSE here

Create ==
    /\ main_pc = "create"
    /\ pc' = [pc EXCEPT ![next] = FirstPc]
    /\ Advance("create", "join")
    /\ UNCHANGED <<program, i, val, counter, lock, printed>>

\* pthread_join, in the order of creation.
Join ==
    /\ main_pc = "join" /\ pc[next] = "exited"
    /\ Advance("join", "done")
    /\ UNCHANGED <<program, pc, i, val, counter, lock, printed>>

-----------------------------------------------------------------------------
(***************************************************************************)
(* The threads                                                             *)
(***************************************************************************)
At(t, label) == main_pc \in {"create", "join"} /\ pc[t] = label

Goto(t, label) == pc' = [pc EXCEPT ![t] = label]

\* The end of a round of mutex_ex1 or mutex_ex2.
EndRound(t) ==
    /\ i' = [i EXCEPT ![t] = @ + 1]
    /\ Goto(t, IF i[t] + 1 < ROUNDS THEN "loop" ELSE "exited")

\* mutex_ex1: ++counter is one atomic operation.
AtomicIncrement(t) ==
    /\ program = "mutex_ex1" /\ At(t, "loop")
    /\ counter' = counter + 1 /\ EndRound(t)
    /\ UNCHANGED <<program, main_pc, next, val, lock, printed>>

\* Mutant: the mutex is not taken.
LockNot(t) ==
    /\ program = "mutex_ex2" /\ At(t, "loop") /\ Goto(t, "load")
    /\ UNCHANGED <<program, main_pc, next, i, val, counter, lock, printed>>

Lock(t) ==
    /\ program = "mutex_ex2" /\ At(t, "loop") /\ lock = Free
    /\ lock' = t /\ Goto(t, "load")
    /\ UNCHANGED <<program, main_pc, next, i, val, counter, printed>>

\* An increment of a plain variable is a load and a store.
Load(t) ==
    /\ At(t, "load")
    /\ val' = [val EXCEPT ![t] = counter] /\ Goto(t, "store")
    /\ UNCHANGED <<program, main_pc, next, i, counter, lock, printed>>

Store(t) ==
    /\ At(t, "store")
    /\ counter' = val[t] + 1
    /\ Goto(t, IF program = "mutex_ex2" THEN "unlock" ELSE "exited")
    /\ UNCHANGED <<program, main_pc, next, i, val, lock, printed>>

\* Mutant: the last round keeps the mutex.
UnlockNot(t) ==
    /\ At(t, "unlock")
    /\ lock' = (IF i[t] + 1 < ROUNDS THEN Free ELSE lock) /\ EndRound(t)
    /\ UNCHANGED <<program, main_pc, next, val, counter, printed>>

Unlock(t) ==
    /\ At(t, "unlock")
    /\ lock' = Free /\ EndRound(t)
    /\ UNCHANGED <<program, main_pc, next, val, counter, printed>>

\* mutex_ex3's test: trial division by 2 .. x/2 - 1.
is_prime(x) == \A k \in 2 .. (x \div 2) - 1 : x % k # 0

next_counter(t) ==
    /\ counter' = counter + 1
    /\ val' = [val EXCEPT ![t] = counter + 1]

\* Mutant: the loop goes on at TOTAL.
MoreNumbersLate(t) == val[t] <= TOTAL

MoreNumbers(t) == val[t] < TOTAL

\* One round of prime_print: take a number, then test and print it.
TakeNumber(t) ==
    /\ program = "mutex_ex3" /\ At(t, "loop") /\ MoreNumbers(t)
    /\ next_counter(t) /\ Goto(t, "test")
    /\ UNCHANGED <<program, main_pc, next, i, lock, printed>>

TestNumber(t) ==
    /\ At(t, "test")
    /\ printed' = IF is_prime(val[t]) THEN [printed EXCEPT ![val[t]] = @ + 1] ELSE printed
    /\ Goto(t, "loop")
    /\ UNCHANGED <<program, main_pc, next, i, val, counter, lock>>

PrimeEnd(t) ==
    /\ program = "mutex_ex3" /\ At(t, "loop") /\ ~MoreNumbers(t)
    /\ Goto(t, "exited")
    /\ UNCHANGED <<program, main_pc, next, i, val, counter, lock, printed>>

prime_print(t) == TakeNumber(t) \/ TestNumber(t) \/ PrimeEnd(t)

thread_func(t) == Load(t) \/ Store(t)

ThreadStep(t) == AtomicIncrement(t) \/ Unlock(t) \/ thread_func(t) \/ prime_print(t)

MainStep == Create \/ Join

\* A call of main() fails: pthread_mutex_init, pthread_create, or pthread_join,
\* whose result the programs of rec08-threads do not look at.
MainCallFails ==
    \/ main_pc = "create"
    \/ main_pc = "join" /\ program \in {"mutex_ex1", "mutex_ex2", "mutex_ex3"}

\* pthread_mutex_lock or pthread_mutex_unlock fails.
LockCallFails(t) == program = "mutex_ex2" /\ (At(t, "loop") \/ At(t, "unlock"))

\* exit() ends main() and every thread, wherever they are.
ExitFails ==
    /\ MainCallFails \/ \E t \in Thread : LockCallFails(t)
    /\ main_pc' = "failed"
    /\ UNCHANGED <<program, next, pc, i, val, counter, lock, printed>>

CountDone == main_pc \in {"done", "failed"}

CountNext == MainStep \/ ExitFails \/ \E t \in Thread : Lock(t) \/ ThreadStep(t)

-----------------------------------------------------------------------------
(***************************************************************************)
(* Properties                                                              *)
(***************************************************************************)
\* What main() prints at the end: every increment of the atomic and of the locked
\* counter, and of the plain one any number of them from one up, because threads
\* overwrite each other's stores (5_expert_thread.c:11-16, mutex_ex1.c:62,
\* mutex_ex2.c:85, 3_intermediate_thread.c:34-35).
FinalCount ==
    main_pc = "done" =>
        CASE program \in {"mutex_ex1", "mutex_ex2"} -> counter = NUM_THREADS * ROUNDS
          [] program = "expert_thread" -> counter \in 1 .. NUM_THREADS
          [] program = "intermediate_thread" -> counter = 6
          [] OTHER -> TRUE

\* A prime by the definition.
Prime(n) == n >= 2 /\ \A k \in 2 .. n - 1 : n % k # 0

\* mutex_ex3 ends with the numbers up to TOTAL + NUM_THREADS - 1 handed out, each
\* to one thread, so that it has printed once every prime up to there, and 4, which
\* its trial division takes for a prime (lines 26, 42-48).
PrimesFound ==
    main_pc = "done" /\ program = "mutex_ex3" =>
        /\ counter = Last
        /\ \A n \in DOMAIN printed :
               printed[n] = IF n <= Last /\ (Prime(n) \/ n = 4) THEN 1 ELSE 0

\* main() joins all threads, or a call that fails ends the program: the mutex of
\* mutex_ex2 is released in every round, and every thread of mutex_ex3 is given a
\* number that ends its loop.
ThreadsJoined == main_pc = "create" ~> CountDone
=============================================================================
