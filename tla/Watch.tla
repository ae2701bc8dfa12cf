------------------------------- MODULE Watch -------------------------------
(***************************************************************************)
(* rec09-mutex/cond_var_ex1.c: threads that increment a counter, and one   *)
(* that waits on a condition variable until the counter has reached a      *)
(* limit.  The increment and the addition are a load and a store, so that  *)
(* the mutex is what makes them exact.                                     *)
(***************************************************************************)
EXTENDS Naturals, FiniteSets

CONSTANTS
    Inc,          \* the threads that run inc_count
    Watcher,      \* the thread that runs watch_count
    TCOUNT, COUNT_LIMIT,
    Free          \* the owner of a mutex that nobody holds

Thread == Inc \cup {Watcher}

BONUS == 125

ASSUME WatchAssumption ==
    /\ IsFiniteSet(Inc) /\ Watcher \notin Inc /\ Free \notin Thread
    /\ TCOUNT \in Nat \ {0} /\ COUNT_LIMIT \in Nat
    /\ COUNT_LIMIT <= Cardinality(Inc) * TCOUNT

VARIABLES
    main_pc,  \* main(): creating, joining or gone
    pc,       \* control of the threads
    mutex,    \* the owner of count_mutex
    count,
    reg,      \* the register between a load and a store of count
    i         \* the loop counters of inc_count
vars == <<main_pc, pc, mutex, count, reg, i>>

IncPc == {"unborn", "lock", "load", "store", "test", "unlock", "exited"}
WatchPc == IncPc \cup {"wait", "woken"}

Init ==
    /\ main_pc = "create" /\ pc = [t \in Thread |-> "unborn"]
    /\ mutex = Free /\ count = 0
    /\ reg = [t \in Thread |-> 0] /\ i = [t \in Inc |-> 0]

Goto(t, label) == pc' = [pc EXCEPT ![t] = label]

\* pthread_create: the watcher first, then the others.
Create(t) ==
    /\ main_pc = "create" /\ pc[t] = "unborn"
    /\ t \in Inc => pc[Watcher] # "unborn"
    /\ Goto(t, "lock")
    /\ main_pc' = IF \A u \in Thread \ {t} : pc[u] # "unborn" THEN "join" ELSE "create"
    /\ UNCHANGED <<mutex, count, reg, i>>

\* pthread_join of every thread.
Join ==
    /\ main_pc = "join" /\ \A t \in Thread : pc[t] = "exited"
    /\ main_pc' = "exited"
    /\ UNCHANGED <<pc, mutex, count, reg, i>>

-----------------------------------------------------------------------------
(***************************************************************************)
(* inc_count                                                               *)
(***************************************************************************)
\* Mutant: the increment is not protected.
LockIncNot(t) ==
    /\ pc[t] = "lock" /\ Goto(t, "load")
    /\ UNCHANGED <<main_pc, mutex, count, reg, i>>

LockInc(t) ==
    /\ pc[t] = "lock" /\ mutex = Free
    /\ mutex' = t /\ Goto(t, "load")
    /\ UNCHANGED <<main_pc, count, reg, i>>

Load(t) ==
    /\ pc[t] = "load"
    /\ reg' = [reg EXCEPT ![t] = count] /\ Goto(t, "store")
    /\ UNCHANGED <<main_pc, mutex, count, i>>

StoreInc(t) ==
    /\ pc[t] = "store"
    /\ count' = reg[t] + 1 /\ Goto(t, "test")
    /\ UNCHANGED <<main_pc, mutex, reg, i>>

Reached == count = COUNT_LIMIT

\* The increment that reaches the limit signals the watcher, if it waits.
TestInc(t) ==
    /\ pc[t] = "test"
    /\ pc' = [pc EXCEPT ![t] = "unlock",
                        ![Watcher] = IF Reached /\ @ = "wait" THEN "woken" ELSE @]
    /\ UNCHANGED <<main_pc, mutex, count, reg, i>>

\* Mutant: one round too many.
UnlockIncMore(t) ==
    /\ pc[t] = "unlock"
    /\ mutex' = Free /\ i' = [i EXCEPT ![t] = @ + 1]
    /\ Goto(t, IF i[t] + 1 <= TCOUNT THEN "lock" ELSE "exited")
    /\ UNCHANGED <<main_pc, count, reg>>

UnlockInc(t) ==
    /\ pc[t] = "unlock"
    /\ mutex' = Free /\ i' = [i EXCEPT ![t] = @ + 1]
    /\ Goto(t, IF i[t] + 1 < TCOUNT THEN "lock" ELSE "exited")
    /\ UNCHANGED <<main_pc, count, reg>>

IncStep(t) == LockInc(t) \/ Load(t) \/ StoreInc(t) \/ TestInc(t) \/ UnlockInc(t)

-----------------------------------------------------------------------------
(***************************************************************************)
(* watch_count                                                             *)
(***************************************************************************)
LockWatch ==
    /\ pc[Watcher] = "lock" /\ mutex = Free
    /\ mutex' = Watcher /\ Goto(Watcher, "test")
    /\ UNCHANGED <<main_pc, count, reg, i>>

\* Mutant: the mutex is released before the thread sleeps.
TestWatchTorn ==
    /\ pc[Watcher] = "test"
    /\ \/ count < COUNT_LIMIT /\ mutex = Watcher /\ mutex' = Free /\ UNCHANGED pc
       \/ mutex # Watcher /\ Goto(Watcher, "wait") /\ UNCHANGED mutex
       \/ count >= COUNT_LIMIT /\ Goto(Watcher, "load") /\ UNCHANGED mutex
    /\ UNCHANGED <<main_pc, count, reg, i>>

\* The loop: below the limit pthread_cond_wait releases the mutex and sleeps.
TestWatch ==
    /\ pc[Watcher] = "test"
    /\ \/ count < COUNT_LIMIT /\ mutex' = Free /\ Goto(Watcher, "wait")
       \/ count >= COUNT_LIMIT /\ Goto(Watcher, "load") /\ UNCHANGED mutex
    /\ UNCHANGED <<main_pc, count, reg, i>>

\* pthread_cond_wait may return without a signal.
Spurious ==
    /\ pc[Watcher] = "wait" /\ Goto(Watcher, "woken")
    /\ UNCHANGED <<main_pc, mutex, count, reg, i>>

\* Mutant: an if in place of the while: the woken thread does not test again.
WakeOnce ==
    /\ pc[Watcher] = "woken" /\ mutex = Free
    /\ mutex' = Watcher /\ Goto(Watcher, "load")
    /\ UNCHANGED <<main_pc, count, reg, i>>

\* It returns with the mutex, and the loop tests again.
Wake ==
    /\ pc[Watcher] = "woken" /\ mutex = Free
    /\ mutex' = Watcher /\ Goto(Watcher, "test")
    /\ UNCHANGED <<main_pc, count, reg, i>>

StoreWatch ==
    /\ pc[Watcher] = "store"
    /\ count' = reg[Watcher] + BONUS /\ Goto(Watcher, "unlock")
    /\ UNCHANGED <<main_pc, mutex, reg, i>>

UnlockWatch ==
    /\ pc[Watcher] = "unlock"
    /\ mutex' = Free /\ Goto(Watcher, "exited")
    /\ UNCHANGED <<main_pc, count, reg, i>>

WatchStep ==
    LockWatch \/ TestWatch \/ Wake \/ Load(Watcher) \/ StoreWatch \/ UnlockWatch

MainStep == Join \/ \E t \in Thread : Create(t)

Terminated == main_pc = "exited" /\ UNCHANGED vars

Next ==
    \/ MainStep \/ WatchStep \/ Spurious \/ Terminated
    \/ \E t \in Inc : IncStep(t)

Spec == Init /\ [][Next]_vars

\* The scheduler runs every thread that can run, and a thread that asks for the
\* mutex gets it when it is free again and again: returns without a signal do not
\* starve the others.  Nothing is assumed of those returns themselves.
FairSpec ==
    /\ Spec /\ WF_vars(MainStep) /\ WF_vars(WatchStep)
    /\ \A t \in Inc : SF_vars(IncStep(t))

-----------------------------------------------------------------------------
(***************************************************************************)
(* Properties                                                              *)
(***************************************************************************)
TypeOK ==
    /\ main_pc \in {"create", "join", "exited"}
    /\ pc \in [Thread -> WatchPc] /\ \A t \in Inc : pc[t] \in IncPc
    /\ mutex \in Thread \cup {Free}
    /\ count \in Nat /\ reg \in [Thread -> Nat] /\ i \in [Inc -> 0 .. TCOUNT]

\* The threads inside a critical section.
Holding(t) == pc[t] \in {"load", "store", "test", "unlock"}

\* The increments made so far: round k of thread t.
Rounds(t) == i[t] + (IF pc[t] \in {"test", "unlock"} THEN 1 ELSE 0)
Made == {r \in Inc \X (1 .. TCOUNT) : r[2] <= Rounds(r[1])}

\* No increment is lost: count is the number of increments made so far, plus
\* what the watcher has added (lines 27, 70).
CountExact ==
    count = Cardinality(Made) + (IF pc[Watcher] \in {"unlock", "exited"} THEN BONUS ELSE 0)

\* The watcher waits for the limit and no longer.  While it sleeps, count is below
\* the limit, or the thread that reached it has yet to signal: the test for
\* equality is enough because no increment can pass the limit in between (lines
\* 31, 61).  And it adds only to a counter that has reached the limit, however
\* often pthread_cond_wait has returned without a signal before (lines 61-70).
WaitsForLimit ==
    /\ pc[Watcher] = "wait" =>
          count < COUNT_LIMIT \/ \E t \in Inc : pc[t] = "test" /\ count = COUNT_LIMIT
    /\ pc[Watcher] \in {"load", "store"} => count >= COUNT_LIMIT

\* "to prevent pthread_cond_wait from never returning" (lines 57-58): all threads
\* end, whenever the watcher starts.
AllJoined == <>(main_pc = "exited")
=============================================================================
