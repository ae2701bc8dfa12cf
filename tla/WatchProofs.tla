---------------------------- MODULE WatchProofs ----------------------------
(***************************************************************************)
(* Proofs about Watch, for any number of threads and rounds and any limit. *)
(***************************************************************************)
EXTENDS Watch, FiniteSetTheorems, TLAPS

\* The owner of the mutex is the thread in its critical section.
Exclusion == \A t \in Thread : Holding(t) <=> mutex = t

\* What a thread is about to add to is still the value of count.
Current == \A t \in Thread : pc[t] = "store" => reg[t] = count

\* A thread that has not ended has a round left.
RoundLeft == \A t \in Inc : pc[t] # "exited" => i[t] < TCOUNT

\* The two parts of WaitsForLimit: what holds while the watcher sleeps, and what
\* holds when it adds.
Sleeps ==
    pc[Watcher] = "wait" =>
        count < COUNT_LIMIT \/ \E t \in Inc : pc[t] = "test" /\ count = COUNT_LIMIT
Adds == pc[Watcher] \in {"load", "store"} => count >= COUNT_LIMIT

IInv == TypeOK /\ Exclusion /\ Current /\ RoundLeft /\ WaitsForLimit /\ CountExact

LEMMA Initially == Init => IInv
<1> SUFFICES ASSUME Init PROVE IInv
  OBVIOUS
<1> USE WatchAssumption DEF Init, Thread
<1>1. TypeOK /\ Exclusion /\ Current /\ RoundLeft /\ WaitsForLimit
  BY DEF TypeOK, Exclusion, Current, RoundLeft, WaitsForLimit, Holding, IncPc, WatchPc
<1>2. Made = {}
  BY DEF Made, Rounds
<1>3. CountExact
  BY <1>2, FS_EmptySet DEF CountExact
<1> QED
  BY <1>1, <1>3 DEF IInv

LEMMA TypeStep == IInv /\ [Next]_vars => TypeOK'
<1> SUFFICES ASSUME IInv, [Next]_vars PROVE TypeOK'
  OBVIOUS
<1> USE WatchAssumption DEF IInv, TypeOK, RoundLeft, Thread, IncPc, WatchPc
<1>1. ASSUME NEW t \in Thread, Create(t) PROVE TypeOK'
  BY <1>1 DEF Create, Goto
<1>2. CASE Join
  BY <1>2 DEF Join
<1>3. ASSUME NEW t \in Inc, LockInc(t) PROVE TypeOK'
  BY <1>3 DEF LockInc, Goto
<1>4. ASSUME NEW t \in Thread, Load(t) PROVE TypeOK'
  BY <1>4 DEF Load, Goto
<1>5. ASSUME NEW t \in Inc, StoreInc(t) PROVE TypeOK'
  BY <1>5 DEF StoreInc, Goto
<1>6. ASSUME NEW t \in Inc, TestInc(t) PROVE TypeOK'
  BY <1>6 DEF TestInc
<1>7. ASSUME NEW t \in Inc, UnlockInc(t) PROVE TypeOK'
  BY <1>7 DEF UnlockInc, Goto
<1>8. CASE LockWatch
  BY <1>8 DEF LockWatch, Goto
<1>9. CASE TestWatch
  BY <1>9 DEF TestWatch, Goto
<1>10. CASE Spurious
  BY <1>10 DEF Spurious, Goto
<1>11. CASE Wake
  BY <1>11 DEF Wake, Goto
<1>12. CASE StoreWatch
  BY <1>12 DEF StoreWatch, Goto, BONUS
<1>13. CASE UnlockWatch
  BY <1>13 DEF UnlockWatch, Goto
<1>14. CASE UNCHANGED vars
  BY <1>14 DEF vars
<1> QED
  BY <1>1, <1>2, <1>3, <1>4, <1>5, <1>6, <1>7, <1>8, <1>9, <1>10, <1>11, <1>12,
     <1>13, <1>14
  DEF Next, MainStep, WatchStep, IncStep, Terminated

\* Only the owner of the mutex is in its critical section, and only it changes
\* count.
LEMMA LockStep == IInv /\ [Next]_vars => (Exclusion /\ Current /\ RoundLeft)'
<1> DEFINE Goal == (Exclusion /\ Current /\ RoundLeft)'
<1> SUFFICES ASSUME IInv, [Next]_vars PROVE Goal
  OBVIOUS
<1> USE WatchAssumption DEF IInv, TypeOK, Exclusion, Current, RoundLeft, Holding, Thread,
        IncPc, WatchPc
<1>1. ASSUME NEW t \in Thread, Create(t) PROVE Goal
  BY <1>1 DEF Create, Goto
<1>2. CASE Join
  BY <1>2 DEF Join
<1>3. ASSUME NEW t \in Inc, LockInc(t) PROVE Goal
  BY <1>3 DEF LockInc, Goto
<1>4. ASSUME NEW t \in Thread, Load(t) PROVE Goal
  BY <1>4 DEF Load, Goto
<1>5. ASSUME NEW t \in Inc, StoreInc(t) PROVE Goal
  BY <1>5 DEF StoreInc, Goto
<1>6. ASSUME NEW t \in Inc, TestInc(t) PROVE Goal
  BY <1>6 DEF TestInc
<1>7. ASSUME NEW t \in Inc, UnlockInc(t) PROVE Goal
  BY <1>7 DEF UnlockInc, Goto
<1>8. CASE LockWatch
  BY <1>8 DEF LockWatch, Goto
<1>9. CASE TestWatch
  BY <1>9 DEF TestWatch, Goto
<1>10. CASE Spurious
  BY <1>10 DEF Spurious, Goto
<1>11. CASE Wake
  BY <1>11 DEF Wake, Goto
<1>12. CASE StoreWatch
  BY <1>12 DEF StoreWatch, Goto, BONUS
<1>13. CASE UnlockWatch
  BY <1>13 DEF UnlockWatch, Goto
<1>14. CASE UNCHANGED vars
  BY <1>14 DEF vars
<1> QED
  BY <1>1, <1>2, <1>3, <1>4, <1>5, <1>6, <1>7, <1>8, <1>9, <1>10, <1>11, <1>12,
     <1>13, <1>14
  DEF Next, MainStep, WatchStep, IncStep, Terminated

\* The increment that reaches the limit finds count one below it, because an
\* earlier one would still hold the mutex.
LEMMA SignalStep == IInv /\ [Next]_vars => Sleeps'
<1> SUFFICES ASSUME IInv, [Next]_vars, pc'[Watcher] = "wait"
             PROVE  (count < COUNT_LIMIT \/ \E t \in Inc : pc[t] = "test" /\ count = COUNT_LIMIT)'
  BY DEF Sleeps
<1> DEFINE Goal ==
      (count < COUNT_LIMIT \/ \E t \in Inc : pc[t] = "test" /\ count = COUNT_LIMIT)'
<1> USE WatchAssumption DEF IInv, TypeOK, Thread, WaitsForLimit, Sleeps
<1>1. ASSUME NEW t \in Thread, Create(t) PROVE Goal
  BY <1>1 DEF Create, Goto
<1>2. CASE Join
  BY <1>2 DEF Join
<1>3. ASSUME NEW t \in Inc, LockInc(t) PROVE Goal
  BY <1>3 DEF LockInc, Goto
<1>4. ASSUME NEW t \in Thread, Load(t) PROVE Goal
  BY <1>4 DEF Load, Goto
<1>5. ASSUME NEW t \in Inc, StoreInc(t) PROVE Goal
  <2>1. pc[Watcher] = "wait" /\ pc'[t] = "test" /\ count' = count + 1
    BY <1>5 DEF StoreInc, Goto, Current
  <2>2. count < COUNT_LIMIT
    BY <1>5, <2>1 DEF StoreInc, Exclusion, Holding
  <2> QED
    BY <2>1, <2>2
<1>6. ASSUME NEW t \in Inc, TestInc(t) PROVE Goal
  <2>1. pc[Watcher] = "wait" /\ ~Reached /\ count' = count
    BY <1>6 DEF TestInc
  <2> QED
    BY <2>1 DEF Reached
<1>7. ASSUME NEW t \in Inc, UnlockInc(t) PROVE Goal
  BY <1>7 DEF UnlockInc, Goto
<1>8. CASE LockWatch
  BY <1>8 DEF LockWatch, Goto
<1>9. CASE TestWatch
  BY <1>9 DEF TestWatch, Goto
<1>10. CASE Spurious
  BY <1>10 DEF Spurious, Goto
<1>11. CASE Wake
  BY <1>11 DEF Wake, Goto
<1>12. CASE StoreWatch
  BY <1>12 DEF StoreWatch, Goto
<1>13. CASE UnlockWatch
  BY <1>13 DEF UnlockWatch, Goto
<1>14. CASE UNCHANGED vars
  BY <1>14 DEF vars
<1> QED
  BY <1>1, <1>2, <1>3, <1>4, <1>5, <1>6, <1>7, <1>8, <1>9, <1>10, <1>11, <1>12,
     <1>13, <1>14
  DEF Next, MainStep, WatchStep, IncStep, Terminated

\* Only the watcher's own test leads to the addition, and no thread but the
\* watcher changes count before it is made.
LEMMA AddStep == IInv /\ [Next]_vars => Adds'
<1> SUFFICES ASSUME IInv, [Next]_vars, pc'[Watcher] \in {"load", "store"}
             PROVE  (count >= COUNT_LIMIT)'
  BY DEF Adds
<1> DEFINE Goal == (count >= COUNT_LIMIT)'
<1> USE WatchAssumption DEF IInv, TypeOK, Thread, WaitsForLimit
<1>1. ASSUME NEW t \in Thread, Create(t) PROVE Goal
  BY <1>1 DEF Create, Goto
<1>2. CASE Join
  BY <1>2 DEF Join
<1>3. ASSUME NEW t \in Inc, LockInc(t) PROVE Goal
  BY <1>3 DEF LockInc, Goto
<1>4. ASSUME NEW t \in Thread, Load(t) PROVE Goal
  BY <1>4 DEF Load, Goto
<1>5. ASSUME NEW t \in Inc, StoreInc(t) PROVE Goal
  BY <1>5 DEF StoreInc, Goto, Current
<1>6. ASSUME NEW t \in Inc, TestInc(t) PROVE Goal
  BY <1>6 DEF TestInc
<1>7. ASSUME NEW t \in Inc, UnlockInc(t) PROVE Goal
  BY <1>7 DEF UnlockInc, Goto
<1>8. CASE LockWatch
  BY <1>8 DEF LockWatch, Goto
<1>9. CASE TestWatch
  BY <1>9 DEF TestWatch, Goto
<1>10. CASE Spurious
  BY <1>10 DEF Spurious, Goto
<1>11. CASE Wake
  BY <1>11 DEF Wake, Goto
<1>12. CASE StoreWatch
  BY <1>12 DEF StoreWatch, Goto
<1>13. CASE UnlockWatch
  BY <1>13 DEF UnlockWatch, Goto
<1>14. CASE UNCHANGED vars
  BY <1>14 DEF vars
<1> QED
  BY <1>1, <1>2, <1>3, <1>4, <1>5, <1>6, <1>7, <1>8, <1>9, <1>10, <1>11, <1>12,
     <1>13, <1>14
  DEF Next, MainStep, WatchStep, IncStep, Terminated

LEMMA MadeIsFinite == IsFiniteSet(Made) /\ Cardinality(Made) \in Nat
<1>1. 1 \in Int /\ TCOUNT \in Int /\ IsFiniteSet(Inc)
  BY WatchAssumption
<1>2. IsFiniteSet(1 .. TCOUNT)
  BY ONLY <1>1, FS_Interval
<1>3. IsFiniteSet(Inc \X (1 .. TCOUNT))
  BY ONLY <1>1, <1>2, FS_Product
<1>4. Made \subseteq Inc \X (1 .. TCOUNT)
  BY DEF Made
<1>5. IsFiniteSet(Made)
  BY ONLY <1>3, <1>4, FS_Subset
<1> QED
  BY ONLY <1>5, FS_CardinalityType

\* An increment is counted when it is stored, by the value that was loaded.
LEMMA CountStep == IInv /\ [Next]_vars => CountExact'
<1> SUFFICES ASSUME IInv, [Next]_vars PROVE CountExact'
  OBVIOUS
<1> USE WatchAssumption DEF IInv, TypeOK, Thread
<1>0. IsFiniteSet(Made) /\ Cardinality(Made) \in Nat
  BY MadeIsFinite
<1> DEFINE Ended == pc[Watcher] \in {"unlock", "exited"}
<1>a. ASSUME \A t \in Inc : Rounds(t)' = Rounds(t), Ended' <=> Ended, count' = count
      PROVE  CountExact'
  <2>1. Made' = Made
    BY <1>a DEF Made
  <2> QED
    BY <1>a, <2>1 DEF CountExact
<1>1. ASSUME NEW t \in Thread, Create(t) PROVE CountExact'
  BY <1>1, <1>a DEF Create, Goto, Rounds
<1>2. CASE Join
  BY <1>2, <1>a DEF Join, Rounds
<1>3. ASSUME NEW t \in Inc, LockInc(t) PROVE CountExact'
  BY <1>3, <1>a DEF LockInc, Goto, Rounds
<1>4. ASSUME NEW t \in Thread, Load(t) PROVE CountExact'
  BY <1>4, <1>a DEF Load, Goto, Rounds
<1>5. ASSUME NEW t \in Inc, StoreInc(t) PROVE CountExact'
  <2>1. /\ Rounds(t) = i[t] /\ Rounds(t)' = i[t] + 1
        /\ \A u \in Inc \ {t} : Rounds(u)' = Rounds(u)
    BY <1>5 DEF StoreInc, Goto, Rounds
  <2>2. i[t] + 1 \in 1 .. TCOUNT
    BY <1>5 DEF StoreInc, RoundLeft
  <2>3. \A u \in Inc : Rounds(u) \in Nat
    BY DEF Rounds
  <2>4. Made' = Made \cup {<<t, i[t] + 1>>}
    BY <2>1, <2>2, <2>3 DEF Made
  <2>5. <<t, i[t] + 1>> \notin Made
    BY <2>1 DEF Made
  <2>6. Cardinality(Made') = Cardinality(Made) + 1
    BY <1>0, <2>4, <2>5, FS_AddElement
  <2>7. count' = count + 1 /\ (Ended' <=> Ended)
    BY <1>5 DEF StoreInc, Goto, Current
  <2> QED
    BY <1>0, <2>6, <2>7 DEF CountExact, BONUS
<1>6. ASSUME NEW t \in Inc, TestInc(t) PROVE CountExact'
  BY <1>6, <1>a DEF TestInc, Rounds
<1>7. ASSUME NEW t \in Inc, UnlockInc(t) PROVE CountExact'
  BY <1>7, <1>a DEF UnlockInc, Goto, Rounds
<1>8. CASE LockWatch
  BY <1>8, <1>a DEF LockWatch, Goto, Rounds
<1>9. CASE TestWatch
  BY <1>9, <1>a DEF TestWatch, Goto, Rounds
<1>10. CASE Spurious
  BY <1>10, <1>a DEF Spurious, Goto, Rounds
<1>11. CASE Wake
  BY <1>11, <1>a DEF Wake, Goto, Rounds
<1>12. CASE StoreWatch
  <2>1. \A t \in Inc : Rounds(t)' = Rounds(t)
    BY <1>12 DEF StoreWatch, Goto, Rounds
  <2>2. Made' = Made
    BY <2>1 DEF Made
  <2>3. count' = count + BONUS /\ ~Ended /\ Ended'
    BY <1>12 DEF StoreWatch, Goto, Current
  <2> QED
    BY <1>0, <2>2, <2>3 DEF CountExact, BONUS
<1>13. CASE UnlockWatch
  BY <1>13, <1>a DEF UnlockWatch, Goto, Rounds
<1>14. CASE UNCHANGED vars
  BY <1>14, <1>a DEF vars, Rounds
<1> QED
  BY <1>1, <1>2, <1>3, <1>4, <1>5, <1>6, <1>7, <1>8, <1>9, <1>10, <1>11, <1>12,
     <1>13, <1>14
  DEF Next, MainStep, WatchStep, IncStep, Terminated

LEMMA WatchInvariance == Spec => []IInv
<1>1. IInv /\ [Next]_vars => IInv'
  BY TypeStep, LockStep, SignalStep, AddStep, CountStep
  DEF IInv, WaitsForLimit, Sleeps, Adds
<1> QED
  BY Initially, <1>1, PTL DEF Spec

\* The counter, the registers and the rounds of cond_var_ex1.c keep their types,
\* and no thread makes more than TCOUNT rounds (lines 25-43).
THEOREM WatchTypes == Spec => []TypeOK
<1>1. IInv => TypeOK
  BY DEF IInv
<1> QED
  BY <1>1, WatchInvariance, PTL

\* No increment is lost and none is counted twice (lines 26-39, 60-71).
THEOREM NothingIsLost == Spec => []CountExact
<1>1. IInv => CountExact
  BY DEF IInv
<1> QED
  BY <1>1, WatchInvariance, PTL

\* The watcher never sleeps through the limit and never adds before it, whatever
\* the number of threads, of rounds and the limit (lines 31, 61-70).
THEOREM WatcherWaitsForLimit == Spec => []WaitsForLimit
<1>1. IInv => WaitsForLimit
  BY DEF IInv
<1> QED
  BY <1>1, WatchInvariance, PTL
=============================================================================
