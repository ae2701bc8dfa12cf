------------------------- MODULE RecitationsProofs -------------------------
(***************************************************************************)
(* Proofs about the programs of Counters and Exchange, for any number of   *)
(* threads and rounds, any length of the messages and any size of the      *)
(* buffers and the pipe.                                                   *)
(***************************************************************************)
EXTENDS Recitations, FiniteSetTheorems, SequenceTheorems, TLAPS

-----------------------------------------------------------------------------
(***************************************************************************)
(* Counters: control                                                       *)
(***************************************************************************)
Locking == {"load", "store", "unlock"}

PcOf ==
    CASE program = "mutex_ex1" -> {"unborn", "loop", "exited"}
      [] program = "mutex_ex2" -> {"unborn", "loop", "exited"} \cup Locking
      [] program = "mutex_ex3" -> {"unborn", "loop", "test", "exited"}
      [] program \in {"intermediate_thread", "expert_thread"} ->
             {"unborn", "load", "store", "exited"}
      [] OTHER -> {"unborn"}

CountTypes ==
    /\ program \in CountProgram \cup {"none"}
    /\ main_pc \in {"create", "join", "done", "failed"} /\ next \in 1 .. Threads
    /\ pc \in [Thread -> PcOf] /\ i \in [Thread -> Nat] /\ val \in [Thread -> Nat]
    /\ counter \in Nat /\ lock \in Thread \cup {Free} /\ printed \in [2 .. Last + 1 -> Nat]

\* main() starts and joins the threads in the order of their numbers.
MainInv ==
    /\ program = "none" => main_pc = "done"
    /\ \A t \in Thread : pc[t] # "unborn" => t <= Threads
    /\ main_pc = "create" => \A t \in Thread : pc[t] # "unborn" <=> t < next
    /\ main_pc = "join" => \A t \in Thread : /\ t <= Threads => pc[t] # "unborn"
                                             /\ t < next => pc[t] = "exited"
    /\ main_pc = "done" /\ program # "none" =>
           \A t \in Thread : t <= Threads => pc[t] = "exited"

Control == CountTypes /\ MainInv

LEMMA ThreadsSome == Threads \in 1 .. NUM_THREADS
BY CountersAssumption DEF Threads

LEMMA ControlInit == Init => Control
<1> SUFFICES ASSUME Init PROVE Control
  OBVIOUS
<1> USE CountersAssumption, ThreadsSome DEF Init, CountStart, CountProgram
<1>1. CountTypes
  BY DEF CountTypes, PcOf, Thread, FirstValue, Last
<1>2. MainInv
  BY DEF MainInv, Thread
<1> QED
  BY <1>1, <1>2 DEF Control

\* What a step of Recitations is for the variables of Counters.
LEMMA CountSteps ==
    ASSUME [Next]_vars
    PROVE  \/ Create \/ Join \/ ExitFails \/ UNCHANGED countVars
           \/ \E t \in Thread :
                  \/ AtomicIncrement(t) \/ Lock(t) \/ Unlock(t) \/ Load(t) \/ Store(t)
                  \/ TakeNumber(t) \/ TestNumber(t) \/ PrimeEnd(t)
BY DEF Next, vars, CountNext, MainStep, ThreadStep, thread_func, prime_print

\* Adding one to an entry, or to none, keeps a table of counts.
LEMMA BumpTyped ==
    ASSUME NEW S, NEW f \in [S -> Nat], NEW v
    PROVE  [f EXCEPT ![v] = @ + 1] \in [S -> Nat]
<1> DEFINE g == [f EXCEPT ![v] = @ + 1]
<1>1. g = [n \in S |-> IF n = v THEN f[n] + 1 ELSE f[n]]
  OBVIOUS
<1>2. \A n \in S : (IF n = v THEN f[n] + 1 ELSE f[n]) \in Nat
  OBVIOUS
<1> HIDE DEF g
<1>3. g \in [S -> Nat]
  BY <1>1, <1>2
<1> QED
  BY <1>3 DEF g

\* A thread that goes on to a location of its program, and what it stores has its
\* type.
LEMMA MoveTyped ==
    ASSUME CountTypes, NEW t \in Thread, NEW l \in PcOf, Goto(t, l),
           UNCHANGED <<program, main_pc, next>>,
           i' \in [Thread -> Nat], val' \in [Thread -> Nat], counter' \in Nat,
           lock' \in Thread \cup {Free}, printed' \in [2 .. Last + 1 -> Nat]
    PROVE  CountTypes'
<1>1. Threads' = Threads
  BY DEF Threads
<1>2. PcOf' = PcOf
  BY DEF PcOf
<1>3. pc' \in [Thread -> PcOf]
  BY DEF Goto, CountTypes
<1> QED
  BY <1>1, <1>2, <1>3 DEF CountTypes

LEMMA TypesStep ==
    ASSUME Control, [Next]_vars
    PROVE  CountTypes'
<1> USE CountersAssumption, ThreadsSome DEF Control, CountTypes
<1>1. CASE Create
  <2>1. pc' \in [Thread -> PcOf']
    <3>1. FirstPc \in PcOf /\ PcOf' = PcOf
      BY <1>1 DEF Create, FirstPc, PcOf, Locking, CountProgram, MainInv
    <3> QED
      BY <1>1, <3>1 DEF Create
  <2>2. next' \in 1 .. Threads' /\ main_pc' \in {"create", "join", "done", "failed"}
    BY <1>1 DEF Create, Advance, Threads
  <2> QED
    BY <1>1, <2>1, <2>2 DEF Create
<1>2. CASE Join
  <2>1. PcOf' = PcOf /\ next' \in 1 .. Threads'
    BY <1>2 DEF Join, Advance, Threads, PcOf
  <2> QED
    BY <1>2, <2>1 DEF Join, Advance
<1>3. CASE ExitFails
  BY <1>3 DEF ExitFails, PcOf, Threads
<1>4. CASE UNCHANGED countVars
  BY <1>4 DEF countVars, PcOf, Threads
<1>5. ASSUME NEW t \in Thread, AtomicIncrement(t) PROVE CountTypes'
  <2>1. (IF i[t] + 1 < ROUNDS THEN "loop" ELSE "exited") \in PcOf
    BY <1>5 DEF AtomicIncrement, At, PcOf
  <2>2. Goto(t, (IF i[t] + 1 < ROUNDS THEN "loop" ELSE "exited")) /\ UNCHANGED <<program, main_pc, next>>
    BY <1>5 DEF AtomicIncrement, EndRound
  <2>3. /\ i' \in [Thread -> Nat] /\ val' \in [Thread -> Nat]
        /\ counter' \in Nat /\ lock' \in Thread \cup {Free}
    BY <1>5 DEF AtomicIncrement, EndRound
  <2>4. printed' \in [2 .. Last + 1 -> Nat]
    BY <1>5 DEF AtomicIncrement, EndRound
  <2> QED
    BY <2>1, <2>2, <2>3, <2>4, MoveTyped
<1>6. ASSUME NEW t \in Thread, Lock(t) PROVE CountTypes'
  <2>1. "load" \in PcOf
    BY <1>6 DEF Lock, At, PcOf, Locking
  <2>2. Goto(t, "load") /\ UNCHANGED <<program, main_pc, next>>
    BY <1>6 DEF Lock
  <2>3. /\ i' \in [Thread -> Nat] /\ val' \in [Thread -> Nat]
        /\ counter' \in Nat /\ lock' \in Thread \cup {Free}
    BY <1>6 DEF Lock
  <2>4. printed' \in [2 .. Last + 1 -> Nat]
    BY <1>6 DEF Lock
  <2> QED
    BY <2>1, <2>2, <2>3, <2>4, MoveTyped
<1>7. ASSUME NEW t \in Thread, Unlock(t) PROVE CountTypes'
  <2>1. (IF i[t] + 1 < ROUNDS THEN "loop" ELSE "exited") \in PcOf
    BY <1>7 DEF Unlock, At, PcOf, Locking
  <2>2. Goto(t, (IF i[t] + 1 < ROUNDS THEN "loop" ELSE "exited")) /\ UNCHANGED <<program, main_pc, next>>
    BY <1>7 DEF Unlock, EndRound
  <2>3. /\ i' \in [Thread -> Nat] /\ val' \in [Thread -> Nat]
        /\ counter' \in Nat /\ lock' \in Thread \cup {Free}
    BY <1>7 DEF Unlock, EndRound
  <2>4. printed' \in [2 .. Last + 1 -> Nat]
    BY <1>7 DEF Unlock, EndRound
  <2> QED
    BY <2>1, <2>2, <2>3, <2>4, MoveTyped
<1>8. ASSUME NEW t \in Thread, Load(t) PROVE CountTypes'
  <2>1. "store" \in PcOf
    BY <1>8 DEF Load, At, PcOf, Locking
  <2>2. Goto(t, "store") /\ UNCHANGED <<program, main_pc, next>>
    BY <1>8 DEF Load
  <2>3. /\ i' \in [Thread -> Nat] /\ val' \in [Thread -> Nat]
        /\ counter' \in Nat /\ lock' \in Thread \cup {Free}
    BY <1>8 DEF Load
  <2>4. printed' \in [2 .. Last + 1 -> Nat]
    BY <1>8 DEF Load
  <2> QED
    BY <2>1, <2>2, <2>3, <2>4, MoveTyped
<1>9. ASSUME NEW t \in Thread, Store(t) PROVE CountTypes'
  <2>1. (IF program = "mutex_ex2" THEN "unlock" ELSE "exited") \in PcOf
    BY <1>9 DEF Store, At, PcOf, Locking
  <2>2. Goto(t, (IF program = "mutex_ex2" THEN "unlock" ELSE "exited")) /\ UNCHANGED <<program, main_pc, next>>
    BY <1>9 DEF Store
  <2>3. /\ i' \in [Thread -> Nat] /\ val' \in [Thread -> Nat]
        /\ counter' \in Nat /\ lock' \in Thread \cup {Free}
    BY <1>9 DEF Store
  <2>4. printed' \in [2 .. Last + 1 -> Nat]
    BY <1>9 DEF Store
  <2> QED
    BY <2>1, <2>2, <2>3, <2>4, MoveTyped
<1>10. ASSUME NEW t \in Thread, TakeNumber(t) PROVE CountTypes'
  <2>1. "test" \in PcOf
    BY <1>10 DEF TakeNumber, At, PcOf
  <2>2. Goto(t, "test") /\ UNCHANGED <<program, main_pc, next>>
    BY <1>10 DEF TakeNumber, next_counter
  <2>3. /\ i' \in [Thread -> Nat] /\ val' \in [Thread -> Nat]
        /\ counter' \in Nat /\ lock' \in Thread \cup {Free}
    BY <1>10 DEF TakeNumber, next_counter
  <2>4. printed' \in [2 .. Last + 1 -> Nat]
    BY <1>10 DEF TakeNumber, next_counter
  <2> QED
    BY <2>1, <2>2, <2>3, <2>4, MoveTyped
<1>11. ASSUME NEW t \in Thread, TestNumber(t) PROVE CountTypes'
  <2>1. "loop" \in PcOf
    BY <1>11 DEF TestNumber, At, PcOf, Locking
  <2>2. Goto(t, "loop") /\ UNCHANGED <<program, main_pc, next>>
    BY <1>11 DEF TestNumber
  <2>3. /\ i' \in [Thread -> Nat] /\ val' \in [Thread -> Nat]
        /\ counter' \in Nat /\ lock' \in Thread \cup {Free}
    BY <1>11 DEF TestNumber
  <2>4. printed' \in [2 .. Last + 1 -> Nat]
    <3>1. CASE is_prime(val[t])
      <4> DEFINE v == val[t]
      <4>1. printed' = [printed EXCEPT ![v] = @ + 1]
        BY <1>11, <3>1 DEF TestNumber
      <4> HIDE DEF v
      <4> QED
        BY <4>1, BumpTyped
    <3>2. CASE ~is_prime(val[t])
      BY <1>11, <3>2 DEF TestNumber
    <3> QED
      BY <3>1, <3>2
  <2> QED
    BY <2>1, <2>2, <2>3, <2>4, MoveTyped
<1>12. ASSUME NEW t \in Thread, PrimeEnd(t) PROVE CountTypes'
  <2>1. "exited" \in PcOf
    BY <1>12 DEF PrimeEnd, At, PcOf
  <2>2. Goto(t, "exited") /\ UNCHANGED <<program, main_pc, next>>
    BY <1>12 DEF PrimeEnd
  <2>3. /\ i' \in [Thread -> Nat] /\ val' \in [Thread -> Nat]
        /\ counter' \in Nat /\ lock' \in Thread \cup {Free}
    BY <1>12 DEF PrimeEnd
  <2>4. printed' \in [2 .. Last + 1 -> Nat]
    BY <1>12 DEF PrimeEnd
  <2> QED
    BY <2>1, <2>2, <2>3, <2>4, MoveTyped
<1> QED
  BY CountSteps, <1>1, <1>2, <1>3, <1>4, <1>5, <1>6, <1>7, <1>8, <1>9, <1>10, <1>11,
     <1>12

LEMMA MainStepInv ==
    ASSUME Control, [Next]_vars
    PROVE  MainInv'
<1> USE CountersAssumption, ThreadsSome DEF Control, CountTypes, MainInv, PcOf,
        Locking, Thread, Threads
<1>1. CASE Create
  BY <1>1 DEF Create, Advance, FirstPc
<1>2. CASE Join
  BY <1>2 DEF Join, Advance
<1>3. CASE ExitFails
  <2>1. program # "none"
    BY <1>3 DEF ExitFails, MainCallFails, LockCallFails
  <2> QED
    BY <1>3, <2>1 DEF ExitFails
<1>4. CASE UNCHANGED countVars
  BY <1>4 DEF countVars
<1>5. ASSUME NEW t \in Thread, AtomicIncrement(t) PROVE MainInv'
  BY <1>5 DEF AtomicIncrement, EndRound, Goto, At
<1>6. ASSUME NEW t \in Thread, Lock(t) PROVE MainInv'
  BY <1>6 DEF Lock, Goto, At
<1>7. ASSUME NEW t \in Thread, Unlock(t) PROVE MainInv'
  BY <1>7 DEF Unlock, EndRound, Goto, At
<1>8. ASSUME NEW t \in Thread, Load(t) PROVE MainInv'
  BY <1>8 DEF Load, Goto, At
<1>9. ASSUME NEW t \in Thread, Store(t) PROVE MainInv'
  BY <1>9 DEF Store, Goto, At
<1>10. ASSUME NEW t \in Thread, TakeNumber(t) PROVE MainInv'
  BY <1>10 DEF TakeNumber, Goto, At, next_counter, MoreNumbers
<1>11. ASSUME NEW t \in Thread, TestNumber(t) PROVE MainInv'
  BY <1>11 DEF TestNumber, Goto, At
<1>12. ASSUME NEW t \in Thread, PrimeEnd(t) PROVE MainInv'
  BY <1>12 DEF PrimeEnd, Goto, At, MoreNumbers
<1> QED
  BY CountSteps, <1>1, <1>2, <1>3, <1>4, <1>5, <1>6, <1>7, <1>8, <1>9, <1>10, <1>11,
     <1>12

LEMMA ControlStep == Control /\ [Next]_vars => Control'
BY TypesStep, MainStepInv DEF Control

-----------------------------------------------------------------------------
(***************************************************************************)
(* mutex_ex1 and mutex_ex2                                                 *)
(***************************************************************************)
Counting == program \in {"mutex_ex1", "mutex_ex2"}

\* The rounds a thread has left, and of mutex_ex2 its critical section: the mutex
\* belongs to the thread in it, whose copy of the counter is not out of date.
RoundInv ==
    Counting => \A t \in Thread : /\ pc[t] = "exited" => i[t] = ROUNDS
                                  /\ pc[t] # "exited" => i[t] < ROUNDS
                                  /\ pc[t] \in Locking <=> lock = t
                                  /\ pc[t] = "store" => val[t] = counter

\* The rounds of all threads that have added one to the counter.
Done(t) == IF pc[t] = "unlock" THEN i[t] + 1 ELSE i[t]
Made == {r \in Thread \X (1 .. ROUNDS) : r[2] <= Done(r[1])}

SumInv == Counting => counter = Cardinality(Made)

LEMMA RoundStep ==
    ASSUME Control, RoundInv, [Next]_vars
    PROVE  RoundInv'
<1> USE CountersAssumption DEF Control, CountTypes, MainInv, RoundInv, Counting,
        PcOf, Locking, Thread
<1>1. CASE Create
  BY <1>1 DEF Create, Advance, FirstPc
<1>2. CASE Join
  BY <1>2 DEF Join, Advance
<1>3. CASE ExitFails
  BY <1>3 DEF ExitFails
<1>4. CASE UNCHANGED countVars
  BY <1>4 DEF countVars
<1>5. ASSUME NEW t \in Thread, AtomicIncrement(t) PROVE RoundInv'
  BY <1>5 DEF AtomicIncrement, EndRound, Goto, At
<1>6. ASSUME NEW t \in Thread, Lock(t) PROVE RoundInv'
  BY <1>6 DEF Lock, Goto, At
<1>7. ASSUME NEW t \in Thread, Unlock(t) PROVE RoundInv'
  BY <1>7 DEF Unlock, EndRound, Goto, At
<1>8. ASSUME NEW t \in Thread, Load(t) PROVE RoundInv'
  BY <1>8 DEF Load, Goto, At
<1>9. ASSUME NEW t \in Thread, Store(t) PROVE RoundInv'
  BY <1>9 DEF Store, Goto, At
<1>10. ASSUME NEW t \in Thread, TakeNumber(t) PROVE RoundInv'
  BY <1>10 DEF TakeNumber, Goto, At, next_counter, MoreNumbers
<1>11. ASSUME NEW t \in Thread, TestNumber(t) PROVE RoundInv'
  BY <1>11 DEF TestNumber, Goto, At
<1>12. ASSUME NEW t \in Thread, PrimeEnd(t) PROVE RoundInv'
  BY <1>12 DEF PrimeEnd, Goto, At, MoreNumbers
<1> QED
  BY CountSteps, <1>1, <1>2, <1>3, <1>4, <1>5, <1>6, <1>7, <1>8, <1>9, <1>10, <1>11,
     <1>12

LEMMA MadeFinite == IsFiniteSet(Thread \X (1 .. ROUNDS)) /\ IsFiniteSet(Made)
<1> USE CountersAssumption
<1>1. IsFiniteSet(Thread) /\ IsFiniteSet(1 .. ROUNDS)
  BY FS_Interval DEF Thread
<1>2. IsFiniteSet(Thread \X (1 .. ROUNDS))
  BY <1>1, FS_Product
<1> QED
  BY <1>2, FS_Subset DEF Made

\* Adding one to the counter makes one more round of one thread.
LEMMA OneMore ==
    ASSUME CountTypes, CountTypes', RoundInv, Counting, SumInv, NEW t \in Thread, i[t] < ROUNDS,
           pc[t] # "unlock", Done(t)' = i[t] + 1, counter' = counter + 1,
           \A u \in Thread \ {t} : Done(u)' = Done(u)
    PROVE  counter' = Cardinality(Made')
<1>0. /\ i[t] \in Nat /\ ROUNDS \in Nat
      /\ \A u \in Thread : i[u] \in Nat /\ Done(u) \in Nat
  <2>1. i \in [Thread -> Nat] /\ ROUNDS \in Nat
    BY CountersAssumption DEF CountTypes
  <2> QED
    BY <2>1 DEF Done
<1>1. Done(t) = i[t]
  BY DEF Done
<1>2. <<t, i[t] + 1>> \notin Made /\ <<t, i[t] + 1>> \in Thread \X (1 .. ROUNDS)
  BY <1>0, <1>1 DEF Made
<1>3. Made' = {r \in Thread \X (1 .. ROUNDS) : r[2] <= Done(r[1])'}
  BY DEF Made, Thread
<1>4. \A r \in Thread \X (1 .. ROUNDS) : r[2] <= Done(r[1])' <=> r[2] <= Done(r[1]) \/ r = <<t, i[t] + 1>>
  <2> TAKE r \in Thread \X (1 .. ROUNDS)
  <2>1. PICK u \in Thread, k \in 1 .. ROUNDS : r = <<u, k>>
    OBVIOUS
  <2>2. CASE u = t
    BY <1>0, <1>1, <2>1, <2>2
  <2>3. CASE u # t
    <3>1. Done(r[1])' = Done(r[1])
      BY <2>1, <2>3
    <3> QED
      BY <2>1, <2>3, <3>1
  <2> QED
    BY <2>2, <2>3
<1>5. Made' = Made \cup {<<t, i[t] + 1>>}
  BY <1>2, <1>3, <1>4 DEF Made
<1>6. Cardinality(Made') = Cardinality(Made) + 1
  BY <1>2, <1>5, MadeFinite, FS_AddElement
<1> QED
  BY <1>6 DEF SumInv

LEMMA NoMore ==
    ASSUME CountTypes, Counting, SumInv, counter' = counter, \A u \in Thread : Done(u)' = Done(u)
    PROVE  counter' = Cardinality(Made')
<1>1. Made' = {r \in Thread \X (1 .. ROUNDS) : r[2] <= Done(r[1])'}
  BY DEF Made, Thread
<1>2. \A r \in Thread \X (1 .. ROUNDS) : Done(r[1])' = Done(r[1])
  OBVIOUS
<1>3. Made' = Made
  BY <1>1, <1>2 DEF Made
<1> QED
  BY <1>3 DEF SumInv

LEMMA SumStep ==
    ASSUME Control, RoundInv, SumInv, Counting, Control', [Next]_vars
    PROVE  (counter = Cardinality(Made))'
<1> USE CountersAssumption DEF Locking, Thread
<1>1. CASE Create
  <2>1. counter' = counter /\ Counting
    BY <1>1 DEF Create, FirstPc, Counting
  <2>2. \A u \in Thread : Done(u)' = Done(u)
    BY <1>1 DEF Create, FirstPc, Done, Control, CountTypes, RoundInv, PcOf, Counting, MainInv, Threads
  <2> QED
    BY <2>1, <2>2, NoMore DEF Control
<1>2. CASE Join
  <2>1. counter' = counter /\ Counting
    BY <1>2 DEF Join, Counting
  <2>2. \A u \in Thread : Done(u)' = Done(u)
    BY <1>2 DEF Join, Done, Control, CountTypes, RoundInv, PcOf, Counting
  <2> QED
    BY <2>1, <2>2, NoMore DEF Control
<1>3. CASE ExitFails
  <2>1. counter' = counter /\ Counting
    BY <1>3 DEF ExitFails, Counting
  <2>2. \A u \in Thread : Done(u)' = Done(u)
    BY <1>3 DEF ExitFails, Done, Control, CountTypes, RoundInv, PcOf, Counting
  <2> QED
    BY <2>1, <2>2, NoMore DEF Control
<1>4. CASE UNCHANGED countVars
  <2>1. counter' = counter /\ Counting
    BY <1>4 DEF countVars, Counting
  <2>2. \A u \in Thread : Done(u)' = Done(u)
    BY <1>4 DEF countVars, Done, Control, CountTypes, RoundInv, PcOf, Counting
  <2> QED
    BY <2>1, <2>2, NoMore DEF Control
<1>5. ASSUME NEW t \in Thread, AtomicIncrement(t) PROVE (counter = Cardinality(Made))'
  <2>1. counter' = counter + 1 /\ i[t] < ROUNDS /\ pc[t] # "unlock" /\ Counting
    BY <1>5 DEF AtomicIncrement, EndRound, Goto, At, Counting, RoundInv
  <2>2. Done(t)' = i[t] + 1
    BY <1>5 DEF AtomicIncrement, EndRound, Goto, At, Done, Control, CountTypes, Counting
  <2>3. \A u \in Thread \ {t} : Done(u)' = Done(u)
    BY <1>5 DEF AtomicIncrement, EndRound, Goto, At, Done, Control, CountTypes
  <2> QED
    BY <2>1, <2>2, <2>3, OneMore DEF Control
<1>6. ASSUME NEW t \in Thread, Lock(t) PROVE (counter = Cardinality(Made))'
  <2>1. counter' = counter /\ Counting
    BY <1>6 DEF Lock, Goto, At, Counting
  <2>2. \A u \in Thread : Done(u)' = Done(u)
    BY <1>6 DEF Lock, Goto, At, Done, Control, CountTypes, RoundInv, PcOf, Counting
  <2> QED
    BY <2>1, <2>2, NoMore DEF Control
<1>7. ASSUME NEW t \in Thread, Unlock(t) PROVE (counter = Cardinality(Made))'
  <2>1. counter' = counter /\ Counting
    BY <1>7 DEF Unlock, EndRound, Goto, At, Counting
  <2>2. \A u \in Thread : Done(u)' = Done(u)
    BY <1>7 DEF Unlock, EndRound, Goto, At, Done, Control, CountTypes, RoundInv, PcOf, Counting
  <2> QED
    BY <2>1, <2>2, NoMore DEF Control
<1>8. ASSUME NEW t \in Thread, Load(t) PROVE (counter = Cardinality(Made))'
  <2>1. counter' = counter /\ Counting
    BY <1>8 DEF Load, Goto, At, Counting
  <2>2. \A u \in Thread : Done(u)' = Done(u)
    BY <1>8 DEF Load, Goto, At, Done, Control, CountTypes, RoundInv, PcOf, Counting
  <2> QED
    BY <2>1, <2>2, NoMore DEF Control
<1>9. ASSUME NEW t \in Thread, Store(t) PROVE (counter = Cardinality(Made))'
  <2>1. counter' = counter + 1 /\ i[t] < ROUNDS /\ pc[t] # "unlock" /\ Counting
    BY <1>9 DEF Store, Goto, At, Counting, RoundInv
  <2>2. Done(t)' = i[t] + 1
    BY <1>9 DEF Store, Goto, At, Done, Control, CountTypes, Counting, PcOf
  <2>3. \A u \in Thread \ {t} : Done(u)' = Done(u)
    BY <1>9 DEF Store, Goto, At, Done, Control, CountTypes
  <2> QED
    BY <2>1, <2>2, <2>3, OneMore DEF Control
<1>10. ASSUME NEW t \in Thread, TakeNumber(t) PROVE (counter = Cardinality(Made))'
  BY <1>10 DEF TakeNumber, At, Counting, Control, CountTypes, PcOf, Locking
<1>11. ASSUME NEW t \in Thread, TestNumber(t) PROVE (counter = Cardinality(Made))'
  BY <1>11 DEF TestNumber, At, Counting, Control, CountTypes, PcOf, Locking
<1>12. ASSUME NEW t \in Thread, PrimeEnd(t) PROVE (counter = Cardinality(Made))'
  BY <1>12 DEF PrimeEnd, At, Counting, Control, CountTypes, PcOf, Locking
<1> QED
  BY CountSteps, <1>1, <1>2, <1>3, <1>4, <1>5, <1>6, <1>7, <1>8, <1>9, <1>10, <1>11,
     <1>12

-----------------------------------------------------------------------------
(***************************************************************************)
(* 5_expert_thread and 3_intermediate_thread                               *)
(***************************************************************************)
Stored == {t \in Thread : pc[t] = "exited"}

\* No store is of more than the number of threads that have stored, itself among
\* them.
ExpertInv ==
    program = "expert_thread" =>
        /\ counter <= Cardinality(Stored) /\ (Stored # {} => counter >= 1)
        /\ \A t \in Thread : pc[t] = "store" => val[t] <= Cardinality(Stored)

\* Thread 1 has nobody to overwrite what it stores.
SingleInv ==
    program = "intermediate_thread" =>
        /\ counter = IF pc[1] = "exited" THEN 6 ELSE 5
        /\ pc[1] = "store" => val[1] = 5

PlainInv == ExpertInv /\ SingleInv

LEMMA StoredFinite == IsFiniteSet(Stored) /\ Cardinality(Stored) \in Nat
<1>1. IsFiniteSet(Thread)
  BY CountersAssumption, FS_Interval DEF Thread
<1> QED
  BY <1>1, FS_Subset, FS_CardinalityType DEF Stored

LEMMA ExpertStep ==
    ASSUME Control, ExpertInv, program = "expert_thread", [Next]_vars
    PROVE  ExpertInv'
<1> USE CountersAssumption, StoredFinite DEF Control, CountTypes, ExpertInv, Thread
<1>1. CASE Create
  <2>1. Stored' = Stored
    BY <1>1 DEF Create, FirstPc, Stored, MainInv, Threads, PcOf
  <2> QED
    BY <1>1, <2>1 DEF Create, FirstPc
<1>2. CASE Join
  <2>1. Stored' = Stored
    BY <1>2 DEF Join, Stored, MainInv, Threads, PcOf
  <2> QED
    BY <1>2, <2>1 DEF Join
<1>3. CASE ExitFails
  <2>1. Stored' = Stored
    BY <1>3 DEF ExitFails, Stored, MainInv, Threads, PcOf
  <2> QED
    BY <1>3, <2>1 DEF ExitFails
<1>4. CASE UNCHANGED countVars
  <2>1. Stored' = Stored
    BY <1>4 DEF countVars, Stored, MainInv, Threads, PcOf
  <2> QED
    BY <1>4, <2>1 DEF countVars
<1>5. ASSUME NEW t \in Thread, AtomicIncrement(t) PROVE ExpertInv'
  BY <1>5 DEF AtomicIncrement, At, PcOf, Locking
<1>6. ASSUME NEW t \in Thread, Lock(t) PROVE ExpertInv'
  BY <1>6 DEF Lock, At, PcOf, Locking
<1>7. ASSUME NEW t \in Thread, Unlock(t) PROVE ExpertInv'
  BY <1>7 DEF Unlock, At, PcOf, Locking
<1>8. ASSUME NEW t \in Thread, Load(t) PROVE ExpertInv'
  <2>1. Stored' = Stored
    BY <1>8 DEF Load, Goto, At, Stored, MainInv, Threads, PcOf
  <2> QED
    BY <1>8, <2>1 DEF Load, Goto, At
<1>9. ASSUME NEW t \in Thread, Store(t) PROVE ExpertInv'
  <2>1. Stored' = Stored \cup {t} /\ t \notin Stored
    BY <1>9 DEF Store, Goto, At, Stored
  <2>2. Cardinality(Stored') = Cardinality(Stored) + 1
    BY <2>1, FS_AddElement
  <2>3. counter' = val[t] + 1 /\ val' = val /\ val[t] \in Nat /\ val[t] <= Cardinality(Stored)
    BY <1>9 DEF Store, At
  <2>4. \A u \in Thread : pc'[u] = "store" => val'[u] \in Nat /\ val'[u] <= Cardinality(Stored)
    BY <1>9, <2>3 DEF Store, Goto, At
  <2> HIDE DEF CountTypes
  <2> QED
    BY <2>2, <2>3, <2>4
<1>10. ASSUME NEW t \in Thread, TakeNumber(t) PROVE ExpertInv'
  BY <1>10 DEF TakeNumber, At, PcOf, Locking
<1>11. ASSUME NEW t \in Thread, TestNumber(t) PROVE ExpertInv'
  BY <1>11 DEF TestNumber, At, PcOf, Locking
<1>12. ASSUME NEW t \in Thread, PrimeEnd(t) PROVE ExpertInv'
  BY <1>12 DEF PrimeEnd, At, PcOf, Locking
<1> QED
  BY CountSteps, <1>1, <1>2, <1>3, <1>4, <1>5, <1>6, <1>7, <1>8, <1>9, <1>10, <1>11,
     <1>12

LEMMA SingleStep ==
    ASSUME Control, SingleInv, program = "intermediate_thread", [Next]_vars
    PROVE  SingleInv'
<1> USE CountersAssumption DEF Control, CountTypes, MainInv, SingleInv, Thread,
        Threads, PcOf, Locking
<1>1. CASE Create
  BY <1>1 DEF Create, Advance, FirstPc
<1>2. CASE Join
  BY <1>2 DEF Join, Advance
<1>3. CASE ExitFails
  BY <1>3 DEF ExitFails
<1>4. CASE UNCHANGED countVars
  BY <1>4 DEF countVars
<1>5. ASSUME NEW t \in Thread, AtomicIncrement(t) PROVE SingleInv'
  BY <1>5 DEF AtomicIncrement, EndRound, Goto, At
<1>6. ASSUME NEW t \in Thread, Lock(t) PROVE SingleInv'
  BY <1>6 DEF Lock, Goto, At
<1>7. ASSUME NEW t \in Thread, Unlock(t) PROVE SingleInv'
  BY <1>7 DEF Unlock, EndRound, Goto, At
<1>8. ASSUME NEW t \in Thread, Load(t) PROVE SingleInv'
  BY <1>8 DEF Load, Goto, At
<1>9. ASSUME NEW t \in Thread, Store(t) PROVE SingleInv'
  BY <1>9 DEF Store, Goto, At
<1>10. ASSUME NEW t \in Thread, TakeNumber(t) PROVE SingleInv'
  BY <1>10 DEF TakeNumber, Goto, At, next_counter, MoreNumbers
<1>11. ASSUME NEW t \in Thread, TestNumber(t) PROVE SingleInv'
  BY <1>11 DEF TestNumber, Goto, At
<1>12. ASSUME NEW t \in Thread, PrimeEnd(t) PROVE SingleInv'
  BY <1>12 DEF PrimeEnd, Goto, At, MoreNumbers
<1> QED
  BY CountSteps, <1>1, <1>2, <1>3, <1>4, <1>5, <1>6, <1>7, <1>8, <1>9, <1>10, <1>11,
     <1>12

-----------------------------------------------------------------------------
(***************************************************************************)
(* mutex_ex3                                                               *)
(***************************************************************************)
\* The numbers in hand have been handed out, no two threads have the same, and a
\* thread ends with one that is large enough.
HandInv ==
    program = "mutex_ex3" =>
        /\ counter >= 1
        /\ \A t \in Thread : /\ val[t] <= counter
                             /\ pc[t] = "test" => val[t] >= 2
                             /\ pc[t] = "exited" => val[t] >= TOTAL
        /\ \A t, u \in Thread : t # u /\ val[t] = val[u] => val[t] = 0

\* A thread that has been given TOTAL or more takes no other number: these numbers
\* are as many as the threads that have one.
Late == {t \in Thread : val[t] >= TOTAL}
LateInv ==
    program = "mutex_ex3" /\ counter >= TOTAL => Cardinality(Late) = counter - TOTAL + 1

\* Each number is printed once, after its test.
InHand(n) == \E t \in Thread : pc[t] = "test" /\ val[t] = n
Shown(n) == n <= counter /\ is_prime(n) /\ ~InHand(n)
PrintInv ==
    program = "mutex_ex3" => \A n \in 2 .. Last + 1 : printed[n] = IF Shown(n) THEN 1 ELSE 0

NumberInv == HandInv /\ LateInv /\ PrintInv

LEMMA LateFinite ==
    /\ IsFiniteSet(Late) /\ Cardinality(Late) \in Nat /\ Cardinality(Late) <= NUM_THREADS
    /\ IsFiniteSet(Thread) /\ Cardinality(Thread) = NUM_THREADS
<1>1. IsFiniteSet(Thread) /\ Cardinality(Thread) = NUM_THREADS
  BY CountersAssumption, FS_Interval DEF Thread
<1>2. Late \in SUBSET Thread
  BY DEF Late
<1> QED
  BY <1>1, <1>2, FS_Subset, FS_CardinalityType

LEMMA CounterBounded == Control /\ LateInv /\ program = "mutex_ex3" => counter <= Last
BY CountersAssumption, LateFinite DEF Control, CountTypes, LateInv, Last

LEMMA HandStep ==
    ASSUME Control, HandInv, program = "mutex_ex3", [Next]_vars
    PROVE  HandInv'
<1> USE CountersAssumption DEF Control, CountTypes, HandInv, Thread
<1>1. CASE Create
  BY <1>1 DEF Create, FirstPc, MainInv, Threads
<1>2. CASE Join
  BY <1>2 DEF Join, Advance
<1>3. CASE ExitFails
  BY <1>3 DEF ExitFails
<1>4. CASE UNCHANGED countVars
  BY <1>4 DEF countVars
<1>5. ASSUME NEW t \in Thread, AtomicIncrement(t) PROVE HandInv'
  BY <1>5 DEF AtomicIncrement, At, PcOf, Locking
<1>6. ASSUME NEW t \in Thread, Lock(t) PROVE HandInv'
  BY <1>6 DEF Lock, At, PcOf, Locking
<1>7. ASSUME NEW t \in Thread, Unlock(t) PROVE HandInv'
  BY <1>7 DEF Unlock, At, PcOf, Locking
<1>8. ASSUME NEW t \in Thread, Load(t) PROVE HandInv'
  BY <1>8 DEF Load, At, PcOf, Locking
<1>9. ASSUME NEW t \in Thread, Store(t) PROVE HandInv'
  BY <1>9 DEF Store, At, PcOf, Locking
<1>10. ASSUME NEW t \in Thread, TakeNumber(t) PROVE HandInv'
  <2>1. val' = [val EXCEPT ![t] = counter + 1] /\ counter' = counter + 1 /\ program' = program
    BY <1>10 DEF TakeNumber, next_counter
  <2>2. pc' = [pc EXCEPT ![t] = "test"]
    BY <1>10 DEF TakeNumber, Goto
  <2>3. \A u \in Thread : val[u] \in Nat /\ val[u] < counter + 1
    OBVIOUS
  <2> QED
    BY <2>1, <2>2, <2>3
<1>11. ASSUME NEW t \in Thread, TestNumber(t) PROVE HandInv'
  BY <1>11 DEF TestNumber, Goto, At
<1>12. ASSUME NEW t \in Thread, PrimeEnd(t) PROVE HandInv'
  BY <1>12 DEF PrimeEnd, Goto, At, MoreNumbers
<1> QED
  BY CountSteps, <1>1, <1>2, <1>3, <1>4, <1>5, <1>6, <1>7, <1>8, <1>9, <1>10, <1>11,
     <1>12

LEMMA LateStep ==
    ASSUME Control, HandInv, LateInv, program = "mutex_ex3", [Next]_vars
    PROVE  LateInv'
<1> USE CountersAssumption, LateFinite DEF Control, CountTypes, HandInv, LateInv
<1>1. CASE Create
  <2>1. Late' = Late
    BY <1>1 DEF Create, Late, Thread
  <2> QED
    BY <1>1, <2>1 DEF Create
<1>2. CASE Join
  <2>1. Late' = Late
    BY <1>2 DEF Join, Late, Thread
  <2> QED
    BY <1>2, <2>1 DEF Join
<1>3. CASE ExitFails
  <2>1. Late' = Late
    BY <1>3 DEF ExitFails, Late, Thread
  <2> QED
    BY <1>3, <2>1 DEF ExitFails
<1>4. CASE UNCHANGED countVars
  <2>1. Late' = Late
    BY <1>4 DEF countVars, Late, Thread
  <2> QED
    BY <1>4, <2>1 DEF countVars
<1>5. ASSUME NEW t \in Thread, AtomicIncrement(t) PROVE LateInv'
  BY <1>5 DEF AtomicIncrement, At, PcOf, Locking
<1>6. ASSUME NEW t \in Thread, Lock(t) PROVE LateInv'
  BY <1>6 DEF Lock, At, PcOf, Locking
<1>7. ASSUME NEW t \in Thread, Unlock(t) PROVE LateInv'
  BY <1>7 DEF Unlock, At, PcOf, Locking
<1>8. ASSUME NEW t \in Thread, Load(t) PROVE LateInv'
  BY <1>8 DEF Load, At, PcOf, Locking
<1>9. ASSUME NEW t \in Thread, Store(t) PROVE LateInv'
  BY <1>9 DEF Store, At, PcOf, Locking
<1>10. ASSUME NEW t \in Thread, TakeNumber(t) PROVE LateInv'
  <2>1. val' = [val EXCEPT ![t] = counter + 1] /\ counter' = counter + 1 /\ val[t] < TOTAL
    BY <1>10 DEF TakeNumber, next_counter, MoreNumbers
  <2>2. CASE counter' < TOTAL
    BY <2>1, <2>2
  <2>3. CASE counter' >= TOTAL
    <3>1. Late' = Late \cup {t} /\ t \notin Late
      BY <2>1, <2>3 DEF Late, Thread
    <3>2. Cardinality(Late') = Cardinality(Late) + 1
      BY <3>1, FS_AddElement
    <3>3. CASE counter >= TOTAL
      BY <2>1, <3>2, <3>3
    <3>4. CASE counter < TOTAL
      <4>1. Late = {}
        BY <3>4 DEF Late, Thread
      <4> QED
        BY <2>1, <2>3, <3>2, <3>4, <4>1, FS_EmptySet
    <3> QED
      BY <3>3, <3>4
  <2> QED
    BY <2>1, <2>2, <2>3
<1>11. ASSUME NEW t \in Thread, TestNumber(t) PROVE LateInv'
  <2>1. Late' = Late
    BY <1>11 DEF TestNumber, Late, Thread
  <2> QED
    BY <1>11, <2>1 DEF TestNumber
<1>12. ASSUME NEW t \in Thread, PrimeEnd(t) PROVE LateInv'
  <2>1. Late' = Late
    BY <1>12 DEF PrimeEnd, Late, Thread
  <2> QED
    BY <1>12, <2>1 DEF PrimeEnd
<1> QED
  BY CountSteps, <1>1, <1>2, <1>3, <1>4, <1>5, <1>6, <1>7, <1>8, <1>9, <1>10, <1>11,
     <1>12

LEMMA PrintStep ==
    ASSUME Control, HandInv, PrintInv, counter <= Last, program = "mutex_ex3", [Next]_vars
    PROVE  PrintInv'
<1> USE CountersAssumption DEF Control, CountTypes, HandInv, PrintInv
<1>1. CASE Create
  <2>1. pc' = [pc EXCEPT ![next] = "loop"] /\ pc[next] = "unborn" /\ val' = val /\ counter' = counter
    BY <1>1 DEF Create, FirstPc, MainInv, Threads, Thread
  <2>2. \A n \in 2 .. Last + 1 : InHand(n)' <=> InHand(n)
    BY <2>1 DEF InHand, Thread
  <2>3. \A n \in 2 .. Last + 1 : Shown(n)' <=> Shown(n)
    BY <2>1, <2>2 DEF Shown, is_prime
  <2>4. printed' = printed /\ Last' = Last
    BY <1>1 DEF Create, Last
  <2> QED
    BY <2>3, <2>4
<1>2. CASE Join
  <2>1. \A n \in 2 .. Last + 1 : Shown(n)' <=> Shown(n)
    BY <1>2 DEF Join, Shown, InHand, Thread, is_prime
  <2>2. printed' = printed /\ Last' = Last
    BY <1>2 DEF Join, Last
  <2> QED
    BY <2>1, <2>2
<1>3. CASE ExitFails
  <2>1. \A n \in 2 .. Last + 1 : Shown(n)' <=> Shown(n)
    BY <1>3 DEF ExitFails, Shown, InHand, Thread, is_prime
  <2>2. printed' = printed /\ Last' = Last
    BY <1>3 DEF ExitFails, Last
  <2> QED
    BY <2>1, <2>2
<1>4. CASE UNCHANGED countVars
  <2>1. \A n \in 2 .. Last + 1 : Shown(n)' <=> Shown(n)
    BY <1>4 DEF countVars, Shown, InHand, Thread, is_prime
  <2>2. printed' = printed /\ Last' = Last
    BY <1>4 DEF countVars, Last
  <2> QED
    BY <2>1, <2>2
<1>5. ASSUME NEW t \in Thread, AtomicIncrement(t) PROVE PrintInv'
  BY <1>5 DEF AtomicIncrement, At, PcOf, Locking
<1>6. ASSUME NEW t \in Thread, Lock(t) PROVE PrintInv'
  BY <1>6 DEF Lock, At, PcOf, Locking
<1>7. ASSUME NEW t \in Thread, Unlock(t) PROVE PrintInv'
  BY <1>7 DEF Unlock, At, PcOf, Locking
<1>8. ASSUME NEW t \in Thread, Load(t) PROVE PrintInv'
  BY <1>8 DEF Load, At, PcOf, Locking
<1>9. ASSUME NEW t \in Thread, Store(t) PROVE PrintInv'
  BY <1>9 DEF Store, At, PcOf, Locking
<1>10. ASSUME NEW t \in Thread, TakeNumber(t) PROVE PrintInv'
  <2>1. val' = [val EXCEPT ![t] = counter + 1] /\ counter' = counter + 1
    BY <1>10 DEF TakeNumber, next_counter
  <2>2. pc' = [pc EXCEPT ![t] = "test"] /\ pc[t] # "test" /\ printed' = printed /\ Last' = Last
    BY <1>10 DEF TakeNumber, Goto, At, Last
  <2>3. \A n \in 2 .. Last + 1 : Shown(n)' <=> Shown(n)
    <3> TAKE n \in 2 .. Last + 1
    <3>1. n \in Nat /\ is_prime(n)' = is_prime(n)
      BY DEF is_prime, Last
    <3>2. CASE n = counter + 1
      BY <2>1, <2>2, <3>2 DEF Shown, InHand, Thread
    <3>3. CASE n # counter + 1
      <4>1. InHand(n)' <=> InHand(n)
        BY <2>1, <2>2, <3>3 DEF InHand, Thread
      <4> QED
        BY <2>1, <3>1, <3>3, <4>1 DEF Shown
    <3> QED
      BY <3>2, <3>3
  <2> QED
    BY <2>2, <2>3
<1>11. ASSUME NEW t \in Thread, TestNumber(t) PROVE PrintInv'
  <2>0. PICK v \in Nat : v = val[t]
    OBVIOUS
  <2>1. /\ pc[t] = "test" /\ pc' = [pc EXCEPT ![t] = "loop"] /\ val' = val /\ counter' = counter
        /\ printed' = (IF is_prime(v) THEN [printed EXCEPT ![v] = @ + 1] ELSE printed)
        /\ Last' = Last
    BY <1>11, <2>0 DEF TestNumber, At, Goto, Last
  <2>2. v \in 2 .. Last + 1 /\ v <= counter
    BY <2>0, <2>1 DEF Last
  <2>3. InHand(v) /\ ~InHand(v)'
    BY <2>0, <2>1, <2>2 DEF InHand, Thread
  <2>4. \A n \in 2 .. Last + 1 : is_prime(n)' = is_prime(n)
    BY DEF is_prime
  <2>5. \A n \in (2 .. Last + 1) \ {v} : Shown(n)' <=> Shown(n)
    <3> TAKE n \in (2 .. Last + 1) \ {v}
    <3>1. InHand(n)' <=> InHand(n)
      BY <2>0, <2>1 DEF InHand, Thread
    <3> QED
      BY <2>1, <2>4, <3>1 DEF Shown
  <2>6. ~Shown(v) /\ (Shown(v)' <=> is_prime(v))
    BY <2>1, <2>2, <2>3, <2>4 DEF Shown
  <2>7. \A n \in 2 .. Last + 1 : printed'[n] = IF Shown(n)' THEN 1 ELSE 0
    <3> TAKE n \in 2 .. Last + 1
    <3>1. CASE n = v
      BY <2>1, <2>2, <2>6, <3>1
    <3>2. CASE n # v
      BY <2>1, <2>2, <2>5, <3>2
    <3> QED
      BY <3>1, <3>2
  <2> QED
    BY <2>1, <2>7
<1>12. ASSUME NEW t \in Thread, PrimeEnd(t) PROVE PrintInv'
  <2>1. \A n \in 2 .. Last + 1 : Shown(n)' <=> Shown(n)
    BY <1>12 DEF PrimeEnd, Goto, At, Shown, InHand, Thread, is_prime
  <2>2. printed' = printed /\ Last' = Last
    BY <1>12 DEF PrimeEnd, Goto, At, Last
  <2> QED
    BY <2>1, <2>2
<1> QED
  BY CountSteps, <1>1, <1>2, <1>3, <1>4, <1>5, <1>6, <1>7, <1>8, <1>9, <1>10, <1>11,
     <1>12

LEMMA NumberStep ==
    ASSUME Control, NumberInv, program = "mutex_ex3", [Next]_vars
    PROVE  NumberInv'
BY HandStep, LateStep, PrintStep, CounterBounded DEF NumberInv

-----------------------------------------------------------------------------
(***************************************************************************)
(* Counters: the theorems                                                  *)
(***************************************************************************)
CountInv == Control /\ RoundInv /\ SumInv /\ PlainInv /\ NumberInv

LEMMA CountInitially == Init => CountInv
<1> SUFFICES ASSUME Init PROVE CountInv
  OBVIOUS
<1>1. Control
  BY ControlInit
<1> USE CountersAssumption DEF Init, CountStart, FirstValue
<1>2. RoundInv
  BY DEF RoundInv, Counting, Thread, Locking
<1>3. SumInv
  <2>1. Made = {}
    BY DEF Made, Done, Thread
  <2> QED
    BY <2>1, FS_EmptySet DEF SumInv, Counting
<1>4. PlainInv
  <2>1. Stored = {}
    BY DEF Stored, Thread
  <2> QED
    BY <2>1, FS_EmptySet DEF PlainInv, ExpertInv, SingleInv, Thread
<1>5. NumberInv
  BY DEF NumberInv, HandInv, LateInv, PrintInv, Shown, Thread
<1> QED
  BY <1>1, <1>2, <1>3, <1>4, <1>5 DEF CountInv

LEMMA SameProgram == [Next]_vars => program' = program
<1> SUFFICES ASSUME [Next]_vars PROVE program' = program
  OBVIOUS
<1> QED
  BY CountSteps
  DEF Create, Join, ExitFails, countVars, AtomicIncrement, Lock, Unlock, Load, Store,
      TakeNumber, TestNumber, PrimeEnd

LEMMA CountInvStep == CountInv /\ [Next]_vars => CountInv'
<1> SUFFICES ASSUME CountInv, [Next]_vars PROVE CountInv'
  OBVIOUS
<1> USE SameProgram DEF CountInv
<1>1. Control'
  BY ControlStep
<1>2. RoundInv'
  BY RoundStep
<1>3. SumInv'
  BY <1>1, SumStep DEF SumInv, Counting
<1>4. PlainInv'
  <2>1. ExpertInv'
    BY ExpertStep DEF PlainInv, ExpertInv
  <2>2. SingleInv'
    BY SingleStep DEF PlainInv, SingleInv
  <2> QED
    BY <2>1, <2>2 DEF PlainInv
<1>5. NumberInv'
  <2>1. CASE program = "mutex_ex3"
    BY <2>1, NumberStep
  <2>2. CASE program # "mutex_ex3"
    BY <2>2 DEF NumberInv, HandInv, LateInv, PrintInv
  <2> QED
    BY <2>1, <2>2
<1> QED
  BY <1>1, <1>2, <1>3, <1>4, <1>5

LEMMA CountInvariance == Spec => []CountInv
BY CountInitially, CountInvStep, PTL DEF Spec

LEMMA FinalCountHolds == CountInv => FinalCount
<1> SUFFICES ASSUME CountInv, main_pc = "done" PROVE FinalCount
  BY DEF FinalCount
<1> USE CountersAssumption, ThreadsSome DEF CountInv, Control
<1>1. ASSUME program # "none" PROVE \A t \in Thread : t <= Threads => pc[t] = "exited"
  BY <1>1 DEF MainInv
<1>2. CASE Counting
  <2>1. \A t \in Thread : pc[t] = "exited" /\ i[t] = ROUNDS
    BY <1>1, <1>2 DEF Counting, Threads, Thread, RoundInv
  <2>2. Made = Thread \X (1 .. ROUNDS)
    BY <2>1 DEF Made, Done
  <2>3. /\ IsFiniteSet(Thread) /\ Cardinality(Thread) = NUM_THREADS
        /\ IsFiniteSet(1 .. ROUNDS) /\ Cardinality(1 .. ROUNDS) = ROUNDS
    BY FS_Interval DEF Thread
  <2>4. counter = NUM_THREADS * ROUNDS
    BY <1>2, <2>2, <2>3, FS_Product DEF SumInv
  <2> QED
    BY <1>2, <2>4 DEF FinalCount, Counting
<1>3. CASE program = "expert_thread"
  <2>1. Stored = Thread
    BY <1>1, <1>3 DEF Threads, Thread, Stored
  <2>2. Cardinality(Stored) = NUM_THREADS /\ Stored # {}
    <3>1. Cardinality(1 .. NUM_THREADS) = NUM_THREADS /\ 1 \in 1 .. NUM_THREADS
      BY FS_Interval
    <3> QED
      BY <2>1, <3>1 DEF Thread
  <2> QED
    BY <1>3, <2>2 DEF FinalCount, PlainInv, ExpertInv, CountTypes
<1>4. CASE program = "intermediate_thread"
  <2>1. pc[1] = "exited"
    BY <1>1, <1>4 DEF Threads, Thread
  <2> QED
    BY <1>4, <2>1 DEF FinalCount, PlainInv, SingleInv
<1> QED
  BY <1>2, <1>3, <1>4 DEF FinalCount, Counting

\* The counter that main() prints is the number of increments in mutex_ex1 and
\* mutex_ex2, 6 in 3_intermediate_thread, and in 5_expert_thread anything from one
\* to the number of threads.
THEOREM CountersAddUp == Spec => []FinalCount
BY CountInvariance, FinalCountHolds, PTL

\* A divisor above x/2 - 1 and below x is x/2.
LEMMA LargeDivisor ==
    ASSUME NEW n \in Nat, NEW k \in Nat, NEW m \in Nat, n = k * m, 2 <= k, k < n,
           k > (n \div 2) - 1
    PROVE  m = 2
<1>1. m # 0 /\ m # 1
  OBVIOUS
<1>2. CASE m >= 3
  <2>1. k * 3 <= k * m
    <3>1. PICK d \in Nat : m = 3 + d
      <4>1. m - 3 \in Nat /\ m = 3 + (m - 3)
        BY <1>2
      <4> QED
        BY <4>1
    <3>2. k * m = k * 3 + k * d /\ k * d \in Nat
      BY <3>1
    <3> QED
      BY <3>2
  <2>2. n >= 3 * k /\ n >= 6
    BY <2>1
  <2>3. 2 * k + 2 > n - 1
    OBVIOUS
  <2> QED
    BY <2>2, <2>3
<1> QED
  BY <1>1, <1>2

LEMMA Division ==
    ASSUME NEW n \in Nat, NEW k \in Nat \ {0}, n % k = 0
    PROVE  \E m \in Nat : n = k * m
<1>1. n = k * (n \div k)
  OBVIOUS
<1>2. n \div k \in Int /\ n \div k >= 0
  OBVIOUS
<1> DEFINE m == n \div k
<1>3. m \in Nat /\ n = k * m
  BY <1>1, <1>2
<1> QED
  BY <1>3, Zenon

\* Trial division by 2 .. x/2 - 1 tells the primes, but for 4 (mutex_ex3.c:42-48).
LEMMA TrialDivision ==
    ASSUME NEW n \in Nat, n >= 2
    PROVE  is_prime(n) <=> Prime(n) \/ n = 4
<1>1. ASSUME Prime(n) PROVE is_prime(n)
  <2>1. \A k \in 2 .. (n \div 2) - 1 : k \in 2 .. n - 1
    OBVIOUS
  <2> QED
    BY <1>1, <2>1 DEF Prime, is_prime
<1>2. is_prime(4)
  BY DEF is_prime
<1>3. ASSUME is_prime(n), n # 4 PROVE Prime(n)
  <2> SUFFICES ASSUME NEW k \in 2 .. n - 1, n % k = 0 PROVE FALSE
    BY DEF Prime
  <2>1. PICK m \in Nat : n = k * m
    BY Division
  <2>2. k > (n \div 2) - 1
    BY <1>3 DEF is_prime
  <2>3. m = 2
    BY <2>1, <2>2, LargeDivisor
  <2>4. n = 2 * k /\ n % 2 = 0 /\ n \div 2 = k
    BY <2>1, <2>3
  <2>5. 2 \notin 2 .. (n \div 2) - 1
    BY <1>3, <2>4 DEF is_prime
  <2> QED
    BY <1>3, <2>4, <2>5
<1> QED
  BY <1>1, <1>2, <1>3

LEMMA PrimesFoundHolds == CountInv => PrimesFound
<1> SUFFICES ASSUME CountInv, main_pc = "done", program = "mutex_ex3" PROVE PrimesFound
  BY DEF PrimesFound
<1> USE CountersAssumption DEF CountInv, Control, CountTypes
<1>1. \A t \in Thread : pc[t] = "exited" /\ val[t] >= TOTAL
  BY DEF MainInv, Threads, Thread, NumberInv, HandInv
<1>2. counter >= TOTAL
  <2>1. 1 \in Thread /\ val[1] <= counter /\ val[1] \in Nat
    BY DEF Thread, NumberInv, HandInv
  <2> QED
    BY <1>1, <2>1
<1>3. Late = Thread
  BY <1>1 DEF Late
<1>4. counter = Last
  BY <1>2, <1>3, LateFinite DEF NumberInv, LateInv, Last
<1>5. \A n \in 2 .. Last + 1 : printed[n] = IF n <= Last /\ (Prime(n) \/ n = 4) THEN 1 ELSE 0
  <2> TAKE n \in 2 .. Last + 1
  <2>1. n \in Nat /\ n >= 2
    BY DEF Last
  <2>2. ~InHand(n)
    BY <1>1 DEF InHand
  <2> QED
    BY <1>4, <2>1, <2>2, TrialDivision DEF NumberInv, PrintInv, Shown
<1> QED
  BY <1>4, <1>5 DEF PrimesFound

\* mutex_ex3 hands out the numbers up to TOTAL + NUM_THREADS - 1, and prints the
\* primes among them, and 4, once each.
THEOREM PrimesArePrinted == Spec => []PrimesFound
BY CountInvariance, PrimesFoundHolds, PTL

-----------------------------------------------------------------------------
(***************************************************************************)
(* Exchange: life_meaning and its worker                                   *)
(***************************************************************************)
Begins(s) == /\ s \in Seq({4, 2}) /\ Len(s) <= 2
             /\ \A k \in 1 .. Len(s) : s[k] = Answer[k]
Full(s) == Begins(s) /\ Len(s) = 2

\* The worker writes to the file before the signal, and the parent reads after it.
\* The worker is alone on the file until it has written the whole answer.
LifeStatus == {"unborn", "running", "failed", "exited"}
LifeInv ==
    /\ status \in [Process -> LifeStatus] /\ step \in [Process -> 1 .. 4]
    /\ out \in [Process -> Seq({4, 2})] /\ keep_waiting \in BOOLEAN
    /\ step["c"] \in {2, 3, 4} => Begins(file)
    /\ step["c"] \in {3, 4} => Full(file)
    /\ ~keep_waiting => step["c"] = 4
    /\ step["p"] \in {3, 4} => ~keep_waiting
    /\ Begins(out["p"])
    /\ step["p"] = 4 => Full(out["p"])
    /\ status["p"] = "exited" => step["p"] = 4

AnswerInv == exercise = "life_meaning" => LifeInv

LEMMA AnswerInitially == Init => AnswerInv
<1> SUFFICES ASSUME Init, exercise = "life_meaning" PROVE LifeInv
  BY DEF AnswerInv
<1> USE DEF Init, ExchangeStart, Process
<1>1. exercise \in ExchangeProgram /\ Initial = {"p"}
  BY DEF ExchangeProgram, Initial
<1>2. status \in [Process -> LifeStatus] /\ status["p"] = "running"
  BY <1>1 DEF LifeStatus
<1>3. out \in [Process -> Seq({4, 2})] /\ Begins(out["p"])
  BY DEF Begins
<1> QED
  BY <1>1, <1>2, <1>3 DEF LifeInv

\* The calls of the two scripts.
LEMMA LifeCalls ==
    ASSUME exercise = "life_meaning", LifeInv, NEW p \in Process
    PROVE  /\ Len(Calls(p)) = IF p = "d" THEN 0 ELSE 3
           /\ p = "p" /\ step[p] <= 3 =>
                  Current(p).op = CASE step[p] = 1 -> "fork" [] step[p] = 2 -> "await"
                                    [] OTHER -> "read_file"
           /\ p = "c" /\ step[p] <= 3 =>
                  Current(p).op = CASE step[p] = 1 -> "truncate" [] step[p] = 2 -> "write_file"
                                    [] OTHER -> "kill"
<1> USE DEF Process
<1>1. Script(exercise) = [p |-> LifeMeaning, c |-> Worker, d |-> Nothing]
  BY DEF Script
<1>2. CASE p = "p"
  <2>1. Calls(p) = << Plain("fork"), Plain("await"), Plain("read_file") >>
    BY <1>1, <1>2 DEF Calls, LifeMeaning
  <2>2. step[p] \in 1 .. 4
    BY DEF LifeInv
  <2> QED
    BY <1>2, <2>1, <2>2 DEF Current, Plain, Call
<1>3. CASE p = "c"
  <2>1. Calls(p) = << Plain("truncate"), Plain("write_file"), Plain("kill") >>
    BY <1>1, <1>3 DEF Calls, Worker
  <2>2. step[p] \in 1 .. 4
    BY DEF LifeInv
  <2> QED
    BY <1>3, <2>1, <2>2 DEF Current, Plain, Call
<1>4. CASE p = "d"
  BY <1>1, <1>4 DEF Calls, Nothing
<1> QED
  BY <1>2, <1>3, <1>4

\* What the two processes can do.
LEMMA LifeSteps ==
    ASSUME exercise = "life_meaning", LifeInv, [Next]_vars
    PROVE  \/ UNCHANGED exchangeVars
           \/ \E p \in Process :
                  \/ p = "p" /\ step[p] = 1 /\ (Fork(p) \/ ForkFails(p))
                  \/ p = "p" /\ step[p] = 2 /\ Await(p)
                  \/ p = "p" /\ step[p] = 3 /\ read_from_file(p)
                  \/ p = "c" /\ step[p] = 1 /\ Truncate(p)
                  \/ p = "c" /\ step[p] = 2 /\ WriteFile(p)
                  \/ p = "c" /\ step[p] = 3 /\ Kill(p)
                  \/ p # "d" /\ FileFails(p)
                  \/ p # "d" /\ step[p] = 4 /\ Exit(p)
                  \/ p = "d" /\ Exit(p)
<1>1. CASE UNCHANGED exchangeVars
  BY <1>1
<1>2. ASSUME NEW p \in Process, ProcessStep(p) \/ ForkFails(p) \/ FileFails(p) \/ MmapFails(p)
      PROVE  \/ p = "p" /\ step[p] = 1 /\ (Fork(p) \/ ForkFails(p))
             \/ p = "p" /\ step[p] = 2 /\ Await(p)
             \/ p = "p" /\ step[p] = 3 /\ read_from_file(p)
             \/ p = "c" /\ step[p] = 1 /\ Truncate(p)
             \/ p = "c" /\ step[p] = 2 /\ WriteFile(p)
             \/ p = "c" /\ step[p] = 3 /\ Kill(p)
             \/ p # "d" /\ FileFails(p)
             \/ p # "d" /\ step[p] = 4 /\ Exit(p)
             \/ p = "d" /\ Exit(p)
  <2>1. step[p] \in 1 .. 4 /\ Len(Calls(p)) = IF p = "d" THEN 0 ELSE 3
    BY LifeCalls DEF LifeInv
  <2>2. \A op : Does(p, op) => \/ p = "p" /\ step[p] = 1 /\ op = "fork"
                               \/ p = "p" /\ step[p] = 2 /\ op = "await"
                               \/ p = "p" /\ step[p] = 3 /\ op = "read_file"
                               \/ p = "c" /\ step[p] = 1 /\ op = "truncate"
                               \/ p = "c" /\ step[p] = 2 /\ op = "write_file"
                               \/ p = "c" /\ step[p] = 3 /\ op = "kill"
    <3> SUFFICES ASSUME NEW op, Does(p, op)
                 PROVE  \/ p = "p" /\ step[p] = 1 /\ op = "fork"
                        \/ p = "p" /\ step[p] = 2 /\ op = "await"
                        \/ p = "p" /\ step[p] = 3 /\ op = "read_file"
                        \/ p = "c" /\ step[p] = 1 /\ op = "truncate"
                        \/ p = "c" /\ step[p] = 2 /\ op = "write_file"
                        \/ p = "c" /\ step[p] = 3 /\ op = "kill"
      OBVIOUS
    <3>0. step[p] <= Len(Calls(p)) /\ Current(p).op = op
      BY DEF Does
    <3>1. p \in {"p", "c"} /\ step[p] \in 1 .. 3
      BY <2>1, <3>0 DEF Process
    <3> QED
      BY <3>0, <3>1, LifeCalls
  <2>3. /\ ~Wait(p) /\ ~Close(p) /\ ~WriteSome(p) /\ ~WriteKilled(p) /\ ~ReadSome(p) /\ ~ReadEnd(p)
        /\ ~NoDescriptor(p) /\ ~Mkfifo(p) /\ ~Unlink(p) /\ ~OpenFails(p) /\ ~OpenBegins(p)
        /\ ~OpenReturns(p) /\ ~StoreX(p) /\ ~LoadX(p) /\ ~MmapFails(p)
    <3>1. \A op \in {"wait", "close_r", "close_w", "write", "reply", "read", "read_all", "mkfifo",
                     "unlink", "open_r", "open_w", "store", "increment", "load", "print"} :
              ~Does(p, op)
      BY <2>2
    <3>2. ~Wait(p) /\ ~Mkfifo(p) /\ ~Unlink(p) /\ ~StoreX(p) /\ ~LoadX(p) /\ ~MmapFails(p)
      BY <3>1 DEF Wait, Mkfifo, Unlink, StoreX, LoadX, MmapFails
    <3>3. ~Close(p)
      BY <3>1 DEF Close
    <3>4. ~WriteSome(p) /\ ~WriteKilled(p) /\ ~ReadSome(p) /\ ~ReadEnd(p) /\ ~NoDescriptor(p)
      BY <3>1 DEF WriteSome, WriteKilled, ReadSome, ReadEnd, NoDescriptor, Reading, Writing
    <3>5. ~OpenFails(p) /\ ~OpenBegins(p) /\ ~OpenReturns(p)
      BY <3>1 DEF OpenFails, OpenBegins, OpenReturns
    <3> QED
      BY <3>2, <3>3, <3>4, <3>5
  <2>4. ASSUME Fork(p) \/ ForkFails(p) PROVE p = "p" /\ step[p] = 1
    BY <2>2, <2>4 DEF Fork, ForkFails
  <2>5. ASSUME Await(p) PROVE p = "p" /\ step[p] = 2
    BY <2>2, <2>5 DEF Await
  <2>6. ASSUME read_from_file(p) PROVE p = "p" /\ step[p] = 3
    BY <2>2, <2>6 DEF read_from_file
  <2>7. ASSUME Truncate(p) PROVE p = "c" /\ step[p] = 1
    BY <2>2, <2>7 DEF Truncate
  <2>8. ASSUME WriteFile(p) PROVE p = "c" /\ step[p] = 2
    BY <2>2, <2>8 DEF WriteFile
  <2>9. ASSUME Kill(p) PROVE p = "c" /\ step[p] = 3
    BY <2>2, <2>9 DEF Kill
  <2>10. ASSUME FileFails(p) PROVE p # "d"
    BY <2>2, <2>10 DEF FileFails
  <2>11. ASSUME Exit(p), p # "d" PROVE step[p] = 4
    BY <2>1, <2>11 DEF Exit
  <2> QED
    BY <1>2, <2>3, <2>4, <2>5, <2>6, <2>7, <2>8, <2>9, <2>10, <2>11 DEF ProcessStep
<1> QED
  BY <1>1, <1>2 DEF Next, ExchangeNext, vars

\* One more byte of the answer.
LEMMA OneByte ==
    ASSUME NEW s, NEW t, Begins(s), Begins(t), Len(t) < Len(s)
    PROVE  Begins(SubSeq(s, 1, Len(t) + 1)) /\ Len(SubSeq(s, 1, Len(t) + 1)) = Len(t) + 1
BY DEF Begins, Answer

LEMMA AllBytes ==
    ASSUME NEW s, Begins(s), ~(Len(s) < Len(Answer))
    PROVE  Full(s)
<1>1. s \in Seq({4, 2}) /\ Len(s) \in Nat /\ Len(s) <= 2
  BY DEF Begins
<1>2. Len(Answer) = 2
  BY DEF Answer
<1>3. PICK n \in Nat : n = Len(s)
  BY <1>1
<1>4. n = 2
  BY <1>1, <1>2, <1>3
<1> QED
  BY <1>3, <1>4 DEF Full

LEMMA LifeStep == ASSUME exercise = "life_meaning", LifeInv, [Next]_vars PROVE LifeInv'
<1> USE DEF LifeInv, Process, LifeStatus
<1>1. CASE UNCHANGED exchangeVars
  BY <1>1 DEF exchangeVars
<1>2. ASSUME NEW p \in Process, p = "p", step[p] = 1, Fork(p) PROVE LifeInv'
  BY <1>2 DEF Fork, Returns
<1>3. ASSUME NEW p \in Process, p = "p", step[p] = 1, ForkFails(p) PROVE LifeInv'
  BY <1>3 DEF ForkFails, Ends
<1>4. ASSUME NEW p \in Process, p = "p", step[p] = 2, Await(p) PROVE LifeInv'
  BY <1>4 DEF Await, Returns
<1>5. ASSUME NEW p \in Process, p = "p", step[p] = 3, read_from_file(p) PROVE LifeInv'
  <2>1. /\ step["c"] = 4 /\ Full(file) /\ Begins(out[p]) /\ ~keep_waiting
        /\ UNCHANGED <<file, keep_waiting, status>>
    BY <1>5 DEF read_from_file
  <2>2. CASE Len(out[p]) < Len(file)
    <3>1. out' = [out EXCEPT ![p] = SubSeq(file, 1, Len(out[p]) + 1)] /\ step' = step
      BY <1>5, <2>2 DEF read_from_file
    <3>2. Begins(SubSeq(file, 1, Len(out[p]) + 1))
      BY <2>1, <2>2, OneByte DEF Full
    <3>3. Begins(out'["p"]) /\ out' \in [Process -> Seq({4, 2})]
      BY <1>5, <3>1, <3>2 DEF Begins
    <3> QED
      BY <1>5, <2>1, <3>1, <3>3
  <2>3. CASE ~(Len(out[p]) < Len(file))
    <3>1. out' = out /\ step' = [step EXCEPT ![p] = 4]
      BY <1>5, <2>3 DEF read_from_file, Returns
    <3>2. Full(out[p])
      BY <2>1, <2>3 DEF Full, Begins
    <3> QED
      BY <1>5, <2>1, <3>1, <3>2
  <2> QED
    BY <2>2, <2>3
<1>6. ASSUME NEW p \in Process, p = "c", step[p] = 1, Truncate(p) PROVE LifeInv'
  BY <1>6 DEF Truncate, Returns, Begins
<1>7. ASSUME NEW p \in Process, p = "c", step[p] = 2, WriteFile(p) PROVE LifeInv'
  <2>1. /\ Begins(file) /\ keep_waiting /\ step["p"] \in {1, 2}
        /\ UNCHANGED <<out, keep_waiting, status>>
    BY <1>7 DEF WriteFile
  <2>2. Begins(Answer) /\ Len(Answer) = 2
    BY DEF Begins, Answer
  <2>3. CASE Len(file) < Len(Answer)
    <3>1. file' = SubSeq(Answer, 1, Len(file) + 1) /\ step' = step
      BY <1>7, <2>3 DEF WriteFile
    <3>2. Begins(file')
      BY <2>1, <2>2, <2>3, <3>1, OneByte
    <3> QED
      BY <1>7, <2>1, <3>1, <3>2
  <2>4. CASE ~(Len(file) < Len(Answer))
    <3>1. file' = file /\ step' = [step EXCEPT ![p] = 3]
      BY <1>7, <2>4 DEF WriteFile, Returns
    <3>2. Full(file)
      BY <2>1, <2>4, AllBytes
    <3> QED
      BY <1>7, <2>1, <3>1, <3>2
  <2> QED
    BY <2>3, <2>4
<1>8. ASSUME NEW p \in Process, p = "c", step[p] = 3, Kill(p) PROVE LifeInv'
  <2>1. /\ Begins(file) /\ Full(file) /\ keep_waiting' = FALSE
        /\ step' = [step EXCEPT !["c"] = 4] /\ UNCHANGED <<file, out, status>>
    BY <1>8 DEF Kill, Returns
  <2>2. keep_waiting' \in BOOLEAN /\ ~keep_waiting'
    BY <2>1
  <2>3. step' \in [Process -> 1 .. 4] /\ step'["c"] = 4 /\ step'["p"] = step["p"]
    BY <2>1
  <2> QED
    BY <2>1, <2>2, <2>3
<1>9. ASSUME NEW p \in Process, p # "d", FileFails(p) PROVE LifeInv'
  BY <1>9 DEF FileFails, Ends
<1>10. ASSUME NEW p \in Process, p # "d" => step[p] = 4, Exit(p) PROVE LifeInv'
  BY <1>10 DEF Exit, Ends
<1> QED
  BY <1>1, <1>2, <1>3, <1>4, <1>5, <1>6, <1>7, <1>8, <1>9, <1>10, LifeSteps

LEMMA SameExercise == [Next]_vars => exercise' = exercise
BY DEF Next, vars, exchangeVars, ExchangeNext, ProcessStep, ForkFails, FileFails, MmapFails,
       Fork, Wait, Exit, Close, WriteSome, WriteKilled, ReadSome, ReadEnd, NoDescriptor,
       Mkfifo, Unlink, OpenFails, OpenBegins, OpenReturns, Truncate, WriteFile, Kill, Await,
       read_from_file, StoreX, LoadX

LEMMA AnswerHolds == AnswerInv => AnswerOfThisRun
<1> SUFFICES ASSUME AnswerInv, exercise = "life_meaning", status["p"] = "exited"
             PROVE  out["p"] = Answer
  BY DEF AnswerOfThisRun, Took
<1>1. Begins(out["p"]) /\ Len(out["p"]) = 2
  BY DEF AnswerInv, LifeInv, Full
<1> QED
  BY <1>1 DEF Begins, Answer

\* The parent of life_meaning prints the whole answer of the worker it has started,
\* whatever the file held before.
THEOREM AnswerIsNew == Spec => []AnswerOfThisRun
<1>1. AnswerInv /\ [Next]_vars => AnswerInv'
  BY SameExercise, LifeStep DEF AnswerInv
<1> QED
  BY <1>1, AnswerInitially, AnswerHolds, PTL DEF Spec

-----------------------------------------------------------------------------
(***************************************************************************)
(* Exchange: the programs that pass data                                   *)
(***************************************************************************)
Symbol == (Process \X Nat) \cup Nat

ExchangeTypes ==
    /\ step \in [Process -> Nat \ {0}] /\ sent \in [Process -> Nat] /\ len \in Nat
    /\ DOMAIN status = Process /\ (exercise # "fifo" => status["d"] = "unborn")

\* Of the programs with pipes.
PipeTypes == buf \in [Pipe -> Seq(Symbol)] /\ out \in [Process -> Seq(Symbol)]

\* The two ends of pipe 1 are open: r reads in its step rs until the end of file and w
\* writes in its step ws; each closes its end in the step after.  What has been read
\* and what is in the pipe are what has been written.
Flow(r, w, rs, ws) ==
    /\ step[r] <= rs + 1 => Running(r) /\ <<r, 1, "r">> \in held
    /\ step[w] <= ws + 1 => Running(w) /\ <<w, 1, "w">> \in held
    /\ sent[w] <= len /\ (step[w] # ws => sent[w] = 0)
    /\ step[r] <= rs =>
           out[r] \o buf[1] = SubSeq(Message(w), 1, IF step[w] > ws THEN len ELSE sent[w])
    /\ step[r] > rs => out[r] = Message(w) /\ step[w] > ws + 1

\* Nothing has been written.
Empty(r, w) == out[r] = <<>> /\ buf[1] = <<>> /\ sent[w] = 0

PipeInv ==
    /\ step["p"] \in 1 .. 5 /\ step["c"] \in 1 .. 4 /\ (Took("p") => step["p"] = 5)
    /\ IF status["c"] = "unborn" THEN step["p"] = 1 /\ step["c"] = 1 /\ Empty("p", "c")
                                 ELSE step["p"] >= 2 /\ Flow("p", "c", 3, 2)

PapaInv ==
    /\ step["p"] \in 1 .. 6 /\ step["c"] \in 1 .. 4 /\ (Took("c") => step["c"] = 4)
    /\ IF status["c"] = "unborn" THEN step["p"] = 1 /\ step["c"] = 1 /\ Empty("c", "p")
                                 ELSE step["p"] >= 2 /\ Flow("c", "p", 2, 3)

\* The processes have met, or at most one has begun to open the fifo.
Fifo2Inv ==
    /\ step["p"] \in 1 .. 6 /\ step["c"] \in 1 .. 4 /\ (Took("p") => step["p"] = 6)
    /\ IF met = {}
       THEN /\ step["p"] <= 2 /\ step["c"] = 1 /\ Empty("p", "c")
            /\ held = {} \/ held = {<<"p", 1, "r">>} \/ held = {<<"c", 1, "w">>}
            /\ <<"p", 1, "r">> \in held => Running("p") /\ step["p"] = 2
            /\ <<"c", 1, "w">> \in held => Running("c")
       ELSE step["p"] >= 2 /\ Flow("p", "c", 3, 2)

\* One read takes what one write has written.
Papa2Held ==
    /\ step["p"] <= 5 => <<"p", 1, "w">> \in held
    /\ step["p"] <= 7 => Running("p") /\ <<"p", 2, "r">> \in held
    /\ step["c"] <= 4 => <<"c", 1, "r">> \in held
    /\ step["c"] <= 6 => Running("c") /\ <<"c", 2, "w">> \in held
Papa2Data ==
    /\ step["c"] <= 3 => out["c"] = <<>> /\ buf[1] = IF step["p"] <= 4 THEN <<>> ELSE Message("p")
    /\ step["c"] > 3 => out["c"] = Message("p") /\ step["p"] >= 5
    /\ step["p"] <= 6 => out["p"] = <<>> /\ buf[2] = IF step["c"] <= 5 THEN <<>> ELSE <<len>>
    /\ step["p"] > 6 => out["p"] = <<len>> /\ step["c"] >= 6

Papa2Inv ==
    /\ step["p"] \in 1 .. 9 /\ step["c"] \in 1 .. 7
    /\ Took("p") => step["p"] = 9
    /\ Took("c") => step["c"] = 7
    /\ sent["p"] = 0 /\ sent["c"] = 0
    /\ status["c"] = "unborn" /\ step["p"] = 1 =>
           step["c"] = 1 /\ buf = [x \in Pipe |-> <<>>] /\ out["p"] = <<>> /\ out["c"] = <<>>
    /\ status["c"] # "unborn" => step["p"] >= 2 /\ Papa2Held /\ Papa2Data

\* What mmap_b makes of what it finds.
Values == {5, 6} \cup {x + 1 : x \in OldX}

MmapInv ==
    /\ DOMAIN out = Process /\ step["p"] \in 1 .. 5 /\ step["c"] \in 1 .. 3
    /\ Took("p") => step["p"] = 5
    /\ step["c"] = 1 => out["c"] = <<>>
    /\ step["c"] = 2 => \E v \in OldX \cup {5} : out["c"] = <<v>>
    /\ step["c"] <= 2 => (\E v \in OldX : file = <<v>>) \/ (step["p"] >= 3 /\ file = <<5>>)
    /\ step["c"] <= 2 /\ step["p"] >= 3 => file = <<5>>
    /\ step["p"] >= 3 => \E y \in Values : file = <<y>>
    /\ step["p"] <= 3 => out["p"] = <<>>
    /\ step["p"] = 4 => out["p"] = <<5>> \/ (out["p"] = file /\ step["c"] = 3)
    /\ step["p"] = 5 => \E y \in Values : out["p"] \in {<<5, y>>, <<y, y>>}

\* n messages, the k-th by w[k].
Stream(n, w) ==
    [k \in 1 .. n * len |-> Message(w[((k - 1) \div len) + 1])[((k - 1) % len) + 1]]
Messages(s, c, d) ==
    \E n \in 0 .. c + d : \E w \in [1 .. n -> {"c", "d"}] :
        Times(w, "c") <= c /\ Times(w, "d") <= d /\ s = Stream(n, w)

\* The writes a fifo_writer has made before its n-th step, at most.
Writes(n) == IF n <= 2 THEN 0 ELSE IF n > Repeats + 2 THEN Repeats ELSE n - 2

FifoData ==
    /\ step["p"] <= 2 /\ <<"p", 1, "r">> \in held =>
           Messages(out["p"] \o buf[1], Writes(step["c"]), Writes(step["d"]))
    /\ step["p"] <= 2 /\ <<"p", 1, "r">> \notin held => out["p"] = <<>> /\ buf[1] = <<>>
    /\ step["p"] > 2 => Whole(out["p"])

FifoInv ==
    /\ held \subseteq {<<"p", 1, "r">>, <<"c", 1, "w">>, <<"d", 1, "w">>}
    /\ step["p"] \in 1 .. 4 /\ step["c"] \in 1 .. Repeats + 3 /\ step["d"] \in 1 .. Repeats + 3
    /\ Took("p") => step["p"] = 4
    /\ sent["c"] = 0 /\ sent["d"] = 0
    /\ FifoData

ProgramInv ==
    /\ exercise = "pipe" => PipeInv
    /\ exercise = "papa_son_pipe" => PapaInv
    /\ exercise = "papa_son_pipe2" /\ len <= PIPE_BUF /\ len <= BUF_SIZE => Papa2Inv
    /\ exercise = "fifo2" => Fifo2Inv
    /\ exercise = "mmap" => MmapInv
    /\ exercise = "fifo" /\ len \in 1 .. PIPE_BUF => FifoInv
ExchangeInv ==
    exercise \in ExchangeProgram \ {"life_meaning"} =>
        ExchangeTypes /\ (exercise # "mmap" => PipeTypes) /\ ProgramInv

-----------------------------------------------------------------------------
(***************************************************************************)
(* The call a process makes is the next one of its script                  *)
(***************************************************************************)
\* A process is in the middle of the call that its script names.
LEMMA Doing ==
    ASSUME NEW p \in Process, NEW op, Does(p, op)
    PROVE  Running(p) /\ step[p] <= Len(Calls(p)) /\ Current(p).op = op
BY DEF Does

\* The actions of one call.
Makes(p, op) ==
    \/ op = "fork" /\ (Fork(p) \/ ForkFails(p))
    \/ op = "wait" /\ Wait(p)
    \/ op \in {"close_r", "close_w"} /\ Close(p)
    \/ op \in {"write", "reply"} /\ (WriteSome(p) \/ WriteKilled(p) \/ NoDescriptor(p))
    \/ op \in {"read", "read_all"} /\ (ReadSome(p) \/ ReadEnd(p) \/ NoDescriptor(p))
    \/ op = "mkfifo" /\ Mkfifo(p)
    \/ op = "unlink" /\ Unlink(p)
    \/ op \in {"open_r", "open_w"} /\ (OpenFails(p) \/ OpenBegins(p) \/ OpenReturns(p))
    \/ op \in {"store", "increment"} /\ (StoreX(p) \/ MmapFails(p))
    \/ op \in {"load", "print"} /\ (LoadX(p) \/ MmapFails(p))
    \/ op \in {"truncate", "write_file", "kill", "await", "read_file"}

LEMMA CallMade ==
    ASSUME NEW p \in Process, ProcessStep(p) \/ ForkFails(p) \/ FileFails(p) \/ MmapFails(p)
    PROVE  /\ Running(p)
           /\ \/ step[p] > Len(Calls(p)) /\ Exit(p)
              \/ step[p] <= Len(Calls(p)) /\ Makes(p, Current(p).op)
<1> DEFINE Goal == /\ Running(p)
                   /\ \/ step[p] > Len(Calls(p)) /\ Exit(p)
                      \/ step[p] <= Len(Calls(p)) /\ Makes(p, Current(p).op)
<1>1. CASE Fork(p) \/ ForkFails(p)
  BY <1>1, Doing DEF Fork, ForkFails, Makes
<1>2. CASE Wait(p)
  BY <1>2, Doing DEF Wait, Makes
<1>3. CASE Close(p)
  <2>1. PICK op \in {"close_r", "close_w"} : Does(p, op)
    BY <1>3 DEF Close
  <2> QED
    BY <1>3, <2>1, Doing DEF Makes
<1>4. CASE WriteSome(p) \/ WriteKilled(p)
  <2>1. PICK op \in {"write", "reply"} : Does(p, op)
    BY <1>4 DEF WriteSome, WriteKilled, Writing
  <2> QED
    BY <1>4, <2>1, Doing DEF Makes
<1>5. CASE ReadSome(p) \/ ReadEnd(p)
  <2>1. PICK op \in {"read", "read_all"} : Does(p, op)
    BY <1>5 DEF ReadSome, ReadEnd, Reading
  <2> QED
    BY <1>5, <2>1, Doing DEF Makes
<1>6. CASE NoDescriptor(p)
  <2>1. PICK op \in {"write", "reply", "read", "read_all"} : Does(p, op)
    BY <1>6 DEF NoDescriptor, Reading, Writing
  <2> QED
    BY <1>6, <2>1, Doing DEF Makes
<1>7. CASE Mkfifo(p)
  BY <1>7, Doing DEF Mkfifo, Makes
<1>8. CASE Unlink(p)
  BY <1>8, Doing DEF Unlink, Makes
<1>9. CASE OpenFails(p) \/ OpenBegins(p) \/ OpenReturns(p)
  <2>1. PICK op \in {"open_r", "open_w"} : Does(p, op)
    BY <1>9 DEF OpenFails, OpenBegins, OpenReturns
  <2> QED
    BY <1>9, <2>1, Doing DEF Makes
<1>10. CASE StoreX(p)
  <2>1. PICK op \in {"store", "increment"} : Does(p, op)
    BY <1>10 DEF StoreX
  <2> QED
    BY <1>10, <2>1, Doing DEF Makes
<1>11. CASE LoadX(p)
  <2>1. PICK op \in {"load", "print"} : Does(p, op)
    BY <1>11 DEF LoadX
  <2> QED
    BY <1>11, <2>1, Doing DEF Makes
<1>12. CASE MmapFails(p)
  <2>1. PICK op \in {"store", "load"} : Does(p, op)
    BY <1>12 DEF MmapFails
  <2> QED
    BY <1>12, <2>1, Doing DEF Makes
<1>13. ASSUME NEW op \in {"truncate", "write_file", "kill", "await", "read_file"}, Does(p, op)
       PROVE  Goal
  BY <1>13, Doing DEF Makes
<1>14. CASE Exit(p)
  BY <1>14 DEF Exit
<1> HIDE DEF Goal
<1>15. CASE Truncate(p) \/ WriteFile(p) \/ Kill(p) \/ Await(p) \/ read_from_file(p) \/ FileFails(p)
  <2>1. PICK op \in {"truncate", "write_file", "kill", "await", "read_file"} : Does(p, op)
    BY <1>15 DEF Truncate, WriteFile, Kill, Await, read_from_file, FileFails
  <2> QED
    BY <1>13, <2>1 DEF Goal
<1> QED
  BY <1>1, <1>2, <1>3, <1>4, <1>5, <1>6, <1>7, <1>8, <1>9, <1>10, <1>11, <1>12, <1>14, <1>15
  DEF ProcessStep, Goal

\* A step of the exercise is a call of a process, or its end.
LEMMA StepOf ==
    ASSUME [Next]_vars
    PROVE  \/ UNCHANGED exchangeVars
           \/ \E p \in Process :
                  /\ Running(p)
                  /\ \/ step[p] > Len(Calls(p)) /\ Exit(p)
                     \/ step[p] <= Len(Calls(p)) /\ Makes(p, Current(p).op)
BY CallMade DEF Next, ExchangeNext, vars

\* What some of them do.
LEMMA Closing ==
    ASSUME NEW p \in Process, Close(p), NEW x, NEW end \in {"r", "w"},
           Current(p) = Call(IF end = "r" THEN "close_r" ELSE "close_w", x, 0)
    PROVE  Release({<<p, x, end>>}) /\ Returns(p)
<1>1. PICK e \in {"r", "w"} : /\ Does(p, IF e = "r" THEN "close_r" ELSE "close_w")
                              /\ Release({<<p, Current(p).pipe, e>>})
  BY DEF Close
<1>2. Current(p).op = IF e = "r" THEN "close_r" ELSE "close_w"
  BY <1>1 DEF Does
<1>3. e = end /\ Current(p).pipe = x
  BY <1>2 DEF Call
<1> QED
  BY <1>1, <1>3 DEF Close

\* A descriptor that is not closed stays, and so does what is in its pipe.
LEMMA Released ==
    ASSUME NEW fds, Release(fds), NEW d \in held, d \notin fds, d[2] \in Pipe
    PROVE  d \in held' /\ buf'[d[2]] = buf[d[2]]
BY DEF Release, Holders

LEMMA ReleaseTyped ==
    ASSUME PipeTypes, NEW fds, Release(fds)
    PROVE  buf' \in [Pipe -> Seq(Symbol)]
BY DEF Release, PipeTypes

LEMMA MessageTyped ==
    ASSUME NEW p \in Process, len \in Nat
    PROVE  Message(p) \in Seq(Symbol) /\ Len(Message(p)) = len
<1>1. \A k \in 1 .. len : <<p, k>> \in Symbol
  BY DEF Symbol
<1> QED
  BY <1>1 DEF Message

-----------------------------------------------------------------------------
(***************************************************************************)
(* A message goes through a pipe                                           *)
(***************************************************************************)
LEMMA Associative == \A s, t, u \in Seq(Symbol) : (s \o t) \o u = s \o (t \o u)
BY ConcatAssociative

\* A read moves data from the pipe to the reader and changes no byte of it.
LEMMA ReadsOn ==
    ASSUME NEW s \in Seq(Symbol), NEW t \in Seq(Symbol), NEW n \in 0 .. Len(t)
    PROVE  (s \o SubSeq(t, 1, n)) \o SubSeq(t, n + 1, Len(t)) = s \o t
<1> DEFINE a == SubSeq(t, 1, n)
           b == SubSeq(t, n + 1, Len(t))
<1>1. Len(t) \in Nat /\ n \in Nat
  BY LenProperties
<1>2. 1 \in 1 .. Len(t) + 1 /\ n \in 1 - 1 .. Len(t) /\ Len(t) \in n .. Len(t)
  BY <1>1
<1>3. a \o b = SubSeq(t, 1, Len(t))
  BY <1>2, ConcatAdjacentSubSeq
<1>4. SubSeq(t, 1, Len(t)) = t
  BY SubSeqFull
<1>5. a \in Seq(Symbol) /\ b \in Seq(Symbol)
  <2>1. \A x \in 1 .. n : t[x] \in Symbol
    BY <1>1, ElementOfSeq
  <2>2. \A x \in n + 1 .. Len(t) : t[x] \in Symbol
    BY <1>1, ElementOfSeq
  <2> QED
    BY <1>1, <2>1, <2>2, SubSeqProperties
<1> HIDE DEF a, b
<1>6. (s \o a) \o b = s \o (a \o b)
  BY <1>5, ConcatAssociative
<1>7. (s \o a) \o b = s \o t
  BY <1>3, <1>4, <1>6
<1> QED
  BY <1>7 DEF a, b

\* A part of a write continues what is in the pipe.
LEMMA WritesOn ==
    ASSUME NEW s \in Seq(Symbol), NEW t \in Seq(Symbol), NEW m \in Seq(Symbol),
           NEW j \in 0 .. Len(m), NEW k \in j .. Len(m), s \o t = SubSeq(m, 1, j)
    PROVE  s \o (t \o SubSeq(m, j + 1, k)) = SubSeq(m, 1, k)
<1> DEFINE b == SubSeq(m, j + 1, k)
<1>1. Len(m) \in Nat /\ j \in Nat /\ k \in Nat
  BY LenProperties
<1>2. 1 \in 1 .. Len(m) + 1 /\ j \in 1 - 1 .. Len(m) /\ k \in j .. Len(m)
  BY <1>1
<1>3. SubSeq(m, 1, j) \o b = SubSeq(m, 1, k)
  BY <1>2, ConcatAdjacentSubSeq
<1>4. \A x \in j + 1 .. k : m[x] \in Symbol
  BY <1>1, ElementOfSeq
<1>5. b \in Seq(Symbol)
  BY <1>1, <1>4, SubSeqProperties
<1> HIDE DEF b
<1>6. (s \o t) \o b = s \o (t \o b)
  BY <1>5, Associative, Zenon
<1>7. s \o (t \o b) = SubSeq(m, 1, k)
  BY <1>3, <1>6
<1> QED
  BY <1>7 DEF b

\* After fork(), or when both have opened the fifo.
LEMMA FlowStart ==
    ASSUME ExchangeTypes, PipeTypes, NEW r \in Process, NEW w \in Process, r # w, Empty(r, w),
           NEW rs \in Nat, NEW ws \in Nat, step' \in [Process -> Nat \ {0}],
           step'[r] <= rs, step'[w] <= ws, UNCHANGED <<buf, out, sent, len>>,
           Running(r)', Running(w)', <<r, 1, "r">> \in held', <<w, 1, "w">> \in held'
    PROVE  Flow(r, w, rs, ws)'
<1>1. SubSeq(Message(w)', 1, 0) = <<>>
  BY SubSeqEmpty
<1>2. <<>> \o <<>> = <<>>
  BY ConcatEmptySeq, EmptySeq
<1>3. step'[r] \in Nat /\ step'[w] \in Nat /\ len' \in Nat
  BY DEF ExchangeTypes
<1>4. sent'[w] = 0 /\ out'[r] = <<>> /\ buf'[1] = <<>>
  BY DEF Empty
<1>5. ~(step'[r] > rs) /\ ~(step'[w] > ws) /\ 0 <= len'
  BY <1>3
<1>6. out'[r] \o buf'[1] = SubSeq(Message(w)', 1, IF step'[w] > ws THEN len' ELSE sent'[w])
  BY <1>1, <1>2, <1>4, <1>5
<1> QED
  BY <1>4, <1>5, <1>6 DEF Flow

\* A step that neither reads nor writes.
LEMMA FlowMove ==
    ASSUME ExchangeTypes, PipeTypes, NEW r \in Process, NEW w \in Process, r # w,
           NEW rs \in Nat, NEW ws \in Nat, Flow(r, w, rs, ws), step' \in [Process -> Nat \ {0}],
           out'[r] = out[r], sent'[w] = sent[w], len' = len,
           step'[r] = step[r] \/ (step[r] # rs /\ step'[r] = step[r] + 1),
           step'[w] = step[w] \/ (step[w] # ws /\ step'[w] = step[w] + 1),
           step'[r] <= rs + 1 => Running(r)' /\ <<r, 1, "r">> \in held',
           step'[w] <= ws + 1 => Running(w)' /\ <<w, 1, "w">> \in held',
           step[r] <= rs => buf'[1] = buf[1]
    PROVE  Flow(r, w, rs, ws)'
<1>1. Message(w)' = Message(w)
  BY DEF Message
<1>2. step[r] \in Nat /\ step[w] \in Nat /\ step'[r] \in Nat /\ step'[w] \in Nat /\ sent[w] \in Nat
  BY DEF ExchangeTypes
<1>3. step'[r] <= rs => step[r] <= rs
  BY <1>2
<1>4. step'[r] > rs => step[r] > rs
  BY <1>2
<1>5. sent'[w] <= len' /\ (step'[w] # ws => sent'[w] = 0)
  BY <1>2 DEF Flow
<1>6. (IF step'[w] > ws THEN len' ELSE sent'[w]) = IF step[w] > ws THEN len ELSE sent[w]
  BY <1>2 DEF Flow
<1>7. step'[r] <= rs => out'[r] \o buf'[1]
                            = SubSeq(Message(w)', 1, IF step'[w] > ws THEN len' ELSE sent'[w])
  BY <1>1, <1>3, <1>6 DEF Flow
<1>8. step'[r] > rs => out'[r] = Message(w)' /\ step'[w] > ws + 1
  BY <1>1, <1>2, <1>4 DEF Flow
<1> QED
  BY <1>5, <1>7, <1>8 DEF Flow

\* A process closes the other end of the pipe, or its own when it is done with it.
LEMMA FlowClose ==
    ASSUME ExchangeTypes, PipeTypes, NEW r \in Process, NEW w \in Process, r # w,
           NEW rs \in Nat, NEW ws \in Nat, Flow(r, w, rs, ws), step' \in [Process -> Nat \ {0}],
           NEW q \in {r, w}, NEW end \in {"r", "w"}, Release({<<q, 1, end>>}), Returns(q),
           UNCHANGED <<status, sent, out, len>>,
           q = r => step[r] # rs /\ (end = "r" => step[r] = rs + 1),
           q = w => step[w] # ws /\ (end = "w" => step[w] = ws + 1)
    PROVE  Flow(r, w, rs, ws)'
<1>1. /\ step'[r] = step[r] \/ (step[r] # rs /\ step'[r] = step[r] + 1)
      /\ step'[w] = step[w] \/ (step[w] # ws /\ step'[w] = step[w] + 1)
  BY DEF Returns, ExchangeTypes
<1>2. step[r] \in Nat /\ step[w] \in Nat /\ step'[r] \in Nat /\ step'[w] \in Nat /\ 1 \in Pipe
  BY DEF ExchangeTypes, Pipe
<1>a. q = r => step'[r] = step[r] + 1
  BY DEF Returns, ExchangeTypes
<1>b. q = w => step'[w] = step[w] + 1
  BY DEF Returns, ExchangeTypes
<1>3. ASSUME step'[r] <= rs + 1
      PROVE  step[r] <= rs + 1 /\ <<r, 1, "r">> # <<q, 1, end>>
  BY <1>a, <1>1, <1>2, <1>3
<1>4. ASSUME step'[w] <= ws + 1
      PROVE  step[w] <= ws + 1 /\ <<w, 1, "w">> # <<q, 1, end>>
  BY <1>b, <1>1, <1>2, <1>4
<1>5. step'[r] <= rs + 1 => Running(r)' /\ <<r, 1, "r">> \in held'
  BY <1>3 DEF Flow, Running, Release
<1>6. step'[w] <= ws + 1 => Running(w)' /\ <<w, 1, "w">> \in held'
  BY <1>4 DEF Flow, Running, Release
<1>7. ASSUME step[r] <= rs PROVE buf'[1] = buf[1]
  <2>1. <<r, 1, "r">> \in held
    BY <1>2, <1>7 DEF Flow
  <2>2. <<r, 1, "r">> # <<q, 1, end>>
    BY <1>2, <1>7
  <2>3. PICK d \in held : d = <<r, 1, "r">>
    BY <2>1
  <2>4. buf'[d[2]] = buf[d[2]]
    <3>1. d \notin {<<q, 1, end>>} /\ d[2] \in Pipe
      BY <1>2, <2>2, <2>3
    <3> QED
      BY <3>1, Released
  <2> QED
    BY <2>3, <2>4
<1> QED
  BY <1>1, <1>5, <1>6, <1>7, FlowMove

\* A process that is done ends.
LEMMA FlowEnds ==
    ASSUME ExchangeTypes, PipeTypes, NEW r \in Process, NEW w \in Process, r # w,
           NEW rs \in Nat, NEW ws \in Nat, Flow(r, w, rs, ws), NEW q \in {r, w}, NEW how, Ends(q, how),
           UNCHANGED <<step, sent, out, len>>,
           q = r => step[r] > rs + 1, q = w => step[w] > ws + 1
    PROVE  Flow(r, w, rs, ws)'
<1>1. step' \in [Process -> Nat \ {0}] /\ step[r] \in Nat /\ step[w] \in Nat /\ 1 \in Pipe
  BY DEF ExchangeTypes, Pipe
<1>2. Release({d \in held : d[1] = q})
  BY DEF Ends
<1>3. ASSUME step[r] <= rs + 1
      PROVE  Running(r)' /\ <<r, 1, "r">> \in held' /\ buf'[1] = buf[1]
  <2>1. r # q
    BY <1>1, <1>3
  <2>2. Running(r)'
    BY <1>3, <2>1 DEF Ends, ExchangeTypes, Flow, Running
  <2>3. PICK d \in held : d = <<r, 1, "r">>
    BY <1>3 DEF Flow
  <2>4. d \notin {e \in held : e[1] = q} /\ d[2] \in Pipe
    BY <1>1, <2>1, <2>3
  <2>5. d \in held' /\ buf'[d[2]] = buf[d[2]]
    BY <1>2, <2>4, Released
  <2> QED
    BY <2>2, <2>3, <2>5
<1>4. ASSUME step[w] <= ws + 1
      PROVE  Running(w)' /\ <<w, 1, "w">> \in held'
  <2>1. w # q
    BY <1>1, <1>4
  <2>2. Running(w)'
    BY <1>4, <2>1 DEF Ends, ExchangeTypes, Flow, Running
  <2>3. PICK d \in held : d = <<w, 1, "w">>
    BY <1>4 DEF Flow
  <2>4. d \notin {e \in held : e[1] = q} /\ d[2] \in Pipe
    BY <1>1, <2>1, <2>3
  <2>5. d \in held' /\ buf'[d[2]] = buf[d[2]]
    BY <1>2, <2>4, Released
  <2> QED
    BY <2>2, <2>3, <2>5
<1>5. step[r] <= rs => buf'[1] = buf[1]
  BY <1>1, <1>3
<1> QED
  BY <1>1, <1>3, <1>4, <1>5, FlowMove

\* A part of the message goes into the pipe, or the last part of it.
LEMMA FlowWrite ==
    ASSUME ExchangeTypes, PipeTypes, NEW r \in Process, NEW w \in Process, r # w,
           NEW rs \in Nat, NEW ws \in Nat, Flow(r, w, rs, ws), step' \in [Process -> Nat \ {0}],
           step[w] = ws, Current(w) = Write(1), WriteSome(w)
    PROVE  Flow(r, w, rs, ws)' /\ step'[w] \in {ws, ws + 1} /\ step'[r] = step[r]
<1>1. PICK m \in Seq(Symbol) : m = Message(w)
  BY MessageTyped DEF ExchangeTypes
<1>2. Len(m) = len /\ len \in Nat /\ sent[w] \in 0 .. len
  BY <1>1, MessageTyped DEF ExchangeTypes, Flow
<1>3. Current(w).pipe = 1 /\ Data(w) = m /\ 1 \in Pipe
  BY <1>1 DEF Write, Call, Data, Pipe
<1>4. PICK k \in 0 .. len - sent[w] :
          /\ buf' = [buf EXCEPT ![1] = buf[1] \o SubSeq(m, sent[w] + 1, sent[w] + k)]
          /\ sent' = [sent EXCEPT ![w] = IF k = len - sent[w] THEN 0 ELSE sent[w] + k]
          /\ IF k = len - sent[w] THEN Returns(w) ELSE UNCHANGED step
  BY <1>2, <1>3 DEF WriteSome
<1>5. UNCHANGED <<status, held, out, len>>
  BY DEF WriteSome
<1>6. step[r] \in Nat /\ step'[r] = step[r]
  BY <1>4 DEF ExchangeTypes, Returns
<1>7. step[r] <= rs
  BY <1>6 DEF Flow
<1>8. PICK j \in 0 .. len : j = sent[w] + k
  BY <1>2
<1>9. out[r] \o buf[1] = SubSeq(m, 1, sent[w]) /\ out[r] \in Seq(Symbol) /\ buf[1] \in Seq(Symbol)
  <2>1. out[r] \o buf[1] = SubSeq(Message(w), 1, IF step[w] > ws THEN len ELSE sent[w])
    BY <1>7 DEF Flow
  <2>2. ~(step[w] > ws)
    OBVIOUS
  <2>3. out[r] \in Seq(Symbol) /\ buf[1] \in Seq(Symbol)
    BY <1>3 DEF PipeTypes
  <2> QED
    BY <1>1, <2>1, <2>2, <2>3, Zenon
<1>10. out'[r] \o buf'[1] = SubSeq(m, 1, j)
  <2>1. buf'[1] = buf[1] \o SubSeq(m, sent[w] + 1, j)
    BY <1>3, <1>4, <1>8 DEF PipeTypes
  <2>2. sent[w] \in 0 .. Len(m) /\ j \in sent[w] .. Len(m)
    BY <1>2, <1>8
  <2>3. out[r] \o (buf[1] \o SubSeq(m, sent[w] + 1, j)) = SubSeq(m, 1, j)
    BY <1>9, <2>2, WritesOn
  <2> QED
    BY <1>5, <2>1, <2>3
<1>11. Message(w)' = m
  BY <1>1, <1>5 DEF Message
<1>12. CASE k = len - sent[w]
  <2>1. step'[w] = ws + 1 /\ sent'[w] = 0 /\ j = len
    BY <1>2, <1>4, <1>8, <1>12 DEF Returns, ExchangeTypes
  <2>2. step'[r] <= rs /\ step'[w] > ws /\ ~(step'[r] > rs)
    BY <1>6, <1>7, <2>1
  <2>3. step'[r] <= rs + 1 => Running(r)' /\ <<r, 1, "r">> \in held'
    BY <1>5, <1>6 DEF Flow, Running
  <2>4. step[w] <= ws + 1
    OBVIOUS
  <2>5. Running(w)' /\ <<w, 1, "w">> \in held'
    BY <1>5, <2>4 DEF Flow, Running
  <2> QED
    BY <1>2, <1>5, <1>6, <1>10, <1>11, <2>1, <2>2, <2>3, <2>5 DEF Flow
<1>13. CASE k # len - sent[w]
  <2>1. step' = step /\ sent'[w] = j
    BY <1>4, <1>8, <1>13 DEF ExchangeTypes
  <2>2. ~(step'[w] > ws) /\ ~(step'[r] > rs) /\ j <= len /\ step[w] <= ws + 1
    BY <1>6, <1>7, <1>8, <2>1
  <2>3. step'[r] <= rs + 1 => Running(r)' /\ <<r, 1, "r">> \in held'
    BY <1>5, <1>6 DEF Flow, Running
  <2>5. Running(w)' /\ <<w, 1, "w">> \in held'
    BY <1>5, <2>2 DEF Flow, Running
  <2> QED
    BY <1>5, <1>6, <1>10, <1>11, <2>1, <2>2, <2>3, <2>5 DEF Flow
<1> QED
  BY <1>12, <1>13

\* A part of the message is read.
LEMMA FlowRead ==
    ASSUME ExchangeTypes, PipeTypes, NEW r \in Process, NEW w \in Process, r # w,
           NEW rs \in Nat, NEW ws \in Nat, Flow(r, w, rs, ws), NEW n \in Nat,
           step[r] = rs, Current(r) = Call("read_all", 1, n), ReadSome(r)
    PROVE  Flow(r, w, rs, ws)' /\ UNCHANGED <<step, status, held, sent, len>>
<1>1. Current(r).op = "read_all" /\ Current(r).pipe = 1 /\ Current(r).n = n /\ 1 \in Pipe
  BY DEF Call, Pipe
<1>2. ~Does(r, "read")
  BY <1>1 DEF Does
<1>3. UNCHANGED <<step, status, held, sent, len>>
  BY <1>2 DEF ReadSome
<1>4. PICK t \in Seq(Symbol) : t = buf[1]
  BY <1>1 DEF PipeTypes
<1>5. PICK s \in Seq(Symbol) : s = out[r]
  BY DEF PipeTypes
<1>6. PICK k \in 0 .. Len(t) : k = IF Len(t) < n THEN Len(t) ELSE n
  BY LenProperties
<1>7. /\ out' = [out EXCEPT ![r] = s \o SubSeq(t, 1, k)]
      /\ buf' = [buf EXCEPT ![1] = SubSeq(t, k + 1, Len(t))]
  BY <1>1, <1>4, <1>5, <1>6 DEF ReadSome
<1>8. out'[r] = s \o SubSeq(t, 1, k) /\ buf'[1] = SubSeq(t, k + 1, Len(t))
  BY <1>1, <1>7 DEF PipeTypes
<1>9. out'[r] \o buf'[1] = out[r] \o buf[1]
  <2>1. (s \o SubSeq(t, 1, k)) \o SubSeq(t, k + 1, Len(t)) = s \o t
    BY ReadsOn
  <2> QED
    BY <1>4, <1>5, <1>8, <2>1, Zenon
<1>10. Message(w)' = Message(w)
  BY <1>3 DEF Message
<1>11. ~(step[r] > rs) /\ step[r] <= rs
  OBVIOUS
<1>12. out'[r] \o buf'[1] = SubSeq(Message(w)', 1, IF step'[w] > ws THEN len' ELSE sent'[w])
  BY <1>3, <1>9, <1>10, <1>11 DEF Flow
<1> QED
  BY <1>3, <1>11, <1>12 DEF Flow, Running

\* The reader sees the end of file only after the writer has written everything.
LEMMA FlowReadEnd ==
    ASSUME ExchangeTypes, PipeTypes, NEW r \in Process, NEW w \in Process, r # w,
           NEW rs \in Nat, NEW ws \in Nat, Flow(r, w, rs, ws), NEW n \in Nat,
           step[r] = rs, Current(r) = Call("read_all", 1, n), ReadEnd(r)
    PROVE  Flow(r, w, rs, ws)' /\ step'[r] = rs + 1 /\ step'[w] = step[w]
<1>1. Current(r).pipe = 1 /\ 1 \in Pipe
  BY DEF Call, Pipe
<1>2. buf[1] = <<>> /\ Writers(1) = {} /\ Returns(r)
  BY <1>1 DEF ReadEnd
<1>3. UNCHANGED <<status, held, sent, out, len>>
  BY DEF ReadEnd
<1>4. step'[r] = rs + 1 /\ step'[w] = step[w] /\ step[w] \in Nat
  BY <1>2 DEF Returns, ExchangeTypes
<1>5. step[w] > ws + 1
  <2>1. <<w, 1, "w">> \notin held
    BY <1>2 DEF Writers
  <2> QED
    BY <1>4, <2>1 DEF Flow
<1>6. PICK m \in Seq(Symbol) : m = Message(w) /\ Len(m) = len
  BY MessageTyped DEF ExchangeTypes
<1>7. out[r] \o buf[1] = SubSeq(m, 1, len)
  <2>0. step[r] <= rs
    OBVIOUS
  <2>1. out[r] \o buf[1] = SubSeq(Message(w), 1, IF step[w] > ws THEN len ELSE sent[w])
    BY <2>0 DEF Flow
  <2>2. step[w] > ws
    BY <1>4, <1>5
  <2> QED
    BY <1>6, <2>1, <2>2, Zenon
<1>8. out[r] \o buf[1] = out[r]
  BY <1>2, ConcatEmptySeq DEF PipeTypes
<1>9. out[r] = m
  BY <1>6, <1>7, <1>8, SubSeqFull
<1>10. Message(w)' = m
  BY <1>3, <1>6 DEF Message
<1>11. step[r] <= rs + 1 /\ ~(step'[r] <= rs) /\ step[w] # ws /\ step'[w] > ws + 1
  BY <1>4, <1>5
<1>12. Running(r) /\ <<r, 1, "r">> \in held /\ sent[w] <= len /\ sent[w] = 0
  BY <1>11 DEF Flow
<1>13. step[w] <= ws + 1 => Running(w) /\ <<w, 1, "w">> \in held
  BY DEF Flow
<1> QED
  BY <1>3, <1>4, <1>9, <1>10, <1>11, <1>12, <1>13 DEF Flow, Running

\* Neither side misses the other.
LEMMA FlowOpen ==
    ASSUME ExchangeTypes, NEW r \in Process, NEW w \in Process,
           NEW rs \in Nat, NEW ws \in Nat, Flow(r, w, rs, ws)
    PROVE  /\ step[r] = rs /\ Current(r).pipe = 1 /\ Current(r).op = "read_all" => ~NoDescriptor(r)
           /\ step[w] = ws /\ Current(w) = Write(1) => ~NoDescriptor(w) /\ ~WriteKilled(w)
<1>1. ASSUME step[r] = rs, Current(r).pipe = 1, Current(r).op = "read_all", NoDescriptor(r) PROVE FALSE
  <2>1. step[r] <= rs + 1
    BY <1>1
  <2>2. <<r, 1, "r">> \in held
    BY <2>1 DEF Flow
  <2>3. ~Writing(r)
    BY <1>1 DEF Writing, Does
  <2> QED
    BY <1>1, <2>2, <2>3 DEF NoDescriptor
<1>2. ASSUME step[w] = ws, Current(w) = Write(1) PROVE ~NoDescriptor(w) /\ ~WriteKilled(w)
  <2>1. step[w] <= ws + 1 /\ ~(step[w] > ws + 1) /\ step[r] \in Nat
    BY <1>2 DEF ExchangeTypes
  <2>2. <<w, 1, "w">> \in held
    BY <2>1 DEF Flow
  <2>3. Current(w).op = "write" /\ Current(w).pipe = 1
    BY <1>2 DEF Write, Call
  <2>4. ~Reading(w)
    BY <2>3 DEF Reading, Does
  <2>5. step[r] <= rs + 1
    BY <2>1 DEF Flow
  <2>6. <<r, 1, "r">> \in Readers(1)
    BY <2>5 DEF Flow, Readers
  <2> QED
    BY <2>2, <2>3, <2>4, <2>6 DEF NoDescriptor, WriteKilled
<1> QED
  BY <1>1, <1>2

-----------------------------------------------------------------------------
(***************************************************************************)
(* What a process calls                                                    *)
(***************************************************************************)
LEMMA PipeCalls ==
    ASSUME exercise = "pipe"
    PROVE  /\ Len(Calls("p")) = 4 /\ Len(Calls("c")) = 3 /\ Len(Calls("d")) = 0
           /\ step["p"] = 1 => Current("p") = Plain("fork")
           /\ step["p"] = 2 => Current("p") = CloseW(1)
           /\ step["p"] = 3 => Current("p") = Call("read_all", 1, BUF_SIZE)
           /\ step["p"] = 4 => Current("p") = CloseR(1)
           /\ step["c"] = 1 => Current("c") = CloseR(1)
           /\ step["c"] = 2 => Current("c") = Write(1)
           /\ step["c"] = 3 => Current("c") = CloseW(1)
<1>1. Script(exercise) = [p |-> Pipe_Parent, c |-> Pipe_Child, d |-> Nothing]
  BY DEF Script
<1>2. Calls("p") = Pipe_Parent /\ Calls("c") = Pipe_Child /\ Calls("d") = Nothing
  BY <1>1 DEF Calls
<1> QED
  BY <1>2 DEF Current, Pipe_Parent, Pipe_Child, Nothing

LEMMA PapaCalls ==
    ASSUME exercise = "papa_son_pipe"
    PROVE  /\ Len(Calls("p")) = 5 /\ Len(Calls("c")) = 3 /\ Len(Calls("d")) = 0
           /\ step["p"] = 1 => Current("p") = Plain("fork")
           /\ step["p"] = 2 => Current("p") = CloseR(1)
           /\ step["p"] = 3 => Current("p") = Write(1)
           /\ step["p"] = 4 => Current("p") = CloseW(1)
           /\ step["p"] = 5 => Current("p") = Plain("wait")
           /\ step["c"] = 1 => Current("c") = CloseW(1)
           /\ step["c"] = 2 => Current("c") = Call("read_all", 1, 1)
           /\ step["c"] = 3 => Current("c") = CloseR(1)
<1>1. Script(exercise) = [p |-> PapaSon_Parent, c |-> PapaSon_Child, d |-> Nothing]
  BY DEF Script
<1>2. Calls("p") = PapaSon_Parent /\ Calls("c") = PapaSon_Child /\ Calls("d") = Nothing
  BY <1>1 DEF Calls
<1> QED
  BY <1>2 DEF Current, PapaSon_Parent, PapaSon_Child, Nothing

LEMMA Papa2Calls ==
    ASSUME exercise = "papa_son_pipe2"
    PROVE  /\ Len(Calls("p")) = 8 /\ Len(Calls("c")) = 6 /\ Len(Calls("d")) = 0
           /\ step["p"] = 1 => Current("p") = Plain("fork")
           /\ step["p"] = 2 => Current("p") = CloseR(1)
           /\ step["p"] = 3 => Current("p") = CloseW(2)
           /\ step["p"] = 4 => Current("p") = Write(1)
           /\ step["p"] = 5 => Current("p") = CloseW(1)
           /\ step["p"] = 6 => Current("p") = Call("read", 2, BUF_SIZE)
           /\ step["p"] = 7 => Current("p") = CloseR(2)
           /\ step["p"] = 8 => Current("p") = Plain("wait")
           /\ step["c"] = 1 => Current("c") = CloseW(1)
           /\ step["c"] = 2 => Current("c") = CloseR(2)
           /\ step["c"] = 3 => Current("c") = Call("read", 1, BUF_SIZE)
           /\ step["c"] = 4 => Current("c") = CloseR(1)
           /\ step["c"] = 5 => Current("c") = Call("reply", 2, 0)
           /\ step["c"] = 6 => Current("c") = CloseW(2)
<1>1. Script(exercise) = [p |-> PapaSon2_Parent, c |-> PapaSon2_Child, d |-> Nothing]
  BY DEF Script
<1>2. Calls("p") = PapaSon2_Parent /\ Calls("c") = PapaSon2_Child /\ Calls("d") = Nothing
  BY <1>1 DEF Calls
<1> QED
  BY <1>2 DEF Current, PapaSon2_Parent, PapaSon2_Child, Nothing

LEMMA Fifo2Calls ==
    ASSUME exercise = "fifo2"
    PROVE  /\ Len(Calls("p")) = 5 /\ Len(Calls("c")) = 3 /\ Len(Calls("d")) = 0
           /\ step["p"] = 1 => Current("p") = Plain("mkfifo")
           /\ step["p"] = 2 => Current("p") = Plain("open_r")
           /\ step["p"] = 3 => Current("p") = Call("read_all", 1, BUF_SIZE)
           /\ step["p"] = 4 => Current("p") = CloseR(1)
           /\ step["p"] = 5 => Current("p") = Plain("unlink")
           /\ step["c"] = 1 => Current("c") = Plain("open_w")
           /\ step["c"] = 2 => Current("c") = Write(1)
           /\ step["c"] = 3 => Current("c") = CloseW(1)
<1>1. Script(exercise) = [p |-> Fifo2_Reader, c |-> Fifo2_Writer, d |-> Nothing]
  BY DEF Script
<1>2. Calls("p") = Fifo2_Reader /\ Calls("c") = Fifo2_Writer /\ Calls("d") = Nothing
  BY <1>1 DEF Calls
<1> QED
  BY <1>2 DEF Current, Fifo2_Reader, Fifo2_Writer, Nothing

LEMMA MmapCalls ==
    ASSUME exercise = "mmap"
    PROVE  /\ Len(Calls("p")) = 4 /\ Len(Calls("c")) = 2 /\ Len(Calls("d")) = 0
           /\ step["p"] = 1 => Current("p") = Plain("fork")
           /\ step["p"] = 2 => Current("p") = Plain("store")
           /\ step["p"] = 3 => Current("p") = Plain("print")
           /\ step["p"] = 4 => Current("p") = Plain("print")
           /\ step["c"] = 1 => Current("c") = Plain("load")
           /\ step["c"] = 2 => Current("c") = Plain("increment")
<1>1. Script(exercise) = [p |-> Mmap_A, c |-> Mmap_B, d |-> Nothing]
  BY DEF Script
<1>2. Calls("p") = Mmap_A /\ Calls("c") = Mmap_B /\ Calls("d") = Nothing
  BY <1>1 DEF Calls
<1> QED
  BY <1>2 DEF Current, Mmap_A, Mmap_B, Nothing

LEMMA FifoCalls ==
    ASSUME exercise = "fifo"
    PROVE  /\ Len(Calls("p")) = 3
           /\ step["p"] = 1 => Current("p") = Plain("open_r")
           /\ step["p"] = 2 => Current("p") = Call("read_all", 1, BUF_SIZE)
           /\ step["p"] = 3 => Current("p") = CloseR(1)
           /\ \A q \in {"c", "d"} :
                  /\ Len(Calls(q)) = Repeats + 2
                  /\ step[q] = 1 => Current(q) = Plain("open_w")
                  /\ step[q] \in 2 .. Repeats + 1 => Current(q) = Write(1)
                  /\ step[q] = Repeats + 2 => Current(q) = CloseW(1)
<1>1. Script(exercise) = [p |-> Fifo_Reader, c |-> Fifo_Writer, d |-> Fifo_Writer]
  BY DEF Script
<1>2. Calls("p") = Fifo_Reader /\ \A q \in {"c", "d"} : Calls(q) = Fifo_Writer
  BY <1>1 DEF Calls
<1> DEFINE middle == [k \in 1 .. Repeats |-> Write(1)]
<1>3. Repeats \in Nat
  BY ExchangeAssumption
<1>4. middle \in Seq({Write(1)}) /\ Len(middle) = Repeats /\ \A k \in 1 .. Repeats : middle[k] = Write(1)
  BY <1>3
<1>5. Fifo_Writer = << Plain("open_w") >> \o middle \o << CloseW(1) >>
  BY DEF Fifo_Writer
<1> HIDE DEF middle
<1>6. PICK m \in Seq({Write(1), Plain("open_w"), CloseW(1)}) : m = middle
  BY <1>4
<1>7. /\ Len(Fifo_Writer) = Repeats + 2 /\ Fifo_Writer[1] = Plain("open_w")
      /\ \A k \in 2 .. Repeats + 1 : Fifo_Writer[k] = middle[k - 1]
      /\ Fifo_Writer[Repeats + 2] = CloseW(1)
  <2> HIDE DEF Plain, CloseW
  <2> QED
  BY <1>3, <1>4, <1>5, <1>6
<1>8. \A k \in 2 .. Repeats + 1 : Fifo_Writer[k] = Write(1)
  BY <1>3, <1>4, <1>7
<1> QED
  BY <1>2, <1>7, <1>8 DEF Current, Fifo_Reader

PipeProgram == {"pipe", "papa_son_pipe", "papa_son_pipe2", "fifo", "fifo2"}
PipeCall ==
    {"fork", "wait", "close_r", "close_w", "write", "reply", "read", "read_all", "mkfifo", "unlink",
     "open_r", "open_w"}

LEMMA PipeCalled ==
    ASSUME exercise \in PipeProgram, ExchangeTypes, NEW p \in Process, step[p] <= Len(Calls(p))
    PROVE  Current(p).op \in PipeCall /\ Current(p).pipe \in Pipe /\ Current(p).n \in Nat
<1>1. step[p] \in Nat \ {0} /\ BUF_SIZE \in Nat /\ Repeats \in Nat
  BY ExchangeAssumption DEF ExchangeTypes
<1> DEFINE Fine(c) == c.op \in PipeCall /\ c.pipe \in Pipe /\ c.n \in Nat
<1>2. /\ \A op \in PipeCall : Fine(Plain(op))
      /\ \A x \in Pipe : Fine(CloseR(x)) /\ Fine(CloseW(x)) /\ Fine(Write(x)) /\ Fine(Call("reply", x, 0))
      /\ \A x \in Pipe, n \in Nat : Fine(Call("read", x, n)) /\ Fine(Call("read_all", x, n))
  BY DEF PipeCall, Pipe, Plain, Call, CloseR, CloseW, Write
<1> HIDE DEF Fine
<1>3. \A op \in {"fork", "wait", "mkfifo", "unlink", "open_r", "open_w"} : op \in PipeCall
  BY DEF PipeCall
<1>4. 1 \in Pipe /\ 2 \in Pipe /\ 1 \in Nat
  BY DEF Pipe
<1>5. CASE exercise = "pipe"
  <2>0. Len(Calls(p)) = IF p = "p" THEN 4 ELSE IF p = "c" THEN 3 ELSE 0
    BY <1>5, PipeCalls DEF Process
  <2>1. p = "p" => step[p] \in 1 .. 4
    BY <1>1, <2>0
  <2>2. p = "c" => step[p] \in 1 .. 3
    BY <1>1, <2>0
  <2>3. p # "d"
    BY <1>1, <2>0
  <2>4. Fine(Current(p))
    BY <1>1, <1>2, <1>3, <1>4, <1>5, <2>1, <2>2, <2>3, PipeCalls DEF Process
  <2> QED
    BY <2>4 DEF Fine
<1>6. CASE exercise = "papa_son_pipe"
  <2>0. Len(Calls(p)) = IF p = "p" THEN 5 ELSE IF p = "c" THEN 3 ELSE 0
    BY <1>6, PapaCalls DEF Process
  <2>1. p = "p" => step[p] \in 1 .. 5
    BY <1>1, <2>0
  <2>2. p = "c" => step[p] \in 1 .. 3
    BY <1>1, <2>0
  <2>3. p # "d"
    BY <1>1, <2>0
  <2>4. Fine(Current(p))
    BY <1>1, <1>2, <1>3, <1>4, <1>6, <2>1, <2>2, <2>3, PapaCalls DEF Process
  <2> QED
    BY <2>4 DEF Fine
<1>7. CASE exercise = "papa_son_pipe2"
  <2>0. Len(Calls(p)) = IF p = "p" THEN 8 ELSE IF p = "c" THEN 6 ELSE 0
    BY <1>7, Papa2Calls DEF Process
  <2>1. p = "p" => step[p] \in 1 .. 8
    BY <1>1, <2>0
  <2>2. p = "c" => step[p] \in 1 .. 6
    BY <1>1, <2>0
  <2>3. p # "d"
    BY <1>1, <2>0
  <2>4. Fine(Current(p))
    BY <1>1, <1>2, <1>3, <1>4, <1>7, <2>1, <2>2, <2>3, Papa2Calls DEF Process
  <2> QED
    BY <2>4 DEF Fine
<1>8. CASE exercise = "fifo2"
  <2>0. Len(Calls(p)) = IF p = "p" THEN 5 ELSE IF p = "c" THEN 3 ELSE 0
    BY <1>8, Fifo2Calls DEF Process
  <2>1. p = "p" => step[p] \in 1 .. 5
    BY <1>1, <2>0
  <2>2. p = "c" => step[p] \in 1 .. 3
    BY <1>1, <2>0
  <2>3. p # "d"
    BY <1>1, <2>0
  <2>4. Fine(Current(p))
    BY <1>1, <1>2, <1>3, <1>4, <1>8, <2>1, <2>2, <2>3, Fifo2Calls DEF Process
  <2> QED
    BY <2>4 DEF Fine
<1>9. CASE exercise = "fifo"
  <2>0. Len(Calls(p)) = IF p = "p" THEN 3 ELSE Repeats + 2
    BY <1>9, FifoCalls DEF Process
  <2>1. p = "p" => step[p] \in 1 .. 3
    BY <1>1, <2>0
  <2>2. p # "p" => p \in {"c", "d"} /\ (step[p] = 1 \/ step[p] \in 2 .. Repeats + 1 \/ step[p] = Repeats + 2)
    BY <1>1, <1>9, FifoCalls DEF Process
  <2>4. Fine(Current(p))
    BY <1>1, <1>2, <1>3, <1>4, <1>9, <2>1, <2>2, FifoCalls DEF Process
  <2> QED
    BY <2>4 DEF Fine
<1> QED
  BY <1>5, <1>6, <1>7, <1>8, <1>9 DEF PipeProgram

\* Every step of a program with pipes.
PipeStep(p) ==
    \/ step[p] > Len(Calls(p)) /\ Exit(p)
    \/ /\ step[p] <= Len(Calls(p)) /\ Makes(p, Current(p).op)
       /\ Current(p).op \in PipeCall /\ Current(p).pipe \in Pipe /\ Current(p).n \in Nat

LEMMA StatusTyped ==
    ASSUME ExchangeTypes, exercise' = exercise, NEW p \in Process, Running(p),
           \/ status' = status
           \/ status' = [status EXCEPT !["c"] = "running"]
           \/ \E how : Ends(p, how)
    PROVE  DOMAIN status' = Process /\ (exercise' # "fifo" => status'["d"] = "unborn")
<1>1. CASE \E how : Ends(p, how)
  <2>1. PICK how : status' = [status EXCEPT ![p] = how]
    BY <1>1 DEF Ends
  <2>2. exercise # "fifo" => p # "d"
    BY DEF ExchangeTypes, Running
  <2> QED
    BY <2>1, <2>2 DEF ExchangeTypes, Process
<1> QED
  BY <1>1 DEF ExchangeTypes, Process

LEMMA DataTyped ==
    ASSUME ExchangeTypes, PipeTypes, NEW p \in Process
    PROVE  Data(p) \in Seq(Symbol) /\ Len(Data(p)) \in Nat
<1>1. Message(p) \in Seq(Symbol)
  BY MessageTyped DEF ExchangeTypes
<1>2. Len(out[p]) \in Symbol
  BY LenProperties DEF PipeTypes, Symbol
<1>3. << Len(out[p]) >> \in Seq(Symbol)
  BY <1>2
<1>4. Data(p) \in Seq(Symbol)
  BY <1>1, <1>3 DEF Data
<1> QED
  BY <1>4, LenProperties

LEMMA WriteTyped ==
    ASSUME ExchangeTypes, PipeTypes, NEW p \in Process, WriteSome(p), Current(p).pipe \in Pipe
    PROVE  /\ step' \in [Process -> Nat \ {0}] /\ sent' \in [Process -> Nat]
           /\ buf' \in [Pipe -> Seq(Symbol)]
<1>1. PICK x \in Pipe : x = Current(p).pipe
  OBVIOUS
<1>2. PICK s \in Seq(Symbol) : s = Data(p) /\ Len(s) \in Nat
  BY DataTyped
<1>3. PICK k \in 0 .. Len(s) - sent[p] :
          /\ buf' = [buf EXCEPT ![x] = buf[x] \o SubSeq(s, sent[p] + 1, sent[p] + k)]
          /\ sent' = [sent EXCEPT ![p] = IF k = Len(s) - sent[p] THEN 0 ELSE sent[p] + k]
          /\ IF k = Len(s) - sent[p] THEN Returns(p) ELSE UNCHANGED step
  BY <1>1, <1>2 DEF WriteSome
<1>4. sent[p] \in Nat /\ k \in Nat /\ sent[p] + k <= Len(s)
  BY <1>2 DEF ExchangeTypes
<1>5. \A y \in sent[p] + 1 .. sent[p] + k : s[y] \in Symbol
  BY <1>2, <1>4, ElementOfSeq
<1>6. PICK t \in Seq(Symbol) : t = SubSeq(s, sent[p] + 1, sent[p] + k)
  <2>1. SubSeq(s, sent[p] + 1, sent[p] + k) \in Seq(Symbol)
    BY <1>4, <1>5, SubSeqProperties
  <2> QED
    BY <2>1
<1>7. buf[x] \o t \in Seq(Symbol)
  BY ConcatProperties DEF PipeTypes
<1>8. buf' \in [Pipe -> Seq(Symbol)]
  BY <1>3, <1>6, <1>7 DEF PipeTypes
<1>9. sent' \in [Process -> Nat]
  <2>1. (IF k = Len(s) - sent[p] THEN 0 ELSE sent[p] + k) \in Nat
    BY <1>4
  <2> QED
    BY <1>3, <2>1 DEF ExchangeTypes
<1>10. step' \in [Process -> Nat \ {0}]
  BY <1>3 DEF ExchangeTypes, Returns
<1> QED
  BY <1>8, <1>9, <1>10

LEMMA ReadTyped ==
    ASSUME ExchangeTypes, PipeTypes, NEW p \in Process, ReadSome(p), Current(p).pipe \in Pipe,
           Current(p).n \in Nat
    PROVE  PipeTypes'
<1>1. PICK x \in Pipe : x = Current(p).pipe
  OBVIOUS
<1>2. PICK t \in Seq(Symbol) : t = buf[x]
  BY DEF PipeTypes
<1>3. PICK k \in 0 .. Len(t) : k = IF Len(t) < Current(p).n THEN Len(t) ELSE Current(p).n
  BY LenProperties
<1>4. /\ out' = [out EXCEPT ![p] = out[p] \o SubSeq(t, 1, k)]
      /\ buf' = [buf EXCEPT ![x] = SubSeq(t, k + 1, Len(t))]
  BY <1>1, <1>2, <1>3 DEF ReadSome
<1>5. Len(t) \in Nat /\ k \in Nat
  BY LenProperties
<1>6. (\A y \in 1 .. k : t[y] \in Symbol) /\ (\A y \in k + 1 .. Len(t) : t[y] \in Symbol)
  BY <1>5, ElementOfSeq
<1>7. PICK a \in Seq(Symbol) : a = SubSeq(t, 1, k)
  <2>1. SubSeq(t, 1, k) \in Seq(Symbol)
    BY <1>5, <1>6, SubSeqProperties
  <2> QED
    BY <2>1
<1>8. PICK b \in Seq(Symbol) : b = SubSeq(t, k + 1, Len(t))
  <2>1. SubSeq(t, k + 1, Len(t)) \in Seq(Symbol)
    BY <1>5, <1>6, SubSeqProperties
  <2> QED
    BY <2>1
<1>9. out[p] \o a \in Seq(Symbol)
  BY ConcatProperties DEF PipeTypes
<1> QED
  BY <1>4, <1>7, <1>8, <1>9 DEF PipeTypes

\* The types are kept by every step of a program with pipes.
LEMMA PipeTyped ==
    ASSUME ExchangeTypes, PipeTypes, exercise' = exercise, NEW p \in Process, Running(p), PipeStep(p)
    PROVE  ExchangeTypes' /\ PipeTypes'
<1>1. Returns(p) => step' \in [Process -> Nat \ {0}]
  BY DEF ExchangeTypes, Returns
<1>2. ASSUME NEW how, Ends(p, how), UNCHANGED <<step, sent, out, len>>
      PROVE  ExchangeTypes' /\ PipeTypes'
  <2>1. buf' \in [Pipe -> Seq(Symbol)]
    BY <1>2, ReleaseTyped DEF Ends
  <2>2. DOMAIN status' = Process /\ (exercise' # "fifo" => status'["d"] = "unborn")
    BY <1>2, StatusTyped
  <2> QED
    BY <1>2, <2>1, <2>2 DEF ExchangeTypes, PipeTypes
<1>3. ASSUME step' = step \/ Returns(p), UNCHANGED <<buf, sent, out, len>>,
             status' = status \/ status' = [status EXCEPT !["c"] = "running"]
      PROVE  ExchangeTypes' /\ PipeTypes'
  <2>2. DOMAIN status' = Process /\ (exercise' # "fifo" => status'["d"] = "unborn")
    BY <1>3, StatusTyped
  <2> QED
    BY <1>1, <1>3, <2>2 DEF ExchangeTypes, PipeTypes
<1>4. CASE Exit(p)
  BY <1>2, <1>4 DEF Exit
<1>5. CASE Fork(p) \/ Wait(p) \/ ReadEnd(p) \/ NoDescriptor(p) \/ Unlink(p) \/ OpenBegins(p) \/ OpenReturns(p)
  <2>1. step' = step \/ Returns(p)
    BY <1>5 DEF Fork, Wait, ReadEnd, NoDescriptor, Unlink, OpenBegins, OpenReturns
  <2>2. UNCHANGED <<buf, sent, out, len>>
    BY <1>5 DEF Fork, Wait, ReadEnd, NoDescriptor, Unlink, OpenBegins, OpenReturns
  <2>3. status' = status \/ status' = [status EXCEPT !["c"] = "running"]
    BY <1>5 DEF Fork, Wait, ReadEnd, NoDescriptor, Unlink, OpenBegins, OpenReturns
  <2> QED
    BY <1>3, <2>1, <2>2, <2>3
<1>6. CASE ForkFails(p) \/ Mkfifo(p) \/ OpenFails(p)
  <2>1. UNCHANGED <<sent, out, len>>
    BY <1>6 DEF ForkFails, Mkfifo, OpenFails
  <2>2. \/ Ends(p, "failed") /\ UNCHANGED step
        \/ Returns(p) /\ UNCHANGED <<status, buf>>
    BY <1>6 DEF ForkFails, Mkfifo, OpenFails
  <2> QED
    BY <1>2, <1>3, <2>1, <2>2
<1>7. CASE WriteKilled(p)
  BY <1>2, <1>7 DEF WriteKilled
<1>8. CASE Close(p)
  <2>1. PICK fds : Release(fds)
    BY <1>8 DEF Close
  <2>2. buf' \in [Pipe -> Seq(Symbol)]
    BY <2>1, ReleaseTyped
  <2>3. Returns(p) /\ UNCHANGED <<status, sent, out, len>>
    BY <1>8 DEF Close
  <2> QED
    BY <1>1, <2>2, <2>3 DEF ExchangeTypes, PipeTypes
<1>9. CASE WriteSome(p) /\ Current(p).pipe \in Pipe
  <2>1. UNCHANGED <<status, out, len>>
    BY <1>9 DEF WriteSome
  <2> QED
    BY <1>9, <2>1, WriteTyped DEF ExchangeTypes, PipeTypes
<1>10. CASE ReadSome(p) /\ Current(p).pipe \in Pipe /\ Current(p).n \in Nat
  <2>1. UNCHANGED <<status, sent, len>> /\ (step' = step \/ Returns(p))
    BY <1>10 DEF ReadSome
  <2>2. PipeTypes'
    BY <1>10, ReadTyped
  <2> QED
    BY <1>1, <2>1, <2>2 DEF ExchangeTypes
<1> QED
  <2>1. CASE ~Exit(p)
    <3>1. Makes(p, Current(p).op) /\ Current(p).op \in PipeCall /\ Current(p).pipe \in Pipe /\ Current(p).n \in Nat
      BY <2>1 DEF PipeStep
    <3> QED
      BY <3>1, <1>5, <1>6, <1>7, <1>8, <1>9, <1>10 DEF Makes, PipeCall
  <2> QED
    BY <1>4, <2>1

LEMMA PipeNext ==
    ASSUME exercise \in PipeProgram, ExchangeTypes, [Next]_vars
    PROVE  UNCHANGED exchangeVars \/ \E p \in Process : Running(p) /\ PipeStep(p)
BY StepOf, PipeCalled DEF PipeStep

\* What q may call while the message goes from w to r.
FlowCall(r, w, rs, ws, q) ==
    IF step[q] > Len(Calls(q))
    THEN /\ q = r => step[r] > rs + 1
         /\ q = w => step[w] > ws + 1
    ELSE \/ q = r /\ step[r] = rs /\ \E n \in Nat : Current(r) = Call("read_all", 1, n)
         \/ q = w /\ step[w] = ws /\ Current(w) = Write(1)
         \/ /\ q = r => step[r] # rs
            /\ q = w => step[w] # ws
            /\ \/ Current(q) = CloseR(1) /\ (q = r => step[r] = rs + 1)
               \/ Current(q) = CloseW(1) /\ (q = w => step[w] = ws + 1)
               \/ Current(q) \in {Plain("wait"), Plain("unlink")}
               \/ q = r /\ step[r] < rs /\ Current(q) = Plain("open_r")
               \/ q = w /\ step[w] < ws /\ Current(q) = Plain("open_w")

\* An open() that both sides have reached only has to return.
LEMMA FlowMet ==
    ASSUME ExchangeTypes, NEW r \in Process, NEW w \in Process,
           NEW rs \in Nat, NEW ws \in Nat, Flow(r, w, rs, ws)
    PROVE  /\ step[r] < rs /\ Current(r).op = "open_r" => ~OpenFails(r) /\ ~OpenBegins(r)
           /\ step[w] < ws /\ Current(w).op = "open_w" => ~OpenFails(w) /\ ~OpenBegins(w)
<1>1. step[r] \in Nat /\ step[w] \in Nat
  BY DEF ExchangeTypes
<1>2. ASSUME step[r] < rs, Current(r).op = "open_r", OpenFails(r) \/ OpenBegins(r) PROVE FALSE
  <2>1. step[r] <= rs + 1
    BY <1>1, <1>2
  <2>2. <<r, 1, "r">> \in held
    BY <2>1 DEF Flow
  <2>3. <<r, 1, End(r)>> \notin held /\ (Does(r, "open_r") \/ Does(r, "open_w"))
    BY <1>2 DEF OpenFails, OpenBegins
  <2>4. End(r) = "r"
    BY <1>2, <2>3 DEF End, Does
  <2> QED
    BY <2>2, <2>3, <2>4
<1>3. ASSUME step[w] < ws, Current(w).op = "open_w", OpenFails(w) \/ OpenBegins(w) PROVE FALSE
  <2>1. step[w] <= ws + 1
    BY <1>1, <1>3
  <2>2. <<w, 1, "w">> \in held
    BY <2>1 DEF Flow
  <2>3. <<w, 1, End(w)>> \notin held
    BY <1>3 DEF OpenFails, OpenBegins
  <2>4. End(w) = "w"
    BY <1>3 DEF End, Does
  <2> QED
    BY <2>2, <2>3, <2>4
<1> QED
  BY <1>2, <1>3

\* Every step of the two processes keeps the flow.
LEMMA FlowStep ==
    ASSUME ExchangeTypes, PipeTypes, ExchangeTypes', NEW r \in Process, NEW w \in Process, r # w,
           NEW rs \in Nat, NEW ws \in Nat, Flow(r, w, rs, ws), NEW q \in {r, w}, Running(q), PipeStep(q),
           FlowCall(r, w, rs, ws, q)
    PROVE  /\ Flow(r, w, rs, ws)'
           /\ step' = step \/ (step[q] <= Len(Calls(q)) /\ Returns(q))
           /\ \/ status' = status
              \/ step' = step /\ step[q] > Len(Calls(q)) /\ status' = [status EXCEPT ![q] = "exited"]
<1>1. step' \in [Process -> Nat \ {0}] /\ step[q] \in Nat
  BY DEF ExchangeTypes
<1>2. CASE step[q] > Len(Calls(q)) /\ Exit(q)
  <2>1. Ends(q, "exited") /\ UNCHANGED <<step, sent, out, len>>
    BY <1>2 DEF Exit
  <2>2. (q = r => step[r] > rs + 1) /\ (q = w => step[w] > ws + 1)
    BY <1>2 DEF FlowCall
  <2>3. Flow(r, w, rs, ws)'
    BY <2>1, <2>2, FlowEnds
  <2> QED
    BY <1>2, <2>1, <2>3 DEF Ends
<1>3. CASE step[q] <= Len(Calls(q)) /\ Makes(q, Current(q).op)
  <2>0. ~(step[q] > Len(Calls(q)))
    <3>1. Len(Calls(q)) \in Nat
      BY <1>3 DEF FlowCall
    <3> QED
      BY <1>1, <1>3, <3>1
  <2>1. CASE q = r /\ step[r] = rs /\ \E n \in Nat : Current(r) = Call("read_all", 1, n)
    <3>1. PICK n \in Nat : Current(r) = Call("read_all", 1, n)
      BY <2>1
    <3>2. Current(r).op = "read_all" /\ Current(r).pipe = 1
      BY <3>1 DEF Call
    <3>3. ReadSome(r) \/ ReadEnd(r)
      BY <1>3, <2>1, <3>2, FlowOpen DEF Makes
    <3>4. CASE ReadSome(r)
      BY <2>1, <3>1, <3>4, FlowRead
    <3>5. CASE ReadEnd(r)
      <4>1. Flow(r, w, rs, ws)'
        BY <2>1, <3>1, <3>5, FlowReadEnd
      <4> QED
        BY <1>3, <2>1, <3>5, <4>1 DEF ReadEnd
    <3> QED
      BY <3>3, <3>4, <3>5
  <2>2. CASE q = w /\ step[w] = ws /\ Current(w) = Write(1)
    <3>1. Current(w).op = "write"
      BY <2>2 DEF Write, Call
    <3>2. WriteSome(w)
      BY <1>3, <2>2, <3>1, FlowOpen DEF Makes
    <3>3. Flow(r, w, rs, ws)'
      BY <1>1, <2>2, <3>2, FlowWrite
    <3>4. (step' = step \/ Returns(w)) /\ status' = status
      BY <3>2 DEF WriteSome
    <3> QED
      BY <1>3, <2>2, <3>3, <3>4
  <2>3. CASE /\ q = r => step[r] # rs
             /\ q = w => step[w] # ws
             /\ \/ Current(q) = CloseR(1) /\ (q = r => step[r] = rs + 1)
                \/ Current(q) = CloseW(1) /\ (q = w => step[w] = ws + 1)
    <3>1. Current(q).op \in {"close_r", "close_w"}
      BY <2>3 DEF CloseR, CloseW, Call
    <3>2. Close(q)
      BY <1>3, <3>1 DEF Makes
    <3>3. PICK end \in {"r", "w"} : /\ Current(q) = Call(IF end = "r" THEN "close_r" ELSE "close_w", 1, 0)
                                    /\ q = r => (end = "r" => step[r] = rs + 1)
                                    /\ q = w => (end = "w" => step[w] = ws + 1)
      <4>1. CASE Current(q) = CloseR(1) /\ (q = r => step[r] = rs + 1)
        <5>1. Current(q) = Call(IF "r" = "r" THEN "close_r" ELSE "close_w", 1, 0)
          BY <4>1 DEF CloseR
        <5> QED
          BY <4>1, <5>1
      <4>2. CASE Current(q) = CloseW(1) /\ (q = w => step[w] = ws + 1)
        <5>1. Current(q) = Call(IF "w" = "r" THEN "close_r" ELSE "close_w", 1, 0)
          BY <4>2 DEF CloseW
        <5> QED
          BY <4>2, <5>1
      <4> QED
        BY <2>3, <4>1, <4>2
    <3>4. Release({<<q, 1, end>>}) /\ Returns(q)
      BY <3>2, <3>3, Closing
    <3>5. UNCHANGED <<status, sent, out, len>>
      BY <3>2 DEF Close
    <3>6. (q = r => step[r] # rs /\ (end = "r" => step[r] = rs + 1))
          /\ (q = w => step[w] # ws /\ (end = "w" => step[w] = ws + 1))
      BY <2>3, <3>3
    <3>7. Flow(r, w, rs, ws)'
      BY <1>1, <3>4, <3>5, <3>6, FlowClose
    <3> QED
      BY <1>3, <3>4, <3>5, <3>7
  <2>4. CASE /\ q = r => step[r] # rs
             /\ q = w => step[w] # ws
             /\ \/ Current(q) \in {Plain("wait"), Plain("unlink")}
                \/ q = r /\ step[r] < rs /\ Current(q) = Plain("open_r")
                \/ q = w /\ step[w] < ws /\ Current(q) = Plain("open_w")
    <3>1. \/ Current(q).op \in {"wait", "unlink"}
          \/ q = r /\ step[r] < rs /\ Current(q).op = "open_r"
          \/ q = w /\ step[w] < ws /\ Current(q).op = "open_w"
      BY <2>4 DEF Plain, Call
    <3>2. Wait(q) \/ Unlink(q) \/ OpenReturns(q)
      BY <1>3, <3>1, FlowMet DEF Makes
    <3>3. Returns(q) /\ UNCHANGED <<status, held, buf, sent, out, len>>
      BY <3>2 DEF Wait, Unlink, OpenReturns
    <3>4. (q = r => step'[r] = step[r] + 1 /\ step'[w] = step[w])
          /\ (q = w => step'[w] = step[w] + 1 /\ step'[r] = step[r])
      BY <3>3 DEF Returns, ExchangeTypes
    <3>5. /\ step'[r] = step[r] \/ (step[r] # rs /\ step'[r] = step[r] + 1)
          /\ step'[w] = step[w] \/ (step[w] # ws /\ step'[w] = step[w] + 1)
      BY <2>4, <3>4
    <3>6. step[r] \in Nat /\ step[w] \in Nat
      BY DEF ExchangeTypes
    <3>7. (step'[r] <= rs + 1 => step[r] <= rs + 1) /\ (step'[w] <= ws + 1 => step[w] <= ws + 1)
      BY <3>5, <3>6
    <3>8. /\ step'[r] <= rs + 1 => Running(r)' /\ <<r, 1, "r">> \in held'
          /\ step'[w] <= ws + 1 => Running(w)' /\ <<w, 1, "w">> \in held'
      BY <3>3, <3>7 DEF Flow, Running
    <3>9. Flow(r, w, rs, ws)'
      BY <1>1, <3>3, <3>5, <3>8, FlowMove
    <3> QED
      BY <1>3, <3>3, <3>9
  <2> QED
    BY <2>0, <2>1, <2>2, <2>3, <2>4 DEF FlowCall
<1> QED
  BY <1>2, <1>3 DEF PipeStep

-----------------------------------------------------------------------------
(***************************************************************************)
(* pipe and papa_son_pipe                                                  *)
(***************************************************************************)
\* fork() gives both processes both ends of the pipe.
LEMMA Births ==
    ASSUME ExchangeTypes, NEW p \in Process, Fork(p), exercise \in {"pipe", "papa_son_pipe"}
    PROVE  /\ status' = [status EXCEPT !["c"] = "running"] /\ Returns(p) /\ UNCHANGED <<buf, out, sent, len>>
           /\ \A q \in {"p", "c"}, end \in {"r", "w"} : <<q, 1, end>> \in held'
BY DEF Fork, PipesOf

\* fork() fails: the program ends and has moved nothing.
LEMMA NotBorn ==
    ASSUME ExchangeTypes, PipeTypes, NEW p \in Process, NEW r \in Process, NEW w \in Process, Empty(r, w),
           ForkFails(p), exercise # "papa_son_pipe2"
    PROVE  /\ status' = [status EXCEPT ![p] = "failed"] /\ step' = step
           /\ Empty(r, w)'
<1>1. Ends(p, "failed") /\ UNCHANGED <<step, sent, out>>
  BY DEF ForkFails
<1>2. buf'[1] = <<>>
  BY <1>1 DEF Ends, Release, Empty, Pipe
<1> QED
  BY <1>1, <1>2 DEF Ends, Empty

LEMMA TookStep ==
    ASSUME ExchangeTypes, NEW p \in Process, Running(p), NEW q \in Process, step' = step \/ Returns(p),
           \/ status' = status
           \/ step' = step /\ step[p] > Len(Calls(p)) /\ status' = [status EXCEPT ![p] = "exited"]
    PROVE  Took(q)' => \/ Took(q) /\ step'[q] = step[q]
                       \/ p = q /\ step' = step /\ step[p] > Len(Calls(p))
<1>1. CASE status' = status
  <2>1. Took(q) => p # q
    BY DEF Took, Running
  <2>2. p # q => step'[q] = step[q]
    BY DEF Returns, ExchangeTypes
  <2> QED
    BY <1>1, <2>1, <2>2 DEF Took
<1>2. CASE step' = step /\ step[p] > Len(Calls(p)) /\ status' = [status EXCEPT ![p] = "exited"]
  <2>1. p # q => (Took(q)' => Took(q))
    BY <1>2 DEF Took, ExchangeTypes
  <2> QED
    BY <1>2, <2>1
<1> QED
  BY <1>1, <1>2

LEMMA PipeInvStep ==
    ASSUME exercise = "pipe", ExchangeTypes, PipeTypes, PipeInv, ExchangeTypes',
           NEW p \in Process, Running(p), PipeStep(p)
    PROVE  PipeInv'
<1>1. p \in {"p", "c"} /\ step["p"] \in 1 .. 5 /\ step["c"] \in 1 .. 4 /\ (Took("p") => step["p"] = 5)
  BY DEF ExchangeTypes, Running, Process, PipeInv
<1>2. "p" \in Process /\ "c" \in Process /\ "p" # "c"
  BY DEF Process
<1>3. Len(Calls("p")) = 4 /\ Len(Calls("c")) = 3
  BY PipeCalls
<1>a. Len(Calls(p)) = IF p = "p" THEN 4 ELSE 3
  BY <1>1, <1>3
<1>b. step[p] = IF p = "p" THEN step["p"] ELSE step["c"]
  BY <1>1
<1>4. CASE status["c"] = "unborn"
  <2>1. step["p"] = 1 /\ step["c"] = 1 /\ Empty("p", "c") /\ p = "p"
    BY <1>1, <1>4 DEF PipeInv, Running
  <2>2. Current(p).op = "fork" /\ step[p] <= Len(Calls(p))
    BY <1>a, <2>1, PipeCalls DEF Plain, Call
  <2>3. Fork(p) \/ ForkFails(p)
    BY <1>3, <2>1, <2>2 DEF PipeStep, Makes
  <2>4. CASE Fork(p)
    <3>1. /\ status' = [status EXCEPT !["c"] = "running"] /\ Returns(p) /\ UNCHANGED <<buf, out, sent, len>>
          /\ <<"p", 1, "r">> \in held' /\ <<"c", 1, "w">> \in held'
      BY <2>4, Births
    <3>2. step'["p"] = 2 /\ step'["c"] = 1
      BY <1>2, <2>1, <3>1 DEF Returns, ExchangeTypes
    <3>3. Running("p")' /\ Running("c")' /\ status'["c"] # "unborn" /\ ~Took("p")'
      BY <1>2, <2>1, <3>1 DEF Running, Took, ExchangeTypes
    <3>4. step' \in [Process -> Nat \ {0}] /\ step'["p"] <= 3 /\ step'["c"] <= 2 /\ 3 \in Nat /\ 2 \in Nat
      BY <3>2 DEF ExchangeTypes
    <3>5. Flow("p", "c", 3, 2)'
      BY <1>2, <2>1, <3>1, <3>3, <3>4, FlowStart
    <3> QED
      BY <3>2, <3>3, <3>5 DEF PipeInv
  <2>5. CASE ForkFails(p)
    <3>1. status' = [status EXCEPT ![p] = "failed"] /\ step' = step /\ Empty("p", "c")'
      BY <1>2, <2>1, <2>5, NotBorn
    <3>2. status'["c"] = "unborn" /\ ~Took("p")'
      BY <1>2, <1>4, <2>1, <3>1 DEF Took, ExchangeTypes
    <3> QED
      BY <2>1, <3>1, <3>2 DEF PipeInv
  <2> QED
    BY <2>3, <2>4, <2>5
<1>5. CASE status["c"] # "unborn"
  <2>1. step["p"] >= 2 /\ Flow("p", "c", 3, 2)
    BY <1>5 DEF PipeInv
  <2>2. FlowCall("p", "c", 3, 2, p)
    <3>1. BUF_SIZE \in Nat
      BY ExchangeAssumption
    <3>2. CASE p = "p"
      <4>1. CASE step["p"] \in {2, 3, 4}
        BY <1>2, <1>a, <1>b, <3>1, <3>2, <4>1, PipeCalls DEF FlowCall
      <4>2. CASE step["p"] = 5
        BY <1>2, <1>a, <1>b, <3>2, <4>2 DEF FlowCall
      <4> QED
        BY <1>1, <2>1, <4>1, <4>2
    <3>3. CASE p = "c"
      <4>1. CASE step["c"] \in {1, 2, 3}
        BY <1>2, <1>a, <1>b, <3>3, <4>1, PipeCalls DEF FlowCall
      <4>2. CASE step["c"] = 4
        BY <1>2, <1>a, <1>b, <3>3, <4>2 DEF FlowCall
      <4> QED
        BY <1>1, <4>1, <4>2
    <3> QED
      BY <1>1, <3>2, <3>3
  <2>3. /\ Flow("p", "c", 3, 2)'
        /\ step' = step \/ (step[p] <= Len(Calls(p)) /\ Returns(p))
        /\ \/ status' = status
           \/ step' = step /\ step[p] > Len(Calls(p)) /\ status' = [status EXCEPT ![p] = "exited"]
    BY <1>1, <1>2, <2>1, <2>2, FlowStep
  <2>4. step'["p"] \in 2 .. 5 /\ step'["c"] \in 1 .. 4 /\ step'["p"] >= 2
    <3>1. step' = step \/ (step[p] <= Len(Calls(p)) /\ step' = [step EXCEPT ![p] = step[p] + 1])
      BY <2>3 DEF Returns
    <3> QED
      BY <1>1, <1>2, <1>a, <1>b, <2>1, <3>1 DEF ExchangeTypes
  <2>5. status'["c"] # "unborn"
    BY <1>2, <1>5, <2>3 DEF ExchangeTypes
  <2>6. Took("p")' => step'["p"] = 5
    <3>1. p = "p" /\ step[p] > Len(Calls(p)) => step["p"] = 5
      BY <1>1, <1>a, <1>b
    <3>2. Took("p")' => \/ Took("p") /\ step'["p"] = step["p"]
                        \/ p = "p" /\ step' = step /\ step[p] > Len(Calls(p))
      BY <1>2, <2>3, TookStep
    <3> QED
      BY <1>1, <3>1, <3>2
  <2> QED
    BY <2>3, <2>4, <2>5, <2>6 DEF PipeInv
<1> QED
  BY <1>4, <1>5

LEMMA PapaInvStep ==
    ASSUME exercise = "papa_son_pipe", ExchangeTypes, PipeTypes, PapaInv, ExchangeTypes',
           NEW p \in Process, Running(p), PipeStep(p)
    PROVE  PapaInv'
<1>1. p \in {"p", "c"} /\ step["p"] \in 1 .. 6 /\ step["c"] \in 1 .. 4 /\ (Took("c") => step["c"] = 4)
  BY DEF ExchangeTypes, Running, Process, PapaInv
<1>2. "p" \in Process /\ "c" \in Process /\ "p" # "c"
  BY DEF Process
<1>3. Len(Calls("p")) = 5 /\ Len(Calls("c")) = 3
  BY PapaCalls
<1>a. Len(Calls(p)) = IF p = "p" THEN 5 ELSE 3
  BY <1>1, <1>3
<1>b. step[p] = IF p = "p" THEN step["p"] ELSE step["c"]
  BY <1>1
<1>4. CASE status["c"] = "unborn"
  <2>1. step["p"] = 1 /\ step["c"] = 1 /\ Empty("c", "p") /\ p = "p"
    BY <1>1, <1>4 DEF PapaInv, Running
  <2>2. Current(p).op = "fork" /\ step[p] <= Len(Calls(p))
    BY <1>a, <2>1, PapaCalls DEF Plain, Call
  <2>3. Fork(p) \/ ForkFails(p)
    BY <1>3, <2>1, <2>2 DEF PipeStep, Makes
  <2>4. CASE Fork(p)
    <3>1. /\ status' = [status EXCEPT !["c"] = "running"] /\ Returns(p) /\ UNCHANGED <<buf, out, sent, len>>
          /\ <<"c", 1, "r">> \in held' /\ <<"p", 1, "w">> \in held'
      BY <2>4, Births
    <3>2. step'["p"] = 2 /\ step'["c"] = 1
      BY <1>2, <2>1, <3>1 DEF Returns, ExchangeTypes
    <3>3. Running("p")' /\ Running("c")' /\ status'["c"] # "unborn" /\ ~Took("c")'
      BY <1>2, <2>1, <3>1 DEF Running, Took, ExchangeTypes
    <3>4. step' \in [Process -> Nat \ {0}] /\ step'["p"] <= 3 /\ step'["c"] <= 2 /\ 3 \in Nat /\ 2 \in Nat
      BY <3>2 DEF ExchangeTypes
    <3>5. Flow("c", "p", 2, 3)'
      BY <1>2, <2>1, <3>1, <3>3, <3>4, FlowStart
    <3> QED
      BY <3>2, <3>3, <3>5 DEF PapaInv
  <2>5. CASE ForkFails(p)
    <3>1. status' = [status EXCEPT ![p] = "failed"] /\ step' = step /\ Empty("c", "p")'
      BY <1>2, <2>1, <2>5, NotBorn
    <3>2. status'["c"] = "unborn" /\ ~Took("c")'
      BY <1>2, <1>4, <2>1, <3>1 DEF Took, ExchangeTypes
    <3> QED
      BY <2>1, <3>1, <3>2 DEF PapaInv
  <2> QED
    BY <2>3, <2>4, <2>5
<1>5. CASE status["c"] # "unborn"
  <2>1. step["p"] >= 2 /\ Flow("c", "p", 2, 3)
    BY <1>5 DEF PapaInv
  <2>2. FlowCall("c", "p", 2, 3, p)
    <3>1. 1 \in Nat
      OBVIOUS
    <3>2. CASE p = "p"
      <4>1. CASE step["p"] \in {2, 3, 4, 5}
        BY <1>2, <1>a, <1>b, <3>1, <3>2, <4>1, PapaCalls DEF FlowCall
      <4>2. CASE step["p"] = 6
        BY <1>2, <1>a, <1>b, <3>2, <4>2 DEF FlowCall
      <4> QED
        BY <1>1, <2>1, <4>1, <4>2
    <3>3. CASE p = "c"
      <4>1. CASE step["c"] \in {1, 2, 3}
        BY <1>2, <1>a, <1>b, <3>1, <3>3, <4>1, PapaCalls DEF FlowCall
      <4>2. CASE step["c"] = 4
        BY <1>2, <1>a, <1>b, <3>3, <4>2 DEF FlowCall
      <4> QED
        BY <1>1, <4>1, <4>2
    <3> QED
      BY <1>1, <3>2, <3>3
  <2>3. /\ Flow("c", "p", 2, 3)'
        /\ step' = step \/ (step[p] <= Len(Calls(p)) /\ Returns(p))
        /\ \/ status' = status
           \/ step' = step /\ step[p] > Len(Calls(p)) /\ status' = [status EXCEPT ![p] = "exited"]
    BY <1>1, <1>2, <2>1, <2>2, FlowStep
  <2>4. step'["p"] \in 2 .. 6 /\ step'["c"] \in 1 .. 4 /\ step'["p"] >= 2
    <3>1. step' = step \/ (step[p] <= Len(Calls(p)) /\ step' = [step EXCEPT ![p] = step[p] + 1])
      BY <2>3 DEF Returns
    <3> QED
      BY <1>1, <1>2, <1>a, <1>b, <2>1, <3>1 DEF ExchangeTypes
  <2>5. status'["c"] # "unborn"
    BY <1>2, <1>5, <2>3 DEF ExchangeTypes
  <2>6. Took("c")' => step'["c"] = 4
    <3>1. p = "c" /\ step[p] > Len(Calls(p)) => step["c"] = 4
      BY <1>1, <1>a, <1>b
    <3>2. Took("c")' => \/ Took("c") /\ step'["c"] = step["c"]
                        \/ p = "c" /\ step' = step /\ step[p] > Len(Calls(p))
      BY <1>2, <2>3, TookStep
    <3> QED
      BY <1>1, <3>1, <3>2
  <2> QED
    BY <2>3, <2>4, <2>5, <2>6 DEF PapaInv
<1> QED
  BY <1>4, <1>5

-----------------------------------------------------------------------------
(***************************************************************************)
(* fifo_reader2 and fifo_writer2                                           *)
(***************************************************************************)
LEMMA OpenBeginsSides ==
    ASSUME NEW p \in Process, OpenBegins(p), NEW end \in {"r", "w"},
           Current(p).op = IF end = "r" THEN "open_r" ELSE "open_w"
    PROVE  /\ <<p, 1, end>> \notin held /\ held' = held \cup {<<p, 1, end>>}
           /\ (\A d \in held : d[3] = end) => met' = met
           /\ (\E d \in held : d[3] # end) => p \in met'
           /\ UNCHANGED <<step, status, buf, sent, out, len>>
<1>1. End(p) = end
  BY DEF OpenBegins, End, Does
<1> QED
  BY <1>1 DEF OpenBegins

LEMMA MetStays ==
    ASSUME NEW p \in Process, PipeStep(p), ~OpenBegins(p)
    PROVE  met' = met
<1>1. CASE Exit(p)
  BY <1>1 DEF Exit
<1>2. CASE Fork(p) \/ ForkFails(p) \/ Wait(p) \/ Close(p) \/ WriteSome(p) \/ WriteKilled(p)
  BY <1>2 DEF Fork, ForkFails, Wait, Close, WriteSome, WriteKilled
<1>3. CASE ReadSome(p) \/ ReadEnd(p) \/ NoDescriptor(p)
  BY <1>3 DEF ReadSome, ReadEnd, NoDescriptor
<1>4. CASE Mkfifo(p) \/ Unlink(p) \/ OpenFails(p) \/ OpenReturns(p)
  BY <1>4 DEF Mkfifo, Unlink, OpenFails, OpenReturns
<1> QED
  BY <1>1, <1>2, <1>3, <1>4 DEF PipeStep, PipeCall, Makes

LEMMA Fifo2InvStep ==
    ASSUME exercise = "fifo2", ExchangeTypes, PipeTypes, Fifo2Inv, ExchangeTypes',
           NEW p \in Process, Running(p), PipeStep(p)
    PROVE  Fifo2Inv'
<1>1. p \in {"p", "c"} /\ step["p"] \in 1 .. 6 /\ step["c"] \in 1 .. 4 /\ (Took("p") => step["p"] = 6)
  BY DEF ExchangeTypes, Running, Process, Fifo2Inv
<1>2. "p" \in Process /\ "c" \in Process /\ "p" # "c"
  BY DEF Process
<1>3. Len(Calls("p")) = 5 /\ Len(Calls("c")) = 3
  BY Fifo2Calls
<1>a. Len(Calls(p)) = IF p = "p" THEN 5 ELSE 3
  BY <1>1, <1>3
<1>b. step[p] = IF p = "p" THEN step["p"] ELSE step["c"]
  BY <1>1
<1>4. CASE met = {}
  <2>1. /\ step["p"] <= 2 /\ step["c"] = 1 /\ Empty("p", "c")
        /\ held = {} \/ held = {<<"p", 1, "r">>} \/ held = {<<"c", 1, "w">>}
        /\ <<"p", 1, "r">> \in held => Running("p") /\ step["p"] = 2
        /\ <<"c", 1, "w">> \in held => Running("c")
    BY <1>4 DEF Fifo2Inv
  <2>2. step[p] <= Len(Calls(p)) /\ ~(step[p] > Len(Calls(p)))
    BY <1>1, <1>a, <1>b, <2>1
  <2>3. ASSUME Ends(p, "failed"), UNCHANGED <<step, sent, out, met, len>>,
               \A end \in {"r", "w"} : <<p, 1, end>> \notin held
        PROVE  Fifo2Inv'
    <3>1. buf'[1] = <<>> /\ status' = [status EXCEPT ![p] = "failed"] /\ held' = held \ {d \in held : d[1] = p}
      BY <2>1, <2>3 DEF Ends, Release, Empty, Pipe
    <3>2. held' = held
      BY <1>1, <2>1, <2>3, <3>1
    <3>3. /\ <<"p", 1, "r">> \in held' => Running("p")' /\ step'["p"] = 2
          /\ <<"c", 1, "w">> \in held' => Running("c")'
      BY <1>1, <1>2, <2>1, <2>3, <3>1, <3>2 DEF Running, ExchangeTypes
    <3>4. ~Took("p")'
      <4>1. ~Took("p")
        BY <1>1, <2>1
      <4> QED
        BY <1>1, <1>2, <3>1, <4>1 DEF Took, ExchangeTypes
    <3> QED
      BY <1>1, <1>4, <2>1, <2>3, <3>1, <3>2, <3>3, <3>4 DEF Fifo2Inv, Empty
  <2>4. ASSUME NEW end \in {"r", "w"}, Current(p).op = (IF end = "r" THEN "open_r" ELSE "open_w"),
               p = IF end = "r" THEN "p" ELSE "c", end = "r" => step["p"] = 2, OpenBegins(p)
        PROVE  Fifo2Inv'
    <3>1. /\ <<p, 1, end>> \notin held /\ held' = held \cup {<<p, 1, end>>}
          /\ (\A d \in held : d[3] = end) => met' = met
          /\ (\E d \in held : d[3] # end) => p \in met'
          /\ UNCHANGED <<step, status, buf, sent, out, len>>
      BY <2>4, OpenBeginsSides
    <3>2. Empty("p", "c")' /\ (Took("p")' => step'["p"] = 6)
      BY <1>1, <2>1, <3>1 DEF Empty, Took
    <3>3. CASE held = {}
      <4>1. held' = {<<p, 1, end>>} /\ met' = {}
        BY <1>4, <3>1, <3>3
      <4>2. held' = {<<"p", 1, "r">>} \/ held' = {<<"c", 1, "w">>}
        BY <2>4, <4>1
      <4>3. /\ <<"p", 1, "r">> \in held' => Running("p")' /\ step'["p"] = 2
            /\ <<"c", 1, "w">> \in held' => Running("c")'
        BY <2>4, <3>1, <4>1 DEF Running
      <4> QED
        BY <1>1, <2>1, <3>1, <3>2, <4>1, <4>2, <4>3 DEF Fifo2Inv
    <3>4. CASE held # {}
      <4>1. p \in met' /\ held' = {<<"p", 1, "r">>, <<"c", 1, "w">>}
        BY <2>1, <2>4, <3>1, <3>4
      <4>2. Running("p") /\ Running("c") /\ step["p"] = 2
        BY <2>1, <2>4, <3>1, <3>4
      <4>3. Running("p")' /\ Running("c")'
        BY <3>1, <4>2 DEF Running
      <4>4. step' \in [Process -> Nat \ {0}] /\ step'["p"] <= 3 /\ step'["c"] <= 2 /\ 3 \in Nat /\ 2 \in Nat
        BY <2>1, <3>1, <4>2 DEF ExchangeTypes
      <4>5. <<"p", 1, "r">> \in held' /\ <<"c", 1, "w">> \in held' /\ UNCHANGED <<buf, out, sent, len>>
        BY <3>1, <4>1
      <4>6. Flow("p", "c", 3, 2)'
        BY <1>2, <2>1, <4>3, <4>4, <4>5, FlowStart
      <4>7. met' # {}
        BY <4>1
      <4> QED
        BY <1>1, <3>1, <3>2, <4>2, <4>6, <4>7 DEF Fifo2Inv
    <3> QED
      BY <3>3, <3>4
  <2>5. CASE p = "p" /\ step["p"] = 1
    <3>1. Current(p).op = "mkfifo"
      BY <2>5, Fifo2Calls DEF Plain, Call
    <3>2. Mkfifo(p)
      BY <2>2, <3>1 DEF PipeStep, Makes
    <3>3. CASE Ends(p, "failed") /\ UNCHANGED step
      <4>1. UNCHANGED <<step, sent, out, met, len>>
        BY <3>2, <3>3 DEF Mkfifo
      <4>2. \A end \in {"r", "w"} : <<p, 1, end>> \notin held
        BY <2>1, <2>5
      <4> QED
        BY <2>3, <3>3, <4>1, <4>2
    <3>4. CASE Returns(p) /\ UNCHANGED <<status, held, buf>>
      <4>1. UNCHANGED <<sent, out, met, len>>
        BY <3>2 DEF Mkfifo
      <4>2. step'["p"] = 2 /\ step'["c"] = 1
        BY <1>2, <2>1, <2>5, <3>4 DEF Returns, ExchangeTypes
      <4>3. <<"p", 1, "r">> \notin held
        BY <2>1, <2>5
      <4> QED
        BY <1>1, <1>4, <2>1, <2>5, <3>4, <4>1, <4>2, <4>3 DEF Fifo2Inv, Empty, Running, Took
    <3> QED
      BY <3>2, <3>3, <3>4 DEF Mkfifo
  <2>6. CASE p = "p" /\ step["p"] = 2
    <3>1. Current(p).op = "open_r"
      BY <2>6, Fifo2Calls DEF Plain, Call
    <3>2. OpenFails(p) \/ OpenBegins(p)
      <4>1. ~OpenReturns(p)
        BY <1>4 DEF OpenReturns
      <4> QED
        BY <2>2, <3>1, <4>1 DEF PipeStep, Makes
    <3>3. CASE OpenFails(p)
      <4>1. End(p) = "r"
        BY <3>1, <3>3 DEF OpenFails, End, Does
      <4>2. <<p, 1, "r">> \notin held /\ Ends(p, "failed") /\ UNCHANGED <<step, sent, out, met, len>>
        BY <3>3, <4>1 DEF OpenFails
      <4>3. \A end \in {"r", "w"} : <<p, 1, end>> \notin held
        BY <2>1, <2>6, <4>2
      <4> QED
        BY <2>3, <4>2, <4>3
    <3>4. CASE OpenBegins(p)
      <4>1. Current(p).op = (IF "r" = "r" THEN "open_r" ELSE "open_w") /\ p = IF "r" = "r" THEN "p" ELSE "c"
        BY <2>6, <3>1
      <4> QED
        BY <2>4, <2>6, <3>4, <4>1
    <3> QED
      BY <3>2, <3>3, <3>4
  <2>7. CASE p = "c"
    <3>1. Current(p).op = "open_w"
      BY <2>1, <2>7, Fifo2Calls DEF Plain, Call
    <3>2. OpenFails(p) \/ OpenBegins(p)
      <4>1. ~OpenReturns(p)
        BY <1>4 DEF OpenReturns
      <4> QED
        BY <2>2, <3>1, <4>1 DEF PipeStep, Makes
    <3>3. CASE OpenFails(p)
      <4>1. End(p) = "w"
        BY <3>1 DEF End, Does
      <4>2. <<p, 1, "w">> \notin held /\ Ends(p, "failed") /\ UNCHANGED <<step, sent, out, met, len>>
        BY <3>3, <4>1 DEF OpenFails
      <4>3. \A end \in {"r", "w"} : <<p, 1, end>> \notin held
        BY <2>1, <2>7, <4>2
      <4> QED
        BY <2>3, <4>2, <4>3
    <3>4. CASE OpenBegins(p)
      <4>1. Current(p).op = (IF "w" = "r" THEN "open_r" ELSE "open_w") /\ p = IF "w" = "r" THEN "p" ELSE "c"
        BY <2>7, <3>1
      <4>2. "w" = "r" => step["p"] = 2
        OBVIOUS
      <4> QED
        BY <2>4, <3>4, <4>1, <4>2
    <3> QED
      BY <3>2, <3>3, <3>4
  <2> QED
    BY <1>1, <2>1, <2>5, <2>6, <2>7
<1>5. CASE met # {}
  <2>1. step["p"] >= 2 /\ Flow("p", "c", 3, 2)
    BY <1>5 DEF Fifo2Inv
  <2>2. FlowCall("p", "c", 3, 2, p)
    <3>1. BUF_SIZE \in Nat
      BY ExchangeAssumption
    <3>2. CASE p = "p"
      <4>1. CASE step["p"] \in {2, 3, 4, 5}
        BY <1>2, <1>a, <1>b, <3>1, <3>2, <4>1, Fifo2Calls DEF FlowCall
      <4>2. CASE step["p"] = 6
        BY <1>2, <1>a, <1>b, <3>2, <4>2 DEF FlowCall
      <4> QED
        BY <1>1, <2>1, <4>1, <4>2
    <3>3. CASE p = "c"
      <4>1. CASE step["c"] \in {1, 2, 3}
        BY <1>2, <1>a, <1>b, <3>3, <4>1, Fifo2Calls DEF FlowCall
      <4>2. CASE step["c"] = 4
        BY <1>2, <1>a, <1>b, <3>3, <4>2 DEF FlowCall
      <4> QED
        BY <1>1, <4>1, <4>2
    <3> QED
      BY <1>1, <3>2, <3>3
  <2>3. /\ Flow("p", "c", 3, 2)'
        /\ step' = step \/ (step[p] <= Len(Calls(p)) /\ Returns(p))
        /\ \/ status' = status
           \/ step' = step /\ step[p] > Len(Calls(p)) /\ status' = [status EXCEPT ![p] = "exited"]
    BY <1>1, <1>2, <2>1, <2>2, FlowStep
  <2>4. step'["p"] \in 2 .. 6 /\ step'["c"] \in 1 .. 4 /\ step'["p"] >= 2
    <3>1. step' = step \/ (step[p] <= Len(Calls(p)) /\ step' = [step EXCEPT ![p] = step[p] + 1])
      BY <2>3 DEF Returns
    <3> QED
      BY <1>1, <1>2, <1>a, <1>b, <2>1, <3>1 DEF ExchangeTypes
  <2>5. met' # {}
    <3>1. CASE OpenBegins(p)
      BY <1>5, <3>1 DEF OpenBegins
    <3>2. CASE ~OpenBegins(p)
      BY <1>5, <3>2, MetStays
    <3> QED
      BY <3>1, <3>2
  <2>6. Took("p")' => step'["p"] = 6
    <3>1. p = "p" /\ step[p] > Len(Calls(p)) => step["p"] = 6
      BY <1>1, <1>a, <1>b
    <3>2. Took("p")' => \/ Took("p") /\ step'["p"] = step["p"]
                        \/ p = "p" /\ step' = step /\ step[p] > Len(Calls(p))
      BY <1>2, <2>3, TookStep
    <3> QED
      BY <1>1, <3>1, <3>2
  <2> QED
    BY <2>3, <2>4, <2>5, <2>6 DEF Fifo2Inv
<1> QED
  BY <1>4, <1>5

-----------------------------------------------------------------------------
(***************************************************************************)
(* papa_son_pipe2                                                          *)
(***************************************************************************)
\* A short message goes into the pipe in one piece.
LEMMA WriteOnce ==
    ASSUME ExchangeTypes, PipeTypes, NEW p \in Process, WriteSome(p), NEW x \in Pipe, Current(p).pipe = x,
           sent[p] = 0, Len(Data(p)) <= PIPE_BUF
    PROVE  /\ buf' = [buf EXCEPT ![x] = buf[x] \o Data(p)] /\ sent' = [sent EXCEPT ![p] = 0] /\ Returns(p)
           /\ Readers(x) # {} \/ Data(p) = <<>>
           /\ UNCHANGED <<status, held, out, met, len>>
<1>1. PICK s \in Seq(Symbol) : s = Data(p) /\ Len(s) \in Nat
  BY DataTyped
<1>2. PIPE_BUF \in Nat
  BY ExchangeAssumption
<1>3. PICK k \in 0 .. Len(s) :
          /\ k = Len(s) \/ Len(s) > PIPE_BUF
          /\ buf' = [buf EXCEPT ![x] = buf[x] \o SubSeq(s, 1, k)]
          /\ sent' = [sent EXCEPT ![p] = IF k = Len(s) THEN 0 ELSE k]
          /\ IF k = Len(s) THEN Returns(p) ELSE UNCHANGED step
  <2>1. Len(s) - sent[p] = Len(s) /\ sent[p] + 1 = 1 /\ \A k \in Nat : sent[p] + k = k
    BY <1>1
  <2>2. PICK k \in 0 .. Len(s) - sent[p] :
          /\ k = Len(s) - sent[p] \/ Len(s) > PIPE_BUF
          /\ buf' = [buf EXCEPT ![x] = buf[x] \o SubSeq(s, sent[p] + 1, sent[p] + k)]
          /\ sent' = [sent EXCEPT ![p] = IF k = Len(s) - sent[p] THEN 0 ELSE sent[p] + k]
          /\ IF k = Len(s) - sent[p] THEN Returns(p) ELSE UNCHANGED step
    BY <1>1 DEF WriteSome
  <2>3. k \in 0 .. Len(s) /\ sent[p] + k = k
    <3>1. k \in 0 .. Len(s)
      BY <2>1, Zenon
    <3> QED
      BY <1>1, <3>1
  <2> QED
    BY <2>1, <2>2, <2>3
<1>4. k = Len(s)
  BY <1>1, <1>2, <1>3
<1>5. SubSeq(s, 1, k) = s
  BY <1>4, SubSeqFull
<1>6. Readers(x) # {} \/ s = <<>>
  <2>1. Readers(x) # {} \/ Len(s) = 0
    BY <1>1 DEF WriteSome
  <2> QED
    BY <2>1, EmptySeq
<1>7. UNCHANGED <<status, held, out, met, len>>
  BY DEF WriteSome
<1> QED
  BY <1>1, <1>3, <1>4, <1>5, <1>6, <1>7

LEMMA Papa2Move ==
    ASSUME ExchangeTypes, Papa2Held, Papa2Data, UNCHANGED <<out, len>>,
           step["p"] \in 2 .. 9, step["c"] \in 1 .. 7,
           step'["p"] = step["p"] \/ (step["p"] \notin {4, 6} /\ step'["p"] = step["p"] + 1),
           step'["c"] = step["c"] \/ (step["c"] \notin {3, 5} /\ step'["c"] = step["c"] + 1),
           step["c"] <= 3 => buf'[1] = buf[1], step["p"] <= 6 => buf'[2] = buf[2]
    PROVE  Papa2Data'
<1>1. Message("p")' = Message("p")
  BY DEF Message
<1>2. /\ step'["c"] <= 3 <=> step["c"] <= 3
      /\ step'["p"] <= 4 <=> step["p"] <= 4
      /\ step'["p"] <= 6 <=> step["p"] <= 6
      /\ step'["c"] <= 5 <=> step["c"] <= 5
  OBVIOUS
<1>3. /\ step'["c"] > 3 <=> step["c"] > 3
      /\ step'["p"] > 6 <=> step["p"] > 6
      /\ step["p"] >= 5 => step'["p"] >= 5
      /\ step["c"] >= 6 => step'["c"] >= 6
  OBVIOUS
<1> QED
  BY <1>1, <1>2, <1>3 DEF Papa2Data

LEMMA Papa2Close ==
    ASSUME ExchangeTypes, Papa2Held, Papa2Data, step["p"] \in 2 .. 9, step["c"] \in 1 .. 7,
           NEW q \in {"p", "c"}, NEW x \in Pipe, NEW end \in {"r", "w"},
           Release({<<q, x, end>>}), Returns(q), UNCHANGED <<status, out, len>>,
           q = "p" => step["p"] \notin {4, 6}, q = "c" => step["c"] \notin {3, 5},
           <<q, x, end>> = <<"p", 1, "w">> => step["p"] = 5,
           <<q, x, end>> = <<"p", 2, "r">> => step["p"] = 7,
           <<q, x, end>> = <<"c", 1, "r">> => step["c"] = 4,
           <<q, x, end>> = <<"c", 2, "w">> => step["c"] = 6
    PROVE  Papa2Held' /\ Papa2Data'
<1>1. "p" \in Process /\ "c" \in Process /\ 1 \in Pipe /\ 2 \in Pipe
  BY DEF Process, Pipe
<1>2. /\ q = "p" => step'["p"] = step["p"] + 1 /\ step'["c"] = step["c"]
      /\ q = "c" => step'["c"] = step["c"] + 1 /\ step'["p"] = step["p"]
  BY <1>1 DEF Returns, ExchangeTypes
<1>3. held' = held \ {<<q, x, end>>}
  BY DEF Release
<1>4. step["p"] <= 6 => buf'[2] = buf[2]
  <2>1. SUFFICES ASSUME step["p"] <= 6 PROVE buf'[2] = buf[2]
    OBVIOUS
  <2>2. PICK d \in held : d = <<"p", 2, "r">>
    BY <2>1 DEF Papa2Held
  <2>3. d \notin {<<q, x, end>>} /\ d[2] = 2
    BY <2>1, <2>2
  <2> QED
    BY <1>1, <2>3, Released
<1>5. step["c"] <= 3 => buf'[1] = buf[1]
  <2>1. SUFFICES ASSUME step["c"] <= 3 PROVE buf'[1] = buf[1]
    OBVIOUS
  <2>2. PICK d \in held : d = <<"c", 1, "r">>
    BY <2>1 DEF Papa2Held
  <2>3. d \notin {<<q, x, end>>} /\ d[2] = 1
    BY <2>1, <2>2
  <2> QED
    BY <1>1, <2>3, Released
<1>6. /\ step'["p"] = step["p"] \/ (step["p"] \notin {4, 6} /\ step'["p"] = step["p"] + 1)
      /\ step'["c"] = step["c"] \/ (step["c"] \notin {3, 5} /\ step'["c"] = step["c"] + 1)
  BY <1>2
<1>7. Papa2Data'
  BY <1>4, <1>5, <1>6, Papa2Move
<1>8. step'["p"] <= 5 => <<"p", 1, "w">> \in held'
  BY <1>2, <1>3 DEF Papa2Held
<1>9. step'["p"] <= 7 => Running("p")' /\ <<"p", 2, "r">> \in held'
  BY <1>2, <1>3 DEF Papa2Held, Running
<1>10. step'["c"] <= 4 => <<"c", 1, "r">> \in held'
  BY <1>2, <1>3 DEF Papa2Held
<1>11. step'["c"] <= 6 => Running("c")' /\ <<"c", 2, "w">> \in held'
  BY <1>2, <1>3 DEF Papa2Held, Running
<1> QED
  BY <1>7, <1>8, <1>9, <1>10, <1>11 DEF Papa2Held

LEMMA Papa2Exit ==
    ASSUME ExchangeTypes, Papa2Held, Papa2Data, step["p"] \in 2 .. 9, step["c"] \in 1 .. 7,
           NEW q \in {"p", "c"}, NEW how, Ends(q, how), UNCHANGED <<step, out, len>>,
           q = "p" => step["p"] = 9, q = "c" => step["c"] = 7
    PROVE  Papa2Held' /\ Papa2Data'
<1>1. "p" \in Process /\ "c" \in Process /\ 1 \in Pipe /\ 2 \in Pipe
  BY DEF Process, Pipe
<1>2. /\ held' = held \ {d \in held : d[1] = q} /\ status' = [status EXCEPT ![q] = how]
      /\ Release({d \in held : d[1] = q})
  BY DEF Ends, Release
<1>4. step["p"] <= 6 => buf'[2] = buf[2]
  <2>1. SUFFICES ASSUME step["p"] <= 6 PROVE buf'[2] = buf[2]
    OBVIOUS
  <2>2. PICK d \in held : d = <<"p", 2, "r">>
    BY <2>1 DEF Papa2Held
  <2>3. d \notin {e \in held : e[1] = q} /\ d[2] = 2
    BY <2>1, <2>2
  <2> QED
    BY <1>1, <1>2, <2>3, Released
<1>5. step["c"] <= 3 => buf'[1] = buf[1]
  <2>1. SUFFICES ASSUME step["c"] <= 3 PROVE buf'[1] = buf[1]
    OBVIOUS
  <2>2. PICK d \in held : d = <<"c", 1, "r">>
    BY <2>1 DEF Papa2Held
  <2>3. d \notin {e \in held : e[1] = q} /\ d[2] = 1
    BY <2>1, <2>2
  <2> QED
    BY <1>1, <1>2, <2>3, Released
<1>7. Papa2Data'
  BY <1>4, <1>5, Papa2Move
<1>8. step["p"] <= 7 => Running("p")' /\ <<"p", 2, "r">> \in held'
  BY <1>1, <1>2 DEF Papa2Held, Running, ExchangeTypes
<1>9. step["p"] <= 5 => <<"p", 1, "w">> \in held'
  BY <1>1, <1>2 DEF Papa2Held
<1>10. step["c"] <= 4 => <<"c", 1, "r">> \in held'
  BY <1>1, <1>2 DEF Papa2Held
<1>11. step["c"] <= 6 => Running("c")' /\ <<"c", 2, "w">> \in held'
  BY <1>1, <1>2 DEF Papa2Held, Running, ExchangeTypes
<1> QED
  BY <1>7, <1>8, <1>9, <1>10, <1>11 DEF Papa2Held

LEMMA Papa2Alone ==
    ASSUME exercise = "papa_son_pipe2", len <= PIPE_BUF, ExchangeTypes, PipeTypes, Papa2Inv, ExchangeTypes',
           NEW p \in Process, Running(p), PipeStep(p), status["c"] = "unborn"
    PROVE  Papa2Inv'
<1>1. p = "p" /\ "p" \in Process /\ "c" \in Process /\ step["p"] \in 1 .. 9 /\ step["c"] \in 1 .. 7
  BY DEF ExchangeTypes, Running, Process, Papa2Inv
<1>2. /\ sent["p"] = 0 /\ sent["c"] = 0
      /\ Took("p") => step["p"] = 9
      /\ ~Took("c") /\ ~Took("p")
  BY <1>1 DEF Papa2Inv, Took, Running
<1>3. Len(Calls(p)) = 8
  BY <1>1, Papa2Calls
<1>b. step[p] = step["p"] /\ step[p] \in 1 .. 9
  BY <1>1
<1>4. CASE Fork(p)
  <2>1. /\ status' = [status EXCEPT !["c"] = "running"] /\ Returns(p) /\ UNCHANGED <<buf, out, sent, len>>
        /\ held' = {"p", "c"} \X {1, 2} \X {"r", "w"} /\ Does(p, "fork")
    BY <1>4 DEF Fork, PipesOf
  <2>2. Current("p").op = "fork"
    BY <1>1, <2>1 DEF Does
  <2>3. step["p"] = 1
    <3>0. step[p] <= Len(Calls(p))
      BY <2>1 DEF Does
    <3>a. step[p] \in 1 .. 8
      BY <1>3, <1>b, <3>0
    <3>1. step["p"] \in 1 .. 8
      BY <1>b, <3>a
    <3> QED
      BY <2>2, <3>1, Papa2Calls DEF Plain, Call, CloseR, CloseW, Write
  <2>4. step'["p"] = 2 /\ step'["c"] = 1 /\ buf[1] = <<>> /\ buf[2] = <<>> /\ out["p"] = <<>> /\ out["c"] = <<>>
    BY <1>1, <2>1, <2>3 DEF Returns, ExchangeTypes, Papa2Inv, Pipe
  <2>5. status'["c"] = "running" /\ status'["p"] = status["p"]
    BY <1>1, <2>1 DEF ExchangeTypes
  <2>6. Papa2Held'
    BY <1>1, <2>1, <2>4, <2>5 DEF Papa2Held, Running
  <2>7. Papa2Data'
    BY <2>1, <2>4 DEF Papa2Data
  <2> QED
    BY <1>2, <2>1, <2>4, <2>5, <2>6, <2>7 DEF Papa2Inv, Took
<1>5. ASSUME Returns(p), UNCHANGED <<status, sent>>, step["p"] <= 8 PROVE Papa2Inv'
  <2>1. step'["p"] = step["p"] + 1 /\ step'["c"] = step["c"]
    BY <1>1, <1>5 DEF Returns, ExchangeTypes
  <2>2. step'["p"] \in 1 .. 9 /\ step'["p"] # 1
    BY <1>1, <1>5, <2>1
  <2> QED
    BY <1>1, <1>2, <1>5, <2>1, <2>2 DEF Papa2Inv, Took
<1>6. ASSUME NEW how, Ends(p, how), UNCHANGED <<step, sent, out>>, how = "exited" => step["p"] = 9,
             step["p"] # 1
      PROVE  Papa2Inv'
  <2>1. status' = [status EXCEPT ![p] = how]
    BY <1>6 DEF Ends
  <2>2. status'["p"] = how /\ status'["c"] = "unborn"
    BY <1>1, <2>1 DEF ExchangeTypes
  <2> QED
    BY <1>1, <1>2, <1>6, <2>2 DEF Papa2Inv, Took
<1>7. CASE Exit(p)
  <2>1. step["p"] = 9 /\ Ends(p, "exited") /\ UNCHANGED <<step, sent, out>>
    <3>1. step[p] > Len(Calls(p))
      BY <1>7 DEF Exit
    <3>2. step[p] = 9
      BY <1>3, <1>b, <3>1
    <3> QED
      BY <1>7, <1>b, <3>2 DEF Exit
  <2> QED
    BY <1>6, <2>1
<1>8. CASE step[p] <= Len(Calls(p)) /\ Makes(p, Current(p).op)
  <2>0. step[p] \in 1 .. 8
    BY <1>3, <1>8, <1>b
  <2>1. step["p"] \in 1 .. 8
    BY <1>b, <2>0
  <2>2. CASE ForkFails(p) \/ Wait(p) \/ ReadEnd(p) \/ NoDescriptor(p) \/ Close(p) \/ ReadSome(p)
    <3>1. UNCHANGED <<status, sent>>
      BY <2>2 DEF ForkFails, Wait, ReadEnd, NoDescriptor, Close, ReadSome
    <3>2. Returns(p)
      <4>1. CASE ForkFails(p) \/ Wait(p) \/ ReadEnd(p) \/ NoDescriptor(p) \/ Close(p)
        BY <4>1 DEF ForkFails, Wait, ReadEnd, NoDescriptor, Close
      <4>2. CASE ReadSome(p)
        <5>1. Current(p).op # "read_all"
          BY <1>1, <2>1, Papa2Calls DEF Plain, Call, CloseR, CloseW, Write
        <5>2. Does(p, "read")
          BY <4>2, <5>1 DEF ReadSome, Reading, Does
        <5> QED
          BY <4>2, <5>2 DEF ReadSome
      <4> QED
        BY <2>2, <4>1, <4>2
    <3> QED
      BY <1>5, <2>1, <3>1, <3>2
  <2>3. CASE WriteSome(p) \/ WriteKilled(p)
    <3>1. Does(p, "write") \/ Does(p, "reply")
      BY <2>3 DEF WriteSome, WriteKilled, Writing
    <3>2. Current("p").op \in {"write", "reply"}
      BY <1>1, <3>1 DEF Does
    <3>3. step["p"] = 4
      BY <2>1, <3>2, Papa2Calls DEF Plain, Call, CloseR, CloseW, Write
    <3>4. Current(p) = Write(1)
      BY <1>1, <3>3, Papa2Calls
    <3>5. Current(p).pipe = 1 /\ Data(p) = Message(p) /\ 1 \in Pipe
      BY <3>4 DEF Write, Call, Data, Pipe
    <3>6. Len(Data(p)) <= PIPE_BUF
      BY <3>5, MessageTyped DEF ExchangeTypes
    <3>7. CASE WriteSome(p)
      <4>1. sent' = [sent EXCEPT ![p] = 0] /\ Returns(p) /\ UNCHANGED status
        BY <1>1, <1>2, <3>5, <3>6, <3>7, WriteOnce
      <4>2. sent' = sent
        BY <1>1, <1>2, <4>1 DEF ExchangeTypes
      <4> QED
        BY <1>5, <2>1, <4>1, <4>2
    <3>8. CASE WriteKilled(p)
      BY <1>6, <3>3, <3>8 DEF WriteKilled
    <3> QED
      BY <2>3, <3>7, <3>8
  <2>4. Current(p).op \in {"fork", "wait", "close_r", "close_w", "write", "read"}
    BY <1>1, <2>1, Papa2Calls DEF Plain, Call, CloseR, CloseW, Write
  <2> QED
    BY <1>4, <1>8, <2>2, <2>3, <2>4 DEF Makes
<1> QED
  BY <1>7, <1>8 DEF PipeStep

LEMMA Papa2Moves ==
    ASSUME exercise = "papa_son_pipe2", ExchangeTypes, Papa2Inv, Papa2Held', Papa2Data',
           NEW p \in {"p", "c"}, Running(p), status["c"] # "unborn", UNCHANGED sent,
           step' = step \/ (step[p] <= Len(Calls(p)) /\ Returns(p)),
           \/ status' = status
           \/ step' = step /\ step[p] > Len(Calls(p)) /\ status' = [status EXCEPT ![p] = "exited"]
    PROVE  Papa2Inv'
<1>1. p \in Process /\ "p" \in Process /\ "c" \in Process
  BY DEF Process
<1>2. /\ step["p"] \in 2 .. 9 /\ step["c"] \in 1 .. 7
      /\ Took("p") => step["p"] = 9
      /\ Took("c") => step["c"] = 7
      /\ sent["p"] = 0 /\ sent["c"] = 0
  BY DEF Papa2Inv
<1>a. Len(Calls(p)) = IF p = "p" THEN 8 ELSE 6
  BY Papa2Calls
<1>b. step[p] = IF p = "p" THEN step["p"] ELSE step["c"]
  OBVIOUS
<1>3. step'["p"] \in 2 .. 9 /\ step'["c"] \in 1 .. 7
  <2>1. step' = step \/ (step[p] <= Len(Calls(p)) /\ step' = [step EXCEPT ![p] = step[p] + 1])
    BY DEF Returns
  <2> QED
    BY <1>1, <1>2, <1>a, <1>b, <2>1 DEF ExchangeTypes
<1>4. status'["c"] # "unborn"
  BY <1>1 DEF ExchangeTypes
<1>5. Took("p")' => step'["p"] = 9
  <2>1. p = "p" /\ step[p] > Len(Calls(p)) => step["p"] = 9
    BY <1>2, <1>a, <1>b
  <2>2. Took("p")' => \/ Took("p") /\ step'["p"] = step["p"]
                      \/ p = "p" /\ step' = step /\ step[p] > Len(Calls(p))
    BY <1>1, TookStep
  <2> QED
    BY <1>2, <2>1, <2>2
<1>6. Took("c")' => step'["c"] = 7
  <2>1. p = "c" /\ step[p] > Len(Calls(p)) => step["c"] = 7
    BY <1>2, <1>a, <1>b
  <2>2. Took("c")' => \/ Took("c") /\ step'["c"] = step["c"]
                      \/ p = "c" /\ step' = step /\ step[p] > Len(Calls(p))
    BY <1>1, TookStep
  <2> QED
    BY <1>2, <2>1, <2>2
<1> QED
  BY <1>2, <1>3, <1>4, <1>5, <1>6 DEF Papa2Inv

LEMMA Papa2Write ==
    ASSUME exercise = "papa_son_pipe2", len <= PIPE_BUF, ExchangeTypes, PipeTypes, Papa2Inv,
           status["c"] # "unborn", step["p"] = 4, PipeStep("p")
    PROVE  Returns("p") /\ UNCHANGED <<status, sent>> /\ Papa2Held' /\ Papa2Data'
<1>1. "p" \in Process /\ "c" \in Process /\ 1 \in Pipe /\ 2 \in Pipe
  BY DEF Process, Pipe
<1>2. Papa2Held /\ Papa2Data /\ sent["p"] = 0 /\ step["c"] \in 1 .. 7
  BY DEF Papa2Inv
<1>3. step["c"] <= 3 /\ out["c"] = <<>> /\ buf[1] = <<>> /\ out["p"] = <<>> /\ buf[2] = <<>>
  BY <1>2 DEF Papa2Data
<1>4. /\ <<"p", 1, "w">> \in held /\ Running("p") /\ <<"p", 2, "r">> \in held
      /\ <<"c", 1, "r">> \in held /\ Running("c") /\ <<"c", 2, "w">> \in held
  BY <1>2, <1>3 DEF Papa2Held
<1>5. Current("p") = Write(1)
  BY Papa2Calls
<1>6. Current("p").op = "write" /\ Current("p").pipe = 1 /\ Data("p") = Message("p")
  BY <1>5 DEF Write, Call, Data
<1>7. <<"c", 1, "r">> \in Readers(1)
  BY <1>4 DEF Readers
<1>8. ~NoDescriptor("p") /\ ~WriteKilled("p")
  BY <1>4, <1>6, <1>7 DEF NoDescriptor, WriteKilled, Reading, Does
<1>9. ~Exit("p")
  <2>1. Len(Calls("p")) = 8
    BY Papa2Calls
  <2> QED
    BY <2>1 DEF Exit
<1>10. WriteSome("p")
  BY <1>6, <1>8, <1>9 DEF PipeStep, Makes
<1>11. Len(Data("p")) <= PIPE_BUF
  BY <1>1, <1>6, MessageTyped DEF ExchangeTypes
<1>12. /\ buf' = [buf EXCEPT ![1] = buf[1] \o Message("p")] /\ sent' = [sent EXCEPT !["p"] = 0]
       /\ Returns("p") /\ UNCHANGED <<status, held, out, len>>
  BY <1>1, <1>2, <1>6, <1>10, <1>11, WriteOnce
<1>13. sent' = sent
  BY <1>1, <1>2, <1>12 DEF ExchangeTypes
<1>14. step'["p"] = 5 /\ step'["c"] = step["c"]
  BY <1>1, <1>12 DEF Returns, ExchangeTypes
<1>15. buf'[1] = Message("p") /\ buf'[2] = <<>>
  <2>1. buf[1] \o Message("p") = Message("p")
    BY <1>1, <1>3, MessageTyped, ConcatEmptySeq DEF ExchangeTypes
  <2> QED
    BY <1>1, <1>3, <1>12, <2>1 DEF PipeTypes
<1>16. Message("p")' = Message("p")
  BY <1>12 DEF Message
<1>17. Papa2Held'
  BY <1>2, <1>3, <1>4, <1>12, <1>14 DEF Papa2Held, Running
<1>18. Papa2Data'
  BY <1>2, <1>3, <1>12, <1>14, <1>15, <1>16 DEF Papa2Data
<1> QED
  BY <1>12, <1>13, <1>17, <1>18

LEMMA Papa2Reply ==
    ASSUME exercise = "papa_son_pipe2", ExchangeTypes, PipeTypes, Papa2Inv,
           status["c"] # "unborn", step["c"] = 5, PipeStep("c")
    PROVE  Returns("c") /\ UNCHANGED <<status, sent>> /\ Papa2Held' /\ Papa2Data'
<1>1. "p" \in Process /\ "c" \in Process /\ 1 \in Pipe /\ 2 \in Pipe
  BY DEF Process, Pipe
<1>2. Papa2Held /\ Papa2Data /\ sent["c"] = 0 /\ step["p"] \in 2 .. 9
  BY DEF Papa2Inv
<1>3. step["p"] <= 6 /\ step["p"] >= 5 /\ out["c"] = Message("p") /\ out["p"] = <<>> /\ buf[2] = <<>>
  BY <1>2 DEF Papa2Data
<1>4. Running("p") /\ <<"p", 2, "r">> \in held /\ Running("c") /\ <<"c", 2, "w">> \in held
  BY <1>2, <1>3 DEF Papa2Held
<1>5. Current("c") = Call("reply", 2, 0)
  BY Papa2Calls
<1>6. Current("c").op = "reply" /\ Current("c").pipe = 2 /\ Data("c") = <<Len(out["c"])>>
  BY <1>5 DEF Call, Data
<1>7. <<"p", 2, "r">> \in Readers(2)
  BY <1>4 DEF Readers
<1>8. ~NoDescriptor("c") /\ ~WriteKilled("c")
  BY <1>4, <1>6, <1>7 DEF NoDescriptor, WriteKilled, Reading, Does
<1>9. ~Exit("c")
  <2>1. Len(Calls("c")) = 6
    BY Papa2Calls
  <2> QED
    BY <2>1 DEF Exit
<1>10. WriteSome("c")
  BY <1>6, <1>8, <1>9 DEF PipeStep, Makes
<1>11. Data("c") = <<len>> /\ Len(Data("c")) <= PIPE_BUF
  <2>1. Len(out["c"]) = len
    BY <1>1, <1>3, MessageTyped DEF ExchangeTypes
  <2>2. PIPE_BUF \in Nat \ {0}
    BY ExchangeAssumption
  <2>3. Data("c") = <<len>>
    BY <1>6, <2>1, Zenon
  <2>4. Len(<<len>>) = 1
    OBVIOUS
  <2>5. Len(Data("c")) = 1
    BY <2>3, <2>4, Zenon
  <2>6. 1 <= PIPE_BUF
    BY <2>2
  <2> QED
    BY <2>3, <2>5, <2>6, Zenon
<1>12. /\ buf' = [buf EXCEPT ![2] = buf[2] \o <<len>>] /\ sent' = [sent EXCEPT !["c"] = 0]
       /\ Returns("c") /\ UNCHANGED <<status, held, out, len>>
  <2>1. Len(Data("c")) <= PIPE_BUF /\ Current("c").pipe = 2
    BY <1>6, <1>11
  <2>2. /\ buf' = [buf EXCEPT ![2] = buf[2] \o Data("c")] /\ sent' = [sent EXCEPT !["c"] = 0]
        /\ Returns("c") /\ UNCHANGED <<status, held, out, len>>
    BY <1>1, <1>2, <1>10, <2>1, WriteOnce
  <2> QED
    BY <1>11, <2>2, Zenon
<1>13. sent' = sent
  BY <1>1, <1>2, <1>12 DEF ExchangeTypes
<1>14. step'["c"] = 6 /\ step'["p"] = step["p"]
  BY <1>1, <1>12 DEF Returns, ExchangeTypes
<1>15. buf'[2] = <<len>>
  <2>1. buf[2] \o <<len>> = <<len>>
    BY <1>3 DEF ExchangeTypes
  <2> QED
    BY <1>1, <1>12, <2>1 DEF PipeTypes
<1>16. Message("p")' = Message("p")
  BY <1>12 DEF Message
<1>17. Papa2Held'
  BY <1>2, <1>3, <1>4, <1>12, <1>14 DEF Papa2Held, Running
<1>18. Papa2Data'
  BY <1>2, <1>3, <1>12, <1>14, <1>15, <1>16 DEF Papa2Data
<1> QED
  BY <1>12, <1>13, <1>17, <1>18

\* A read that asks for enough takes all there is.
LEMMA ReadOnce ==
    ASSUME ExchangeTypes, PipeTypes, NEW p \in Process, ReadSome(p), NEW x \in Pipe,
           Current(p) = Call("read", x, BUF_SIZE), Len(buf[x]) <= BUF_SIZE
    PROVE  /\ Returns(p) /\ buf[x] # <<>> /\ out' = [out EXCEPT ![p] = out[p] \o buf[x]]
           /\ \A y \in Pipe \ {x} : buf'[y] = buf[y]
           /\ UNCHANGED <<status, held, sent, len>>
<1>1. Current(p).op = "read" /\ Current(p).pipe = x /\ Current(p).n = BUF_SIZE /\ BUF_SIZE \in Nat
  BY ExchangeAssumption DEF Call
<1>2. PICK t \in Seq(Symbol) : t = buf[x]
  BY DEF PipeTypes
<1>3. Len(t) \in Nat /\ Len(t) <= BUF_SIZE
  BY <1>2, LenProperties
<1>4. (IF Len(t) < BUF_SIZE THEN Len(t) ELSE BUF_SIZE) = Len(t)
  BY <1>1, <1>3
<1>5. SubSeq(t, 1, Len(t)) = t
  BY SubSeqFull
<1>6. PICK k \in Nat : k = Len(t)
  BY <1>3
<1>7. /\ t # <<>> /\ out' = [out EXCEPT ![p] = out[p] \o SubSeq(t, 1, k)]
      /\ buf' = [buf EXCEPT ![x] = SubSeq(t, k + 1, Len(t))]
  BY <1>1, <1>2, <1>4, <1>6 DEF ReadSome
<1>8. Does(p, "read")
  BY <1>1 DEF ReadSome, Reading, Does
<1>9. Returns(p) /\ UNCHANGED <<status, held, sent, len>>
  BY <1>8 DEF ReadSome
<1> QED
  BY <1>2, <1>5, <1>6, <1>7, <1>9 DEF PipeTypes

LEMMA Papa2Takes ==
    ASSUME exercise = "papa_son_pipe2", len <= BUF_SIZE, ExchangeTypes, PipeTypes, Papa2Inv,
           status["c"] # "unborn", step["c"] = 3, PipeStep("c")
    PROVE  Returns("c") /\ UNCHANGED <<status, sent>> /\ Papa2Held' /\ Papa2Data'
<1>1. "p" \in Process /\ "c" \in Process /\ 1 \in Pipe /\ 2 \in Pipe \ {1}
  BY DEF Process, Pipe
<1>2. Papa2Held /\ Papa2Data /\ step["p"] \in 2 .. 9
  BY DEF Papa2Inv
<1>3. step["p"] <= 6 /\ out["c"] = <<>> /\ out["p"] = <<>> /\ buf[2] = <<>>
  BY <1>2 DEF Papa2Data
<1>4. buf[1] = IF step["p"] <= 4 THEN <<>> ELSE Message("p")
  BY <1>2 DEF Papa2Data
<1>5. /\ step["p"] <= 5 => <<"p", 1, "w">> \in held
      /\ Running("p") /\ <<"p", 2, "r">> \in held
      /\ <<"c", 1, "r">> \in held /\ Running("c") /\ <<"c", 2, "w">> \in held
  BY <1>2, <1>3 DEF Papa2Held
<1>6. Current("c") = Call("read", 1, BUF_SIZE)
  BY Papa2Calls
<1>7. Current("c").op = "read" /\ Current("c").pipe = 1
  BY <1>6 DEF Call
<1>8. ~NoDescriptor("c")
  BY <1>5, <1>7 DEF NoDescriptor, Writing, Does
<1>9. ~Exit("c")
  <2>1. Len(Calls("c")) = 6
    BY Papa2Calls
  <2> QED
    BY <2>1 DEF Exit
<1>10. ReadSome("c") \/ ReadEnd("c")
  BY <1>7, <1>8, <1>9 DEF PipeStep, Makes
<1>11. Message("p") \in Seq(Symbol) /\ Len(Message("p")) = len
  BY <1>1, MessageTyped DEF ExchangeTypes
<1>12. /\ Returns("c") /\ UNCHANGED <<status, held, sent, len>>
       /\ out' = [out EXCEPT !["c"] = Message("p")] /\ buf'[2] = buf[2] /\ step["p"] >= 5
  <2>1. CASE ReadSome("c")
    <3>1. buf[1] # <<>>
      BY <1>7, <2>1 DEF ReadSome
    <3>2. step["p"] >= 5 /\ buf[1] = Message("p")
      BY <1>2, <1>4, <3>1
    <3>3. Len(buf[1]) <= BUF_SIZE
      BY <1>11, <3>2
    <3>4. /\ Returns("c") /\ out' = [out EXCEPT !["c"] = out["c"] \o buf[1]]
          /\ buf'[2] = buf[2] /\ UNCHANGED <<status, held, sent, len>>
      BY <1>1, <1>6, <2>1, <3>3, ReadOnce
    <3>5. out["c"] \o buf[1] = Message("p")
      BY <1>3, <1>11, <3>2, ConcatEmptySeq
    <3> QED
      BY <3>2, <3>4, <3>5
  <2>2. CASE ReadEnd("c")
    <3>1. buf[1] = <<>> /\ Writers(1) = {}
      BY <1>7, <2>2 DEF ReadEnd
    <3>2. step["p"] > 5
      BY <1>2, <1>5, <3>1 DEF Writers
    <3>3. Message("p") = <<>>
      BY <1>2, <1>4, <3>1, <3>2
    <3>4. Returns("c") /\ UNCHANGED <<status, held, buf, sent, out, len>>
      BY <2>2 DEF ReadEnd
    <3>5. out' = [out EXCEPT !["c"] = Message("p")]
      BY <1>1, <1>3, <3>3, <3>4 DEF PipeTypes
    <3>6. step["p"] >= 5
      BY <1>2, <3>2
    <3> QED
      BY <3>4, <3>5, <3>6
  <2> QED
    BY <1>10, <2>1, <2>2
<1>13. step'["c"] = 4 /\ step'["p"] = step["p"]
  BY <1>1, <1>12 DEF Returns, ExchangeTypes
<1>14. out'["c"] = Message("p") /\ out'["p"] = <<>>
  BY <1>1, <1>3, <1>12 DEF PipeTypes
<1>15. Message("p")' = Message("p")
  BY <1>12 DEF Message
<1>16. Papa2Held'
  BY <1>2, <1>3, <1>5, <1>12, <1>13 DEF Papa2Held, Running
<1>17. Papa2Data'
  BY <1>2, <1>3, <1>12, <1>13, <1>14, <1>15 DEF Papa2Data
<1> QED
  BY <1>12, <1>16, <1>17

LEMMA Papa2Hears ==
    ASSUME exercise = "papa_son_pipe2", ExchangeTypes, PipeTypes, Papa2Inv,
           status["c"] # "unborn", step["p"] = 6, PipeStep("p")
    PROVE  Returns("p") /\ UNCHANGED <<status, sent>> /\ Papa2Held' /\ Papa2Data'
<1>1. "p" \in Process /\ "c" \in Process /\ 2 \in Pipe /\ 1 \in Pipe \ {2}
  BY DEF Process, Pipe
<1>2. Papa2Held /\ Papa2Data /\ step["c"] \in 1 .. 7
  BY DEF Papa2Inv
<1>3. /\ out["p"] = <<>> /\ buf[2] = IF step["c"] <= 5 THEN <<>> ELSE <<len>>
      /\ Running("p") /\ <<"p", 2, "r">> \in held
  BY <1>2 DEF Papa2Data, Papa2Held
<1>4. Current("p") = Call("read", 2, BUF_SIZE)
  BY Papa2Calls
<1>5. Current("p").op = "read" /\ Current("p").pipe = 2
  BY <1>4 DEF Call
<1>6. ~NoDescriptor("p")
  BY <1>3, <1>5 DEF NoDescriptor, Writing, Does
<1>7. ~Exit("p")
  <2>1. Len(Calls("p")) = 8
    BY Papa2Calls
  <2> QED
    BY <2>1 DEF Exit
<1>8. ~ReadEnd("p")
  <2>1. SUFFICES ASSUME buf[2] = <<>>, Writers(2) = {} PROVE FALSE
    BY <1>5 DEF ReadEnd
  <2>2. <<len>> # <<>>
    OBVIOUS
  <2>3. step["c"] <= 5
    BY <1>3, <2>1, <2>2
  <2>4. step["c"] <= 6
    BY <1>2, <2>3
  <2>5. <<"c", 2, "w">> \in held
    BY <1>2, <2>4 DEF Papa2Held
  <2> QED
    BY <2>1, <2>5 DEF Writers
<1>9. ReadSome("p")
  BY <1>5, <1>6, <1>7, <1>8 DEF PipeStep, Makes
<1>10. step["c"] >= 6 /\ buf[2] = <<len>>
  <2>1. buf[2] # <<>>
    BY <1>5, <1>9 DEF ReadSome
  <2> QED
    BY <1>2, <1>3, <2>1
<1>11. Len(buf[2]) <= BUF_SIZE
  <2>1. Len(<<len>>) = 1
    OBVIOUS
  <2>2. Len(buf[2]) = 1
    BY <1>10, <2>1, Zenon
  <2>3. BUF_SIZE \in Nat \ {0}
    BY ExchangeAssumption
  <2> QED
    BY <2>2, <2>3
<1>12. /\ Returns("p") /\ out' = [out EXCEPT !["p"] = out["p"] \o buf[2]]
       /\ buf'[1] = buf[1] /\ UNCHANGED <<status, held, sent, len>>
  BY <1>1, <1>4, <1>9, <1>11, ReadOnce
<1>13. out["p"] \o buf[2] = <<len>>
  <2>1. <<>> \o <<len>> = <<len>>
    BY DEF ExchangeTypes
  <2> QED
    BY <1>3, <1>10, <2>1, Zenon
<1>14. step'["p"] = 7 /\ step'["c"] = step["c"]
  BY <1>1, <1>12 DEF Returns, ExchangeTypes
<1>15. out'["p"] = <<len>> /\ out'["c"] = out["c"]
  BY <1>1, <1>12, <1>13 DEF PipeTypes
<1>16. Message("p")' = Message("p")
  BY <1>12 DEF Message
<1>17. Papa2Held'
  BY <1>2, <1>3, <1>12, <1>14 DEF Papa2Held, Running
<1>18. out["c"] = Message("p")
  BY <1>2, <1>10 DEF Papa2Data
<1>19. Papa2Data'
  BY <1>2, <1>10, <1>12, <1>14, <1>15, <1>16, <1>18 DEF Papa2Data
<1> QED
  BY <1>12, <1>17, <1>19

LEMMA Papa2InvStep ==
    ASSUME exercise = "papa_son_pipe2", len <= PIPE_BUF, len <= BUF_SIZE, ExchangeTypes, PipeTypes, Papa2Inv,
           ExchangeTypes', NEW p \in Process, Running(p), PipeStep(p)
    PROVE  Papa2Inv'
<1>1. SUFFICES ASSUME status["c"] # "unborn" PROVE Papa2Inv'
  BY Papa2Alone
<1>2. p \in {"p", "c"} /\ 1 \in Pipe /\ 2 \in Pipe
  BY DEF ExchangeTypes, Running, Process, Pipe
<1>3. step["p"] \in 2 .. 9 /\ step["c"] \in 1 .. 7 /\ Papa2Held /\ Papa2Data
  BY <1>1 DEF Papa2Inv
<1>a. Len(Calls(p)) = IF p = "p" THEN 8 ELSE 6
  BY <1>2, Papa2Calls
<1>b. step[p] = IF p = "p" THEN step["p"] ELSE step["c"]
  BY <1>2
<1>4. CASE step[p] > Len(Calls(p)) /\ Exit(p)
  <2>1. p = "p" => step["p"] = 9
    BY <1>3, <1>4, <1>a, <1>b
  <2>2. p = "c" => step["c"] = 7
    BY <1>3, <1>4, <1>a, <1>b
  <2>3. Ends(p, "exited") /\ UNCHANGED <<step, sent, out, len>>
    BY <1>4 DEF Exit
  <2>4. Papa2Held' /\ Papa2Data'
    BY <1>2, <1>3, <2>1, <2>2, <2>3, Papa2Exit
  <2>5. status' = [status EXCEPT ![p] = "exited"]
    BY <2>3 DEF Ends
  <2> QED
    BY <1>1, <1>2, <1>4, <2>3, <2>4, <2>5, Papa2Moves
<1>5. ASSUME step[p] <= Len(Calls(p)), Returns(p), UNCHANGED <<status, sent>>, Papa2Held', Papa2Data'
      PROVE  Papa2Inv'
  BY <1>1, <1>2, <1>5, Papa2Moves
<1>6. CASE step[p] <= Len(Calls(p)) /\ Makes(p, Current(p).op)
  <2>1. p = "p" => step["p"] \in 2 .. 8
    BY <1>3, <1>6, <1>a, <1>b
  <2>2. p = "c" => step["c"] \in 1 .. 6
    BY <1>3, <1>6, <1>a, <1>b
  <2>3. CASE \/ p = "p" /\ step["p"] \in {4, 6}
             \/ p = "c" /\ step["c"] \in {3, 5}
    <3>1. Returns(p) /\ UNCHANGED <<status, sent>> /\ Papa2Held' /\ Papa2Data'
      BY <1>1, <2>3, Papa2Write, Papa2Reply, Papa2Takes, Papa2Hears
    <3> QED
      BY <1>5, <1>6, <3>1
  <2>4. ASSUME NEW x \in Pipe, NEW end \in {"r", "w"},
               Current(p) = Call(IF end = "r" THEN "close_r" ELSE "close_w", x, 0),
               p = "p" => step["p"] \notin {4, 6}, p = "c" => step["c"] \notin {3, 5},
               <<p, x, end>> = <<"p", 1, "w">> => step["p"] = 5,
               <<p, x, end>> = <<"p", 2, "r">> => step["p"] = 7,
               <<p, x, end>> = <<"c", 1, "r">> => step["c"] = 4,
               <<p, x, end>> = <<"c", 2, "w">> => step["c"] = 6
        PROVE  Papa2Inv'
    <3>1. Current(p).op \in {"close_r", "close_w"}
      BY <2>4 DEF Call
    <3>2. Close(p)
      BY <1>6, <3>1 DEF Makes
    <3>3. Release({<<p, x, end>>}) /\ Returns(p)
      BY <2>4, <3>2, Closing
    <3>4. UNCHANGED <<status, sent, out, len>>
      BY <3>2 DEF Close
    <3>5. Papa2Held' /\ Papa2Data'
      BY <1>2, <1>3, <2>4, <3>3, <3>4, Papa2Close
    <3> QED
      BY <1>5, <1>6, <3>3, <3>4, <3>5
  <2>5. ASSUME NEW x \in Pipe,
               \/ p = "p" /\ ((step["p"] = 2 /\ x = 1) \/ (step["p"] = 7 /\ x = 2))
               \/ p = "c" /\ ((step["c"] = 2 /\ x = 2) \/ (step["c"] = 4 /\ x = 1))
        PROVE  Papa2Inv'
    <3>1. Current(p) = CloseR(x)
      BY <2>5, Papa2Calls
    <3>2. Current(p) = Call(IF "r" = "r" THEN "close_r" ELSE "close_w", x, 0)
      BY <3>1 DEF CloseR
    <3> QED
      BY <2>4, <2>5, <3>2
  <2>6. ASSUME NEW x \in Pipe,
               \/ p = "p" /\ ((step["p"] = 3 /\ x = 2) \/ (step["p"] = 5 /\ x = 1))
               \/ p = "c" /\ ((step["c"] = 1 /\ x = 1) \/ (step["c"] = 6 /\ x = 2))
        PROVE  Papa2Inv'
    <3>1. Current(p) = CloseW(x)
      BY <2>6, Papa2Calls
    <3>2. Current(p) = Call(IF "w" = "r" THEN "close_r" ELSE "close_w", x, 0)
      BY <3>1 DEF CloseW
    <3> QED
      BY <2>4, <2>6, <3>2
  <2>7. CASE p = "p" /\ step["p"] = 8
    <3>1. Current(p).op = "wait"
      BY <2>7, Papa2Calls DEF Plain, Call
    <3>2. Wait(p)
      BY <1>6, <3>1 DEF Makes
    <3>3. Returns(p) /\ UNCHANGED <<status, held, buf, sent, out, len>>
      BY <3>2 DEF Wait
    <3>4. step'["p"] = 9 /\ step'["c"] = step["c"]
      BY <2>7, <3>3 DEF Returns, ExchangeTypes, Process
    <3>5. Papa2Data'
      BY <1>3, <2>7, <3>3, <3>4, Papa2Move
    <3>6. Papa2Held'
      BY <1>3, <2>7, <3>3, <3>4 DEF Papa2Held, Running
    <3> QED
      BY <1>5, <1>6, <3>3, <3>5, <3>6
  <2>8. CASE p = "p"
    <3>1. CASE step["p"] = 2 \/ step["p"] = 5
      BY <1>2, <2>5, <2>6, <2>8, <3>1
    <3>2. CASE step["p"] = 3 \/ step["p"] = 7
      BY <1>2, <2>5, <2>6, <2>8, <3>2
    <3> QED
      BY <2>1, <2>3, <2>7, <2>8, <3>1, <3>2
  <2>9. CASE p = "c"
    <3>1. CASE step["c"] = 1 \/ step["c"] = 4
      BY <1>2, <2>5, <2>6, <2>9, <3>1
    <3>2. CASE step["c"] = 2 \/ step["c"] = 6
      BY <1>2, <2>5, <2>6, <2>9, <3>2
    <3> QED
      BY <2>2, <2>3, <2>9, <3>1, <3>2
  <2> QED
    BY <1>2, <2>8, <2>9
<1> QED
  BY <1>4, <1>6 DEF PipeStep

-----------------------------------------------------------------------------
(***************************************************************************)
(* mmap_a and mmap_b                                                       *)
(***************************************************************************)
LEMMA TwoEqual ==
    ASSUME NEW s \in Seq(Nat), NEW t \in Seq(Nat), Len(s) = 2, Len(t) = 2, s[1] = t[1], s[2] = t[2]
    PROVE  s = t
<1>1. \A k \in 1 .. Len(s) : s[k] = t[k]
  OBVIOUS
<1> QED
  BY <1>1, SeqEqual

LEMMA OneValue ==
    ASSUME NEW s, NEW x \in Nat, NEW y \in Nat, NEW t
    PROVE  /\ s = <<>> /\ t = <<x>> => s \o t = <<x>>
           /\ s = <<x>> /\ t = <<y>> => s \o t = <<x, y>>
<1>1. <<>> \o <<x>> = <<x>>
  OBVIOUS
<1>2. <<x>> \o <<y>> = <<x, y>>
  <2>1. <<x>> \o <<y>> \in Seq(Nat)
    BY ConcatProperties
  <2>2. <<x, y>> \in Seq(Nat)
    OBVIOUS
  <2>3. Len(<<x>> \o <<y>>) = 2
    OBVIOUS
  <2>4. Len(<<x, y>>) = 2
    OBVIOUS
  <2>5. (<<x>> \o <<y>>)[1] = x
    OBVIOUS
  <2>6. (<<x>> \o <<y>>)[2] = y
    OBVIOUS
  <2>7. <<x, y>>[1] = x /\ <<x, y>>[2] = y
    OBVIOUS
  <2>8. \A e, f \in Seq(Nat) : Len(e) = 2 /\ Len(f) = 2 /\ e[1] = f[1] /\ e[2] = f[2] => e = f
    BY TwoEqual
  <2> QED
    BY <2>1, <2>2, <2>3, <2>4, <2>5, <2>6, <2>7, <2>8, Zenon
<1> QED
  BY <1>1, <1>2

LEMMA OldNat == (OldX \subseteq Nat) /\ (Values \subseteq Nat) /\ 5 \in Values /\ \A v \in OldX \cup {5} : v + 1 \in Values
BY DEF OldX, Values

\* mmap_a stores 5, mmap_b one more than it has loaded.
LEMMA MmapStore ==
    ASSUME exercise = "mmap", ExchangeTypes, MmapInv, NEW p \in {"p", "c"}, Running(p),
           StoreX(p), Does(p, Current(p).op),
           p = "p" => step["p"] = 2 /\ Current(p).op = "store",
           p = "c" => step["c"] = 2 /\ Current(p).op = "increment"
    PROVE  MmapInv'
<1>1. p \in Process /\ "p" \in Process /\ "c" \in Process
  BY DEF Process
<1>2. Returns(p) /\ UNCHANGED <<status, out>>
  BY DEF StoreX
<1>3. /\ p = "p" => step'["p"] = 3 /\ step'["c"] = step["c"]
      /\ p = "c" => step'["c"] = 3 /\ step'["p"] = step["p"]
  BY <1>1, <1>2 DEF Returns, ExchangeTypes
<1>4. Took("p")' => step'["p"] = 5
  BY <1>2, <1>3 DEF MmapInv, Took, Running
<1>5. CASE p = "p"
  <2>1. file' = <<5>>
    BY <1>5 DEF StoreX, Does
  <2>2. \E y \in Values : file' = <<y>>
    BY <2>1, OldNat
  <2>3. step'["p"] = 3 /\ step'["c"] = step["c"]
    BY <1>3, <1>5
  <2> QED
    BY <1>2, <1>4, <1>5, <2>1, <2>2, <2>3 DEF MmapInv
<1>6. CASE p = "c"
  <2>1. PICK v \in OldX \cup {5} : out["c"] = <<v>>
    BY <1>6 DEF MmapInv
  <2>2. file' = <<out["c"][1] + 1>>
    BY <1>6 DEF StoreX, Does
  <2>3. file' = <<v + 1>> /\ v + 1 \in Values
    BY <2>1, <2>2, OldNat
  <2>4. step'["c"] = 3 /\ step'["p"] = step["p"]
    BY <1>3, <1>6
  <2>5. step["p"] = 4 => out["p"] = <<5>>
    BY <1>6 DEF MmapInv
  <2> QED
    BY <1>2, <1>4, <1>6, <2>3, <2>4, <2>5 DEF MmapInv
<1> QED
  BY <1>5, <1>6

\* mmap_b loads, mmap_a prints.
LEMMA MmapLoad ==
    ASSUME exercise = "mmap", ExchangeTypes, MmapInv, NEW p \in {"p", "c"}, Running(p), LoadX(p),
           p = "p" => step["p"] \in {3, 4}, p = "c" => step["c"] = 1
    PROVE  MmapInv'
<1>1. p \in Process /\ "p" \in Process /\ "c" \in Process
  BY DEF Process
<1>2. Returns(p) /\ UNCHANGED <<status, file>> /\ out' = [out EXCEPT ![p] = out[p] \o file]
  BY DEF LoadX
<1>3. /\ p = "p" => step'["p"] = step["p"] + 1 /\ step'["c"] = step["c"]
      /\ p = "c" => step'["c"] = 2 /\ step'["p"] = step["p"]
  BY <1>1, <1>2 DEF Returns, ExchangeTypes
<1>4. DOMAIN out' = Process /\ (p = "p" => out'["c"] = out["c"]) /\ (p = "c" => out'["p"] = out["p"])
  BY <1>1, <1>2 DEF MmapInv
<1>5. Took("p")' => step'["p"] = 5
  BY <1>2, <1>3 DEF MmapInv, Took, Running
<1>6. CASE p = "c"
  <2>1. step["c"] = 1 /\ out["c"] = <<>>
    BY <1>6 DEF MmapInv
  <2>2. PICK v \in OldX \cup {5} : file = <<v>>
    BY <2>1 DEF MmapInv
  <2>3. out'["c"] = <<v>>
    <3>1. out'["c"] = out["c"] \o file
      BY <1>1, <1>2, <1>6 DEF MmapInv
    <3>2. v \in Nat
      BY OldNat
    <3> QED
      BY <2>1, <2>2, <3>1, <3>2, OneValue
  <2>4. step'["c"] = 2 /\ step'["p"] = step["p"] /\ step["p"] \in 1 .. 5
    BY <1>3, <1>6 DEF MmapInv
  <2>5. step'["p"] = 4 => out'["p"] = <<5>>
    BY <1>4, <1>6, <2>1, <2>4 DEF MmapInv
  <2> QED
    BY <1>2, <1>4, <1>5, <1>6, <2>1, <2>3, <2>4, <2>5 DEF MmapInv
<1>7. CASE p = "p" /\ step["p"] = 3
  <2>1. out["p"] = <<>>
    BY <1>7 DEF MmapInv
  <2>2. PICK y \in Values : file = <<y>>
    BY <1>7 DEF MmapInv
  <2>3. out'["p"] = file
    <3>1. out'["p"] = out["p"] \o file
      BY <1>1, <1>2, <1>7 DEF MmapInv
    <3>2. y \in Nat
      BY OldNat
    <3> QED
      BY <2>1, <2>2, <3>1, <3>2, OneValue
  <2>4. step'["p"] = 4 /\ step'["c"] = step["c"] /\ step["c"] \in 1 .. 3
    BY <1>3, <1>7 DEF MmapInv
  <2>5. step["c"] <= 2 => file = <<5>>
    BY <1>7 DEF MmapInv
  <2>6. out'["p"] = <<5>> \/ (out'["p"] = file' /\ step'["c"] = 3)
    <3>1. CASE step["c"] <= 2
      BY <2>3, <2>5, <3>1
    <3>2. CASE step["c"] = 3
      BY <1>2, <2>3, <2>4, <3>2
    <3> QED
      BY <2>4, <3>1, <3>2
  <2> QED
    BY <1>2, <1>4, <1>5, <1>7, <2>2, <2>4, <2>5, <2>6 DEF MmapInv
<1>8. CASE p = "p" /\ step["p"] = 4
  <2>1. out["p"] = <<5>> \/ out["p"] = file
    BY <1>8 DEF MmapInv
  <2>2. PICK y \in Values : file = <<y>>
    BY <1>8 DEF MmapInv
  <2>3. out'["p"] = out["p"] \o file
    BY <1>1, <1>2, <1>8 DEF MmapInv
  <2>4. y \in Nat /\ 5 \in Nat
    BY OldNat
  <2>5. out'["p"] = <<5, y>> \/ out'["p"] = <<y, y>>
    BY <2>1, <2>2, <2>3, <2>4, OneValue
  <2>6. step'["p"] = 5 /\ step'["c"] = step["c"] /\ step["c"] \in 1 .. 3
    BY <1>3, <1>8 DEF MmapInv
  <2>7. step["c"] <= 2 => file = <<5>>
    BY <1>8 DEF MmapInv
  <2>8. \E z \in Values : out'["p"] \in {<<5, z>>, <<z, z>>}
    BY <2>5
  <2>9. \E z \in Values : file' = <<z>>
    BY <1>2, <2>2
  <2>10. step'["c"] <= 2 => file' = <<5>>
    BY <1>2, <2>6, <2>7
  <2>11. /\ step'["c"] = 1 => out'["c"] = <<>>
         /\ step'["c"] = 2 => \E v \in OldX \cup {5} : out'["c"] = <<v>>
    BY <1>4, <1>8, <2>6 DEF MmapInv
  <2>12. step'["p"] \in 1 .. 5 /\ step'["c"] \in 1 .. 3 /\ step'["p"] >= 3 /\ ~(step'["p"] <= 3) /\ step'["p"] # 4
    BY <2>6
  <2> QED
    BY <1>4, <1>5, <2>8, <2>9, <2>10, <2>11, <2>12 DEF MmapInv
<1> QED
  BY <1>6, <1>7, <1>8

LEMMA MmapInvStep ==
    ASSUME exercise = "mmap", exercise' = exercise, ExchangeTypes, MmapInv, NEW p \in Process, Running(p),
           \/ step[p] > Len(Calls(p)) /\ Exit(p)
           \/ step[p] <= Len(Calls(p)) /\ Makes(p, Current(p).op)
    PROVE  ExchangeTypes' /\ MmapInv'
<1>1. p \in {"p", "c"} /\ "p" \in Process /\ "c" \in Process /\ step["p"] \in 1 .. 5 /\ step["c"] \in 1 .. 3
  BY DEF ExchangeTypes, Running, Process, MmapInv
<1>a. Len(Calls(p)) = IF p = "p" THEN 4 ELSE 2
  BY <1>1, MmapCalls
<1>b. step[p] = IF p = "p" THEN step["p"] ELSE step["c"]
  BY <1>1
<1>2. Returns(p) => step' \in [Process -> Nat \ {0}]
  BY DEF ExchangeTypes, Returns
<1>3. ASSUME NEW how, Ends(p, how), UNCHANGED <<step, sent, out, file, len>>,
             how = "exited" => step[p] > Len(Calls(p))
      PROVE  ExchangeTypes' /\ MmapInv'
  <2>1. DOMAIN status' = Process /\ (exercise' # "fifo" => status'["d"] = "unborn")
    BY <1>3, StatusTyped
  <2>2. status' = [status EXCEPT ![p] = how]
    BY <1>3 DEF Ends
  <2>3. p = "p" /\ how = "exited" => step["p"] = 5
    BY <1>1, <1>3, <1>a, <1>b
  <2>4. Took("p")' => step["p"] = 5
    BY <1>1, <2>2, <2>3 DEF Took, ExchangeTypes, MmapInv
  <2>5. MmapInv'
    BY <1>3, <2>4 DEF MmapInv
  <2> QED
    BY <1>3, <2>1, <2>5 DEF ExchangeTypes
<1>4. ASSUME Returns(p), UNCHANGED <<sent, len>>,
             status' = status \/ status' = [status EXCEPT !["c"] = "running"]
      PROVE  ExchangeTypes'
  <2>1. DOMAIN status' = Process /\ (exercise' # "fifo" => status'["d"] = "unborn")
    BY <1>4, StatusTyped
  <2> QED
    BY <1>2, <1>4, <2>1 DEF ExchangeTypes
<1>5. CASE step[p] > Len(Calls(p)) /\ Exit(p)
  BY <1>3, <1>5 DEF Exit
<1>6. CASE step[p] <= Len(Calls(p)) /\ Makes(p, Current(p).op)
  <2>1. p = "p" => step["p"] \in 1 .. 4
    BY <1>1, <1>6, <1>a, <1>b
  <2>2. p = "c" => step["c"] \in 1 .. 2
    BY <1>1, <1>6, <1>a, <1>b
  <2>3. CASE p = "p" /\ step["p"] = 1
    <3>1. Current(p).op = "fork"
      BY <2>3, MmapCalls DEF Plain, Call
    <3>2. Fork(p) \/ ForkFails(p)
      BY <1>6, <3>1 DEF Makes
    <3>3. CASE Fork(p)
      <4>1. Returns(p) /\ UNCHANGED <<sent, out, file, len>> /\ status' = [status EXCEPT !["c"] = "running"]
        BY <3>3 DEF Fork
      <4>2. step'["p"] = 2 /\ step'["c"] = step["c"]
        BY <1>1, <2>3, <4>1 DEF Returns, ExchangeTypes
      <4>3. ~Took("p")'
        BY <1>1, <2>3, <4>1 DEF Took, ExchangeTypes, Running
      <4>4. MmapInv'
        BY <1>1, <2>3, <4>1, <4>2, <4>3 DEF MmapInv
      <4> QED
        BY <1>4, <4>1, <4>4
    <3>4. CASE ForkFails(p)
      BY <1>3, <3>4 DEF ForkFails
    <3> QED
      BY <3>2, <3>3, <3>4
  <2>4. CASE MmapFails(p)
    BY <1>3, <2>4 DEF MmapFails
  <2>5. CASE StoreX(p) /\ (p = "p" => step["p"] = 2) /\ (p = "c" => step["c"] = 2)
    <3>1. (p = "p" => Current(p).op = "store") /\ (p = "c" => Current(p).op = "increment")
      BY <1>1, <2>5, MmapCalls DEF Plain, Call
    <3>2. Does(p, Current(p).op)
      BY <1>6 DEF Does
    <3>3. MmapInv'
      BY <1>1, <2>5, <3>1, <3>2, MmapStore
    <3> QED
      BY <1>4, <2>5, <3>3 DEF StoreX
  <2>6. CASE LoadX(p) /\ (p = "p" => step["p"] \in {3, 4}) /\ (p = "c" => step["c"] = 1)
    <3>1. MmapInv'
      BY <1>1, <2>6, MmapLoad
    <3> QED
      BY <1>4, <2>6, <3>1 DEF LoadX
  <2>7. CASE p = "p" /\ step["p"] = 2
    <3>1. Current(p).op = "store"
      BY <2>7, MmapCalls DEF Plain, Call
    <3> QED
      BY <1>6, <2>4, <2>5, <2>7, <3>1 DEF Makes
  <2>8. CASE p = "c" /\ step["c"] = 2
    <3>1. Current(p).op = "increment"
      BY <2>8, MmapCalls DEF Plain, Call
    <3> QED
      BY <1>6, <2>4, <2>5, <2>8, <3>1 DEF Makes
  <2>9. CASE \/ p = "p" /\ step["p"] \in {3, 4}
             \/ p = "c" /\ step["c"] = 1
    <3>1. Current(p).op \in {"load", "print"}
      BY <2>9, MmapCalls DEF Plain, Call
    <3> QED
      BY <1>6, <2>4, <2>6, <2>9, <3>1 DEF Makes
  <2> QED
    BY <1>1, <2>1, <2>2, <2>3, <2>7, <2>8, <2>9
<1> QED
  BY <1>5, <1>6

-----------------------------------------------------------------------------
(***************************************************************************)
(* fifo_reader and fifo_writer                                             *)
(***************************************************************************)
\* The position in the k-th message.
LEMMA DivMod ==
    ASSUME NEW n \in Nat, NEW b \in Nat \ {0}, NEW a \in 0 .. b - 1
    PROVE  (n * b + a) \div b = n /\ (n * b + a) % b = a
<1>1. PICK m \in Nat : m = n * b + a
  OBVIOUS
<1>2. PICK q \in Int, r \in Int : q = m \div b /\ r = m % b
  OBVIOUS
<1>3. m = b * q + r /\ 0 <= r /\ r < b
  BY <1>2
<1>4. b * (n - q) = r - a
  BY <1>1, <1>3
<1>5. n - q = 0
  <2>1. CASE n - q >= 1
    <3>1. b * (n - q) >= b
      BY <2>1
    <3> QED
      BY <1>3, <1>4, <3>1
  <2>2. CASE n - q <= -1
    <3>1. b * (n - q) <= -b
      BY <2>2
    <3> QED
      BY <1>3, <1>4, <3>1
  <2> QED
    BY <2>1, <2>2
<1>6. q = n /\ r = a
  BY <1>4, <1>5
<1> QED
  BY <1>1, <1>2, <1>6

LEMMA Below ==
    ASSUME NEW n \in Nat, NEW b \in Nat \ {0}, NEW k \in 1 .. n * b
    PROVE  ((k - 1) \div b) + 1 \in 1 .. n /\ ((k - 1) % b) + 1 \in 1 .. b
<1>1. PICK m \in Nat : m = k - 1 /\ m < n * b
  OBVIOUS
<1>2. PICK q \in Int, r \in Int : q = m \div b /\ r = m % b
  OBVIOUS
<1>3. m = b * q + r /\ 0 <= r /\ r < b
  BY <1>2
<1>4. q >= 0
  BY <1>1, <1>2
<1>5. q < n
  <2>1. CASE q >= n
    <3>1. b * q >= b * n
      BY <1>4, <2>1
    <3> QED
      BY <1>1, <1>3, <3>1
  <2> QED
    BY <2>1
<1> QED
  BY <1>1, <1>2, <1>3, <1>4, <1>5

LEMMA StreamTyped ==
    ASSUME len \in Nat \ {0}, NEW n \in Nat, NEW w \in [1 .. n -> {"c", "d"}]
    PROVE  Stream(n, w) \in Seq(Symbol) /\ Len(Stream(n, w)) = n * len
<1>1. PICK b \in Nat \ {0} : b = len
  OBVIOUS
<1>2. PICK m \in Nat : m = n * b
  OBVIOUS
<1>3. ASSUME NEW k \in 1 .. m
      PROVE  Message(w[((k - 1) \div len) + 1])[((k - 1) % len) + 1] \in Symbol
  <2>1. PICK x \in 1 .. n : x = ((k - 1) \div b) + 1
    BY <1>2, <1>3, Below
  <2>2. PICK y \in 1 .. b : y = ((k - 1) % b) + 1
    BY <1>2, <1>3, Below
  <2>3. w[x] \in Process
    BY DEF Process
  <2>4. Message(w[x])[y] = <<w[x], y>>
    BY <1>1 DEF Message
  <2>5. <<w[x], y>> \in Symbol
    BY <2>3 DEF Symbol
  <2>6. Message(w[((k - 1) \div len) + 1])[((k - 1) % len) + 1] = Message(w[x])[y]
    BY <1>1, <2>1, <2>2, Zenon
  <2> QED
    BY <2>4, <2>5, <2>6
<1>4. Stream(n, w) = [k \in 1 .. m |-> Message(w[((k - 1) \div len) + 1])[((k - 1) % len) + 1]]
  BY <1>1, <1>2 DEF Stream
<1>5. Stream(n, w) \in [1 .. m -> Symbol]
  BY <1>3, <1>4, Zenon
<1>6. Stream(n, w) \in Seq(Symbol) /\ Len(Stream(n, w)) = m
  BY <1>5
<1> QED
  BY <1>1, <1>2, <1>6

\* v is w with q after its n entries.
Extends(v, w, n, q) == (\A k \in 1 .. n : v[k] = w[k]) /\ v[n + 1] = q

\* One message more.
LEMMA StreamGrows ==
    ASSUME len \in Nat \ {0}, NEW n \in Nat, NEW w \in [1 .. n -> {"c", "d"}], NEW q \in {"c", "d"}
    PROVE  \E v \in [1 .. n + 1 -> {"c", "d"}] :
               Stream(n, w) \o Message(q) = Stream(n + 1, v) /\ Extends(v, w, n, q)
<1>1. PICK b \in Nat \ {0} : b = len
  OBVIOUS
<1>2. PICK m \in Nat : m = n * b
  OBVIOUS
<1>3. PICK v \in [1 .. n + 1 -> {"c", "d"}] : v = [k \in 1 .. n + 1 |-> IF k <= n THEN w[k] ELSE q]
  <2>1. \A k \in 1 .. n + 1 : (IF k <= n THEN w[k] ELSE q) \in {"c", "d"}
    OBVIOUS
  <2>2. [k \in 1 .. n + 1 |-> IF k <= n THEN w[k] ELSE q] \in [1 .. n + 1 -> {"c", "d"}]
    BY <2>1
  <2> QED
    BY <2>2
<1>4. PICK s \in Seq(Symbol) : s = Stream(n, w) /\ Len(s) = m
  BY <1>1, <1>2, StreamTyped
<1>5. PICK t \in Seq(Symbol) : t = Stream(n + 1, v) /\ Len(t) = m + b
  <2>1. Stream(n + 1, v) \in Seq(Symbol) /\ Len(Stream(n + 1, v)) = (n + 1) * len
    <3>1. PICK x \in Nat : x = n + 1
      OBVIOUS
    <3>2. v \in [1 .. x -> {"c", "d"}]
      BY <3>1
    <3> QED
      BY <3>1, <3>2, StreamTyped
  <2>2. (n + 1) * len = m + b
    BY <1>1, <1>2
  <2> QED
    BY <2>1, <2>2
<1>6. PICK u \in Seq(Symbol) : u = Message(q) /\ Len(u) = b
  BY <1>1, MessageTyped DEF Process
<1>7. ASSUME NEW k \in 1 .. m PROVE s[k] = t[k]
  <2>1. PICK x \in 1 .. n : x = ((k - 1) \div b) + 1
    BY <1>2, Below
  <2>2. PICK y \in 1 .. b : y = ((k - 1) % b) + 1
    BY <1>2, Below
  <2>3. s[k] = Message(w[x])[y]
    <3>1. k \in 1 .. n * len
      BY <1>1, <1>2
    <3> QED
      BY <1>1, <1>4, <2>1, <2>2, <3>1 DEF Stream
  <2>4. t[k] = Message(v[x])[y]
    <3>1. k \in 1 .. (n + 1) * len
      BY <1>1, <1>2
    <3> QED
      BY <1>1, <1>5, <2>1, <2>2, <3>1 DEF Stream
  <2>5. v[x] = w[x]
    BY <1>3
  <2> QED
    BY <2>3, <2>4, <2>5
<1>8. ASSUME NEW y \in 1 .. b PROVE t[m + y] = u[y]
  <2>1. PICK a \in 0 .. b - 1 : a = y - 1
    OBVIOUS
  <2>2. (m + y) - 1 = n * b + a
    BY <1>2, <2>1
  <2>3. ((m + y) - 1) \div b = n /\ ((m + y) - 1) % b = a
    <3>1. (n * b + a) \div b = n /\ (n * b + a) % b = a
      BY DivMod
    <3> QED
      BY <2>2, <3>1, Zenon
  <2>4. m + y \in 1 .. (n + 1) * len
    <3>1. (n + 1) * len = m + b
      BY <1>1, <1>2
    <3> QED
      BY <3>1
  <2>5. t[m + y] = Message(v[(((m + y) - 1) \div len) + 1])[(((m + y) - 1) % len) + 1]
    BY <1>5, <2>4 DEF Stream
  <2>6. t[m + y] = Message(v[n + 1])[a + 1]
    BY <1>1, <2>3, <2>5, Zenon
  <2>7. v[n + 1] = q /\ a + 1 = y
    BY <1>3, <2>1
  <2> QED
    BY <1>6, <2>6, <2>7
<1>9. PICK r \in Seq(Symbol) : r = s \o u /\ Len(r) = m + b
  BY <1>4, <1>6, ConcatProperties
<1>10. ASSUME NEW k \in 1 .. m + b PROVE r[k] = t[k]
  <2>1. CASE k <= m
    <3>1. k \in 1 .. m
      BY <2>1
    <3>2. r[k] = s[k]
      BY <1>4, <1>9, <3>1
    <3> QED
      BY <1>7, <3>1, <3>2
  <2>2. CASE k > m
    <3>1. PICK y \in 1 .. b : y = k - m /\ k = m + y
      BY <2>2
    <3>2. r[k] = u[y]
      <4>1. r[k] = IF k <= Len(s) THEN s[k] ELSE u[k - Len(s)]
        <5>1. k \in 1 .. Len(s) + Len(u)
          BY <1>4, <1>6
        <5> QED
          BY <1>9, <5>1, ConcatProperties
      <4>2. ~(k <= Len(s)) /\ k - Len(s) = y
        BY <1>4, <2>2, <3>1
      <4> QED
        BY <4>1, <4>2
    <3>3. t[k] = u[y]
      BY <1>8, <3>1
    <3> QED
      BY <3>2, <3>3
  <2> QED
    BY <2>1, <2>2
<1>11. r = t
  BY <1>5, <1>9, <1>10, SeqEqual
<1>12. Stream(n, w) \o Message(q) = Stream(n + 1, v)
  BY <1>4, <1>5, <1>6, <1>9, <1>11, Zenon
<1>13. Extends(v, w, n, q)
  BY <1>3 DEF Extends
<1> QED
  BY <1>12, <1>13

LEMMA TimesTyped ==
    ASSUME NEW n \in Nat, NEW w \in [1 .. n -> {"c", "d"}], NEW q
    PROVE  IsFiniteSet({k \in DOMAIN w : w[k] = q}) /\ Times(w, q) \in Nat
<1>1. IsFiniteSet(1 .. n)
  BY FS_Interval
<1>2. {k \in DOMAIN w : w[k] = q} \subseteq 1 .. n
  OBVIOUS
<1>3. IsFiniteSet({k \in DOMAIN w : w[k] = q})
  BY <1>1, <1>2, FS_Subset
<1> QED
  BY <1>3, FS_CardinalityType DEF Times

\* One message more is one more of its writer.
LEMMA TimesGrow ==
    ASSUME NEW n \in Nat, NEW w \in [1 .. n -> {"c", "d"}], NEW q \in {"c", "d"},
           NEW v \in [1 .. n + 1 -> {"c", "d"}], Extends(v, w, n, q), NEW x
    PROVE  Times(v, x) = IF x = q THEN Times(w, x) + 1 ELSE Times(w, x)
<1>1. PICK m \in Nat : m = n + 1
  OBVIOUS
<1>2. DOMAIN v = 1 .. m /\ v[m] = q /\ (\A k \in 1 .. n : v[k] = w[k]) /\ DOMAIN w = 1 .. n
  BY <1>1 DEF Extends
<1>3. 1 .. m = (1 .. n) \cup {m} /\ m \notin 1 .. n
  BY <1>1
<1>4. PICK W : W = {k \in DOMAIN w : w[k] = x}
  OBVIOUS
<1>5. IsFiniteSet(W) /\ m \notin W
  BY <1>2, <1>3, <1>4, TimesTyped
<1>6. CASE x = q
  <2>1. {k \in DOMAIN v : v[k] = x} = W \cup {m}
    BY <1>2, <1>3, <1>4, <1>6
  <2>2. Cardinality(W \cup {m}) = Cardinality(W) + 1
    BY <1>5, FS_AddElement
  <2> QED
    BY <1>4, <1>6, <2>1, <2>2 DEF Times
<1>7. CASE x # q
  <2>1. {k \in DOMAIN v : v[k] = x} = W
    BY <1>2, <1>3, <1>4, <1>7
  <2> QED
    BY <1>4, <1>7, <2>1 DEF Times
<1> QED
  BY <1>6, <1>7

LEMMA MessagesNone == ASSUME len \in Nat \ {0} PROVE Messages(<<>>, 0, 0)
<1>1. PICK w \in [1 .. 0 -> {"c", "d"}] : TRUE
  <2>1. [k \in 1 .. 0 |-> "c"] \in [1 .. 0 -> {"c", "d"}]
    OBVIOUS
  <2> QED
    BY <2>1
<1>2. Stream(0, w) \in Seq(Symbol) /\ Len(Stream(0, w)) = 0 * len
  BY StreamTyped
<1>3. 0 * len = 0
  OBVIOUS
<1>4. Stream(0, w) = <<>>
  BY <1>2, <1>3, EmptySeq
<1>5. \A q : Times(w, q) = 0
  <2>1. \A q : {k \in DOMAIN w : w[k] = q} = {}
    OBVIOUS
  <2> QED
    BY <2>1, FS_EmptySet DEF Times
<1>6. 0 \in 0 .. 0 + 0 /\ Times(w, "c") <= 0 /\ Times(w, "d") <= 0
  BY <1>5
<1> QED
  BY <1>1, <1>4, <1>6 DEF Messages

LEMMA MessagesGrow ==
    ASSUME len \in Nat \ {0}, NEW s, NEW c \in Nat, NEW d \in Nat, Messages(s, c, d),
           NEW q \in {"c", "d"}, NEW more_c \in Nat, NEW more_d \in Nat,
           more_c = (IF q = "c" THEN c + 1 ELSE c), more_d = (IF q = "d" THEN d + 1 ELSE d)
    PROVE  Messages(s \o Message(q), more_c, more_d)
<1>1. PICK n \in 0 .. c + d : \E w \in [1 .. n -> {"c", "d"}] :
          Times(w, "c") <= c /\ Times(w, "d") <= d /\ s = Stream(n, w)
  BY DEF Messages
<1>2. PICK w \in [1 .. n -> {"c", "d"}] :
          Times(w, "c") <= c /\ Times(w, "d") <= d /\ s = Stream(n, w)
  BY <1>1
<1>n. n \in Nat /\ len \in Nat \ {0} /\ w \in [1 .. n -> {"c", "d"}] /\ q \in {"c", "d"}
  OBVIOUS
<1>3. PICK v \in [1 .. n + 1 -> {"c", "d"}] :
          Stream(n, w) \o Message(q) = Stream(n + 1, v) /\ Extends(v, w, n, q)
  BY ONLY <1>n, StreamGrows
<1>4. PICK x \in 0 .. more_c + more_d : x = n + 1
  OBVIOUS
<1>5. s \o Message(q) = Stream(x, v) /\ v \in [1 .. x -> {"c", "d"}]
  BY <1>2, <1>3, <1>4
<1>6. Times(w, "c") \in Nat /\ Times(w, "d") \in Nat
  BY <1>n, TimesTyped
<1>7. \A y : Times(v, y) = IF y = q THEN Times(w, y) + 1 ELSE Times(w, y)
  <2> TAKE y
  <2> QED
    BY <1>n, <1>3, TimesGrow
<1>8. Times(v, "c") <= more_c
  BY <1>2, <1>6, <1>7
<1>9. Times(v, "d") <= more_d
  BY <1>2, <1>6, <1>7
<1> QED
  BY <1>5, <1>8, <1>9 DEF Messages

LEMMA MessagesMore ==
    ASSUME NEW s, NEW c \in Nat, NEW d \in Nat, NEW more_c \in Nat, NEW more_d \in Nat,
           c <= more_c, d <= more_d, Messages(s, c, d)
    PROVE  Messages(s, more_c, more_d)
<1>1. PICK n \in 0 .. c + d : \E w \in [1 .. n -> {"c", "d"}] :
          Times(w, "c") <= c /\ Times(w, "d") <= d /\ s = Stream(n, w)
  BY DEF Messages
<1>2. PICK w \in [1 .. n -> {"c", "d"}] :
          Times(w, "c") <= c /\ Times(w, "d") <= d /\ s = Stream(n, w)
  BY <1>1
<1>3. n \in 0 .. more_c + more_d /\ n \in Nat
  OBVIOUS
<1>4. Times(w, "c") \in Nat /\ Times(w, "d") \in Nat
  BY <1>3, TimesTyped
<1>5. Times(w, "c") <= more_c /\ Times(w, "d") <= more_d
  BY <1>2, <1>4
<1> QED
  BY <1>2, <1>3, <1>5 DEF Messages

LEMMA MessagesWhole == \A s : Messages(s, Repeats, Repeats) <=> Whole(s)
<1>1. Repeats + Repeats = 2 * Repeats
  BY ExchangeAssumption
<1>2. \A w : (\A q \in {"c", "d"} : Times(w, q) <= Repeats) <=>
                 Times(w, "c") <= Repeats /\ Times(w, "d") <= Repeats
  OBVIOUS
<1> QED
  BY <1>1, <1>2, Zenon DEF Messages, Whole, Stream

LEMMA WritesTyped == \A n \in Nat : Writes(n) \in Nat /\ Writes(n) <= Repeats
BY ExchangeAssumption DEF Writes

LEMMA WritesMore ==
    /\ \A m, n \in Nat : m <= n => Writes(m) <= Writes(n)
    /\ \A n \in 2 .. Repeats + 1 : Writes(n + 1) = Writes(n) + 1
BY ExchangeAssumption DEF Writes

\* A step that does not change the length changes no message.
LEMMA SameLength ==
    ASSUME len' = len
    PROVE  /\ \A s, c, d : Messages(s, c, d)' <=> Messages(s, c, d)
           /\ \A s : Whole(s)' <=> Whole(s)
<1>1. \A q : Message(q)' = Message(q)
  BY DEF Message
<1>2. \A n, w : Stream(n, w)' = Stream(n, w)
  BY <1>1 DEF Stream
<1>3. \A s, c, d : Messages(s, c, d)' <=> Messages(s, c, d)
  BY <1>2 DEF Messages, Times
<1>4. \A s : Whole(s) <=> \E n \in 0 .. 2 * Repeats : \E w \in [1 .. n -> {"c", "d"}] :
                (\A q \in {"c", "d"} : Times(w, q) <= Repeats) /\ s = Stream(n, w)
  BY DEF Whole, Stream
<1>5. \A s : Whole(s)' <=> \E n \in 0 .. 2 * Repeats : \E w \in [1 .. n -> {"c", "d"}] :
                (\A q \in {"c", "d"} : Times(w, q) <= Repeats) /\ s = Stream(n, w)'
  BY DEF Whole, Stream, Times
<1>6. \A s : Whole(s)' <=> Whole(s)
  BY <1>2, <1>4, <1>5
<1> QED
  BY <1>3, <1>6

\* Only the messages of the next state's data matter.
LEMMA MessagesPrimed ==
    ASSUME len' = len
    PROVE  Messages(out["p"] \o buf[1], Writes(step["c"]), Writes(step["d"]))' <=>
               Messages(out'["p"] \o buf'[1], Writes(step'["c"]), Writes(step'["d"]))
<1>1. Writes(step["c"])' = Writes(step'["c"]) /\ Writes(step["d"])' = Writes(step'["d"])
  BY DEF Writes
<1> QED
  BY <1>1, SameLength, Zenon

\* A step that writes and reads nothing.
LEMMA FifoMove ==
    ASSUME ExchangeTypes, ExchangeTypes', FifoData, len' = len, out'["p"] = out["p"],
           step["c"] <= step'["c"], step["d"] <= step'["d"],
           step'["p"] <= 2 <=> step["p"] <= 2,
           step["p"] <= 2 => (<<"p", 1, "r">> \in held' <=> <<"p", 1, "r">> \in held),
           buf'[1] = buf[1] \/ (<<"p", 1, "r">> \notin held /\ buf'[1] = <<>>)
    PROVE  FifoData'
<1>1. \A q \in {"c", "d"} : step[q] \in Nat /\ step'[q] \in Nat
  BY DEF ExchangeTypes, Process
<1>2. \A q \in {"c", "d"} : /\ Writes(step[q]) \in Nat /\ Writes(step'[q]) \in Nat
                            /\ Writes(step[q]) <= Writes(step'[q])
  BY <1>1, WritesTyped, WritesMore
<1>3. PICK c \in Nat, d \in Nat, more_c \in Nat, more_d \in Nat :
          /\ c = Writes(step["c"]) /\ d = Writes(step["d"])
          /\ more_c = Writes(step'["c"]) /\ more_d = Writes(step'["d"])
          /\ c <= more_c /\ d <= more_d
  BY <1>2
<1>4. step["p"] \in Nat /\ step'["p"] \in Nat
  BY DEF ExchangeTypes, Process
<1>5. ASSUME step'["p"] <= 2, <<"p", 1, "r">> \in held'
      PROVE  Messages(out'["p"] \o buf'[1], Writes(step'["c"]), Writes(step'["d"]))
  <2>1. Messages(out["p"] \o buf[1], c, d)
    BY <1>3, <1>5 DEF FifoData
  <2>2. Messages(out["p"] \o buf[1], more_c, more_d)
    BY <1>3, <2>1, MessagesMore
  <2>3. out'["p"] \o buf'[1] = out["p"] \o buf[1]
    BY <1>5
  <2> QED
    BY <1>3, <2>2, <2>3, Zenon
<1>6. Messages(out["p"] \o buf[1], Writes(step["c"]), Writes(step["d"]))' <=>
          Messages(out'["p"] \o buf'[1], Writes(step'["c"]), Writes(step'["d"]))
  BY MessagesPrimed
<1>7. step'["p"] <= 2 /\ <<"p", 1, "r">> \notin held' => out'["p"] = <<>> /\ buf'[1] = <<>>
  BY DEF FifoData
<1>8. step'["p"] > 2 => Whole(out["p"])'
  <2>1. step'["p"] > 2 => Whole(out'["p"])
    BY <1>4 DEF FifoData
  <2> QED
    BY <2>1, SameLength
<1> QED
  BY <1>5, <1>6, <1>7, <1>8 DEF FifoData

\* Descriptors of a writer are closed.
LEMMA FifoRelease ==
    ASSUME ExchangeTypes, ExchangeTypes', FifoData, NEW q \in {"c", "d"}, NEW fds, Release(fds),
           \A d \in fds : d[1] = q, UNCHANGED <<out, len>>, step' = step \/ Returns(q)
    PROVE  FifoData'
<1>1. q \in Process /\ "p" \in Process /\ "c" \in Process /\ "d" \in Process /\ q # "p" /\ 1 \in Pipe
  BY DEF Process, Pipe
<1>2. step'["p"] = step["p"] /\ step["c"] <= step'["c"] /\ step["d"] <= step'["d"]
  BY <1>1 DEF Returns, ExchangeTypes
<1>3. <<"p", 1, "r">> \notin fds
  BY <1>1
<1>4. <<"p", 1, "r">> \in held' <=> <<"p", 1, "r">> \in held
  BY <1>3 DEF Release
<1>5. buf'[1] = buf[1] \/ (<<"p", 1, "r">> \notin held /\ buf'[1] = <<>>)
  <2>1. CASE <<"p", 1, "r">> \in held
    <3>1. PICK d \in held : d = <<"p", 1, "r">>
      BY <2>1
    <3>2. d \notin fds /\ d[2] = 1
      BY <1>3, <3>1
    <3> QED
      BY <1>1, <3>2, Released
  <2>2. CASE <<"p", 1, "r">> \notin held
    BY <1>1, <2>2 DEF Release
  <2> QED
    BY <2>1, <2>2
<1> QED
  BY <1>2, <1>4, <1>5, FifoMove

LEMMA FifoWrites ==
    ASSUME exercise = "fifo", len \in 1 .. PIPE_BUF, ExchangeTypes, PipeTypes, ExchangeTypes', FifoInv,
           NEW q \in {"c", "d"}, step[q] \in 2 .. Repeats + 1, WriteSome(q)
    PROVE  UNCHANGED <<status, held, sent>> /\ Returns(q) /\ FifoData'
<1>1. q \in Process /\ "p" \in Process /\ "c" \in Process /\ "d" \in Process /\ q # "p" /\ 1 \in Pipe
  BY DEF Process, Pipe
<1>2. Current(q) = Write(1)
  BY FifoCalls
<1>3. Current(q).pipe = 1 /\ Data(q) = Message(q)
  BY <1>2 DEF Write, Call, Data
<1>4. len \in Nat \ {0} /\ PIPE_BUF \in Nat
  BY ExchangeAssumption
<1>5. PICK m \in Seq(Symbol) : m = Message(q) /\ Len(m) = len
  BY <1>1, <1>4, MessageTyped
<1>6. Len(Data(q)) <= PIPE_BUF /\ Data(q) # <<>>
  <2>1. m # <<>>
    BY <1>4, <1>5
  <2> QED
    BY <1>3, <1>4, <1>5, <2>1
<1>7. sent[q] = 0
  BY DEF FifoInv
<1>8. /\ buf' = [buf EXCEPT ![1] = buf[1] \o Data(q)] /\ sent' = [sent EXCEPT ![q] = 0] /\ Returns(q)
      /\ Readers(1) # {} /\ UNCHANGED <<status, held, out, len>>
  BY <1>1, <1>3, <1>6, <1>7, WriteOnce
<1>9. sent' = sent
  BY <1>1, <1>7, <1>8 DEF ExchangeTypes
<1>10. <<"p", 1, "r">> \in held
  <2>1. PICK d \in held : d[3] = "r"
    BY <1>8 DEF Readers
  <2> QED
    BY <2>1 DEF FifoInv
<1>11. step'[q] = step[q] + 1 /\ \A x \in Process \ {q} : step'[x] = step[x]
  BY <1>1, <1>8 DEF Returns, ExchangeTypes
<1>12. \A x \in {"c", "d"} : Writes(step[x]) \in Nat
  BY <1>1, WritesTyped DEF ExchangeTypes
<1>13. PICK c \in Nat, d \in Nat : c = Writes(step["c"]) /\ d = Writes(step["d"])
  BY <1>12
<1>14. PICK more_c \in Nat, more_d \in Nat :
           /\ more_c = Writes(step'["c"]) /\ more_d = Writes(step'["d"])
           /\ more_c = (IF q = "c" THEN c + 1 ELSE c) /\ more_d = (IF q = "d" THEN d + 1 ELSE d)
  <2>1. Writes(step[q] + 1) = Writes(step[q]) + 1
    BY WritesMore
  <2>2. CASE q = "c"
    <3>1. step'["c"] = step["c"] + 1 /\ step'["d"] = step["d"] /\ Writes(step["c"] + 1) = Writes(step["c"]) + 1
      BY <1>1, <1>11, <2>1, <2>2
    <3>2. Writes(step'["c"]) = c + 1 /\ Writes(step'["d"]) = d
      BY <1>13, <3>1
    <3> QED
      BY <2>2, <3>2
  <2>3. CASE q = "d"
    <3>1. step'["d"] = step["d"] + 1 /\ step'["c"] = step["c"] /\ Writes(step["d"] + 1) = Writes(step["d"]) + 1
      BY <1>1, <1>11, <2>1, <2>3
    <3>2. Writes(step'["d"]) = d + 1 /\ Writes(step'["c"]) = c
      BY <1>13, <3>1
    <3> QED
      BY <2>3, <3>2
  <2> QED
    BY <2>2, <2>3
<1>15. step["p"] \in Nat /\ step'["p"] = step["p"]
  BY <1>1, <1>11 DEF ExchangeTypes
<1>16. step["p"] <= 2 => Messages(out["p"] \o buf[1], Writes(step["c"]), Writes(step["d"]))'
  <2>1. SUFFICES ASSUME step["p"] <= 2
                 PROVE  Messages(out["p"] \o buf[1], Writes(step["c"]), Writes(step["d"]))'
    OBVIOUS
  <2>2. Messages(out["p"] \o buf[1], c, d)
    BY <1>10, <1>13, <2>1 DEF FifoInv, FifoData
  <2>3. PICK s \in Seq(Symbol), t \in Seq(Symbol) : s = out["p"] /\ t = buf[1]
    BY <1>1 DEF PipeTypes
  <2>4. Messages((s \o t) \o m, more_c, more_d)
    BY <1>4, <1>5, <1>14, <2>2, <2>3, MessagesGrow
  <2>5. (s \o t) \o m = s \o (t \o m)
    BY Associative
  <2>6. out'["p"] = s /\ buf'[1] = t \o m
    BY <1>1, <1>3, <1>5, <1>8, <2>3 DEF PipeTypes
  <2>7. Messages(out'["p"] \o buf'[1], Writes(step'["c"]), Writes(step'["d"]))
    BY <1>14, <2>4, <2>5, <2>6, Zenon
  <2> QED
    BY <1>8, <2>7, MessagesPrimed
<1>17. step["p"] > 2 => Whole(out["p"])'
  BY <1>8, SameLength DEF FifoInv, FifoData
<1>18. FifoData'
  BY <1>8, <1>10, <1>15, <1>16, <1>17 DEF FifoData
<1> QED
  BY <1>8, <1>9, <1>18

LEMMA FifoWriter ==
    ASSUME exercise = "fifo", len \in 1 .. PIPE_BUF, ExchangeTypes, PipeTypes, ExchangeTypes', FifoInv,
           NEW q \in {"c", "d"}, Running(q), PipeStep(q)
    PROVE  FifoInv'
<1>1. q \in Process /\ "p" \in Process /\ "c" \in Process /\ "d" \in Process /\ q # "p"
  BY DEF Process
<1>2. Repeats \in Nat /\ step[q] \in 1 .. Repeats + 3 /\ Len(Calls(q)) = Repeats + 2
  BY ExchangeAssumption, FifoCalls DEF FifoInv
<1>3. /\ held \subseteq {<<"p", 1, "r">>, <<"c", 1, "w">>, <<"d", 1, "w">>} /\ FifoData
      /\ step["p"] \in 1 .. 4 /\ step["c"] \in 1 .. Repeats + 3 /\ step["d"] \in 1 .. Repeats + 3
      /\ Took("p") => step["p"] = 4
  BY DEF FifoInv
<1>4. ASSUME FifoData', UNCHANGED sent, held' \subseteq {<<"p", 1, "r">>, <<"c", 1, "w">>, <<"d", 1, "w">>},
             status'["p"] = status["p"], step' = step \/ (step[q] <= Repeats + 2 /\ Returns(q))
      PROVE  FifoInv'
  <2>1. step'["p"] = step["p"]
    BY <1>1, <1>4 DEF Returns, ExchangeTypes
  <2>2. \A x \in {"c", "d"} : step'[x] \in 1 .. Repeats + 3
    <3>1. \A x \in {"c", "d"} : step'[x] = step[x] \/ (x = q /\ step[q] <= Repeats + 2 /\ step'[x] = step[q] + 1)
      BY <1>1, <1>4 DEF Returns, ExchangeTypes
    <3> QED
      BY <1>2, <1>3, <3>1
  <2> QED
    BY <1>3, <1>4, <2>1, <2>2 DEF FifoInv, Took
<1>5. ASSUME NEW fds, Release(fds), \A d \in fds : d[1] = q, UNCHANGED <<sent, out, len>>,
             status'["p"] = status["p"], step' = step \/ (step[q] <= Repeats + 2 /\ Returns(q))
      PROVE  FifoInv'
  <2>1. FifoData'
    BY <1>3, <1>5, FifoRelease
  <2>2. held' \subseteq held
    BY <1>5 DEF Release
  <2> QED
    BY <1>3, <1>4, <1>5, <2>1, <2>2
<1>6. ASSUME NEW how, Ends(q, how), UNCHANGED <<step, sent, out, len>> PROVE FifoInv'
  <2>1. Release({d \in held : d[1] = q}) /\ status'["p"] = status["p"]
    BY <1>1, <1>6 DEF Ends, ExchangeTypes
  <2> QED
    BY <1>5, <1>6, <2>1
<1>7. ASSUME UNCHANGED <<status, buf, sent, out, len>>, step' = step \/ (step[q] <= Repeats + 2 /\ Returns(q)),
             held' = held \/ held' = held \cup {<<q, 1, "w">>}
      PROVE  FifoInv'
  <2>1. step'["p"] = step["p"] /\ step["c"] <= step'["c"] /\ step["d"] <= step'["d"]
    BY <1>1, <1>7 DEF Returns, ExchangeTypes
  <2>2. <<"p", 1, "r">> \in held' <=> <<"p", 1, "r">> \in held
    BY <1>1, <1>7
  <2>3. FifoData'
    BY <1>3, <1>7, <2>1, <2>2, FifoMove
  <2>4. held' \subseteq {<<"p", 1, "r">>, <<"c", 1, "w">>, <<"d", 1, "w">>}
    BY <1>3, <1>7
  <2> QED
    BY <1>4, <1>7, <2>3, <2>4
<1>8. CASE step[q] > Len(Calls(q)) /\ Exit(q)
  BY <1>6, <1>8 DEF Exit
<1>9. CASE step[q] <= Len(Calls(q)) /\ Makes(q, Current(q).op)
  <2>1. step[q] <= Repeats + 2
    BY <1>2, <1>9
  <2>2. CASE step[q] = 1
    <3>1. Current(q).op = "open_w"
      BY <2>2, FifoCalls DEF Plain, Call
    <3>2. OpenFails(q) \/ OpenBegins(q) \/ OpenReturns(q)
      BY <1>9, <3>1 DEF Makes
    <3>3. CASE OpenFails(q) \/ OpenReturns(q)
      <4>1. UNCHANGED <<status, held, buf, sent, out, len>> /\ Returns(q)
        BY <3>3 DEF OpenFails, OpenReturns
      <4> QED
        BY <1>7, <2>1, <4>1
    <3>4. CASE OpenBegins(q)
      <4>1. End(q) = "w"
        BY <3>1 DEF End, Does
      <4>2. UNCHANGED <<step, status, buf, sent, out, len>> /\ held' = held \cup {<<q, 1, "w">>}
        BY <3>4, <4>1 DEF OpenBegins
      <4> QED
        BY <1>7, <4>2
    <3> QED
      BY <3>2, <3>3, <3>4
  <2>3. CASE step[q] \in 2 .. Repeats + 1
    <3>1. Current(q).op = "write"
      BY <2>3, FifoCalls DEF Write, Call
    <3>2. WriteSome(q) \/ WriteKilled(q) \/ NoDescriptor(q)
      BY <1>9, <3>1 DEF Makes
    <3>3. CASE WriteSome(q)
      <4>1. UNCHANGED <<status, held, sent>> /\ Returns(q) /\ FifoData'
        BY <2>3, <3>3, FifoWrites
      <4> QED
        BY <1>3, <1>4, <2>1, <4>1
    <3>4. CASE WriteKilled(q)
      BY <1>6, <3>4 DEF WriteKilled
    <3>5. CASE NoDescriptor(q)
      <4>1. UNCHANGED <<status, held, buf, sent, out, len>> /\ Returns(q)
        BY <3>5 DEF NoDescriptor
      <4> QED
        BY <1>7, <2>1, <4>1
    <3> QED
      BY <3>2, <3>3, <3>4, <3>5
  <2>4. CASE step[q] = Repeats + 2
    <3>1. Current(q) = CloseW(1)
      BY <2>4, FifoCalls
    <3>2. Current(q) = Call(IF "w" = "r" THEN "close_r" ELSE "close_w", 1, 0)
      BY <3>1 DEF CloseW
    <3>3. Current(q).op = "close_w"
      BY <3>1 DEF CloseW, Call
    <3>4. Close(q)
      BY <1>9, <3>3 DEF Makes
    <3>5. Release({<<q, 1, "w">>}) /\ Returns(q)
      BY <1>1, <3>2, <3>4, Closing
    <3>6. UNCHANGED <<status, sent, out, len>>
      BY <3>4 DEF Close
    <3>7. \A d \in {<<q, 1, "w">>} : d[1] = q
      OBVIOUS
    <3> QED
      BY <1>5, <2>1, <3>5, <3>6, <3>7
  <2> QED
    BY <1>2, <2>1, <2>2, <2>3, <2>4
<1> QED
  BY <1>8, <1>9 DEF PipeStep

\* All that can have been written is whole messages.
LEMMA FifoWhole ==
    ASSUME ExchangeTypes, NEW s, Messages(s, Writes(step["c"]), Writes(step["d"]))
    PROVE  Whole(s)
<1>1. \A q \in {"c", "d"} : step[q] \in Nat
  BY DEF ExchangeTypes, Process
<1>2. \A q \in {"c", "d"} : Writes(step[q]) \in Nat /\ Writes(step[q]) <= Repeats
  BY <1>1, WritesTyped
<1>3. PICK c \in Nat, d \in Nat : /\ c = Writes(step["c"]) /\ d = Writes(step["d"])
                                  /\ c <= Repeats /\ d <= Repeats
  BY <1>2
<1>4. Repeats \in Nat
  BY ExchangeAssumption
<1>5. Messages(s, Repeats, Repeats)
  BY <1>3, <1>4, MessagesMore
<1> QED
  BY <1>5, MessagesWhole

\* As long as nothing has been written.
LEMMA FifoNothing ==
    ASSUME ExchangeTypes, len \in Nat \ {0}
    PROVE  Messages(<<>>, Writes(step["c"]), Writes(step["d"])) /\ Whole(<<>>)
<1>1. \A q \in {"c", "d"} : step[q] \in Nat
  BY DEF ExchangeTypes, Process
<1>2. PICK c \in Nat, d \in Nat : c = Writes(step["c"]) /\ d = Writes(step["d"])
  BY <1>1, WritesTyped
<1>3. 0 <= c /\ 0 <= d /\ 0 \in Nat
  BY <1>2
<1>4. Messages(<<>>, c, d)
  BY <1>3, MessagesNone, MessagesMore
<1>5. Messages(<<>>, Writes(step["c"]), Writes(step["d"]))
  BY <1>2, <1>4
<1> QED
  BY <1>5, FifoWhole

LEMMA FifoReads ==
    ASSUME ExchangeTypes, PipeTypes, FifoData, step["p"] = 2,
           Current("p") = Call("read_all", 1, BUF_SIZE), ReadSome("p")
    PROVE  UNCHANGED <<step, status, held, sent, len>> /\ FifoData'
<1>1. "p" \in Process /\ 1 \in Pipe
  BY DEF Process, Pipe
<1>2. /\ Current("p").pipe = 1 /\ Current("p").n = BUF_SIZE /\ Current("p").op = "read_all"
      /\ BUF_SIZE \in Nat
  BY ExchangeAssumption DEF Call
<1>3. UNCHANGED <<step, status, held, sent, len>> /\ <<"p", 1, "r">> \in held
  BY <1>2 DEF ReadSome, Does
<1>4. PICK s \in Seq(Symbol), t \in Seq(Symbol) : s = out["p"] /\ t = buf[1]
  BY <1>1 DEF PipeTypes
<1>5. PICK n \in 0 .. Len(t) : n = IF Len(t) < BUF_SIZE THEN Len(t) ELSE BUF_SIZE
  BY <1>2, <1>4
<1>6. /\ out' = [out EXCEPT !["p"] = s \o SubSeq(t, 1, n)]
      /\ buf' = [buf EXCEPT ![1] = SubSeq(t, n + 1, Len(t))]
  BY <1>2, <1>4, <1>5 DEF ReadSome
<1>7. out'["p"] = s \o SubSeq(t, 1, n) /\ buf'[1] = SubSeq(t, n + 1, Len(t))
  BY <1>1, <1>6 DEF PipeTypes
<1>8. out'["p"] \o buf'[1] = s \o t
  <2>1. (s \o SubSeq(t, 1, n)) \o SubSeq(t, n + 1, Len(t)) = s \o t
    BY ReadsOn
  <2> QED
    BY <1>7, <2>1, Zenon
<1>9. Messages(s \o t, Writes(step["c"]), Writes(step["d"]))
  BY <1>3, <1>4 DEF FifoData
<1>10. Messages(out'["p"] \o buf'[1], Writes(step'["c"]), Writes(step'["d"]))
  <2>1. Writes(step'["c"]) = Writes(step["c"]) /\ Writes(step'["d"]) = Writes(step["d"])
    BY <1>3
  <2> QED
    BY <1>8, <1>9, <2>1, Zenon
<1>11. Messages(out["p"] \o buf[1], Writes(step["c"]), Writes(step["d"]))'
  BY <1>3, <1>10, MessagesPrimed
<1>12. FifoData'
  BY <1>3, <1>11 DEF FifoData
<1> QED
  BY <1>3, <1>12

LEMMA FifoReader ==
    ASSUME exercise = "fifo", len \in 1 .. PIPE_BUF, ExchangeTypes, PipeTypes, ExchangeTypes', FifoInv,
           Running("p"), PipeStep("p")
    PROVE  FifoInv'
<1>1. "p" \in Process /\ "c" \in Process /\ "d" \in Process /\ 1 \in Pipe
  BY DEF Process, Pipe
<1>2. /\ held \subseteq {<<"p", 1, "r">>, <<"c", 1, "w">>, <<"d", 1, "w">>} /\ FifoData
      /\ step["p"] \in 1 .. 4 /\ step["c"] \in 1 .. Repeats + 3 /\ step["d"] \in 1 .. Repeats + 3
      /\ Took("p") => step["p"] = 4
      /\ sent["c"] = 0 /\ sent["d"] = 0
  BY DEF FifoInv
<1>3. len \in Nat \ {0}
  BY ExchangeAssumption
<1>4. Returns("p") => step'["p"] = step["p"] + 1 /\ step'["c"] = step["c"] /\ step'["d"] = step["d"]
  BY <1>1 DEF Returns, ExchangeTypes
<1>5. ASSUME FifoData', UNCHANGED sent, held' \subseteq {<<"p", 1, "r">>, <<"c", 1, "w">>, <<"d", 1, "w">>},
             \/ status' = status /\ (step' = step \/ (step["p"] <= 3 /\ Returns("p")))
             \/ step["p"] = 4 /\ step' = step
      PROVE  FifoInv'
  <2>1. step'["c"] = step["c"] /\ step'["d"] = step["d"] /\ step'["p"] \in 1 .. 4
    BY <1>2, <1>4, <1>5
  <2>2. Took("p")' => step'["p"] = 4
    <3>2. ~Took("p")
      BY DEF Took, Running
    <3> QED
      BY <1>5, <3>2 DEF Took
  <2> QED
    BY <1>2, <1>5, <2>1, <2>2 DEF FifoInv
<1>a. PICK k \in Nat : k = step["p"]
  BY <1>2
<1>b. k \in 1 .. 4
  BY <1>2, <1>a
<1>c. /\ step["p"] > Len(Calls("p")) => k > 3
      /\ step["p"] <= Len(Calls("p")) => k <= 3
  <2>1. Len(Calls("p")) = 3
    BY FifoCalls
  <2> QED
    BY <1>a, <2>1, Zenon
<1>6. CASE step["p"] > Len(Calls("p")) /\ Exit("p")
  <2>1. step["p"] = 4
    BY <1>6, <1>a, <1>b, <1>c
  <2>2. Release({d \in held : d[1] = "p"}) /\ UNCHANGED <<step, sent, out, len>>
    BY <1>6 DEF Exit, Ends
  <2>3. Whole(out["p"])
    BY <1>2, <2>1 DEF FifoData
  <2>4. FifoData'
    BY <2>1, <2>2, <2>3, SameLength DEF FifoData
  <2>5. held' \subseteq held
    BY <2>2 DEF Release
  <2> QED
    BY <1>2, <1>5, <2>1, <2>2, <2>4, <2>5
<1>7. CASE step["p"] <= Len(Calls("p")) /\ Makes("p", Current("p").op)
  <2>1. step["p"] \in 1 .. 3
    BY <1>7, <1>a, <1>b, <1>c
  <2>2. CASE step["p"] = 1
    <3>1. Current("p").op = "open_r"
      BY <2>2, FifoCalls DEF Plain, Call
    <3>2. OpenFails("p") \/ OpenBegins("p") \/ OpenReturns("p")
      BY <1>7, <3>1 DEF Makes
    <3>3. CASE OpenFails("p") \/ OpenReturns("p")
      <4>1. UNCHANGED <<status, held, buf, sent, out, len>> /\ Returns("p")
        BY <3>3 DEF OpenFails, OpenReturns
      <4>2. step'["p"] = 2 /\ step["c"] <= step'["c"] /\ step["d"] <= step'["d"]
        BY <1>2, <1>4, <2>2, <4>1
      <4>3. FifoData'
        BY <1>2, <2>2, <4>1, <4>2, FifoMove
      <4> QED
        BY <1>2, <1>5, <2>2, <4>1, <4>3
    <3>4. CASE OpenBegins("p")
      <4>1. End("p") = "r"
        BY <3>1, <3>4 DEF End, Does, OpenBegins
      <4>2. /\ UNCHANGED <<step, status, buf, sent, out, len>> /\ held' = held \cup {<<"p", 1, "r">>}
            /\ <<"p", 1, "r">> \notin held
        BY <3>4, <4>1 DEF OpenBegins
      <4>3. out["p"] = <<>> /\ buf[1] = <<>>
        BY <1>2, <2>2, <4>2 DEF FifoData
      <4>4. out'["p"] \o buf'[1] = <<>>
        BY <4>2, <4>3
      <4>5. Messages(out'["p"] \o buf'[1], Writes(step'["c"]), Writes(step'["d"]))
        <5>1. Writes(step'["c"]) = Writes(step["c"]) /\ Writes(step'["d"]) = Writes(step["d"])
          BY <4>2
        <5> QED
          BY <1>3, <4>4, <5>1, FifoNothing, Zenon
      <4>6. Messages(out["p"] \o buf[1], Writes(step["c"]), Writes(step["d"]))'
        BY <4>2, <4>5, MessagesPrimed
      <4>7. FifoData'
        BY <2>2, <4>2, <4>6 DEF FifoData
      <4> QED
        BY <1>2, <1>5, <4>2, <4>7
    <3> QED
      BY <3>2, <3>3, <3>4
  <2>3. CASE step["p"] = 2
    <3>1. Current("p") = Call("read_all", 1, BUF_SIZE)
      BY <2>3, FifoCalls
    <3>2. Current("p").op = "read_all" /\ Current("p").pipe = 1
      BY <3>1 DEF Call
    <3>3. ReadSome("p") \/ ReadEnd("p") \/ NoDescriptor("p")
      BY <1>7, <3>2 DEF Makes
    <3>4. CASE ReadSome("p")
      <4>1. UNCHANGED <<step, status, held, sent, len>> /\ FifoData'
        BY <1>2, <2>3, <3>1, <3>4, FifoReads
      <4> QED
        BY <1>2, <1>5, <4>1
    <3>5. CASE ReadEnd("p") \/ NoDescriptor("p")
      <4>1. UNCHANGED <<status, held, buf, sent, out, len>> /\ Returns("p")
        BY <3>5 DEF ReadEnd, NoDescriptor
      <4>2. Whole(out["p"])
        <5>1. CASE ReadEnd("p")
          <6>1. buf[1] = <<>> /\ <<"p", 1, "r">> \in held
            BY <3>2, <5>1 DEF ReadEnd
          <6>2. out["p"] \o buf[1] = out["p"]
            <7>1. out["p"] \in Seq(Symbol)
              BY <1>1 DEF PipeTypes
            <7> QED
              BY <6>1, <7>1
          <6>3. Messages(out["p"] \o buf[1], Writes(step["c"]), Writes(step["d"]))
            BY <1>2, <2>3, <6>1 DEF FifoData
          <6> QED
            BY <6>2, <6>3, FifoWhole
        <5>2. CASE NoDescriptor("p")
          <6>1. <<"p", 1, "r">> \notin held
            BY <3>2, <5>2 DEF NoDescriptor, Reading, Writing, Does
          <6>2. out["p"] = <<>>
            BY <1>2, <2>3, <6>1 DEF FifoData
          <6> QED
            BY <1>3, <6>2, FifoNothing
        <5> QED
          BY <3>5, <5>1, <5>2
      <4>3. step'["p"] = 3
        BY <1>4, <2>3, <4>1
      <4>4. FifoData'
        BY <4>1, <4>2, <4>3, SameLength DEF FifoData
      <4> QED
        BY <1>2, <1>5, <2>1, <4>1, <4>4
    <3> QED
      BY <3>3, <3>4, <3>5
  <2>4. CASE step["p"] = 3
    <3>1. Current("p") = CloseR(1)
      BY <2>4, FifoCalls
    <3>2. Current("p") = Call(IF "r" = "r" THEN "close_r" ELSE "close_w", 1, 0)
      BY <3>1 DEF CloseR
    <3>3. Current("p").op = "close_r"
      BY <3>1 DEF CloseR, Call
    <3>4. Close("p")
      BY <1>7, <3>3 DEF Makes
    <3>5. Release({<<"p", 1, "r">>}) /\ Returns("p")
      BY <1>1, <3>2, <3>4, Closing
    <3>6. UNCHANGED <<status, sent, out, len>>
      BY <3>4 DEF Close
    <3>7. step'["p"] = 4 /\ Whole(out["p"])
      BY <1>2, <1>4, <2>4, <3>5 DEF FifoData
    <3>8. FifoData'
      BY <3>6, <3>7, SameLength DEF FifoData
    <3>9. held' \subseteq held
      BY <3>5 DEF Release
    <3> QED
      BY <1>2, <1>5, <2>1, <3>5, <3>6, <3>8, <3>9
  <2> QED
    BY <2>1, <2>2, <2>3, <2>4
<1> QED
  BY <1>6, <1>7 DEF PipeStep

LEMMA FifoInvStep ==
    ASSUME exercise = "fifo", len \in 1 .. PIPE_BUF, ExchangeTypes, PipeTypes, FifoInv, ExchangeTypes',
           NEW p \in Process, Running(p), PipeStep(p)
    PROVE  FifoInv'
<1>1. CASE p = "p"
  BY <1>1, FifoReader
<1>2. CASE p \in {"c", "d"}
  BY <1>2, FifoWriter
<1> QED
  BY <1>1, <1>2 DEF Process

-----------------------------------------------------------------------------
(***************************************************************************)
(* All programs                                                            *)
(***************************************************************************)
LEMMA SameLen == [Next]_vars => len' = len
BY DEF Next, vars, exchangeVars, ExchangeNext, ProcessStep, ForkFails, FileFails, MmapFails,
       Fork, Wait, Exit, Close, WriteSome, WriteKilled, ReadSome, ReadEnd, NoDescriptor,
       Mkfifo, Unlink, OpenFails, OpenBegins, OpenReturns, Truncate, WriteFile, Kill, Await,
       read_from_file, StoreX, LoadX

LEMMA ExchangeInitially == Init => ExchangeInv
<1> SUFFICES ASSUME Init, exercise \in ExchangeProgram \ {"life_meaning"}
             PROVE  ExchangeTypes /\ PipeTypes /\ ProgramInv
  BY DEF ExchangeInv
<1>1. ExchangeStart /\ exercise \in ExchangeProgram
  BY DEF Init
<1>2. "p" \in Process /\ "c" \in Process /\ "d" \in Process /\ 1 \in Pipe
  BY DEF Process, Pipe
<1>3. /\ \A q \in Process : step[q] = 1 /\ sent[q] = 0 /\ out[q] = <<>>
      /\ step = [q \in Process |-> 1] /\ sent = [q \in Process |-> 0] /\ out = [q \in Process |-> <<>>]
      /\ buf = [x \in Pipe |-> <<>>] /\ held = {} /\ met = {}
  BY <1>1 DEF ExchangeStart
<1>4. /\ status = [q \in Process |-> IF q \in Initial THEN "running" ELSE "unborn"]
      /\ len \in Nat
  BY <1>1, ExchangeAssumption DEF ExchangeStart
<1>5. /\ \A q \in Process : ~Took(q)
      /\ exercise \notin {"fifo", "fifo2"} => status["c"] = "unborn"
      /\ exercise # "fifo" => status["d"] = "unborn"
  <2>1. exercise \notin {"fifo", "fifo2"} => Initial = {"p"}
    BY <1>1 DEF Initial
  <2>2. exercise # "fifo" => "d" \notin Initial
    BY <2>1 DEF Initial
  <2> QED
    BY <1>2, <1>4, <2>1, <2>2 DEF Took
<1>6. ExchangeTypes /\ PipeTypes
  <2>1. <<>> \in Seq(Symbol)
    OBVIOUS
  <2> QED
    BY <1>3, <1>4, <1>5, <2>1 DEF ExchangeTypes, PipeTypes
<1>7. Empty("p", "c") /\ Empty("c", "p")
  BY <1>2, <1>3 DEF Empty
<1>8. exercise = "pipe" => PipeInv
  BY <1>2, <1>3, <1>5, <1>7 DEF PipeInv
<1>9. exercise = "papa_son_pipe" => PapaInv
  BY <1>2, <1>3, <1>5, <1>7 DEF PapaInv
<1>10. exercise = "papa_son_pipe2" => Papa2Inv
  BY <1>2, <1>3, <1>5, <1>7 DEF Papa2Inv
<1>11. exercise = "fifo2" => Fifo2Inv
  BY <1>2, <1>3, <1>5, <1>7 DEF Fifo2Inv
<1>12. exercise = "mmap" => MmapInv
  <2>1. exercise = "mmap" => \E v \in OldX : file = <<v>>
    BY <1>1 DEF ExchangeStart
  <2>2. DOMAIN out = Process
    BY <1>3
  <2> QED
    BY <1>2, <1>3, <1>5, <2>1, <2>2 DEF MmapInv
<1>13. exercise = "fifo" => FifoInv
  <2>1. FifoData
    BY <1>2, <1>3 DEF FifoData
  <2>2. 1 \in 1 .. 4 /\ 1 \in 1 .. Repeats + 3
    BY ExchangeAssumption
  <2> QED
    BY <1>2, <1>3, <1>5, <2>1, <2>2 DEF FifoInv
<1> QED
  BY <1>6, <1>8, <1>9, <1>10, <1>11, <1>12, <1>13 DEF ProgramInv

LEMMA ExchangeStutters == ExchangeInv /\ UNCHANGED exchangeVars => ExchangeInv'
<1> SUFFICES ASSUME ExchangeInv, UNCHANGED exchangeVars PROVE ExchangeInv'
  OBVIOUS
<1>1. UNCHANGED <<exercise, step, status, held, buf, sent, out, met, file, len>>
  BY DEF exchangeVars
<1>2. /\ \A q : Running(q)' = Running(q) /\ Took(q)' = Took(q) /\ Message(q)' = Message(q)
      /\ \A r, w : Empty(r, w)' = Empty(r, w)
  BY <1>1 DEF Running, Took, Message, Empty
<1>3. \A r, w, rs, ws : Flow(r, w, rs, ws)' <=> Flow(r, w, rs, ws)
  <2>1. TAKE r, w, rs, ws
  <2>2. (out[r] \o buf[1])' = out[r] \o buf[1] /\ Message(w)' = Message(w)
    BY <1>1, <1>2
  <2>3. (step[r] <= rs =>
             out[r] \o buf[1] = SubSeq(Message(w), 1, IF step[w] > ws THEN len ELSE sent[w]))' <=>
        (step[r] <= rs =>
             out[r] \o buf[1] = SubSeq(Message(w), 1, IF step[w] > ws THEN len ELSE sent[w]))
    BY <1>1, <2>2
  <2>4. (step[r] > rs => out[r] = Message(w) /\ step[w] > ws + 1)' <=>
        (step[r] > rs => out[r] = Message(w) /\ step[w] > ws + 1)
    BY <1>1, <2>2
  <2>5. (step[r] <= rs + 1 => Running(r) /\ <<r, 1, "r">> \in held)' <=>
        (step[r] <= rs + 1 => Running(r) /\ <<r, 1, "r">> \in held)
    BY <1>1 DEF Running
  <2>6. (step[w] <= ws + 1 => Running(w) /\ <<w, 1, "w">> \in held)' <=>
        (step[w] <= ws + 1 => Running(w) /\ <<w, 1, "w">> \in held)
    BY <1>1 DEF Running
  <2>7. (sent[w] <= len /\ (step[w] # ws => sent[w] = 0))' <=>
        (sent[w] <= len /\ (step[w] # ws => sent[w] = 0))
    BY <1>1
  <2> QED
    BY <2>3, <2>4, <2>5, <2>6, <2>7 DEF Flow
<1>4. ExchangeTypes' = ExchangeTypes /\ PipeTypes' = PipeTypes
  BY <1>1 DEF ExchangeTypes, PipeTypes
<1>5. PipeInv' = PipeInv /\ PapaInv' = PapaInv
  BY <1>1, <1>2, <1>3 DEF PipeInv, PapaInv
<1>6. Fifo2Inv' = Fifo2Inv
  BY <1>1, <1>2, <1>3 DEF Fifo2Inv
<1>7. Papa2Inv' = Papa2Inv
  BY <1>1, <1>2 DEF Papa2Inv, Papa2Held, Papa2Data
<1>8. MmapInv' = MmapInv
  BY <1>1, <1>2 DEF MmapInv
<1>9. FifoInv => FifoInv'
  <2>1. (out["p"] \o buf[1])' = out["p"] \o buf[1]
    BY <1>1
  <2>2. Writes(step["c"])' = Writes(step["c"]) /\ Writes(step["d"])' = Writes(step["d"])
    BY <1>1 DEF Writes
  <2>3. Messages(out["p"] \o buf[1], Writes(step["c"]), Writes(step["d"])) =>
            Messages(out["p"] \o buf[1], Writes(step["c"]), Writes(step["d"]))'
    BY <1>1, <2>1, <2>2, SameLength, Zenon
  <2>4. Whole(out["p"]) => Whole(out["p"])'
    BY <1>1, SameLength
  <2>5. FifoData => FifoData'
    BY <1>1, <2>3, <2>4 DEF FifoData
  <2> QED
    BY <1>1, <1>2, <2>5 DEF FifoInv
<1> QED
  BY <1>1, <1>4, <1>5, <1>6, <1>7, <1>8, <1>9 DEF ExchangeInv, ProgramInv

LEMMA ExchangeStep == ExchangeInv /\ [Next]_vars => ExchangeInv'
<1> SUFFICES ASSUME ExchangeInv, [Next]_vars, ~UNCHANGED exchangeVars,
                    exercise' \in ExchangeProgram \ {"life_meaning"}
             PROVE  ExchangeTypes' /\ (exercise' # "mmap" => PipeTypes') /\ ProgramInv'
  BY ExchangeStutters DEF ExchangeInv
<1>1. exercise' = exercise /\ len' = len
  BY SameExercise, SameLen
<1>2. ExchangeTypes /\ (exercise # "mmap" => PipeTypes) /\ ProgramInv
  BY <1>1 DEF ExchangeInv
<1>3. CASE exercise = "mmap"
  <2>1. PICK p \in Process :
            /\ Running(p)
            /\ \/ step[p] > Len(Calls(p)) /\ Exit(p)
               \/ step[p] <= Len(Calls(p)) /\ Makes(p, Current(p).op)
    BY StepOf
  <2>2. MmapInv
    BY <1>2, <1>3 DEF ProgramInv
  <2>3. ExchangeTypes' /\ MmapInv'
    BY <1>1, <1>2, <1>3, <2>1, <2>2, MmapInvStep
  <2> QED
    BY <1>1, <1>3, <2>3 DEF ProgramInv
<1>4. CASE exercise \in PipeProgram
  <2>1. PICK p \in Process : Running(p) /\ PipeStep(p)
    BY <1>2, <1>4, PipeNext
  <2>2. PipeTypes
    BY <1>2, <1>4 DEF PipeProgram
  <2>3. ExchangeTypes' /\ PipeTypes'
    BY <1>1, <1>2, <2>1, <2>2, PipeTyped
  <2>4. exercise = "pipe" => PipeInv'
    BY <1>2, <2>1, <2>2, <2>3, PipeInvStep DEF ProgramInv
  <2>5. exercise = "papa_son_pipe" => PapaInv'
    BY <1>2, <2>1, <2>2, <2>3, PapaInvStep DEF ProgramInv
  <2>6. exercise = "papa_son_pipe2" /\ len <= PIPE_BUF /\ len <= BUF_SIZE => Papa2Inv'
    BY <1>2, <2>1, <2>2, <2>3, Papa2InvStep DEF ProgramInv
  <2>7. exercise = "fifo2" => Fifo2Inv'
    BY <1>2, <2>1, <2>2, <2>3, Fifo2InvStep DEF ProgramInv
  <2>8. exercise = "fifo" /\ len \in 1 .. PIPE_BUF => FifoInv'
    BY <1>2, <2>1, <2>2, <2>3, FifoInvStep DEF ProgramInv
  <2>9. exercise # "mmap"
    BY <1>4 DEF PipeProgram
  <2> QED
    BY <1>1, <2>3, <2>4, <2>5, <2>6, <2>7, <2>8, <2>9 DEF ProgramInv
<1>5. exercise = "mmap" \/ exercise \in PipeProgram
  BY <1>1 DEF ExchangeProgram, PipeProgram
<1> QED
  BY <1>3, <1>4, <1>5

LEMMA CompleteHolds == ExchangeInv => Complete
<1> SUFFICES ASSUME ExchangeInv PROVE Complete
  OBVIOUS
<1>1. ASSUME exercise \in ExchangeProgram \ {"life_meaning"}
      PROVE  ExchangeTypes /\ (exercise # "mmap" => PipeTypes) /\ ProgramInv
  BY <1>1 DEF ExchangeInv
<1>2. ASSUME exercise = "pipe", Took("p") PROVE out["p"] = Message("c")
  <2>1. PipeInv
    BY <1>1, <1>2 DEF ExchangeProgram, ProgramInv
  <2>2. step["p"] = 5 /\ Flow("p", "c", 3, 2)
    BY <1>2, <2>1 DEF PipeInv
  <2> QED
    BY <2>2 DEF Flow
<1>3. ASSUME exercise = "papa_son_pipe", Took("c") PROVE out["c"] = Message("p")
  <2>1. PapaInv
    BY <1>1, <1>3 DEF ExchangeProgram, ProgramInv
  <2>2. step["c"] = 4 /\ Flow("c", "p", 2, 3)
    BY <1>3, <2>1 DEF PapaInv
  <2> QED
    BY <2>2 DEF Flow
<1>4. ASSUME exercise = "papa_son_pipe2", len <= PIPE_BUF, len <= BUF_SIZE, Took("p"), Took("c")
      PROVE  out["p"] = <<len>> /\ out["c"] = Message("p")
  <2>1. Papa2Inv
    BY <1>1, <1>4 DEF ExchangeProgram, ProgramInv
  <2>2. step["p"] = 9 /\ step["c"] = 7 /\ Papa2Data
    BY <1>4, <2>1 DEF Papa2Inv, Took
  <2> QED
    BY <2>2 DEF Papa2Data
<1>5. ASSUME exercise = "fifo2", Took("p") PROVE out["p"] = Message("c")
  <2>1. Fifo2Inv
    BY <1>1, <1>5 DEF ExchangeProgram, ProgramInv
  <2>2. step["p"] = 6 /\ Flow("p", "c", 3, 2)
    BY <1>5, <2>1 DEF Fifo2Inv
  <2> QED
    BY <2>2 DEF Flow
<1>6. ASSUME exercise = "mmap", Took("p")
      PROVE  \E y \in {5, 6} \cup {x + 1 : x \in OldX} : out["p"] \in {<<5, y>>, <<y, y>>}
  <2>1. MmapInv
    BY <1>1, <1>6 DEF ExchangeProgram, ProgramInv
  <2> QED
    BY <1>6, <2>1 DEF MmapInv, Values
<1>7. ASSUME exercise = "fifo", len \in 1 .. PIPE_BUF, Took("p") PROVE Whole(out["p"])
  <2>1. FifoInv
    BY <1>1, <1>7 DEF ExchangeProgram, ProgramInv
  <2> QED
    BY <1>7, <2>1 DEF FifoInv, FifoData
<1> QED
  BY <1>2, <1>3, <1>4, <1>5, <1>6, <1>7 DEF Complete

\* Whoever comes to the end of its script has read the whole message, however it
\* was cut into writes and reads, for every length of the message, size of the
\* buffers and capacity of the pipe; fifo_reader whole messages of its writers
\* (pipe.c, papa_son_pipe.c, papa_son_pipe2.c, fifo_reader.c, fifo_reader2.c), and
\* mmap_a prints a value of x twice, or two of which the first is its own.
THEOREM MessagesArrive == Spec => []Complete
<1> QED
  BY ExchangeInitially, ExchangeStep, CompleteHolds, PTL DEF Spec
=============================================================================
