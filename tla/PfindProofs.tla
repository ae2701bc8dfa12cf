---------------------------- MODULE PfindProofs ----------------------------
(***************************************************************************)
(* PfindInv!IInv is an invariant of Pfind, the safety properties of Pfind  *)
(* follow from it, and pfind implements Search: for every finite set of    *)
(* threads, every finite tree, every choice of directories and entries     *)
(* that cannot be opened or examined, and every pattern of failing calls.  *)
(*                                                                         *)
(* There is one lemma per part of IInv.  Its steps are the actions of      *)
(* Pfind in the order of the module; where an action disturbs the part, a  *)
(* lemma about the action (SetupFacts ... ScanDirFacts, SeenFacts) says    *)
(* what it does in the terms of the invariant.                             *)
(***************************************************************************)
EXTENDS PfindInv, FiniteSetTheorems, TLAPS

(***************************************************************************)
(* Sequences without repetition                                            *)
(***************************************************************************)
\* What enqueue_thread and enqueue_dir do to the elements of a queue.
LEMMA RangeAppend ==
    ASSUME NEW T, NEW q \in Seq(T), NEW x \in T
    PROVE  /\ Range(Append(q, x)) = Range(q) \cup {x}
           /\ IsInjective(q) /\ x \notin Range(q) => IsInjective(Append(q, x))
  <1> DEFINE r == Append(q, x)
  <1>1. /\ r \in Seq(T) /\ DOMAIN r = 1 .. Len(q) + 1 /\ DOMAIN q = 1 .. Len(q)
        /\ \A i \in 1 .. Len(q) : r[i] = q[i]
        /\ r[Len(q) + 1] = x /\ Len(q) \in Nat
    OBVIOUS
  <1>2. Range(r) = Range(q) \cup {x}
    BY <1>1 DEF Range
  <1>3. ASSUME IsInjective(q), x \notin Range(q) PROVE IsInjective(r)
    BY <1>1, <1>3 DEF IsInjective, Range
  <1> QED BY <1>2, <1>3

\* What dequeue_thread and dequeue_dir do to the elements of a queue.
LEMMA RangeTail ==
    ASSUME NEW T, NEW q \in Seq(T), q # <<>>, IsInjective(q)
    PROVE  /\ Head(q) \in Range(q)
           /\ Range(Tail(q)) = Range(q) \ {Head(q)}
           /\ IsInjective(Tail(q))
  <1> DEFINE r == Tail(q)
  <1>1. /\ Len(q) \in Nat \ {0} /\ DOMAIN q = 1 .. Len(q) /\ Head(q) = q[1]
        /\ r \in Seq(T) /\ DOMAIN r = 1 .. Len(q) - 1
        /\ \A i \in 1 .. Len(q) - 1 : r[i] = q[i + 1]
    OBVIOUS
  <1>2. Head(q) \in Range(q)
    BY <1>1 DEF Range
  <1>3. Range(r) = Range(q) \ {Head(q)}
    <2>1. ASSUME NEW i \in DOMAIN r PROVE r[i] \in Range(q) \ {Head(q)}
      BY <1>1, <2>1 DEF Range, IsInjective
    <2>2. ASSUME NEW y \in Range(q) \ {Head(q)} PROVE y \in Range(r)
      <3>1. PICK j \in 1 .. Len(q) : q[j] = y /\ j # 1
        BY <1>1, <2>2 DEF Range
      <3>2. j - 1 \in DOMAIN r /\ r[j - 1] = y
        BY <1>1, <3>1
      <3> QED BY <3>2 DEF Range
    <2> QED BY <2>1, <2>2 DEF Range
  <1>4. IsInjective(r)
    BY <1>1 DEF IsInjective
  <1> QED BY <1>2, <1>3, <1>4

\* Every step keeps the variables in their types; ThreadInv is needed where a
\* thread passes on its new_dir or its next_thread_in_queue.
LEMMA TypeStep ==
    ASSUME TypeOK, ThreadInv, [Next]_vars
    PROVE  TypeOK'
  <1> USE ThreadsAssumption, TreeAssumption, BoundsAssumption DEF TypeOK, SUCCESS, FAILURE
  <1>1. CASE Setup
    BY <1>1 DEF Setup, opendir, enqueue_dir, mutexVars, countVars, localVars,
        outVars, CanOpen, MainPc, ThreadPc
  <1>2. CASE SetupDenied
    <2>1. Root \in Entry
      BY TreeAssumption DEF Entry
    <2> QED BY <1>2, <2>1 DEF SetupDenied, opendirFails, Exit, mutexVars, queueVars,
          localVars, streamVars, Fault, opendir, CanOpen, MainPc, ThreadPc
  <1>3. CASE SetupNoMemory
    BY <1>3 DEF SetupNoMemory, Fault, opendir, Exit, mutexVars, queueVars,
        localVars, CanOpen, MainPc, ThreadPc
  <1>4. CASE CreateThread
    BY <1>4 DEF CreateThread, Created, mutexVars, countVars, queueVars,
        localVars, streamVars, outVars, MainPc, ThreadPc
  <1>5. CASE MainFails
    BY <1>5 DEF MainFails, Created, Fault, Exit, mutexVars, queueVars,
        localVars, streamVars, MainPc, ThreadPc
  <1>6. CASE LockInitializer
    BY <1>6 DEF LockInitializer, Created, countVars, queueVars, localVars,
        streamVars, outVars, MainPc, ThreadPc
  <1>7. CASE CreateLast
    BY <1>7 DEF CreateLast, Created, mutexVars, countVars, queueVars, localVars,
        streamVars, outVars, MainPc, ThreadPc
  <1>8. CASE WaitInitialized
    BY <1>8 DEF WaitInitialized, countVars, queueVars, localVars, streamVars,
        outVars, MainPc, ThreadPc
  <1>9. CASE Initialized
    BY <1>9 DEF Initialized, Exit, mutexVars, countVars, queueVars, localVars,
        streamVars, MainPc, ThreadPc
  <1>10. CASE LockQueues
    BY <1>10 DEF LockQueues, countVars, queueVars, localVars, streamVars,
        outVars, MainPc, ThreadPc
  <1>11. CASE Broadcast
    BY <1>11 DEF Broadcast, mutexVars, countVars, queueVars, localVars,
        streamVars, outVars, MainPc, ThreadPc
  <1>12. CASE WaitAllSleep
    BY <1>12 DEF WaitAllSleep, countVars, queueVars, localVars, streamVars,
        outVars, MainPc, ThreadPc
  <1>13. CASE AllAsleep
    <2>1. CASE threads_failed = num_of_threads
      BY <1>13, <2>1 DEF AllAsleep, Exit, mutexVars, countVars, queueVars,
          localVars, streamVars, MainPc, ThreadPc
    <2>2. CASE threads_failed # num_of_threads
      BY <1>13, <2>2 DEF AllAsleep, Exit, mutexVars, countVars, queueVars,
          localVars, streamVars, MainPc, ThreadPc
    <2> QED BY <2>1, <2>2
  <1>14. CASE WakeNext
    <2>1. th' \in Nat
      BY <1>14 DEF WakeNext
    <2>2. pc' = pc \/ pc' = [pc EXCEPT ![thread_q[th]] = "woken"]
      BY <1>14 DEF WakeNext
    <2>3. pc' \in [Thread -> ThreadPc]
      BY <2>2 DEF ThreadPc
    <2> QED
      BY <1>14, <2>1, <2>3 DEF WakeNext, mutexVars, countVars, queueVars,
          localVars, streamVars, outVars, MainPc, ThreadPc
  <1>15. CASE WakeEnd
    BY <1>15 DEF WakeEnd, mutexVars, countVars, queueVars, localVars,
        streamVars, outVars, MainPc, ThreadPc
  <1>16. CASE Join
    BY <1>16 DEF Join, Exit, mutexVars, countVars, queueVars, localVars,
        streamVars, MainPc, ThreadPc
  <1>17. ASSUME NEW t \in Thread, AllocEntry(t) PROVE TypeOK'
    BY <1>17 DEF AllocEntry, At, Goto, mutexVars, countVars, queueVars,
        localVars, streamVars, outVars, Running, MainPc, ThreadPc
  <1>18. ASSUME NEW t \in Thread, AllocEntryFails(t) PROVE TypeOK'
    BY <1>18 DEF AllocEntryFails, At, Fail, Fault, mutexVars, queueVars,
        localVars, streamVars, outVars, Running, Goto, MainPc, ThreadPc
  <1>19. ASSUME NEW t \in Thread, InitFailed(t) PROVE TypeOK'
    BY <1>19 DEF InitFailed, At, Goto, SignalMain, mutexVars, countVars,
        queueVars, localVars, streamVars, outVars, Running, MainPc, ThreadPc
  <1>20. ASSUME NEW t \in Thread, WaitStart(t) PROVE TypeOK'
    BY <1>20 DEF WaitStart, At, Goto, SignalMain, LastInitialized, mutexVars,
        queueVars, localVars, streamVars, outVars, Running, MainPc, ThreadPc
  <1>21. ASSUME NEW t \in Thread, Start(t) PROVE TypeOK'
    BY <1>21 DEF Start, At, Goto, mutexVars, countVars, queueVars, localVars,
        streamVars, outVars, Running, MainPc, ThreadPc
  <1>22. ASSUME NEW t \in Thread, TakeDir(t) PROVE TypeOK'
    <2>1. CASE dir_q # <<>>
      <3>1. /\ dir_q' = Tail(dir_q)
            /\ entry' = [entry EXCEPT ![t] = Head(dir_q)]
            /\ errno' = [errno EXCEPT ![t] = FALSE]
            /\ pc' = [pc EXCEPT ![t] = "scan"]
        BY <1>22, <2>1 DEF TakeDir, Goto, dequeue_dir
      <3>2. Head(dir_q) \in Dir /\ Tail(dir_q) \in Seq(Dir)
        BY <2>1
      <3>3. dir_q' \in Seq(Dir)
        BY <3>1, <3>2
      <3>4. entry' \in [Thread -> Dir \cup {Null}] /\ errno' \in [Thread -> BOOLEAN]
        BY <3>1, <3>2
      <3>5. pc' \in [Thread -> ThreadPc]
        BY <3>1 DEF ThreadPc
      <3> QED
        BY <1>22, <3>3, <3>4, <3>5 DEF TakeDir, mutexVars, countVars, queueVars,
            localVars, streamVars, outVars
    <2>2. CASE dir_q = <<>>
      BY <1>22, <2>2 DEF TakeDir, At, Goto, dequeue_dir, mutexVars, countVars,
          localVars, streamVars, outVars, Running, MainPc, ThreadPc
    <2> QED BY <2>1, <2>2
  <1>23. ASSUME NEW t \in Thread, Sleep(t) PROVE TypeOK'
    BY <1>23 DEF Sleep, At, Goto, SignalMain, enqueue_thread, EverybodySleeps,
        mutexVars, countVars, localVars, streamVars, outVars, Running, MainPc,
        ThreadPc
  <1>24. ASSUME NEW t \in Thread, WakeUp(t) PROVE TypeOK'
    <2>1. CASE done
      BY <1>24, <2>1 DEF WakeUp, At, Goto, mutexVars, countVars, queueVars,
          localVars, streamVars, outVars, Running, MainPc, ThreadPc
    <2>2. CASE ~done
      BY ZenonT(40), <1>24, <2>2 DEF WakeUp, At, Goto, mutexVars, countVars, queueVars,
          localVars, streamVars, outVars, Running, MainPc, ThreadPc
    <2> QED BY <2>1, <2>2
  <1>25. ASSUME NEW t \in Thread, NEW e \in Entry, StatFails(t, e) PROVE TypeOK'
    BY <1>25 DEF StatFails, Fault, Fail, readdir, Consumed, mutexVars, queueVars,
        localVars, outVars, Goto, At, Running, MainPc, ThreadPc
  <1>26. ASSUME NEW t \in Thread, NEW e \in Entry, ScanFile(t, e) PROVE TypeOK'
    BY <1>26 DEF ScanFile, readdir, Consumed, mutexVars, countVars, queueVars,
        localVars, At, Running, MainPc, ThreadPc
  <1>27. ASSUME NEW t \in Thread, NEW e \in Entry, ScanDenied(t, e) PROVE TypeOK'
    BY <1>27 DEF ScanDenied, opendirFails, readdir, Consumed, mutexVars,
        countVars, queueVars, localVars, Fault, opendir, CanOpen, At, Running,
        MainPc, ThreadPc
  <1>28. ASSUME NEW t \in Thread, NEW e \in Entry, ScanDir(t, e) PROVE TypeOK'
    BY <1>28 DEF ScanDir, Goto, CanOpen, readdir, Consumed, mutexVars,
        countVars, queueVars, outVars, At, Running, MainPc, ThreadPc
  <1>29. ASSUME NEW t \in Thread, Dispatch(t) PROVE TypeOK'
    <2>1. CASE thread_q # <<>>
      <3>1. /\ thread_q' = Tail(thread_q) /\ UNCHANGED <<dir_q, new_dir>>
            /\ next_thread' = [next_thread EXCEPT ![t] = Head(thread_q)]
            /\ pc' = [pc EXCEPT ![t] = "assign"]
        BY <1>29, <2>1 DEF Dispatch, Goto, dequeue_thread
      <3>2. Head(thread_q) \in Thread /\ Tail(thread_q) \in Seq(Thread)
        BY <2>1
      <3>3. thread_q' \in Seq(Thread) /\ next_thread' \in [Thread -> Thread \cup {Null}]
        BY <3>1, <3>2
      <3>4. pc' \in [Thread -> ThreadPc]
        BY <3>1 DEF ThreadPc
      <3> QED
        BY <1>29, <3>1, <3>3, <3>4 DEF Dispatch, mutexVars, countVars,
            queueVars, localVars, streamVars, outVars
    <2>2. CASE thread_q = <<>>
      <3>1. /\ dir_q' = Append(dir_q, new_dir[t]) /\ UNCHANGED <<thread_q, next_thread>>
            /\ new_dir' = [new_dir EXCEPT ![t] = Null]
            /\ pc' = [pc EXCEPT ![t] = "scan"]
        BY <1>29, <2>2 DEF Dispatch, Goto, enqueue_dir
      <3>2. new_dir[t] \in Dir
        BY <1>29 DEF Dispatch, At, ThreadInv
      <3>3. dir_q' \in Seq(Dir) /\ new_dir' \in [Thread -> Dir \cup {Null}]
        BY <3>1, <3>2
      <3>4. pc' \in [Thread -> ThreadPc]
        BY <3>1 DEF ThreadPc
      <3> QED
        BY <1>29, <3>1, <3>3, <3>4 DEF Dispatch, mutexVars, countVars,
            queueVars, localVars, streamVars, outVars
    <2> QED BY <2>1, <2>2
  <1>30. ASSUME NEW t \in Thread, DispatchFails(t) PROVE TypeOK'
    BY <1>30 DEF DispatchFails, At, Fail, Fault, queueVars, localVars,
        streamVars, outVars, Running, Goto, MainPc, ThreadPc
  <1>31. ASSUME NEW t \in Thread, Assign(t) PROVE TypeOK'
    BY ZenonT(40), <1>31 DEF Assign, At, Goto, mutexVars, countVars, queueVars, streamVars,
        outVars, Running, MainPc, ThreadPc
  <1>32. ASSUME NEW t \in Thread, Signal(t) PROVE TypeOK'
    BY <1>32 DEF Signal, At, mutexVars, countVars, queueVars, streamVars,
        outVars, Running, MainPc, ThreadPc
  <1>33. ASSUME NEW t \in Thread, EndOfDir(t) PROVE TypeOK'
    BY <1>33 DEF EndOfDir, At, Goto, Fail, mutexVars, countVars, queueVars,
        localVars, streamVars, outVars, Running, MainPc, ThreadPc
  <1>34. ASSUME NEW t \in Thread, ReaddirFails(t) PROVE TypeOK'
    BY <1>34 DEF ReaddirFails, At, Fail, Fault, readdir, mutexVars, queueVars,
        localVars, streamVars, outVars, Running, Goto, MainPc, ThreadPc
  <1>35. ASSUME NEW t \in Thread, Failed(t) PROVE TypeOK'
    BY <1>35 DEF Failed, At, Goto, SignalMain, mutexVars, countVars, queueVars,
        localVars, streamVars, outVars, Running, MainPc, ThreadPc
  <1>36. CASE UNCHANGED vars
    BY <1>36 DEF vars, mutexVars, countVars, queueVars, localVars, streamVars,
        outVars, MainPc, ThreadPc
  <1> QED
    BY <1>1, <1>2, <1>3, <1>4, <1>5, <1>6, <1>7, <1>8, <1>9, <1>10, <1>11,
        <1>12, <1>13, <1>14, <1>15, <1>16, <1>17, <1>18, <1>19, <1>20, <1>21,
        <1>22, <1>23, <1>24, <1>25, <1>26, <1>27, <1>28, <1>29, <1>30, <1>31,
        <1>32, <1>33, <1>34, <1>35, <1>36
       DEF Next, MainStep, ThreadStep, Terminated

\* The locals of scan_dir agree with the location of the thread.
LEMMA ThreadInvStep ==
    ASSUME TypeOK, TypeOK', ThreadInv, QueueInv, [Next]_vars
    PROVE  ThreadInv'
  <1> USE ThreadsAssumption DEF TypeOK, ThreadInv, Uncounted, InScan
  <1>1. CASE Setup
    BY <1>1 DEF Setup, opendir, enqueue_dir, mutexVars, countVars, localVars,
        outVars, CanOpen
  <1>2. CASE SetupDenied
    BY <1>2 DEF SetupDenied, opendirFails, Exit, mutexVars, queueVars,
        localVars, streamVars, Fault, opendir, CanOpen
  <1>3. CASE SetupNoMemory
    BY <1>3 DEF SetupNoMemory, Fault, opendir, Exit, mutexVars, queueVars,
        localVars, CanOpen
  <1>4. CASE CreateThread
    BY <1>4 DEF CreateThread, Created, mutexVars, countVars, queueVars,
        localVars, streamVars, outVars
  <1>5. CASE MainFails
    BY <1>5 DEF MainFails, Created, Fault, Exit, mutexVars, queueVars,
        localVars, streamVars
  <1>6. CASE LockInitializer
    BY <1>6 DEF LockInitializer, Created, countVars, queueVars, localVars,
        streamVars, outVars
  <1>7. CASE CreateLast
    BY <1>7 DEF CreateLast, Created, mutexVars, countVars, queueVars, localVars,
        streamVars, outVars
  <1>8. CASE WaitInitialized
    BY <1>8 DEF WaitInitialized, countVars, queueVars, localVars, streamVars,
        outVars
  <1>9. CASE Initialized
    BY <1>9 DEF Initialized, Exit, mutexVars, countVars, queueVars, localVars,
        streamVars
  <1>10. CASE LockQueues
    BY <1>10 DEF LockQueues, countVars, queueVars, localVars, streamVars,
        outVars
  <1>11. CASE Broadcast
    BY <1>11 DEF Broadcast, mutexVars, countVars, queueVars, localVars,
        streamVars, outVars
  <1>12. CASE WaitAllSleep
    BY <1>12 DEF WaitAllSleep, countVars, queueVars, localVars, streamVars,
        outVars
  <1>13. CASE AllAsleep
    BY <1>13 DEF AllAsleep, Exit, mutexVars, countVars, queueVars, localVars,
        streamVars
  <1>14. CASE WakeNext
    BY <1>14 DEF WakeNext, mutexVars, countVars, queueVars, localVars,
        streamVars, outVars
  <1>15. CASE WakeEnd
    BY <1>15 DEF WakeEnd, mutexVars, countVars, queueVars, localVars,
        streamVars, outVars
  <1>16. CASE Join
    BY <1>16 DEF Join, Exit, mutexVars, countVars, queueVars, localVars,
        streamVars
  <1>17. ASSUME NEW t \in Thread, AllocEntry(t) PROVE ThreadInv'
    BY <1>17 DEF AllocEntry, At, Goto, mutexVars, countVars, queueVars,
        localVars, streamVars, outVars, Running
  <1>18. ASSUME NEW t \in Thread, AllocEntryFails(t) PROVE ThreadInv'
    BY <1>18 DEF AllocEntryFails, At, Fail, Fault, mutexVars, queueVars,
        localVars, streamVars, outVars, Running, Goto
  <1>19. ASSUME NEW t \in Thread, InitFailed(t) PROVE ThreadInv'
    BY <1>19 DEF InitFailed, At, Goto, SignalMain, mutexVars, countVars,
        queueVars, localVars, streamVars, outVars, Running
  <1>20. ASSUME NEW t \in Thread, WaitStart(t) PROVE ThreadInv'
    BY <1>20 DEF WaitStart, At, Goto, SignalMain, LastInitialized, mutexVars,
        queueVars, localVars, streamVars, outVars, Running
  <1>21. ASSUME NEW t \in Thread, Start(t) PROVE ThreadInv'
    BY <1>21 DEF Start, At, Goto, mutexVars, countVars, queueVars, localVars,
        streamVars, outVars, Running
  <1>22. ASSUME NEW t \in Thread, TakeDir(t) PROVE ThreadInv'
    <2>1. CASE dir_q # <<>>
      <3>1. Head(dir_q) \in Dir
        BY <2>1
      <3>2. Head(dir_q) # Null
        BY <3>1, TreeAssumption DEF Entry
      <3> QED
        BY <1>22, <2>1, <3>2 DEF TakeDir, At, Goto, dequeue_dir, mutexVars,
            countVars, localVars, streamVars, outVars, Running
    <2>2. CASE dir_q = <<>>
      BY <1>22, <2>2 DEF TakeDir, At, Goto, dequeue_dir, mutexVars, countVars,
          localVars, streamVars, outVars, Running
    <2> QED BY <2>1, <2>2
  <1>23. ASSUME NEW t \in Thread, Sleep(t) PROVE ThreadInv'
    BY <1>23 DEF Sleep, At, Goto, SignalMain, enqueue_thread, EverybodySleeps,
        mutexVars, countVars, localVars, streamVars, outVars, Running
  <1>24. ASSUME NEW t \in Thread, WakeUp(t) PROVE ThreadInv'
    BY <1>24 DEF WakeUp, At, Goto, mutexVars, countVars, queueVars, localVars,
        streamVars, outVars, Running, QueueInv, WokenHasDir
  <1>25. ASSUME NEW t \in Thread, NEW e \in Entry, StatFails(t, e) PROVE ThreadInv'
    BY <1>25 DEF StatFails, Fault, Fail, readdir, Consumed, mutexVars, queueVars,
        localVars, outVars, Goto, At, Running
  <1>26. ASSUME NEW t \in Thread, NEW e \in Entry, ScanFile(t, e) PROVE ThreadInv'
    BY <1>26 DEF ScanFile, readdir, Consumed, mutexVars, countVars, queueVars,
        localVars, At, Running
  <1>27. ASSUME NEW t \in Thread, NEW e \in Entry, ScanDenied(t, e) PROVE ThreadInv'
    BY <1>27 DEF ScanDenied, opendirFails, readdir, Consumed, mutexVars,
        countVars, queueVars, localVars, Fault, opendir, CanOpen, At, Running
  <1>28. ASSUME NEW t \in Thread, NEW e \in Entry, ScanDir(t, e) PROVE ThreadInv'
    BY <1>28, TreeAssumption DEF ScanDir, Goto, CanOpen, readdir, Consumed,
        mutexVars, countVars, queueVars, outVars, At, Running, Entry
  <1>29. ASSUME NEW t \in Thread, Dispatch(t) PROVE ThreadInv'
    BY <1>29 DEF Dispatch, At, Goto, enqueue_dir, dequeue_thread, mutexVars,
        countVars, streamVars, outVars, Running
  <1>30. ASSUME NEW t \in Thread, DispatchFails(t) PROVE ThreadInv'
    BY <1>30 DEF DispatchFails, At, Fail, Fault, queueVars, localVars,
        streamVars, outVars, Running, Goto
  <1>31. ASSUME NEW t \in Thread, Assign(t) PROVE ThreadInv'
    <2>1. next_thread[t] \in Thread /\ pc[next_thread[t]] = "sleep" /\ next_thread[t] # t
      BY <1>31 DEF Assign, At, QueueInv, HandOver
    <2> QED
      BY <1>31, <2>1 DEF Assign, At, Goto, mutexVars, countVars, queueVars,
          streamVars, outVars, Running
  <1>32. ASSUME NEW t \in Thread, Signal(t) PROVE ThreadInv'
    BY <1>32 DEF Signal, At, mutexVars, countVars, queueVars, streamVars,
        outVars, Running
  <1>33. ASSUME NEW t \in Thread, EndOfDir(t) PROVE ThreadInv'
    BY <1>33 DEF EndOfDir, At, Goto, Fail, mutexVars, countVars, queueVars,
        localVars, streamVars, outVars, Running
  <1>34. ASSUME NEW t \in Thread, ReaddirFails(t) PROVE ThreadInv'
    BY <1>34 DEF ReaddirFails, At, Fail, Fault, readdir, mutexVars, queueVars,
        localVars, streamVars, outVars, Running, Goto
  <1>35. ASSUME NEW t \in Thread, Failed(t) PROVE ThreadInv'
    BY <1>35 DEF Failed, At, Goto, SignalMain, mutexVars, countVars, queueVars,
        localVars, streamVars, outVars, Running
  <1>36. CASE UNCHANGED vars
    BY <1>36 DEF vars, mutexVars, countVars, queueVars, localVars, streamVars,
        outVars
  <1> QED
    BY <1>1, <1>2, <1>3, <1>4, <1>5, <1>6, <1>7, <1>8, <1>9, <1>10, <1>11,
        <1>12, <1>13, <1>14, <1>15, <1>16, <1>17, <1>18, <1>19, <1>20, <1>21,
        <1>22, <1>23, <1>24, <1>25, <1>26, <1>27, <1>28, <1>29, <1>30, <1>31,
        <1>32, <1>33, <1>34, <1>35, <1>36
       DEF Next, MainStep, ThreadStep, Terminated

\* A step that leaves the hand-over alone.
LEMMA QueueFrame ==
    ASSUME TypeOK, TypeOK', ThreadInv, QueueInv,
           UNCHANGED <<thread_q, next_thread, entry, done>>,
           \A u \in Thread :
               \/ pc'[u] = pc[u]
               \/ /\ pc[u] \notin {"sleep", "assign", "signal", "woken"}
                  /\ pc'[u] \notin {"sleep", "assign", "signal", "woken"}
    PROVE  QueueInv'
  <1> USE DEF TypeOK, ThreadInv, QueueInv, QueuedAsleep, HandOver, WokenHasDir
  <1>1. IsInjective(thread_q)' /\ Range(thread_q)' = Range(thread_q)
    OBVIOUS
  <1>2. QueuedAsleep'
    <2> SUFFICES ASSUME NEW u \in Range(thread_q)
                 PROVE  entry'[u] = Null /\ (pc'[u] = "sleep" \/ done')
      BY <1>1
    <2>1. u \in Thread
      BY DEF Range
    <2> QED BY <2>1
  <1>3. HandOver'
    BY <1>1
  <1>4. WokenHasDir'
    OBVIOUS
  <1> QED BY <1>1, <1>2, <1>3, <1>4

\* thread_q holds sleeping threads without work, each once, and a dequeued
\* thread sleeps until it has been given a directory (lines 170-177, 244-254).
LEMMA QueueInvStep ==
    ASSUME TypeOK, TypeOK', ThreadInv, QueueInv, DoneInv, [Next]_vars
    PROVE  QueueInv'
  <1> USE ThreadsAssumption DEF TypeOK, ThreadInv, QueueInv, QueuedAsleep,
             HandOver, WokenHasDir, Uncounted, InScan
  <1>1. CASE Setup
    BY <1>1 DEF Setup, opendir, enqueue_dir, mutexVars, countVars, localVars,
        outVars, CanOpen
  <1>2. CASE SetupDenied
    BY <1>2 DEF SetupDenied, opendirFails, Exit, mutexVars, queueVars,
        localVars, streamVars, Fault, opendir, CanOpen
  <1>3. CASE SetupNoMemory
    BY <1>3 DEF SetupNoMemory, Fault, opendir, Exit, mutexVars, queueVars,
        localVars, CanOpen
  <1>4. CASE CreateThread
    BY <1>4 DEF CreateThread, Created, mutexVars, countVars, queueVars,
        localVars, streamVars, outVars
  <1>5. CASE MainFails
    BY <1>5 DEF MainFails, Created, Fault, Exit, mutexVars, queueVars,
        localVars, streamVars
  <1>6. CASE LockInitializer
    BY <1>6 DEF LockInitializer, Created, countVars, queueVars, localVars,
        streamVars, outVars
  <1>7. CASE CreateLast
    BY <1>7 DEF CreateLast, Created, mutexVars, countVars, queueVars, localVars,
        streamVars, outVars
  <1>8. CASE WaitInitialized
    BY <1>8 DEF WaitInitialized, countVars, queueVars, localVars, streamVars,
        outVars
  <1>9. CASE Initialized
    BY <1>9 DEF Initialized, Exit, mutexVars, countVars, queueVars, localVars,
        streamVars
  <1>10. CASE LockQueues
    BY <1>10 DEF LockQueues, countVars, queueVars, localVars, streamVars,
        outVars
  <1>11. CASE Broadcast
    <2>1. /\ \A u \in Thread : pc'[u] = pc[u] \/ (pc[u] = "start_wait" /\ pc'[u] = "start_woken")
          /\ UNCHANGED <<thread_q, next_thread, entry, done>>
      BY <1>11 DEF Broadcast, mutexVars, countVars, queueVars, localVars,
          streamVars, outVars
    <2> QED BY <2>1, QueueFrame
  <1>12. CASE WaitAllSleep
    BY <1>12 DEF WaitAllSleep, countVars, queueVars, localVars, streamVars,
        outVars
  <1>13. CASE AllAsleep
    BY <1>13 DEF AllAsleep, Exit, mutexVars, countVars, queueVars, localVars,
        streamVars
  <1>14. CASE WakeNext
    BY <1>14 DEF WakeNext, mutexVars, countVars, queueVars, localVars,
        streamVars, outVars, DoneInv, DoneQuiescent
  <1>15. CASE WakeEnd
    BY <1>15 DEF WakeEnd, mutexVars, countVars, queueVars, localVars,
        streamVars, outVars
  <1>16. CASE Join
    BY <1>16 DEF Join, Exit, mutexVars, countVars, queueVars, localVars,
        streamVars
  <1>17. ASSUME NEW t \in Thread, AllocEntry(t) PROVE QueueInv'
    BY <1>17 DEF AllocEntry, At, Goto, mutexVars, countVars, queueVars,
        localVars, streamVars, outVars, Running
  <1>18. ASSUME NEW t \in Thread, AllocEntryFails(t) PROVE QueueInv'
    BY <1>18 DEF AllocEntryFails, At, Fail, Fault, mutexVars, queueVars,
        localVars, streamVars, outVars, Running, Goto
  <1>19. ASSUME NEW t \in Thread, InitFailed(t) PROVE QueueInv'
    BY <1>19 DEF InitFailed, At, Goto, SignalMain, mutexVars, countVars,
        queueVars, localVars, streamVars, outVars, Running
  <1>20. ASSUME NEW t \in Thread, WaitStart(t) PROVE QueueInv'
    BY <1>20 DEF WaitStart, At, Goto, SignalMain, LastInitialized, mutexVars,
        queueVars, localVars, streamVars, outVars, Running
  <1>21. ASSUME NEW t \in Thread, Start(t) PROVE QueueInv'
    BY <1>21 DEF Start, At, Goto, mutexVars, countVars, queueVars, localVars,
        streamVars, outVars, Running
  <1>22. ASSUME NEW t \in Thread, TakeDir(t) PROVE QueueInv'
    <2>1. ~done /\ pc[t] \in {"first_dequeue", "get_next"}
      BY <1>22 DEF TakeDir, At, DoneInv, DoneQuiescent
    <2>2. /\ pc' = [pc EXCEPT ![t] = "scan"] \/ pc' = [pc EXCEPT ![t] = "enqueue"]
          /\ \A u \in Thread \ {t} : entry'[u] = entry[u]
          /\ UNCHANGED <<thread_q, next_thread, done>>
      BY <1>22 DEF TakeDir, At, Goto, dequeue_dir, mutexVars, countVars,
          localVars, streamVars, outVars, Running
    <2>3. Range(thread_q)' = Range(thread_q) /\ t \notin Range(thread_q)
      BY <2>1, <2>2
    <2>4. Range(thread_q) \subseteq Thread
      BY DEF Range
    <2>5. QueuedAsleep'
      BY <2>1, <2>2, <2>3, <2>4
    <2>6. HandOver'
      BY <2>1, <2>2, <2>3
    <2>7. WokenHasDir'
      BY <2>1, <2>2
    <2> QED BY <2>2, <2>5, <2>6, <2>7
  <1>23. ASSUME NEW t \in Thread, Sleep(t) PROVE QueueInv'
    <2>1. ~done
      BY <1>23 DEF Sleep, At, DoneInv, DoneQuiescent
    <2>2. t \notin Range(thread_q)
      BY <1>23, <2>1 DEF Sleep, At
    <2>3. Range(thread_q') = Range(thread_q) \cup {t} /\ IsInjective(thread_q')
      BY <1>23, <2>2, RangeAppend DEF Sleep, enqueue_thread
    <2> QED
      BY <1>23, <2>1, <2>3 DEF Sleep, At, Goto, SignalMain, enqueue_thread,
          EverybodySleeps, mutexVars, countVars, localVars, streamVars, outVars,
          Running
  <1>24. ASSUME NEW t \in Thread, WakeUp(t) PROVE QueueInv'
    <2>1. CASE done
      <3>1. /\ pc' = [pc EXCEPT ![t] = "exited"] /\ done' /\ pc[t] = "woken"
            /\ UNCHANGED <<thread_q, next_thread, entry>>
        BY <1>24, <2>1 DEF WakeUp, At, Goto, mutexVars, countVars, queueVars,
            localVars, streamVars, outVars, Running
      <3> QED BY <2>1, <3>1
    <2>2. CASE ~done
      <3>1. /\ pc' = [pc EXCEPT ![t] = "scan"] /\ ~done' /\ pc[t] = "woken"
            /\ UNCHANGED <<thread_q, next_thread, entry>>
        BY <1>24, <2>2 DEF WakeUp, At, Goto, mutexVars, countVars, queueVars,
            localVars, streamVars, outVars, Running
      <3> QED BY <2>2, <3>1
    <2> QED BY <2>1, <2>2
  <1>25. ASSUME NEW t \in Thread, NEW e \in Entry, StatFails(t, e) PROVE QueueInv'
    BY <1>25 DEF StatFails, Fault, Fail, readdir, Consumed, mutexVars, queueVars,
        localVars, outVars, Goto, At, Running
  <1>26. ASSUME NEW t \in Thread, NEW e \in Entry, ScanFile(t, e) PROVE QueueInv'
    BY <1>26 DEF ScanFile, readdir, Consumed, mutexVars, countVars, queueVars,
        localVars, At, Running
  <1>27. ASSUME NEW t \in Thread, NEW e \in Entry, ScanDenied(t, e) PROVE QueueInv'
    BY <1>27 DEF ScanDenied, opendirFails, readdir, Consumed, mutexVars,
        countVars, queueVars, localVars, Fault, opendir, CanOpen, At, Running
  <1>28. ASSUME NEW t \in Thread, NEW e \in Entry, ScanDir(t, e) PROVE QueueInv'
    BY <1>28 DEF ScanDir, Goto, CanOpen, readdir, Consumed, mutexVars,
        countVars, queueVars, outVars, At, Running
  <1>29. ASSUME NEW t \in Thread, Dispatch(t) PROVE QueueInv'
    <2>1. CASE thread_q # <<>>
      <3> DEFINE v == Head(thread_q)
      <3>a. /\ v \in Range(thread_q) /\ IsInjective(Tail(thread_q))
            /\ Range(Tail(thread_q)) = Range(thread_q) \ {v}
        BY <2>1, RangeTail
      <3>1. /\ v \in Range(thread_q) /\ IsInjective(thread_q')
            /\ Range(thread_q') = Range(thread_q) \ {v}
        BY <1>29, <2>1, <3>a DEF Dispatch, dequeue_thread
      <3>2. v \in Thread
        BY <2>1
      <3>3. ~done
        BY <1>29 DEF Dispatch, At, DoneInv, DoneQuiescent
      <3>4. /\ next_thread' = [next_thread EXCEPT ![t] = v]
            /\ pc' = [pc EXCEPT ![t] = "assign"]
            /\ UNCHANGED <<entry, done>> /\ pc[t] = "new_dir"
        BY <1>29, <2>1 DEF Dispatch, Goto, At
      <3>5. v # t /\ pc[v] = "sleep" /\ entry[v] = Null
        BY <3>1, <3>3, <3>4
      <3> HIDE DEF v
      <3> QED BY <3>1, <3>2, <3>3, <3>4, <3>5
    <2>2. CASE thread_q = <<>>
      <3>1. /\ pc' = [pc EXCEPT ![t] = "scan"] /\ pc[t] = "new_dir"
            /\ UNCHANGED <<thread_q, next_thread, entry, done>>
        BY <1>29, <2>2 DEF Dispatch, At, Goto, enqueue_dir, dequeue_thread,
            mutexVars, countVars, streamVars, outVars, Running
      <3> QED BY <3>1
    <2> QED BY <2>1, <2>2
  <1>30. ASSUME NEW t \in Thread, DispatchFails(t) PROVE QueueInv'
    BY <1>30 DEF DispatchFails, At, Fail, Fault, queueVars, localVars,
        streamVars, outVars, Running, Goto
  <1>31. ASSUME NEW t \in Thread, Assign(t) PROVE QueueInv'
    BY <1>31 DEF Assign, At, Goto, mutexVars, countVars, queueVars, streamVars,
        outVars, Running
  <1>32. ASSUME NEW t \in Thread, Signal(t) PROVE QueueInv'
    <2> DEFINE v == next_thread[t]
    <2>1. v \in Thread /\ v # t /\ pc[v] = "sleep" /\ entry[v] # Null /\ pc[t] = "signal"
      BY <1>32 DEF Signal, At
    <2>2. /\ pc' = [pc EXCEPT ![v] = "woken", ![t] = "scan"]
          /\ next_thread' = [next_thread EXCEPT ![t] = Null]
          /\ UNCHANGED <<thread_q, entry, done>>
      BY <1>32, <2>1 DEF Signal, At, mutexVars, countVars, queueVars,
          streamVars, outVars, Running
    <2>3. ~done
      BY <2>1 DEF DoneInv, DoneQuiescent
    <2>4. v \notin Range(thread_q) /\ \A u \in Thread \ {t} : next_thread[u] # v
      BY <2>1
    <2> HIDE DEF v
    <2>5. Range(thread_q)' = Range(thread_q) /\ Range(thread_q) \subseteq Thread \ {t}
      BY <2>1, <2>2, <2>3 DEF Range
    <2>6. QueuedAsleep'
      BY <2>1, <2>2, <2>4, <2>5
    <2>7. HandOver'
      BY <2>1, <2>2, <2>4, <2>5
    <2>8. WokenHasDir'
      BY <2>1, <2>2
    <2> QED BY <2>2, <2>6, <2>7, <2>8
  <1>33. ASSUME NEW t \in Thread, EndOfDir(t) PROVE QueueInv'
    <2>1. /\ pc' = [pc EXCEPT ![t] = "failed"] \/ pc' = [pc EXCEPT ![t] = "get_next"]
          /\ pc[t] = "scan"
          /\ UNCHANGED <<thread_q, next_thread, entry, done>>
      BY <1>33 DEF EndOfDir, At, Goto, Fail, mutexVars, countVars, queueVars,
          localVars, streamVars, outVars, Running
    <2>2. \A u \in Thread : pc'[u] = pc[u] \/ (u = t /\ pc'[t] \in {"failed", "get_next"})
      BY <2>1
    <2> QED BY <2>1, <2>2, QueueFrame
  <1>34. ASSUME NEW t \in Thread, ReaddirFails(t) PROVE QueueInv'
    BY <1>34 DEF ReaddirFails, At, Fail, Fault, readdir, mutexVars, queueVars,
        localVars, streamVars, outVars, Running, Goto
  <1>35. ASSUME NEW t \in Thread, Failed(t) PROVE QueueInv'
    BY <1>35 DEF Failed, At, Goto, SignalMain, mutexVars, countVars, queueVars,
        localVars, streamVars, outVars, Running
  <1>36. CASE UNCHANGED vars
    BY <1>36 DEF vars, mutexVars, countVars, queueVars, localVars, streamVars,
        outVars
  <1> QED
    BY <1>1, <1>2, <1>3, <1>4, <1>5, <1>6, <1>7, <1>8, <1>9, <1>10, <1>11,
        <1>12, <1>13, <1>14, <1>15, <1>16, <1>17, <1>18, <1>19, <1>20, <1>21,
        <1>22, <1>23, <1>24, <1>25, <1>26, <1>27, <1>28, <1>29, <1>30, <1>31,
        <1>32, <1>33, <1>34, <1>35, <1>36
       DEF Next, MainStep, ThreadStep, Terminated

\* How many threads there are, and how many of a set of them.
LEMMA ThreadSets ==
    ASSUME NEW T \in SUBSET Thread
    PROVE  /\ Cardinality(T) \in Nat /\ num_of_threads \in Nat
           /\ IsFiniteSet(T) /\ Cardinality(T) <= num_of_threads
           /\ Cardinality(T) = num_of_threads => T = Thread
           /\ \A t \in Thread \ T : Cardinality(T \cup {t}) = Cardinality(T) + 1
  <1>1. IsFiniteSet(Thread)
    BY ThreadsAssumption
  <1>2. /\ IsFiniteSet(T) /\ Cardinality(T) <= Cardinality(Thread)
        /\ Cardinality(T) = Cardinality(Thread) => T = Thread
    BY <1>1, FS_Subset
  <1>3. Cardinality(T) \in Nat /\ Cardinality(Thread) \in Nat
    BY <1>1, <1>2, FS_CardinalityType
  <1>4. \A t \in Thread \ T : Cardinality(T \cup {t}) = Cardinality(T) + 1
    BY <1>2, FS_AddElement
  <1> QED BY <1>2, <1>3, <1>4 DEF num_of_threads

\* The counters of lines 123, 137 and 139 make the start barrier.
LEMMA BarrierInvStep ==
    ASSUME TypeOK, TypeOK', ThreadInv, QueueInv, BarrierInv, [Next]_vars
    PROVE  BarrierInv'
  <1> USE ThreadsAssumption DEF TypeOK, BarrierInv, StartBarrier, Passed, EarlyMain,
             LateMain, MainPc, Searching, Busy
  <1>1. CASE Setup
    BY <1>1 DEF Setup, opendir, enqueue_dir, mutexVars, countVars, localVars,
        outVars, CanOpen
  <1>2. CASE SetupDenied
    BY <1>2 DEF SetupDenied, opendirFails, Exit, mutexVars, queueVars,
        localVars, streamVars, Fault, opendir, CanOpen
  <1>3. CASE SetupNoMemory
    BY <1>3 DEF SetupNoMemory, Fault, opendir, Exit, mutexVars, queueVars,
        localVars, CanOpen
  <1>4. CASE CreateThread
    <2>1. PICK u \in Thread : pc[u] = "unborn" /\ pc' = [pc EXCEPT ![u] = "start"]
      BY <1>4 DEF CreateThread, Created
    <2>2. Passed' = Passed /\ \A v \in Thread : Searching(v)' <=> Searching(v)
      BY <2>1
    <2>3. /\ main_pc \in EarlyMain /\ main_pc' \in EarlyMain
          /\ UNCHANGED <<threads_initialized, threads_failed>>
      BY <1>4 DEF CreateThread, countVars
    <2> QED BY <2>2, <2>3
  <1>5. CASE MainFails
    BY <1>5 DEF MainFails, Created, Fault, Exit, mutexVars, queueVars,
        localVars, streamVars
  <1>6. CASE LockInitializer
    BY <1>6 DEF LockInitializer, Created, countVars, queueVars, localVars,
        streamVars, outVars
  <1>7. CASE CreateLast
    <2>1. PICK u \in Thread : pc[u] = "unborn" /\ pc' = [pc EXCEPT ![u] = "start"]
      BY <1>7 DEF CreateLast, Created
    <2>2. Passed' = Passed /\ \A v \in Thread : Searching(v)' <=> Searching(v)
      BY <2>1
    <2>3. /\ main_pc \in EarlyMain /\ main_pc' \in EarlyMain
          /\ UNCHANGED <<threads_initialized, threads_failed>>
      BY <1>7 DEF CreateLast, countVars
    <2> QED BY <2>2, <2>3
  <1>8. CASE WaitInitialized
    BY <1>8 DEF WaitInitialized, countVars, queueVars, localVars, streamVars,
        outVars
  <1>9. CASE Initialized
    BY <1>9 DEF Initialized, Exit, mutexVars, countVars, queueVars, localVars,
        streamVars
  <1>10. CASE LockQueues
    BY <1>10 DEF LockQueues, countVars, queueVars, localVars, streamVars,
        outVars
  <1>11. CASE Broadcast
    BY <1>11 DEF Broadcast, mutexVars, countVars, queueVars, localVars,
        streamVars, outVars
  <1>12. CASE WaitAllSleep
    BY <1>12 DEF WaitAllSleep, countVars, queueVars, localVars, streamVars,
        outVars
  <1>13. CASE AllAsleep
    BY <1>13 DEF AllAsleep, Exit, mutexVars, countVars, queueVars, localVars,
        streamVars
  <1>14. CASE WakeNext
    BY <1>14 DEF WakeNext, mutexVars, countVars, queueVars, localVars,
        streamVars, outVars
  <1>15. CASE WakeEnd
    BY <1>15 DEF WakeEnd, mutexVars, countVars, queueVars, localVars,
        streamVars, outVars
  <1>16. CASE Join
    BY <1>16 DEF Join, Exit, mutexVars, countVars, queueVars, localVars,
        streamVars
  <1>17. ASSUME NEW t \in Thread, AllocEntry(t) PROVE BarrierInv'
    BY <1>17 DEF AllocEntry, At, Goto, mutexVars, countVars, queueVars,
        localVars, streamVars, outVars, Running
  <1>18. ASSUME NEW t \in Thread, AllocEntryFails(t) PROVE BarrierInv'
    <2>1. /\ pc[t] = "start" /\ main_pc # "exited" /\ pc' = [pc EXCEPT ![t] = "init_failed"]
          /\ threads_failed' = threads_failed + 1
          /\ UNCHANGED <<main_pc, threads_initialized>>
      BY <1>18 DEF AllocEntryFails, At, Running, Fail, Goto
    <2>2. main_pc \in EarlyMain /\ t \notin Passed
      BY <2>1
    <2>3. Passed' = Passed \cup {t} /\ \A v \in Thread : ~Searching(v)'
      BY <2>1, <2>2
    <2>4. Cardinality(Passed') = Cardinality(Passed) + 1 /\ Cardinality(Passed) \in Nat
      BY ZenonT(40), <2>2, <2>3, ThreadSets
    <2>5. threads_initialized' + threads_failed' = Cardinality(Passed')
      BY <2>1, <2>2, <2>4
    <2> QED BY <2>1, <2>2, <2>3, <2>5
  <1>19. ASSUME NEW t \in Thread, InitFailed(t) PROVE BarrierInv'
    <2>1. /\ pc[t] = "init_failed" /\ main_pc # "exited" /\ pc' = [pc EXCEPT ![t] = "exited"]
          /\ UNCHANGED <<threads_failed, threads_initialized>>
          /\ \/ main_pc' = main_pc
             \/ main_pc = "init_wait" /\ main_pc' = "init_woken" /\ threads_failed = num_of_threads
      BY <1>19 DEF InitFailed, At, Running, Goto, SignalMain, countVars
    <2>2. Passed' = Passed /\ \A v \in Thread : Searching(v)' <=> Searching(v)
      BY <2>1
    <2>3. CASE main_pc' = main_pc
      BY <2>1, <2>2, <2>3
    <2>4. CASE main_pc = "init_wait" /\ main_pc' = "init_woken" /\ threads_failed = num_of_threads
      <3>1. Passed = Thread
        BY SMTT(30), <2>4, ThreadSets
      <3> QED BY <2>2, <2>4, <3>1
    <2> QED BY <2>1, <2>3, <2>4
  <1>20. ASSUME NEW t \in Thread, WaitStart(t) PROVE BarrierInv'
    <2>1. /\ pc[t] = "lock_init" /\ main_pc # "exited" /\ pc' = [pc EXCEPT ![t] = "start_wait"]
          /\ threads_initialized' = threads_initialized + 1 /\ threads_failed' = threads_failed
          /\ \/ main_pc' = main_pc
             \/ /\ main_pc = "init_wait" /\ main_pc' = "init_woken"
                /\ threads_initialized' + threads_failed' = num_of_threads
      BY <1>20 DEF WaitStart, At, Running, Goto, SignalMain, LastInitialized
    <2>2. main_pc \in EarlyMain /\ t \notin Passed
      BY <2>1
    <2>3. Passed' = Passed \cup {t} /\ \A v \in Thread : ~Searching(v)'
      BY <2>1, <2>2
    <2>4. Cardinality(Passed') = Cardinality(Passed) + 1 /\ Cardinality(Passed) \in Nat
      BY ZenonT(40), <2>2, <2>3, ThreadSets
    <2>5. threads_initialized' + threads_failed' = Cardinality(Passed')
      BY <2>1, <2>2, <2>4
    <2>6. threads_initialized' + threads_failed' = num_of_threads => Passed' = Thread
      BY <2>5, ThreadSets
    <2> QED BY <2>1, <2>2, <2>3, <2>5, <2>6
  <1>21. ASSUME NEW t \in Thread, Start(t) PROVE BarrierInv'
    BY <1>21 DEF Start, At, Goto, mutexVars, countVars, queueVars, localVars,
        streamVars, outVars, Running
  <1>22. ASSUME NEW t \in Thread, TakeDir(t) PROVE BarrierInv'
    BY <1>22 DEF TakeDir, At, Goto, dequeue_dir, mutexVars, countVars,
        localVars, streamVars, outVars, Running
  <1>23. ASSUME NEW t \in Thread, Sleep(t) PROVE BarrierInv'
    BY <1>23 DEF Sleep, At, Goto, SignalMain, enqueue_thread, EverybodySleeps,
        mutexVars, countVars, localVars, streamVars, outVars, Running
  <1>24. ASSUME NEW t \in Thread, WakeUp(t) PROVE BarrierInv'
    BY <1>24 DEF WakeUp, At, Goto, mutexVars, countVars, queueVars, localVars,
        streamVars, outVars, Running
  <1>25. ASSUME NEW t \in Thread, NEW e \in Entry, StatFails(t, e) PROVE BarrierInv'
    BY <1>25 DEF StatFails, Fault, Fail, readdir, Consumed, mutexVars, queueVars,
        localVars, outVars, Goto, At, Running
  <1>26. ASSUME NEW t \in Thread, NEW e \in Entry, ScanFile(t, e) PROVE BarrierInv'
    BY <1>26 DEF ScanFile, readdir, Consumed, mutexVars, countVars, queueVars,
        localVars, At, Running
  <1>27. ASSUME NEW t \in Thread, NEW e \in Entry, ScanDenied(t, e) PROVE BarrierInv'
    BY <1>27 DEF ScanDenied, opendirFails, readdir, Consumed, mutexVars,
        countVars, queueVars, localVars, Fault, opendir, CanOpen, At, Running
  <1>28. ASSUME NEW t \in Thread, NEW e \in Entry, ScanDir(t, e) PROVE BarrierInv'
    BY <1>28 DEF ScanDir, Goto, CanOpen, readdir, Consumed, mutexVars,
        countVars, queueVars, outVars, At, Running
  <1>29. ASSUME NEW t \in Thread, Dispatch(t) PROVE BarrierInv'
    BY <1>29 DEF Dispatch, At, Goto, enqueue_dir, dequeue_thread, mutexVars,
        countVars, streamVars, outVars, Running
  <1>30. ASSUME NEW t \in Thread, DispatchFails(t) PROVE BarrierInv'
    BY <1>30 DEF DispatchFails, At, Fail, Fault, queueVars, localVars,
        streamVars, outVars, Running, Goto
  <1>31. ASSUME NEW t \in Thread, Assign(t) PROVE BarrierInv'
    BY <1>31 DEF Assign, At, Goto, mutexVars, countVars, queueVars, streamVars,
        outVars, Running
  <1>32. ASSUME NEW t \in Thread, Signal(t) PROVE BarrierInv'
    BY <1>32 DEF Signal, At, mutexVars, countVars, queueVars, streamVars,
        outVars, Running
  <1>33. ASSUME NEW t \in Thread, EndOfDir(t) PROVE BarrierInv'
    BY <1>33 DEF EndOfDir, At, Goto, Fail, mutexVars, countVars, queueVars,
        localVars, streamVars, outVars, Running
  <1>34. ASSUME NEW t \in Thread, ReaddirFails(t) PROVE BarrierInv'
    BY <1>34 DEF ReaddirFails, At, Fail, Fault, readdir, mutexVars, queueVars,
        localVars, streamVars, outVars, Running, Goto
  <1>35. ASSUME NEW t \in Thread, Failed(t) PROVE BarrierInv'
    BY <1>35 DEF Failed, At, Goto, SignalMain, mutexVars, countVars, queueVars,
        localVars, streamVars, outVars, Running
  <1>36. CASE UNCHANGED vars
    BY <1>36 DEF vars, mutexVars, countVars, queueVars, localVars, streamVars,
        outVars
  <1> QED
    BY <1>1, <1>2, <1>3, <1>4, <1>5, <1>6, <1>7, <1>8, <1>9, <1>10, <1>11,
        <1>12, <1>13, <1>14, <1>15, <1>16, <1>17, <1>18, <1>19, <1>20, <1>21,
        <1>22, <1>23, <1>24, <1>25, <1>26, <1>27, <1>28, <1>29, <1>30, <1>31,
        <1>32, <1>33, <1>34, <1>35, <1>36
       DEF Next, MainStep, ThreadStep, Terminated

\* threads_initialized never falls below the threads it has to account for.
LEMMA CountedInvStep ==
    ASSUME TypeOK, TypeOK', ThreadInv, QueueInv, CountedInv, [Next]_vars
    PROVE  CountedInv'
  <1> USE ThreadsAssumption DEF TypeOK, CountedInv, Counted, ThreadInv, Uncounted, InScan
  <1>1. CASE Setup
    BY <1>1 DEF Setup, opendir, enqueue_dir, mutexVars, countVars, localVars,
        outVars, CanOpen
  <1>2. CASE SetupDenied
    BY <1>2 DEF SetupDenied, opendirFails, Exit, mutexVars, queueVars,
        localVars, streamVars, Fault, opendir, CanOpen
  <1>3. CASE SetupNoMemory
    BY <1>3 DEF SetupNoMemory, Fault, opendir, Exit, mutexVars, queueVars,
        localVars, CanOpen
  <1>4. CASE CreateThread
    <2>1. PICK u \in Thread : pc[u] = "unborn" /\ pc' = [pc EXCEPT ![u] = "start"]
      BY <1>4 DEF CreateThread, Created
    <2>2. UNCHANGED <<entry, threads_initialized>>
      BY <1>4 DEF CreateThread, countVars
    <2>3. Counted' = Counted
      BY <2>1, <2>2
    <2> QED BY <2>2, <2>3
  <1>5. CASE MainFails
    BY <1>5 DEF MainFails, Created, Fault, Exit, mutexVars, queueVars,
        localVars, streamVars
  <1>6. CASE LockInitializer
    BY <1>6 DEF LockInitializer, Created, countVars, queueVars, localVars,
        streamVars, outVars
  <1>7. CASE CreateLast
    <2>1. PICK u \in Thread : pc[u] = "unborn" /\ pc' = [pc EXCEPT ![u] = "start"]
      BY <1>7 DEF CreateLast, Created
    <2>2. UNCHANGED <<entry, threads_initialized>>
      BY <1>7 DEF CreateLast, countVars
    <2>3. Counted' = Counted
      BY <2>1, <2>2
    <2> QED BY <2>2, <2>3
  <1>8. CASE WaitInitialized
    BY <1>8 DEF WaitInitialized, countVars, queueVars, localVars, streamVars,
        outVars
  <1>9. CASE Initialized
    BY <1>9 DEF Initialized, Exit, mutexVars, countVars, queueVars, localVars,
        streamVars
  <1>10. CASE LockQueues
    BY <1>10 DEF LockQueues, countVars, queueVars, localVars, streamVars,
        outVars
  <1>11. CASE Broadcast
    BY <1>11 DEF Broadcast, mutexVars, countVars, queueVars, localVars,
        streamVars, outVars
  <1>12. CASE WaitAllSleep
    BY <1>12 DEF WaitAllSleep, countVars, queueVars, localVars, streamVars,
        outVars
  <1>13. CASE AllAsleep
    BY <1>13 DEF AllAsleep, Exit, mutexVars, countVars, queueVars, localVars,
        streamVars
  <1>14. CASE WakeNext
    BY ZenonT(40), <1>14 DEF WakeNext, mutexVars, countVars, queueVars, localVars,
        streamVars, outVars
  <1>15. CASE WakeEnd
    BY <1>15 DEF WakeEnd, mutexVars, countVars, queueVars, localVars,
        streamVars, outVars
  <1>16. CASE Join
    BY <1>16 DEF Join, Exit, mutexVars, countVars, queueVars, localVars,
        streamVars
  <1>17. ASSUME NEW t \in Thread, AllocEntry(t) PROVE CountedInv'
    BY ZenonT(40), <1>17 DEF AllocEntry, At, Goto, mutexVars, countVars, queueVars,
        localVars, streamVars, outVars, Running
  <1>18. ASSUME NEW t \in Thread, AllocEntryFails(t) PROVE CountedInv'
    BY ZenonT(40), <1>18 DEF AllocEntryFails, At, Fail, Fault, mutexVars, queueVars,
        localVars, streamVars, outVars, Running, Goto
  <1>19. ASSUME NEW t \in Thread, InitFailed(t) PROVE CountedInv'
    BY ZenonT(40), <1>19 DEF InitFailed, At, Goto, SignalMain, mutexVars, countVars,
        queueVars, localVars, streamVars, outVars, Running
  <1>20. ASSUME NEW t \in Thread, WaitStart(t) PROVE CountedInv'
    <2>1. /\ pc[t] = "lock_init" /\ pc' = [pc EXCEPT ![t] = "start_wait"]
          /\ threads_initialized' = threads_initialized + 1 /\ entry' = entry
      BY <1>20 DEF WaitStart, At, Goto
    <2>2. t \notin Counted /\ Counted' = Counted \cup {t}
      BY <2>1
    <2>3. Counted \in SUBSET Thread
      OBVIOUS
    <2> HIDE DEF Counted
    <2>4. Cardinality(Counted \cup {t}) = Cardinality(Counted) + 1 /\ Cardinality(Counted) \in Nat
      BY <2>2, <2>3, ThreadSets
    <2> QED BY <2>1, <2>2, <2>4
  <1>21. ASSUME NEW t \in Thread, Start(t) PROVE CountedInv'
    BY <1>21 DEF Start, At, Goto, mutexVars, countVars, queueVars, localVars,
        streamVars, outVars, Running
  <1>22. ASSUME NEW t \in Thread, TakeDir(t) PROVE CountedInv'
    <2>1. /\ pc[t] \in {"first_dequeue", "get_next"} /\ (pc' = [pc EXCEPT ![t] = "scan"] \/ pc' = [pc EXCEPT ![t] = "enqueue"])
          /\ \A u \in Thread \ {t} : entry'[u] = entry[u]
          /\ UNCHANGED threads_initialized
      BY <1>22 DEF TakeDir, At, Goto, dequeue_dir, mutexVars, countVars, localVars, streamVars, outVars, Running
    <2>2. Counted' = Counted
      BY <2>1
    <2> QED BY <2>1, <2>2
  <1>23. ASSUME NEW t \in Thread, Sleep(t) PROVE CountedInv'
    BY ZenonT(40), <1>23 DEF Sleep, At, Goto, SignalMain, enqueue_thread, EverybodySleeps,
        mutexVars, countVars, localVars, streamVars, outVars, Running
  <1>24. ASSUME NEW t \in Thread, WakeUp(t) PROVE CountedInv'
    <2>1. /\ pc[t] = "woken" /\ \A u \in Thread \ {t} : pc'[u] = pc[u]
          /\ UNCHANGED <<entry, threads_initialized>>
      BY <1>24 DEF WakeUp, At, Goto, countVars
    <2>2. Counted' \subseteq Counted
      BY <2>1
    <2>3. Cardinality(Counted') <= Cardinality(Counted)
      BY <2>2, ThreadSets, FS_Subset
    <2>4. Cardinality(Counted') \in Nat /\ Cardinality(Counted) \in Nat
      BY ThreadSets
    <2> QED BY <2>1, <2>3, <2>4
  <1>25. ASSUME NEW t \in Thread, NEW e \in Entry, StatFails(t, e) PROVE CountedInv'
    BY <1>25 DEF StatFails, Fault, Fail, readdir, Consumed, mutexVars, queueVars,
        localVars, outVars, Goto, At, Running
  <1>26. ASSUME NEW t \in Thread, NEW e \in Entry, ScanFile(t, e) PROVE CountedInv'
    BY <1>26 DEF ScanFile, readdir, Consumed, mutexVars, countVars, queueVars,
        localVars, At, Running
  <1>27. ASSUME NEW t \in Thread, NEW e \in Entry, ScanDenied(t, e) PROVE CountedInv'
    BY <1>27 DEF ScanDenied, opendirFails, readdir, Consumed, mutexVars,
        countVars, queueVars, localVars, Fault, opendir, CanOpen, At, Running
  <1>28. ASSUME NEW t \in Thread, NEW e \in Entry, ScanDir(t, e) PROVE CountedInv'
    <2>1. /\ pc[t] = "scan" /\ pc' = [pc EXCEPT ![t] = "new_dir"] /\ entry' = entry
          /\ UNCHANGED threads_initialized
      BY <1>28 DEF ScanDir, Goto, CanOpen, readdir, Consumed, mutexVars, countVars, queueVars, outVars, At, Running
    <2>2. Counted' = Counted
      BY <2>1
    <2> QED BY <2>1, <2>2
  <1>29. ASSUME NEW t \in Thread, Dispatch(t) PROVE CountedInv'
    <2>1. /\ pc[t] = "new_dir" /\ (pc' = [pc EXCEPT ![t] = "scan"] \/ pc' = [pc EXCEPT ![t] = "assign"])
          /\ entry' = entry
          /\ UNCHANGED threads_initialized
      BY <1>29 DEF Dispatch, At, Goto, enqueue_dir, dequeue_thread, mutexVars, countVars, streamVars, outVars, Running
    <2>2. Counted' = Counted
      BY <2>1
    <2> QED BY <2>1, <2>2
  <1>30. ASSUME NEW t \in Thread, DispatchFails(t) PROVE CountedInv'
    BY <1>30 DEF DispatchFails, At, Fail, Fault, queueVars, localVars,
        streamVars, outVars, Running, Goto
  <1>31. ASSUME NEW t \in Thread, Assign(t) PROVE CountedInv'
    <2>1. /\ pc[t] = "assign" /\ pc' = [pc EXCEPT ![t] = "signal"]
          /\ entry' = [entry EXCEPT ![next_thread[t]] = new_dir[t]]
          /\ UNCHANGED threads_initialized
      BY <1>31 DEF Assign, At, Goto, countVars
    <2>2. next_thread[t] \in Thread /\ pc[next_thread[t]] = "sleep"
      BY <2>1 DEF QueueInv, HandOver
    <2>3. \A u \in Thread : pc[u] # "sleep" => entry'[u] = entry[u]
      BY <2>1, <2>2
    <2>4. Counted' = Counted
      BY <2>1, <2>3
    <2> QED BY <2>1, <2>4
  <1>32. ASSUME NEW t \in Thread, Signal(t) PROVE CountedInv'
    <2>1. /\ pc[t] = "signal" /\ UNCHANGED <<entry, threads_initialized>>
          /\ \A u \in Thread : \/ pc'[u] = pc[u]
                               \/ pc[u] \in {"signal", "sleep"} /\ pc'[u] \in {"scan", "woken"}
      BY <1>32 DEF Signal, At, countVars
    <2>2. Counted' = Counted
      BY <2>1
    <2> QED BY <2>1, <2>2
  <1>33. ASSUME NEW t \in Thread, EndOfDir(t) PROVE CountedInv'
    <2>1. /\ pc[t] = "scan" /\ (pc' = [pc EXCEPT ![t] = "failed"] \/ pc' = [pc EXCEPT ![t] = "get_next"])
          /\ entry' = entry
          /\ UNCHANGED threads_initialized
      BY <1>33 DEF EndOfDir, At, Goto, Fail, mutexVars, countVars, queueVars, localVars, streamVars, outVars, Running
    <2>2. Counted' = Counted
      BY <2>1
    <2> QED BY <2>1, <2>2
  <1>34. ASSUME NEW t \in Thread, ReaddirFails(t) PROVE CountedInv'
    BY ZenonT(40), <1>34 DEF ReaddirFails, At, Fail, Fault, readdir, mutexVars, queueVars,
        localVars, streamVars, outVars, Running, Goto
  <1>35. ASSUME NEW t \in Thread, Failed(t) PROVE CountedInv'
    <2>1. /\ pc[t] = "failed" /\ pc' = [pc EXCEPT ![t] = "exited"] /\ entry' = entry
          /\ UNCHANGED threads_initialized
      BY <1>35 DEF Failed, At, Goto, SignalMain, mutexVars, countVars, queueVars, localVars, streamVars, outVars, Running
    <2>2. Counted' = Counted
      BY <2>1
    <2> QED BY <2>1, <2>2
  <1>36. CASE UNCHANGED vars
    BY <1>36 DEF vars, mutexVars, countVars, queueVars, localVars, streamVars,
        outVars
  <1> QED
    BY <1>1, <1>2, <1>3, <1>4, <1>5, <1>6, <1>7, <1>8, <1>9, <1>10, <1>11,
        <1>12, <1>13, <1>14, <1>15, <1>16, <1>17, <1>18, <1>19, <1>20, <1>21,
        <1>22, <1>23, <1>24, <1>25, <1>26, <1>27, <1>28, <1>29, <1>30, <1>31,
        <1>32, <1>33, <1>34, <1>35, <1>36
       DEF Next, MainStep, ThreadStep, Terminated

\* thread_q->len is the number of different threads in the queue.
LEMMA QueueLenInvStep ==
    ASSUME TypeOK, TypeOK', ThreadInv, QueueInv, DoneInv, QueueLenInv, [Next]_vars
    PROVE  QueueLenInv'
  <1> USE ThreadsAssumption DEF TypeOK, QueueLenInv
  <1>1. CASE Setup
    BY <1>1 DEF Setup, opendir, enqueue_dir, mutexVars, countVars, localVars,
        outVars, CanOpen
  <1>2. CASE SetupDenied
    BY <1>2 DEF SetupDenied, opendirFails, Exit, mutexVars, queueVars,
        localVars, streamVars, Fault, opendir, CanOpen
  <1>3. CASE SetupNoMemory
    BY <1>3 DEF SetupNoMemory, Fault, opendir, Exit, mutexVars, queueVars,
        localVars, CanOpen
  <1>4. CASE CreateThread
    BY <1>4 DEF CreateThread, Created, mutexVars, countVars, queueVars,
        localVars, streamVars, outVars
  <1>5. CASE MainFails
    BY <1>5 DEF MainFails, Created, Fault, Exit, mutexVars, queueVars,
        localVars, streamVars
  <1>6. CASE LockInitializer
    BY <1>6 DEF LockInitializer, Created, countVars, queueVars, localVars,
        streamVars, outVars
  <1>7. CASE CreateLast
    BY <1>7 DEF CreateLast, Created, mutexVars, countVars, queueVars, localVars,
        streamVars, outVars
  <1>8. CASE WaitInitialized
    BY <1>8 DEF WaitInitialized, countVars, queueVars, localVars, streamVars,
        outVars
  <1>9. CASE Initialized
    BY <1>9 DEF Initialized, Exit, mutexVars, countVars, queueVars, localVars,
        streamVars
  <1>10. CASE LockQueues
    BY <1>10 DEF LockQueues, countVars, queueVars, localVars, streamVars,
        outVars
  <1>11. CASE Broadcast
    BY <1>11 DEF Broadcast, mutexVars, countVars, queueVars, localVars,
        streamVars, outVars
  <1>12. CASE WaitAllSleep
    BY <1>12 DEF WaitAllSleep, countVars, queueVars, localVars, streamVars,
        outVars
  <1>13. CASE AllAsleep
    BY <1>13 DEF AllAsleep, Exit, mutexVars, countVars, queueVars, localVars,
        streamVars
  <1>14. CASE WakeNext
    BY <1>14 DEF WakeNext, mutexVars, countVars, queueVars, localVars,
        streamVars, outVars
  <1>15. CASE WakeEnd
    BY <1>15 DEF WakeEnd, mutexVars, countVars, queueVars, localVars,
        streamVars, outVars
  <1>16. CASE Join
    BY <1>16 DEF Join, Exit, mutexVars, countVars, queueVars, localVars,
        streamVars
  <1>17. ASSUME NEW t \in Thread, AllocEntry(t) PROVE QueueLenInv'
    BY <1>17 DEF AllocEntry, At, Goto, mutexVars, countVars, queueVars,
        localVars, streamVars, outVars, Running
  <1>18. ASSUME NEW t \in Thread, AllocEntryFails(t) PROVE QueueLenInv'
    BY <1>18 DEF AllocEntryFails, At, Fail, Fault, mutexVars, queueVars,
        localVars, streamVars, outVars, Running, Goto
  <1>19. ASSUME NEW t \in Thread, InitFailed(t) PROVE QueueLenInv'
    BY <1>19 DEF InitFailed, At, Goto, SignalMain, mutexVars, countVars,
        queueVars, localVars, streamVars, outVars, Running
  <1>20. ASSUME NEW t \in Thread, WaitStart(t) PROVE QueueLenInv'
    BY <1>20 DEF WaitStart, At, Goto, SignalMain, LastInitialized, mutexVars,
        queueVars, localVars, streamVars, outVars, Running
  <1>21. ASSUME NEW t \in Thread, Start(t) PROVE QueueLenInv'
    BY <1>21 DEF Start, At, Goto, mutexVars, countVars, queueVars, localVars,
        streamVars, outVars, Running
  <1>22. ASSUME NEW t \in Thread, TakeDir(t) PROVE QueueLenInv'
    BY <1>22 DEF TakeDir, At, Goto, dequeue_dir, mutexVars, countVars,
        localVars, streamVars, outVars, Running
  <1>23. ASSUME NEW t \in Thread, Sleep(t) PROVE QueueLenInv'
    <2>a. t \notin Range(thread_q)
      BY <1>23 DEF Sleep, At, QueueInv, QueuedAsleep, DoneInv, DoneQuiescent
    <2>1. t \notin Range(thread_q) /\ Range(thread_q) \subseteq Thread
      BY <2>a DEF Range
    <2>2. thread_q' = Append(thread_q, t)
      BY <1>23 DEF Sleep, enqueue_thread
    <2>3. Range(thread_q') = Range(thread_q) \cup {t} /\ Len(thread_q') = Len(thread_q) + 1
      BY <2>2, RangeAppend
    <2>4. Cardinality(Range(thread_q')) = Cardinality(Range(thread_q)) + 1
      BY <2>1, <2>3, ThreadSets
    <2> QED BY <2>3, <2>4
  <1>24. ASSUME NEW t \in Thread, WakeUp(t) PROVE QueueLenInv'
    BY <1>24 DEF WakeUp, At, Goto, mutexVars, countVars, queueVars, localVars,
        streamVars, outVars, Running
  <1>25. ASSUME NEW t \in Thread, NEW e \in Entry, StatFails(t, e) PROVE QueueLenInv'
    BY <1>25 DEF StatFails, Fault, Fail, readdir, Consumed, mutexVars, queueVars,
        localVars, outVars, Goto, At, Running
  <1>26. ASSUME NEW t \in Thread, NEW e \in Entry, ScanFile(t, e) PROVE QueueLenInv'
    BY <1>26 DEF ScanFile, readdir, Consumed, mutexVars, countVars, queueVars,
        localVars, At, Running
  <1>27. ASSUME NEW t \in Thread, NEW e \in Entry, ScanDenied(t, e) PROVE QueueLenInv'
    BY <1>27 DEF ScanDenied, opendirFails, readdir, Consumed, mutexVars,
        countVars, queueVars, localVars, Fault, opendir, CanOpen, At, Running
  <1>28. ASSUME NEW t \in Thread, NEW e \in Entry, ScanDir(t, e) PROVE QueueLenInv'
    BY <1>28 DEF ScanDir, Goto, CanOpen, readdir, Consumed, mutexVars,
        countVars, queueVars, outVars, At, Running
  <1>29. ASSUME NEW t \in Thread, Dispatch(t) PROVE QueueLenInv'
    <2>1. CASE thread_q # <<>>
      <3> DEFINE v == Head(thread_q)
      <3>1. thread_q' = Tail(thread_q)
        BY <1>29, <2>1 DEF Dispatch, dequeue_thread
      <3>2. v \in Range(thread_q) /\ Range(Tail(thread_q)) = Range(thread_q) \ {v}
        BY <2>1, RangeTail DEF QueueInv
      <3>3. Len(Tail(thread_q)) = Len(thread_q) - 1 /\ v \in Thread
        BY <2>1
      <3>4. Range(thread_q) \subseteq Thread
        BY DEF Range
      <3>5. Range(thread_q) = Range(Tail(thread_q)) \cup {v} /\ v \notin Range(Tail(thread_q))
        BY <3>2
      <3>6. /\ Cardinality(Range(thread_q)) = Cardinality(Range(Tail(thread_q))) + 1
            /\ Cardinality(Range(Tail(thread_q))) \in Nat
        BY <3>2, <3>3, <3>4, <3>5, ThreadSets
      <3> QED BY <3>1, <3>3, <3>6
    <2>2. CASE thread_q = <<>>
      BY <1>29, <2>2 DEF Dispatch
    <2> QED BY <2>1, <2>2
  <1>30. ASSUME NEW t \in Thread, DispatchFails(t) PROVE QueueLenInv'
    BY <1>30 DEF DispatchFails, At, Fail, Fault, queueVars, localVars,
        streamVars, outVars, Running, Goto
  <1>31. ASSUME NEW t \in Thread, Assign(t) PROVE QueueLenInv'
    BY <1>31 DEF Assign, At, Goto, mutexVars, countVars, queueVars, streamVars,
        outVars, Running
  <1>32. ASSUME NEW t \in Thread, Signal(t) PROVE QueueLenInv'
    BY <1>32 DEF Signal, At, mutexVars, countVars, queueVars, streamVars,
        outVars, Running
  <1>33. ASSUME NEW t \in Thread, EndOfDir(t) PROVE QueueLenInv'
    BY <1>33 DEF EndOfDir, At, Goto, Fail, mutexVars, countVars, queueVars,
        localVars, streamVars, outVars, Running
  <1>34. ASSUME NEW t \in Thread, ReaddirFails(t) PROVE QueueLenInv'
    BY <1>34 DEF ReaddirFails, At, Fail, Fault, readdir, mutexVars, queueVars,
        localVars, streamVars, outVars, Running, Goto
  <1>35. ASSUME NEW t \in Thread, Failed(t) PROVE QueueLenInv'
    BY <1>35 DEF Failed, At, Goto, SignalMain, mutexVars, countVars, queueVars,
        localVars, streamVars, outVars, Running
  <1>36. CASE UNCHANGED vars
    BY <1>36 DEF vars, mutexVars, countVars, queueVars, localVars, streamVars,
        outVars
  <1> QED
    BY <1>1, <1>2, <1>3, <1>4, <1>5, <1>6, <1>7, <1>8, <1>9, <1>10, <1>11,
        <1>12, <1>13, <1>14, <1>15, <1>16, <1>17, <1>18, <1>19, <1>20, <1>21,
        <1>22, <1>23, <1>24, <1>25, <1>26, <1>27, <1>28, <1>29, <1>30, <1>31,
        <1>32, <1>33, <1>34, <1>35, <1>36
       DEF Next, MainStep, ThreadStep, Terminated

\* threads_failed counts threads that never run again (lines 123, 223, 273).
LEMMA DeadInvStep ==
    ASSUME TypeOK, TypeOK', DeadInv, [Next]_vars
    PROVE  DeadInv'
  <1> USE ThreadsAssumption DEF TypeOK, DeadInv, Dead, Running
  <1>1. CASE Setup
    BY <1>1 DEF Setup, opendir, enqueue_dir, mutexVars, countVars, localVars,
        outVars, CanOpen
  <1>2. CASE SetupDenied
    BY <1>2 DEF SetupDenied, opendirFails, Exit, mutexVars, queueVars,
        localVars, streamVars, Fault, opendir, CanOpen
  <1>3. CASE SetupNoMemory
    BY <1>3 DEF SetupNoMemory, Fault, opendir, Exit, mutexVars, queueVars,
        localVars, CanOpen
  <1>4. CASE CreateThread
    BY <1>4 DEF CreateThread, Created, mutexVars, countVars, queueVars,
        localVars, streamVars, outVars
  <1>5. CASE MainFails
    BY <1>5 DEF MainFails, Created, Fault, Exit, mutexVars, queueVars,
        localVars, streamVars
  <1>6. CASE LockInitializer
    BY <1>6 DEF LockInitializer, Created, countVars, queueVars, localVars,
        streamVars, outVars
  <1>7. CASE CreateLast
    BY <1>7 DEF CreateLast, Created, mutexVars, countVars, queueVars, localVars,
        streamVars, outVars
  <1>8. CASE WaitInitialized
    BY <1>8 DEF WaitInitialized, countVars, queueVars, localVars, streamVars,
        outVars
  <1>9. CASE Initialized
    BY <1>9 DEF Initialized, Exit, mutexVars, countVars, queueVars, localVars,
        streamVars
  <1>10. CASE LockQueues
    BY <1>10 DEF LockQueues, countVars, queueVars, localVars, streamVars,
        outVars
  <1>11. CASE Broadcast
    BY <1>11 DEF Broadcast, mutexVars, countVars, queueVars, localVars,
        streamVars, outVars
  <1>12. CASE WaitAllSleep
    BY <1>12 DEF WaitAllSleep, countVars, queueVars, localVars, streamVars,
        outVars
  <1>13. CASE AllAsleep
    BY <1>13 DEF AllAsleep, Exit, mutexVars, countVars, queueVars, localVars,
        streamVars
  <1>14. CASE WakeNext
    BY <1>14 DEF WakeNext, mutexVars, countVars, queueVars, localVars,
        streamVars, outVars
  <1>15. CASE WakeEnd
    BY <1>15 DEF WakeEnd, mutexVars, countVars, queueVars, localVars,
        streamVars, outVars
  <1>16. CASE Join
    BY <1>16 DEF Join, Exit, mutexVars, countVars, queueVars, localVars,
        streamVars
  <1>17. ASSUME NEW t \in Thread, AllocEntry(t) PROVE DeadInv'
    BY <1>17 DEF AllocEntry, At, Goto, mutexVars, countVars, queueVars,
        localVars, streamVars, outVars, Running
  <1>18. ASSUME NEW t \in Thread, AllocEntryFails(t) PROVE DeadInv'
    <2>1. /\ pc[t] = "start" /\ pc' = [pc EXCEPT ![t] = "init_failed"] /\ Running
          /\ threads_failed' = threads_failed + 1
      BY <1>18 DEF AllocEntryFails, At, Fail, Fault, mutexVars, queueVars,
          localVars, streamVars, outVars, Running, Goto
    <2>2. t \notin Dead /\ Dead' = Dead \cup {t}
      BY <2>1
    <2>3. Cardinality(Dead') = Cardinality(Dead) + 1 /\ Cardinality(Dead) \in Nat
      BY <2>2, ThreadSets
    <2> QED BY <2>1, <2>3
  <1>19. ASSUME NEW t \in Thread, InitFailed(t) PROVE DeadInv'
    BY <1>19 DEF InitFailed, At, Goto, SignalMain, mutexVars, countVars,
        queueVars, localVars, streamVars, outVars, Running
  <1>20. ASSUME NEW t \in Thread, WaitStart(t) PROVE DeadInv'
    BY <1>20 DEF WaitStart, At, Goto, SignalMain, LastInitialized, mutexVars,
        queueVars, localVars, streamVars, outVars, Running
  <1>21. ASSUME NEW t \in Thread, Start(t) PROVE DeadInv'
    BY <1>21 DEF Start, At, Goto, mutexVars, countVars, queueVars, localVars,
        streamVars, outVars, Running
  <1>22. ASSUME NEW t \in Thread, TakeDir(t) PROVE DeadInv'
    BY <1>22 DEF TakeDir, At, Goto, dequeue_dir, mutexVars, countVars,
        localVars, streamVars, outVars, Running
  <1>23. ASSUME NEW t \in Thread, Sleep(t) PROVE DeadInv'
    BY <1>23 DEF Sleep, At, Goto, SignalMain, enqueue_thread, EverybodySleeps,
        mutexVars, countVars, localVars, streamVars, outVars, Running
  <1>24. ASSUME NEW t \in Thread, WakeUp(t) PROVE DeadInv'
    <2>1. /\ pc[t] = "woken" /\ Running
          /\ pc' = [pc EXCEPT ![t] = "scan"] \/ pc' = [pc EXCEPT ![t] = "exited"]
          /\ threads_failed' = threads_failed
      BY <1>24 DEF WakeUp, At, Goto, mutexVars, countVars, queueVars, localVars,
          streamVars, outVars, Running
    <2>2. Dead \subseteq Dead'
      BY <2>1
    <2>3. Cardinality(Dead) <= Cardinality(Dead')
      BY <2>2, ThreadSets, FS_Subset
    <2>4. Cardinality(Dead') \in Nat /\ Cardinality(Dead) \in Nat
      BY ThreadSets
    <2> QED BY <2>1, <2>3, <2>4
  <1>25. ASSUME NEW t \in Thread, NEW e \in Entry, StatFails(t, e) PROVE DeadInv'
    <2>1. /\ pc[t] = "scan" /\ pc' = [pc EXCEPT ![t] = "failed"] /\ Running
          /\ threads_failed' = threads_failed + 1
      BY <1>25 DEF StatFails, Fault, Fail, readdir, Consumed, mutexVars, queueVars,
          localVars, outVars, Goto, At, Running
    <2>2. t \notin Dead /\ Dead' = Dead \cup {t}
      BY <2>1
    <2>3. Cardinality(Dead') = Cardinality(Dead) + 1 /\ Cardinality(Dead) \in Nat
      BY <2>2, ThreadSets
    <2> QED BY <2>1, <2>3
  <1>26. ASSUME NEW t \in Thread, NEW e \in Entry, ScanFile(t, e) PROVE DeadInv'
    BY <1>26 DEF ScanFile, readdir, Consumed, mutexVars, countVars, queueVars,
        localVars, At, Running
  <1>27. ASSUME NEW t \in Thread, NEW e \in Entry, ScanDenied(t, e) PROVE DeadInv'
    BY <1>27 DEF ScanDenied, opendirFails, readdir, Consumed, mutexVars,
        countVars, queueVars, localVars, Fault, opendir, CanOpen, At, Running
  <1>28. ASSUME NEW t \in Thread, NEW e \in Entry, ScanDir(t, e) PROVE DeadInv'
    BY ZenonT(40), <1>28 DEF ScanDir, Goto, CanOpen, readdir, Consumed, mutexVars,
        countVars, queueVars, outVars, At, Running
  <1>29. ASSUME NEW t \in Thread, Dispatch(t) PROVE DeadInv'
    BY <1>29 DEF Dispatch, At, Goto, enqueue_dir, dequeue_thread, mutexVars,
        countVars, streamVars, outVars, Running
  <1>30. ASSUME NEW t \in Thread, DispatchFails(t) PROVE DeadInv'
    <2>1. /\ pc[t] = "new_dir" /\ pc' = [pc EXCEPT ![t] = "failed"] /\ Running
          /\ threads_failed' = threads_failed + 1
      BY <1>30 DEF DispatchFails, At, Fail, Fault, queueVars, localVars,
          streamVars, outVars, Running, Goto
    <2>2. t \notin Dead /\ Dead' = Dead \cup {t}
      BY <2>1
    <2>3. Cardinality(Dead') = Cardinality(Dead) + 1 /\ Cardinality(Dead) \in Nat
      BY <2>2, ThreadSets
    <2> QED BY <2>1, <2>3
  <1>31. ASSUME NEW t \in Thread, Assign(t) PROVE DeadInv'
    BY <1>31 DEF Assign, At, Goto, mutexVars, countVars, queueVars, streamVars,
        outVars, Running
  <1>32. ASSUME NEW t \in Thread, Signal(t) PROVE DeadInv'
    BY <1>32 DEF Signal, At, mutexVars, countVars, queueVars, streamVars,
        outVars, Running
  <1>33. ASSUME NEW t \in Thread, EndOfDir(t) PROVE DeadInv'
    <2>1. /\ pc[t] = "scan" /\ Running
          /\ \/ pc' = [pc EXCEPT ![t] = "failed"] /\ threads_failed' = threads_failed + 1
             \/ pc' = [pc EXCEPT ![t] = "get_next"] /\ threads_failed' = threads_failed
      BY <1>33 DEF EndOfDir, At, Goto, Fail, mutexVars, countVars, queueVars,
          localVars, streamVars, outVars, Running
    <2>2. t \notin Dead /\ Cardinality(Dead) \in Nat
      BY <2>1, ThreadSets
    <2>3. CASE threads_failed' = threads_failed
      <3>1. pc' = [pc EXCEPT ![t] = "get_next"]
        BY <2>1, <2>3
      <3>2. Dead' = Dead
        BY <2>1, <3>1
      <3> QED BY <2>1, <2>3, <3>2
    <2>4. CASE threads_failed' = threads_failed + 1
      <3>1. pc' = [pc EXCEPT ![t] = "failed"]
        BY <2>1, <2>4
      <3>2. Dead' = Dead \cup {t}
        BY <2>1, <3>1
      <3>3. Cardinality(Dead') = Cardinality(Dead) + 1
        BY <2>2, <3>2, ThreadSets
      <3> QED BY <2>1, <2>2, <2>4, <3>3
    <2> QED BY <2>1, <2>3, <2>4
  <1>34. ASSUME NEW t \in Thread, ReaddirFails(t) PROVE DeadInv'
    <2>1. /\ pc[t] = "scan" /\ pc' = [pc EXCEPT ![t] = "failed"] /\ Running
          /\ threads_failed' = threads_failed + 1
      BY <1>34 DEF ReaddirFails, At, Fail, Fault, readdir, mutexVars, queueVars,
          localVars, streamVars, outVars, Running, Goto
    <2>2. t \notin Dead /\ Dead' = Dead \cup {t}
      BY <2>1
    <2>3. Cardinality(Dead') = Cardinality(Dead) + 1 /\ Cardinality(Dead) \in Nat
      BY <2>2, ThreadSets
    <2> QED BY <2>1, <2>3
  <1>35. ASSUME NEW t \in Thread, Failed(t) PROVE DeadInv'
    BY <1>35 DEF Failed, At, Goto, SignalMain, mutexVars, countVars, queueVars,
        localVars, streamVars, outVars, Running
  <1>36. CASE UNCHANGED vars
    BY <1>36 DEF vars, mutexVars, countVars, queueVars, localVars, streamVars,
        outVars
  <1> QED
    BY <1>1, <1>2, <1>3, <1>4, <1>5, <1>6, <1>7, <1>8, <1>9, <1>10, <1>11,
        <1>12, <1>13, <1>14, <1>15, <1>16, <1>17, <1>18, <1>19, <1>20, <1>21,
        <1>22, <1>23, <1>24, <1>25, <1>26, <1>27, <1>28, <1>29, <1>30, <1>31,
        <1>32, <1>33, <1>34, <1>35, <1>36
       DEF Next, MainStep, ThreadStep, Terminated

(***************************************************************************)
(* What the steps that move a directory do, in the terms of the invariant  *)
(***************************************************************************)
\* main() opens the root and queues it before any thread exists.
LEMMA SetupFacts ==
    ASSUME TypeOK, OwnedOpen, UnreadInv, Setup
    PROVE  /\ main_pc = "setup" /\ main_pc' = "create"
           /\ opened = {} /\ opened' = {Root}
           /\ unread' = [unread EXCEPT ![Root] = Contents[Root]]
           /\ Range(dir_q) = {} /\ Range(dir_q)' = {Root} /\ IsInjective(dir_q)'
           /\ \A t \in Thread : entry[t] = Null /\ new_dir[t] = Null
           /\ UNCHANGED <<entry, new_dir, pc>>
  <1>1. /\ main_pc = "setup" /\ main_pc' = "create" /\ opened = {} /\ opened' = {Root}
        /\ unread' = [unread EXCEPT ![Root] = Contents[Root]]
        /\ dir_q' = Append(dir_q, Root) /\ UNCHANGED <<entry, new_dir, pc>>
    BY DEF Setup, opendir, enqueue_dir, localVars, UnreadInv
  <1>2. Range(dir_q) = {} /\ \A t \in Thread : entry[t] = Null /\ new_dir[t] = Null
    BY <1>1 DEF OwnedOpen
  <1>3. IsInjective(dir_q)
    BY <1>2 DEF IsInjective, Range
  <1>4. Root \in Dir /\ dir_q \in Seq(Dir)
    BY TreeAssumption DEF TypeOK
  <1>5. Range(Append(dir_q, Root)) = {Root} /\ IsInjective(Append(dir_q, Root))
    BY <1>2, <1>3, <1>4, RangeAppend
  <1> QED BY <1>1, <1>2, <1>5

\* A thread that takes a directory becomes its only owner (lines 151, 283).
LEMMA TakeDirFacts ==
    ASSUME TypeOK, SingleOwner, NEW t \in Thread, TakeDir(t)
    PROVE  /\ pc[t] \in {"first_dequeue", "get_next"} /\ main_pc # "exited"
           /\ UNCHANGED <<main_pc, new_dir, next_thread, thread_q, opened, unread, done>>
           /\ \/ /\ dir_q # <<>> /\ Head(dir_q) \in Dir /\ Head(dir_q) \in Range(dir_q)
                 /\ Range(dir_q)' = Range(dir_q) \ {Head(dir_q)} /\ IsInjective(dir_q)'
                 /\ entry' = [entry EXCEPT ![t] = Head(dir_q)]
                 /\ pc' = [pc EXCEPT ![t] = "scan"]
              \/ /\ dir_q = <<>> /\ UNCHANGED <<dir_q, entry>>
                 /\ pc' = [pc EXCEPT ![t] = "enqueue"]
  <1>1. /\ pc[t] \in {"first_dequeue", "get_next"} /\ main_pc # "exited"
        /\ UNCHANGED <<main_pc, new_dir, next_thread, thread_q, opened, unread, done>>
    BY DEF TakeDir, At, Running, localVars, streamVars
  <1>2. CASE dir_q # <<>>
    <2>1. /\ dir_q' = Tail(dir_q)
          /\ entry' = [entry EXCEPT ![t] = Head(dir_q)]
          /\ pc' = [pc EXCEPT ![t] = "scan"]
      BY <1>2 DEF TakeDir, Goto, dequeue_dir
    <2>2. Head(dir_q) \in Dir /\ dir_q \in Seq(Dir)
      BY <1>2 DEF TypeOK
    <2>3. /\ Head(dir_q) \in Range(dir_q) /\ IsInjective(Tail(dir_q))
          /\ Range(Tail(dir_q)) = Range(dir_q) \ {Head(dir_q)}
      BY <1>2, <2>2, RangeTail DEF SingleOwner
    <2> QED BY <1>1, <1>2, <2>1, <2>2, <2>3
  <1>3. CASE dir_q = <<>>
    BY <1>1, <1>3 DEF TakeDir, Goto
  <1> QED BY <1>2, <1>3

\* new_dir goes to the queue, or stays with the thread that found a sleeper
\* (lines 243-249).
LEMMA DispatchFacts ==
    ASSUME TypeOK, ThreadInv, SingleOwner, NEW t \in Thread, Dispatch(t)
    PROVE  /\ pc[t] = "new_dir" /\ new_dir[t] \in Dir /\ main_pc # "exited"
           /\ UNCHANGED <<main_pc, entry, opened, unread, done>>
           /\ \/ /\ UNCHANGED <<dir_q, new_dir>>
                 /\ pc' = [pc EXCEPT ![t] = "assign"]
              \/ /\ dir_q' # <<>>
                 /\ Range(dir_q)' = Range(dir_q) \cup {new_dir[t]} /\ IsInjective(dir_q)'
                 /\ new_dir' = [new_dir EXCEPT ![t] = Null]
                 /\ pc' = [pc EXCEPT ![t] = "scan"] /\ UNCHANGED thread_q
  <1>1. /\ pc[t] = "new_dir" /\ main_pc # "exited"
        /\ UNCHANGED <<main_pc, entry, opened, unread, done>>
    BY DEF Dispatch, At, Running, streamVars
  <1>2. new_dir[t] \in Dir
    BY <1>1 DEF TypeOK, ThreadInv
  <1>3. CASE thread_q # <<>>
    BY <1>1, <1>2, <1>3 DEF Dispatch, Goto
  <1>4. CASE thread_q = <<>>
    <2>1. /\ dir_q' = Append(dir_q, new_dir[t]) /\ UNCHANGED thread_q
          /\ new_dir' = [new_dir EXCEPT ![t] = Null]
          /\ pc' = [pc EXCEPT ![t] = "scan"]
      BY <1>4 DEF Dispatch, Goto, enqueue_dir
    <2>2. IsInjective(dir_q) /\ new_dir[t] \notin Range(dir_q) /\ dir_q \in Seq(Dir)
      BY <1>1 DEF SingleOwner, TypeOK
    <2>3. /\ Range(Append(dir_q, new_dir[t])) = Range(dir_q) \cup {new_dir[t]}
          /\ IsInjective(Append(dir_q, new_dir[t]))
      BY <1>2, <2>2, RangeAppend
    <2>4. Append(dir_q, new_dir[t]) # <<>>
      BY <1>2, <2>2
    <2> QED BY <1>1, <1>2, <2>1, <2>3, <2>4
  <1> QED BY <1>3, <1>4

\* The directory moves from new_dir to the entry of a sleeping thread that had
\* none (line 252).
LEMMA AssignFacts ==
    ASSUME TypeOK, ThreadInv, QueueInv, NEW t \in Thread, Assign(t)
    PROVE  /\ next_thread[t] \in Thread \ {t} /\ pc[next_thread[t]] = "sleep"
           /\ entry[next_thread[t]] = Null /\ new_dir[t] \in Dir /\ pc[t] = "assign"
           /\ entry' = [entry EXCEPT ![next_thread[t]] = new_dir[t]]
           /\ new_dir' = [new_dir EXCEPT ![t] = Null]
           /\ pc' = [pc EXCEPT ![t] = "signal"]
           /\ UNCHANGED <<main_pc, dir_q, thread_q, opened, unread, done>>
  <1>1. /\ entry' = [entry EXCEPT ![next_thread[t]] = new_dir[t]]
        /\ new_dir' = [new_dir EXCEPT ![t] = Null]
        /\ pc' = [pc EXCEPT ![t] = "signal"] /\ pc[t] = "assign"
        /\ UNCHANGED <<main_pc, dir_q, thread_q, opened, unread, done>>
    BY DEF Assign, At, Goto, queueVars, streamVars
  <1>2. new_dir[t] \in Dir /\ next_thread[t] \in Thread
    BY <1>1, ThreadsAssumption DEF TypeOK, ThreadInv
  <1>3. pc[next_thread[t]] = "sleep" /\ entry[next_thread[t]] = Null /\ next_thread[t] # t
    BY <1>1, <1>2, ThreadsAssumption DEF QueueInv, HandOver
  <1> QED BY <1>1, <1>2, <1>3

\* A directory is opened once: it is read from one parent only (line 234).
LEMMA ScanDirFacts ==
    ASSUME TypeOK, OwnedOpen, UnreadInv, NEW t \in Thread, NEW e \in Entry, ScanDir(t, e)
    PROVE  /\ entry[t] \in opened /\ entry[t] \in Dir /\ pc[t] = "scan" /\ main_pc # "exited"
           /\ e \in Dir \ opened /\ e \in unread[entry[t]] /\ e \in Contents[entry[t]]
           /\ e # entry[t] /\ e # Root /\ e \notin Denied
           /\ opened' = opened \cup {e}
           /\ unread' = [unread EXCEPT ![entry[t]] = unread[entry[t]] \ {e}, ![e] = Contents[e]]
           /\ new_dir' = [new_dir EXCEPT ![t] = e]
           /\ pc' = [pc EXCEPT ![t] = "new_dir"]
           /\ UNCHANGED <<main_pc, entry, dir_q, thread_q, done>>
  <1>1. /\ pc[t] = "scan" /\ entry[t] # Null /\ e \in unread[entry[t]] /\ main_pc # "exited"
        /\ e \in Dir /\ e \notin Denied
        /\ opened' = opened \cup {e}
        /\ unread' = [Consumed(t, e) EXCEPT ![e] = Contents[e]]
        /\ new_dir' = [new_dir EXCEPT ![t] = e]
        /\ pc' = [pc EXCEPT ![t] = "new_dir"]
        /\ UNCHANGED <<main_pc, entry, dir_q, thread_q, done>>
    BY DEF ScanDir, readdir, At, Running, Goto, CanOpen, queueVars
  <1>2. entry[t] \in opened /\ entry[t] \in Dir
    BY <1>1 DEF TypeOK, OwnedOpen
  <1>3. e \in Contents[entry[t]] /\ e \notin opened /\ e # Root
    BY <1>1, <1>2, TreeAssumption DEF UnreadInv
  <1>4. unread' = [unread EXCEPT ![entry[t]] = unread[entry[t]] \ {e}, ![e] = Contents[e]]
    BY <1>1, <1>2, <1>3 DEF Consumed
  <1> QED BY <1>1, <1>2, <1>3, <1>4

\* No entry is read twice and no directory is opened before its parent.
LEMMA UnreadInvStep ==
    ASSUME TypeOK, TypeOK', OwnedOpen, UnreadInv, [Next]_vars
    PROVE  UnreadInv'
  <1> USE TreeAssumption DEF TypeOK, UnreadInv
  <1>1. CASE Setup
    BY <1>1 DEF Setup, opendir, enqueue_dir, mutexVars, countVars, localVars,
        outVars, CanOpen
  <1>2. CASE SetupDenied
    BY <1>2 DEF SetupDenied, opendirFails, Exit, mutexVars, queueVars,
        localVars, streamVars, Fault, opendir, CanOpen
  <1>3. CASE SetupNoMemory
    BY <1>3 DEF SetupNoMemory, Fault, opendir, Exit, mutexVars, queueVars,
        localVars, CanOpen
  <1>4. CASE CreateThread
    BY <1>4 DEF CreateThread, Created, mutexVars, countVars, queueVars,
        localVars, streamVars, outVars
  <1>5. CASE MainFails
    BY <1>5 DEF MainFails, Created, Fault, Exit, mutexVars, queueVars,
        localVars, streamVars
  <1>6. CASE LockInitializer
    BY <1>6 DEF LockInitializer, Created, countVars, queueVars, localVars,
        streamVars, outVars
  <1>7. CASE CreateLast
    BY <1>7 DEF CreateLast, Created, mutexVars, countVars, queueVars, localVars,
        streamVars, outVars
  <1>8. CASE WaitInitialized
    BY <1>8 DEF WaitInitialized, countVars, queueVars, localVars, streamVars,
        outVars
  <1>9. CASE Initialized
    BY <1>9 DEF Initialized, Exit, mutexVars, countVars, queueVars, localVars,
        streamVars
  <1>10. CASE LockQueues
    BY <1>10 DEF LockQueues, countVars, queueVars, localVars, streamVars,
        outVars
  <1>11. CASE Broadcast
    BY <1>11 DEF Broadcast, mutexVars, countVars, queueVars, localVars,
        streamVars, outVars
  <1>12. CASE WaitAllSleep
    BY <1>12 DEF WaitAllSleep, countVars, queueVars, localVars, streamVars,
        outVars
  <1>13. CASE AllAsleep
    BY <1>13 DEF AllAsleep, Exit, mutexVars, countVars, queueVars, localVars,
        streamVars
  <1>14. CASE WakeNext
    BY <1>14 DEF WakeNext, mutexVars, countVars, queueVars, localVars,
        streamVars, outVars
  <1>15. CASE WakeEnd
    BY <1>15 DEF WakeEnd, mutexVars, countVars, queueVars, localVars,
        streamVars, outVars
  <1>16. CASE Join
    BY <1>16 DEF Join, Exit, mutexVars, countVars, queueVars, localVars,
        streamVars
  <1>17. ASSUME NEW t \in Thread, AllocEntry(t) PROVE UnreadInv'
    BY <1>17 DEF AllocEntry, At, Goto, mutexVars, countVars, queueVars,
        localVars, streamVars, outVars, Running
  <1>18. ASSUME NEW t \in Thread, AllocEntryFails(t) PROVE UnreadInv'
    BY <1>18 DEF AllocEntryFails, At, Fail, Fault, mutexVars, queueVars,
        localVars, streamVars, outVars, Running, Goto
  <1>19. ASSUME NEW t \in Thread, InitFailed(t) PROVE UnreadInv'
    BY <1>19 DEF InitFailed, At, Goto, SignalMain, mutexVars, countVars,
        queueVars, localVars, streamVars, outVars, Running
  <1>20. ASSUME NEW t \in Thread, WaitStart(t) PROVE UnreadInv'
    BY <1>20 DEF WaitStart, At, Goto, SignalMain, LastInitialized, mutexVars,
        queueVars, localVars, streamVars, outVars, Running
  <1>21. ASSUME NEW t \in Thread, Start(t) PROVE UnreadInv'
    BY <1>21 DEF Start, At, Goto, mutexVars, countVars, queueVars, localVars,
        streamVars, outVars, Running
  <1>22. ASSUME NEW t \in Thread, TakeDir(t) PROVE UnreadInv'
    BY <1>22 DEF TakeDir, At, Goto, dequeue_dir, mutexVars, countVars,
        localVars, streamVars, outVars, Running
  <1>23. ASSUME NEW t \in Thread, Sleep(t) PROVE UnreadInv'
    BY <1>23 DEF Sleep, At, Goto, SignalMain, enqueue_thread, EverybodySleeps,
        mutexVars, countVars, localVars, streamVars, outVars, Running
  <1>24. ASSUME NEW t \in Thread, WakeUp(t) PROVE UnreadInv'
    BY <1>24 DEF WakeUp, At, Goto, mutexVars, countVars, queueVars, localVars,
        streamVars, outVars, Running
  <1>25. ASSUME NEW t \in Thread, NEW e \in Entry, StatFails(t, e) PROVE UnreadInv'
    BY <1>25 DEF StatFails, Fault, Fail, readdir, Consumed, mutexVars, queueVars,
        localVars, outVars, Goto, At, Running
  <1>26. ASSUME NEW t \in Thread, NEW e \in Entry, ScanFile(t, e) PROVE UnreadInv'
    BY <1>26 DEF ScanFile, readdir, Consumed, mutexVars, countVars, queueVars,
        localVars, At, Running
  <1>27. ASSUME NEW t \in Thread, NEW e \in Entry, ScanDenied(t, e) PROVE UnreadInv'
    BY <1>27 DEF ScanDenied, opendirFails, readdir, Consumed, mutexVars,
        countVars, queueVars, localVars, Fault, opendir, CanOpen, At, Running
  <1>28. ASSUME NEW t \in Thread, NEW e \in Entry, ScanDir(t, e) PROVE UnreadInv'
    <2> DEFINE d == entry[t]
    <2>1. /\ d \in opened /\ d \in Dir /\ e \in Dir \ opened /\ e \in Contents[d] /\ e # d
          /\ opened' = opened \cup {e} /\ main_pc' = main_pc
          /\ unread' = [unread EXCEPT ![d] = unread[d] \ {e}, ![e] = Contents[e]]
      BY <1>28, ScanDirFacts
    <2> HIDE DEF d
    <2>2. \A c \in Dir \ {d} : e \notin Contents[c]
      BY <2>1
    <2>3. /\ unread'[e] = Contents[e] /\ unread'[d] = unread[d] \ {e}
          /\ \A c \in Dir \ {d, e} : unread'[c] = unread[c]
      BY <2>1
    <2>4. Contents[e] \cap opened' = {}
      BY <2>1, <2>2
    <2>5. \A c \in Dir : unread'[c] \subseteq Contents[c] /\ unread'[c] \cap opened' = {}
      BY <2>1, <2>2, <2>3, <2>4
    <2>6. \A c \in Dir \ opened' : unread'[c] = {} /\ Contents[c] \cap opened' = {}
      <3> SUFFICES ASSUME NEW c \in Dir \ opened'
                   PROVE  unread'[c] = {} /\ Contents[c] \cap opened' = {}
        OBVIOUS
      <3>1. c \notin opened /\ c # e /\ c # d
        BY <2>1
      <3>2. unread'[c] = unread[c] /\ unread[c] = {} /\ Contents[c] \cap opened = {}
        BY <2>3, <3>1
      <3> QED BY <2>1, <2>2, <3>1, <3>2
    <2> QED BY <2>1, <2>5, <2>6
  <1>29. ASSUME NEW t \in Thread, Dispatch(t) PROVE UnreadInv'
    BY <1>29 DEF Dispatch, At, Goto, enqueue_dir, dequeue_thread, mutexVars,
        countVars, streamVars, outVars, Running
  <1>30. ASSUME NEW t \in Thread, DispatchFails(t) PROVE UnreadInv'
    BY <1>30 DEF DispatchFails, At, Fail, Fault, queueVars, localVars,
        streamVars, outVars, Running, Goto
  <1>31. ASSUME NEW t \in Thread, Assign(t) PROVE UnreadInv'
    BY <1>31 DEF Assign, At, Goto, mutexVars, countVars, queueVars, streamVars,
        outVars, Running
  <1>32. ASSUME NEW t \in Thread, Signal(t) PROVE UnreadInv'
    BY <1>32 DEF Signal, At, mutexVars, countVars, queueVars, streamVars,
        outVars, Running
  <1>33. ASSUME NEW t \in Thread, EndOfDir(t) PROVE UnreadInv'
    BY <1>33 DEF EndOfDir, At, Goto, Fail, mutexVars, countVars, queueVars,
        localVars, streamVars, outVars, Running
  <1>34. ASSUME NEW t \in Thread, ReaddirFails(t) PROVE UnreadInv'
    BY <1>34 DEF ReaddirFails, At, Fail, Fault, readdir, mutexVars, queueVars,
        localVars, streamVars, outVars, Running, Goto
  <1>35. ASSUME NEW t \in Thread, Failed(t) PROVE UnreadInv'
    BY <1>35 DEF Failed, At, Goto, SignalMain, mutexVars, countVars, queueVars,
        localVars, streamVars, outVars, Running
  <1>36. CASE UNCHANGED vars
    BY <1>36 DEF vars, mutexVars, countVars, queueVars, localVars, streamVars,
        outVars
  <1> QED
    BY <1>1, <1>2, <1>3, <1>4, <1>5, <1>6, <1>7, <1>8, <1>9, <1>10, <1>11,
        <1>12, <1>13, <1>14, <1>15, <1>16, <1>17, <1>18, <1>19, <1>20, <1>21,
        <1>22, <1>23, <1>24, <1>25, <1>26, <1>27, <1>28, <1>29, <1>30, <1>31,
        <1>32, <1>33, <1>34, <1>35, <1>36
       DEF Next, MainStep, ThreadStep, Terminated

\* dir_q and the entries hold open streams.
LEMMA OwnedOpenStep ==
    ASSUME TypeOK, TypeOK', ThreadInv, QueueInv, OwnedOpen, UnreadInv, SingleOwner, [Next]_vars
    PROVE  OwnedOpen'
  <1> USE TreeAssumption DEF TypeOK, OwnedOpen
  <1>1. CASE Setup
    BY <1>1, SetupFacts
  <1>2. CASE SetupDenied
    BY <1>2 DEF SetupDenied, opendirFails, Exit, mutexVars, queueVars,
        localVars, streamVars, Fault, opendir, CanOpen
  <1>3. CASE SetupNoMemory
    BY <1>3 DEF SetupNoMemory, Fault, opendir, Exit, mutexVars, queueVars,
        localVars, CanOpen
  <1>4. CASE CreateThread
    BY <1>4 DEF CreateThread, Created, mutexVars, countVars, queueVars,
        localVars, streamVars, outVars
  <1>5. CASE MainFails
    BY <1>5 DEF MainFails, Created, Fault, Exit, mutexVars, queueVars,
        localVars, streamVars
  <1>6. CASE LockInitializer
    BY <1>6 DEF LockInitializer, Created, countVars, queueVars, localVars,
        streamVars, outVars
  <1>7. CASE CreateLast
    BY <1>7 DEF CreateLast, Created, mutexVars, countVars, queueVars, localVars,
        streamVars, outVars
  <1>8. CASE WaitInitialized
    BY <1>8 DEF WaitInitialized, countVars, queueVars, localVars, streamVars,
        outVars
  <1>9. CASE Initialized
    BY <1>9 DEF Initialized, Exit, mutexVars, countVars, queueVars, localVars,
        streamVars
  <1>10. CASE LockQueues
    BY <1>10 DEF LockQueues, countVars, queueVars, localVars, streamVars,
        outVars
  <1>11. CASE Broadcast
    BY <1>11 DEF Broadcast, mutexVars, countVars, queueVars, localVars,
        streamVars, outVars
  <1>12. CASE WaitAllSleep
    BY <1>12 DEF WaitAllSleep, countVars, queueVars, localVars, streamVars,
        outVars
  <1>13. CASE AllAsleep
    BY <1>13 DEF AllAsleep, Exit, mutexVars, countVars, queueVars, localVars,
        streamVars
  <1>14. CASE WakeNext
    BY <1>14 DEF WakeNext, mutexVars, countVars, queueVars, localVars,
        streamVars, outVars
  <1>15. CASE WakeEnd
    BY <1>15 DEF WakeEnd, mutexVars, countVars, queueVars, localVars,
        streamVars, outVars
  <1>16. CASE Join
    BY <1>16 DEF Join, Exit, mutexVars, countVars, queueVars, localVars,
        streamVars
  <1>17. ASSUME NEW t \in Thread, AllocEntry(t) PROVE OwnedOpen'
    BY <1>17 DEF AllocEntry, At, Goto, mutexVars, countVars, queueVars,
        localVars, streamVars, outVars, Running
  <1>18. ASSUME NEW t \in Thread, AllocEntryFails(t) PROVE OwnedOpen'
    BY <1>18 DEF AllocEntryFails, At, Fail, Fault, mutexVars, queueVars,
        localVars, streamVars, outVars, Running, Goto
  <1>19. ASSUME NEW t \in Thread, InitFailed(t) PROVE OwnedOpen'
    BY <1>19 DEF InitFailed, At, Goto, SignalMain, mutexVars, countVars,
        queueVars, localVars, streamVars, outVars, Running
  <1>20. ASSUME NEW t \in Thread, WaitStart(t) PROVE OwnedOpen'
    BY <1>20 DEF WaitStart, At, Goto, SignalMain, LastInitialized, mutexVars,
        queueVars, localVars, streamVars, outVars, Running
  <1>21. ASSUME NEW t \in Thread, Start(t) PROVE OwnedOpen'
    BY <1>21 DEF Start, At, Goto, mutexVars, countVars, queueVars, localVars,
        streamVars, outVars, Running
  <1>22. ASSUME NEW t \in Thread, TakeDir(t) PROVE OwnedOpen'
    <2> DEFINE h == Head(dir_q)
    <2>1. /\ pc[t] \in {"first_dequeue", "get_next"}
          /\ UNCHANGED <<main_pc, new_dir, opened, unread>>
      BY <1>22, TakeDirFacts
    <2>2. CASE dir_q # <<>>
      <3>1. /\ h \in Dir /\ h \in Range(dir_q) /\ IsInjective(dir_q)'
            /\ Range(dir_q)' = Range(dir_q) \ {h}
            /\ entry' = [entry EXCEPT ![t] = h] /\ pc' = [pc EXCEPT ![t] = "scan"]
        BY <1>22, <2>2, TakeDirFacts
      <3>2. Null \notin Dir /\ Range(dir_q) \subseteq Dir
        BY DEF Entry, Range
      <3> HIDE DEF h
      <3> QED BY <2>1, <3>1, <3>2
    <2>3. CASE dir_q = <<>>
      <3>1. UNCHANGED <<dir_q, entry>> /\ pc' = [pc EXCEPT ![t] = "enqueue"]
        BY <1>22, <2>3, TakeDirFacts
      <3> QED BY <2>1, <3>1
    <2> QED BY <2>2, <2>3
  <1>23. ASSUME NEW t \in Thread, Sleep(t) PROVE OwnedOpen'
    BY <1>23 DEF Sleep, At, Goto, SignalMain, enqueue_thread, EverybodySleeps,
        mutexVars, countVars, localVars, streamVars, outVars, Running
  <1>24. ASSUME NEW t \in Thread, WakeUp(t) PROVE OwnedOpen'
    BY <1>24 DEF WakeUp, At, Goto, mutexVars, countVars, queueVars, localVars,
        streamVars, outVars, Running
  <1>25. ASSUME NEW t \in Thread, NEW e \in Entry, StatFails(t, e) PROVE OwnedOpen'
    BY <1>25 DEF StatFails, Fault, Fail, readdir, Consumed, mutexVars, queueVars,
        localVars, outVars, Goto, At, Running
  <1>26. ASSUME NEW t \in Thread, NEW e \in Entry, ScanFile(t, e) PROVE OwnedOpen'
    BY <1>26 DEF ScanFile, readdir, Consumed, mutexVars, countVars, queueVars,
        localVars, At, Running
  <1>27. ASSUME NEW t \in Thread, NEW e \in Entry, ScanDenied(t, e) PROVE OwnedOpen'
    BY <1>27 DEF ScanDenied, opendirFails, readdir, Consumed, mutexVars,
        countVars, queueVars, localVars, Fault, opendir, CanOpen, At, Running
  <1>28. ASSUME NEW t \in Thread, NEW e \in Entry, ScanDir(t, e) PROVE OwnedOpen'
    BY <1>28 DEF ScanDir, Goto, CanOpen, readdir, Consumed, mutexVars,
        countVars, queueVars, outVars, At, Running
  <1>29. ASSUME NEW t \in Thread, Dispatch(t) PROVE OwnedOpen'
    <2> DEFINE d == new_dir[t]
    <2>1. pc[t] = "new_dir" /\ d \in Dir /\ UNCHANGED <<main_pc, entry, opened, unread>>
      BY <1>29, DispatchFacts
    <2>2. Null \notin Dir /\ Range(dir_q) \subseteq Dir
      BY DEF Entry, Range
    <2>3. CASE UNCHANGED <<dir_q, new_dir>> /\ pc' = [pc EXCEPT ![t] = "assign"]
      BY <2>1, <2>3
    <2>4. CASE /\ Range(dir_q)' = Range(dir_q) \cup {d} /\ IsInjective(dir_q)'
               /\ new_dir' = [new_dir EXCEPT ![t] = Null] /\ pc' = [pc EXCEPT ![t] = "scan"]
      BY <2>1, <2>2, <2>4
    <2> QED BY <1>29, <2>3, <2>4, DispatchFacts
  <1>30. ASSUME NEW t \in Thread, DispatchFails(t) PROVE OwnedOpen'
    BY <1>30 DEF DispatchFails, At, Fail, Fault, queueVars, localVars,
        streamVars, outVars, Running, Goto
  <1>31. ASSUME NEW t \in Thread, Assign(t) PROVE OwnedOpen'
    <2> DEFINE v == next_thread[t]
    <2>1. /\ v \in Thread \ {t} /\ entry[v] = Null /\ new_dir[t] \in Dir
          /\ entry' = [entry EXCEPT ![v] = new_dir[t]]
          /\ new_dir' = [new_dir EXCEPT ![t] = Null]
          /\ pc' = [pc EXCEPT ![t] = "signal"] /\ pc[v] = "sleep"
          /\ UNCHANGED <<main_pc, dir_q, opened, unread>>
      BY <1>31, AssignFacts
    <2>2. Null \notin Dir /\ Range(dir_q) \subseteq Dir
      BY DEF Entry, Range
    <2> HIDE DEF v
    <2> QED BY <2>1, <2>2
  <1>32. ASSUME NEW t \in Thread, Signal(t) PROVE OwnedOpen'
    BY <1>32 DEF Signal, At, mutexVars, countVars, queueVars, streamVars,
        outVars, Running
  <1>33. ASSUME NEW t \in Thread, EndOfDir(t) PROVE OwnedOpen'
    BY <1>33 DEF EndOfDir, At, Goto, Fail, mutexVars, countVars, queueVars,
        localVars, streamVars, outVars, Running
  <1>34. ASSUME NEW t \in Thread, ReaddirFails(t) PROVE OwnedOpen'
    BY <1>34 DEF ReaddirFails, At, Fail, Fault, readdir, mutexVars, queueVars,
        localVars, streamVars, outVars, Running, Goto
  <1>35. ASSUME NEW t \in Thread, Failed(t) PROVE OwnedOpen'
    BY <1>35 DEF Failed, At, Goto, SignalMain, mutexVars, countVars, queueVars,
        localVars, streamVars, outVars, Running
  <1>36. CASE UNCHANGED vars
    BY <1>36 DEF vars, mutexVars, countVars, queueVars, localVars, streamVars,
        outVars
  <1> QED
    BY <1>1, <1>2, <1>3, <1>4, <1>5, <1>6, <1>7, <1>8, <1>9, <1>10, <1>11,
        <1>12, <1>13, <1>14, <1>15, <1>16, <1>17, <1>18, <1>19, <1>20, <1>21,
        <1>22, <1>23, <1>24, <1>25, <1>26, <1>27, <1>28, <1>29, <1>30, <1>31,
        <1>32, <1>33, <1>34, <1>35, <1>36
       DEF Next, MainStep, ThreadStep, Terminated

\* No step gives a stream a second owner.
LEMMA SingleOwnerStep ==
    ASSUME TypeOK, TypeOK', ThreadInv, QueueInv, OwnedOpen, UnreadInv, SingleOwner, [Next]_vars
    PROVE  SingleOwner'
  <1> USE TreeAssumption DEF TypeOK, SingleOwner
  <1>1. CASE Setup
    <2>1. /\ Range(dir_q)' = {Root} /\ IsInjective(dir_q)'
          /\ \A t \in Thread : entry[t] = Null /\ new_dir[t] = Null
          /\ UNCHANGED <<entry, new_dir>>
      BY <1>1, SetupFacts
    <2>2. Null \notin Dir /\ Range(dir_q) \subseteq Dir
      BY DEF Entry, Range
    <2> QED BY <2>1, <2>2
  <1>2. CASE SetupDenied
    BY <1>2 DEF SetupDenied, opendirFails, Exit, mutexVars, queueVars,
        localVars, streamVars, Fault, opendir, CanOpen
  <1>3. CASE SetupNoMemory
    BY <1>3 DEF SetupNoMemory, Fault, opendir, Exit, mutexVars, queueVars,
        localVars, CanOpen
  <1>4. CASE CreateThread
    BY <1>4 DEF CreateThread, Created, mutexVars, countVars, queueVars,
        localVars, streamVars, outVars
  <1>5. CASE MainFails
    BY <1>5 DEF MainFails, Created, Fault, Exit, mutexVars, queueVars,
        localVars, streamVars
  <1>6. CASE LockInitializer
    BY <1>6 DEF LockInitializer, Created, countVars, queueVars, localVars,
        streamVars, outVars
  <1>7. CASE CreateLast
    BY <1>7 DEF CreateLast, Created, mutexVars, countVars, queueVars, localVars,
        streamVars, outVars
  <1>8. CASE WaitInitialized
    BY <1>8 DEF WaitInitialized, countVars, queueVars, localVars, streamVars,
        outVars
  <1>9. CASE Initialized
    BY <1>9 DEF Initialized, Exit, mutexVars, countVars, queueVars, localVars,
        streamVars
  <1>10. CASE LockQueues
    BY <1>10 DEF LockQueues, countVars, queueVars, localVars, streamVars,
        outVars
  <1>11. CASE Broadcast
    BY <1>11 DEF Broadcast, mutexVars, countVars, queueVars, localVars,
        streamVars, outVars
  <1>12. CASE WaitAllSleep
    BY <1>12 DEF WaitAllSleep, countVars, queueVars, localVars, streamVars,
        outVars
  <1>13. CASE AllAsleep
    BY <1>13 DEF AllAsleep, Exit, mutexVars, countVars, queueVars, localVars,
        streamVars
  <1>14. CASE WakeNext
    BY <1>14 DEF WakeNext, mutexVars, countVars, queueVars, localVars,
        streamVars, outVars
  <1>15. CASE WakeEnd
    BY <1>15 DEF WakeEnd, mutexVars, countVars, queueVars, localVars,
        streamVars, outVars
  <1>16. CASE Join
    BY <1>16 DEF Join, Exit, mutexVars, countVars, queueVars, localVars,
        streamVars
  <1>17. ASSUME NEW t \in Thread, AllocEntry(t) PROVE SingleOwner'
    BY <1>17 DEF AllocEntry, At, Goto, mutexVars, countVars, queueVars,
        localVars, streamVars, outVars, Running
  <1>18. ASSUME NEW t \in Thread, AllocEntryFails(t) PROVE SingleOwner'
    BY <1>18 DEF AllocEntryFails, At, Fail, Fault, mutexVars, queueVars,
        localVars, streamVars, outVars, Running, Goto
  <1>19. ASSUME NEW t \in Thread, InitFailed(t) PROVE SingleOwner'
    BY <1>19 DEF InitFailed, At, Goto, SignalMain, mutexVars, countVars,
        queueVars, localVars, streamVars, outVars, Running
  <1>20. ASSUME NEW t \in Thread, WaitStart(t) PROVE SingleOwner'
    BY <1>20 DEF WaitStart, At, Goto, SignalMain, LastInitialized, mutexVars,
        queueVars, localVars, streamVars, outVars, Running
  <1>21. ASSUME NEW t \in Thread, Start(t) PROVE SingleOwner'
    BY <1>21 DEF Start, At, Goto, mutexVars, countVars, queueVars, localVars,
        streamVars, outVars, Running
  <1>22. ASSUME NEW t \in Thread, TakeDir(t) PROVE SingleOwner'
    <2> DEFINE h == Head(dir_q)
    <2>1. /\ pc[t] \in {"first_dequeue", "get_next"}
          /\ UNCHANGED <<main_pc, new_dir, opened, unread>>
      BY <1>22, TakeDirFacts
    <2>2. CASE dir_q # <<>>
      <3>1. /\ h \in Dir /\ h \in Range(dir_q) /\ IsInjective(dir_q)'
            /\ Range(dir_q)' = Range(dir_q) \ {h}
            /\ entry' = [entry EXCEPT ![t] = h] /\ pc' = [pc EXCEPT ![t] = "scan"]
        BY <1>22, <2>2, TakeDirFacts
      <3>2. Null \notin Dir /\ Range(dir_q) \subseteq Dir
        BY DEF Entry, Range
      <3> HIDE DEF h
      <3> QED BY <2>1, <3>1, <3>2
    <2>3. CASE dir_q = <<>>
      <3>1. UNCHANGED <<dir_q, entry>> /\ pc' = [pc EXCEPT ![t] = "enqueue"]
        BY <1>22, <2>3, TakeDirFacts
      <3> QED BY <2>1, <3>1
    <2> QED BY <2>2, <2>3
  <1>23. ASSUME NEW t \in Thread, Sleep(t) PROVE SingleOwner'
    <2>1. entry' = [entry EXCEPT ![t] = Null] /\ UNCHANGED <<dir_q, new_dir>>
      BY <1>23 DEF Sleep, localVars
    <2>2. Null \notin Range(dir_q)
      BY DEF Entry, Range
    <2> QED BY <2>1, <2>2
  <1>24. ASSUME NEW t \in Thread, WakeUp(t) PROVE SingleOwner'
    BY <1>24 DEF WakeUp, At, Goto, mutexVars, countVars, queueVars, localVars,
        streamVars, outVars, Running
  <1>25. ASSUME NEW t \in Thread, NEW e \in Entry, StatFails(t, e) PROVE SingleOwner'
    BY <1>25 DEF StatFails, Fault, Fail, readdir, Consumed, mutexVars, queueVars,
        localVars, outVars, Goto, At, Running
  <1>26. ASSUME NEW t \in Thread, NEW e \in Entry, ScanFile(t, e) PROVE SingleOwner'
    BY <1>26 DEF ScanFile, readdir, Consumed, mutexVars, countVars, queueVars,
        localVars, At, Running
  <1>27. ASSUME NEW t \in Thread, NEW e \in Entry, ScanDenied(t, e) PROVE SingleOwner'
    BY <1>27 DEF ScanDenied, opendirFails, readdir, Consumed, mutexVars,
        countVars, queueVars, localVars, Fault, opendir, CanOpen, At, Running
  <1>28. ASSUME NEW t \in Thread, NEW e \in Entry, ScanDir(t, e) PROVE SingleOwner'
    <2>1. /\ e \in Dir \ opened /\ UNCHANGED <<entry, dir_q>>
          /\ new_dir' = [new_dir EXCEPT ![t] = e]
      BY <1>28, ScanDirFacts
    <2>2. e \notin Range(dir_q) /\ \A u \in Thread : entry[u] # e /\ new_dir[u] # e
      BY <2>1 DEF OwnedOpen, Entry
    <2> QED BY <2>1, <2>2
  <1>29. ASSUME NEW t \in Thread, Dispatch(t) PROVE SingleOwner'
    <2> DEFINE d == new_dir[t]
    <2>1. pc[t] = "new_dir" /\ d \in Dir /\ UNCHANGED <<main_pc, entry, opened, unread>>
      BY <1>29, DispatchFacts
    <2>2. Null \notin Dir /\ Range(dir_q) \subseteq Dir
      BY DEF Entry, Range
    <2>3. CASE UNCHANGED <<dir_q, new_dir>> /\ pc' = [pc EXCEPT ![t] = "assign"]
      BY <2>1, <2>3
    <2>4. CASE /\ Range(dir_q)' = Range(dir_q) \cup {d} /\ IsInjective(dir_q)'
               /\ new_dir' = [new_dir EXCEPT ![t] = Null] /\ pc' = [pc EXCEPT ![t] = "scan"]
      BY <2>1, <2>2, <2>4
    <2> QED BY <1>29, <2>3, <2>4, DispatchFacts
  <1>30. ASSUME NEW t \in Thread, DispatchFails(t) PROVE SingleOwner'
    BY <1>30 DEF DispatchFails, At, Fail, Fault, queueVars, localVars,
        streamVars, outVars, Running, Goto
  <1>31. ASSUME NEW t \in Thread, Assign(t) PROVE SingleOwner'
    <2> DEFINE v == next_thread[t]
    <2>1. /\ v \in Thread \ {t} /\ entry[v] = Null /\ new_dir[t] \in Dir
          /\ entry' = [entry EXCEPT ![v] = new_dir[t]]
          /\ new_dir' = [new_dir EXCEPT ![t] = Null]
          /\ pc' = [pc EXCEPT ![t] = "signal"] /\ pc[v] = "sleep"
          /\ UNCHANGED <<main_pc, dir_q, opened, unread>>
      BY <1>31, AssignFacts
    <2>2. Null \notin Dir /\ Range(dir_q) \subseteq Dir
      BY DEF Entry, Range
    <2> HIDE DEF v
    <2> QED BY <2>1, <2>2
  <1>32. ASSUME NEW t \in Thread, Signal(t) PROVE SingleOwner'
    BY <1>32 DEF Signal, At, mutexVars, countVars, queueVars, streamVars,
        outVars, Running
  <1>33. ASSUME NEW t \in Thread, EndOfDir(t) PROVE SingleOwner'
    BY <1>33 DEF EndOfDir, At, Goto, Fail, mutexVars, countVars, queueVars,
        localVars, streamVars, outVars, Running
  <1>34. ASSUME NEW t \in Thread, ReaddirFails(t) PROVE SingleOwner'
    BY <1>34 DEF ReaddirFails, At, Fail, Fault, readdir, mutexVars, queueVars,
        localVars, streamVars, outVars, Running, Goto
  <1>35. ASSUME NEW t \in Thread, Failed(t) PROVE SingleOwner'
    BY <1>35 DEF Failed, At, Goto, SignalMain, mutexVars, countVars, queueVars,
        localVars, streamVars, outVars, Running
  <1>36. CASE UNCHANGED vars
    BY <1>36 DEF vars, mutexVars, countVars, queueVars, localVars, streamVars,
        outVars
  <1> QED
    BY <1>1, <1>2, <1>3, <1>4, <1>5, <1>6, <1>7, <1>8, <1>9, <1>10, <1>11,
        <1>12, <1>13, <1>14, <1>15, <1>16, <1>17, <1>18, <1>19, <1>20, <1>21,
        <1>22, <1>23, <1>24, <1>25, <1>26, <1>27, <1>28, <1>29, <1>30, <1>31,
        <1>32, <1>33, <1>34, <1>35, <1>36
       DEF Next, MainStep, ThreadStep, Terminated

\* A stream that still has entries is never dropped (lines 167, 252, 289).
LEMMA HeldInvStep ==
    ASSUME TypeOK, TypeOK', ThreadInv, QueueInv, OwnedOpen, UnreadInv, SingleOwner, HeldInv,
           [Next]_vars
    PROVE  HeldInv'
  <1> USE TreeAssumption DEF TypeOK, HeldInv, Running, Owned
  <1>1. CASE Setup
    <2>1. /\ opened' = {Root} /\ Range(dir_q)' = {Root} /\ UNCHANGED <<entry, pc>>
          /\ \A t \in Thread : entry[t] = Null
      BY <1>1, SetupFacts
    <2> QED BY <2>1
  <1>2. CASE SetupDenied
    BY <1>2 DEF SetupDenied, opendirFails, Exit, mutexVars, queueVars,
        localVars, streamVars, Fault, opendir, CanOpen
  <1>3. CASE SetupNoMemory
    <2>1. opened = {} /\ main_pc' = "exited" /\ UNCHANGED <<entry, pc>>
      BY <1>3 DEF SetupNoMemory, Exit, UnreadInv
    <2>2. \A t \in Thread : entry[t] = Null
      BY <2>1 DEF OwnedOpen
    <2> QED BY <2>1, <2>2
  <1>4. CASE CreateThread
    BY <1>4 DEF CreateThread, Created, mutexVars, countVars, queueVars,
        localVars, streamVars, outVars
  <1>5. CASE MainFails
    BY <1>5 DEF MainFails, Created, Fault, Exit, mutexVars, queueVars,
        localVars, streamVars
  <1>6. CASE LockInitializer
    BY <1>6 DEF LockInitializer, Created, countVars, queueVars, localVars,
        streamVars, outVars
  <1>7. CASE CreateLast
    BY <1>7 DEF CreateLast, Created, mutexVars, countVars, queueVars, localVars,
        streamVars, outVars
  <1>8. CASE WaitInitialized
    BY <1>8 DEF WaitInitialized, countVars, queueVars, localVars, streamVars,
        outVars
  <1>9. CASE Initialized
    BY <1>9 DEF Initialized, Exit, mutexVars, countVars, queueVars, localVars,
        streamVars
  <1>10. CASE LockQueues
    BY <1>10 DEF LockQueues, countVars, queueVars, localVars, streamVars,
        outVars
  <1>11. CASE Broadcast
    BY <1>11 DEF Broadcast, mutexVars, countVars, queueVars, localVars,
        streamVars, outVars
  <1>12. CASE WaitAllSleep
    BY <1>12 DEF WaitAllSleep, countVars, queueVars, localVars, streamVars,
        outVars
  <1>13. CASE AllAsleep
    BY <1>13 DEF AllAsleep, Exit, mutexVars, countVars, queueVars, localVars,
        streamVars
  <1>14. CASE WakeNext
    BY <1>14 DEF WakeNext, mutexVars, countVars, queueVars, localVars,
        streamVars, outVars
  <1>15. CASE WakeEnd
    BY <1>15 DEF WakeEnd, mutexVars, countVars, queueVars, localVars,
        streamVars, outVars
  <1>16. CASE Join
    BY <1>16 DEF Join, Exit, mutexVars, countVars, queueVars, localVars,
        streamVars
  <1>17. ASSUME NEW t \in Thread, AllocEntry(t) PROVE HeldInv'
    BY <1>17 DEF AllocEntry, At, Goto, mutexVars, countVars, queueVars,
        localVars, streamVars, outVars, Running
  <1>18. ASSUME NEW t \in Thread, AllocEntryFails(t) PROVE HeldInv'
    BY <1>18 DEF AllocEntryFails, At, Fail, Fault, mutexVars, queueVars,
        localVars, streamVars, outVars, Running, Goto
  <1>19. ASSUME NEW t \in Thread, InitFailed(t) PROVE HeldInv'
    BY <1>19 DEF InitFailed, At, Goto, SignalMain, mutexVars, countVars,
        queueVars, localVars, streamVars, outVars, Running
  <1>20. ASSUME NEW t \in Thread, WaitStart(t) PROVE HeldInv'
    BY <1>20 DEF WaitStart, At, Goto, SignalMain, LastInitialized, mutexVars,
        queueVars, localVars, streamVars, outVars, Running
  <1>21. ASSUME NEW t \in Thread, Start(t) PROVE HeldInv'
    BY <1>21 DEF Start, At, Goto, mutexVars, countVars, queueVars, localVars,
        streamVars, outVars, Running
  <1>22. ASSUME NEW t \in Thread, TakeDir(t) PROVE HeldInv'
    <2> DEFINE h == Head(dir_q)
    <2>1. /\ pc[t] \in {"first_dequeue", "get_next"}
          /\ UNCHANGED <<main_pc, new_dir, opened, unread>>
      BY <1>22, TakeDirFacts
    <2>2. entry[t] = Null \/ unread[entry[t]] = {}
      BY <2>1 DEF ThreadInv
    <2>3. CASE dir_q # <<>>
      <3>1. /\ Range(dir_q)' = Range(dir_q) \ {h}
            /\ entry' = [entry EXCEPT ![t] = h] /\ pc' = [pc EXCEPT ![t] = "scan"]
        BY <1>22, <2>3, TakeDirFacts
      <3> HIDE DEF h
      <3>2. \A u \in Thread \ {t} : entry'[u] = entry[u] /\ pc'[u] = pc[u]
        BY <3>1
      <3>3. ASSUME NEW c \in opened, unread[c] # {}, Owned(c) PROVE Owned(c)'
        <4>1. c # entry[t]
          BY <2>2, <3>3 DEF Entry
        <4>2. CASE c = h
          BY <3>1, <4>2
        <4>3. CASE c # h /\ c \in Range(dir_q)
          BY <3>1, <4>3
        <4>4. CASE c \notin Range(dir_q)
          <5>1. PICK u \in Thread : c \in {entry[u], new_dir[u]}
            BY <3>3, <4>4
          <5>2. c \in {entry'[u], new_dir'[u]}
            BY <2>1, <3>2, <4>1, <5>1
          <5> QED BY <5>2
        <4> QED BY <4>2, <4>3, <4>4
      <3>4. ASSUME NEW u \in Thread, pc'[u] \in {"get_next", "enqueue"}, entry'[u] # Null
            PROVE  unread'[entry'[u]] = {}
        BY <2>1, <3>1, <3>2, <3>4
      <3> HIDE DEF Owned
      <3> QED BY <2>1, <3>3, <3>4
    <2>4. CASE dir_q = <<>>
      <3>1. UNCHANGED <<dir_q, entry>> /\ pc' = [pc EXCEPT ![t] = "enqueue"]
        BY <1>22, <2>4, TakeDirFacts
      <3>2. \A c : Owned(c) <=> Owned(c)'
        BY <2>1, <3>1
      <3>3. ASSUME NEW u \in Thread, pc'[u] \in {"get_next", "enqueue"}, entry'[u] # Null
            PROVE  unread'[entry'[u]] = {}
        BY <2>1, <2>2, <3>1, <3>3
      <3> HIDE DEF Owned
      <3> QED BY <2>1, <3>1, <3>2, <3>3
    <2> QED BY <2>3, <2>4
  <1>23. ASSUME NEW t \in Thread, Sleep(t) PROVE HeldInv'
    <2>1. /\ entry' = [entry EXCEPT ![t] = Null] /\ pc' = [pc EXCEPT ![t] = "sleep"]
          /\ pc[t] = "enqueue" /\ main_pc # "exited"
          /\ UNCHANGED <<dir_q, new_dir, opened, unread>>
      BY <1>23 DEF Sleep, localVars, At, Running, Goto, streamVars
    <2>2. Null \notin opened
      BY DEF Entry
    <2> QED BY <2>1, <2>2
  <1>24. ASSUME NEW t \in Thread, WakeUp(t) PROVE HeldInv'
    <2>1. /\ UNCHANGED <<main_pc, dir_q, entry, new_dir, opened, unread>>
          /\ pc' = [pc EXCEPT ![t] = "exited"] \/ pc' = [pc EXCEPT ![t] = "scan"]
      BY <1>24 DEF WakeUp, Goto, queueVars, localVars, streamVars
    <2> QED BY ZenonT(40), <2>1
  <1>25. ASSUME NEW t \in Thread, NEW e \in Entry, StatFails(t, e) PROVE HeldInv'
    BY <1>25 DEF StatFails, Fault, Fail, readdir, Consumed, mutexVars, queueVars,
        localVars, outVars, Goto, At, Running
  <1>26. ASSUME NEW t \in Thread, NEW e \in Entry, ScanFile(t, e) PROVE HeldInv'
    BY <1>26 DEF ScanFile, readdir, Consumed, mutexVars, countVars, queueVars,
        localVars, At, Running
  <1>27. ASSUME NEW t \in Thread, NEW e \in Entry, ScanDenied(t, e) PROVE HeldInv'
    BY <1>27 DEF ScanDenied, opendirFails, readdir, Consumed, mutexVars,
        countVars, queueVars, localVars, Fault, opendir, CanOpen, At, Running
  <1>28. ASSUME NEW t \in Thread, NEW e \in Entry, ScanDir(t, e) PROVE HeldInv'
    <2> DEFINE d == entry[t]
    <2>1. /\ d \in opened /\ e \in Dir \ opened /\ pc[t] = "scan" /\ main_pc # "exited"
          /\ opened' = opened \cup {e} /\ main_pc' = main_pc
          /\ unread' = [unread EXCEPT ![d] = unread[d] \ {e}, ![e] = Contents[e]]
          /\ new_dir' = [new_dir EXCEPT ![t] = e] /\ pc' = [pc EXCEPT ![t] = "new_dir"]
          /\ UNCHANGED <<entry, dir_q>>
      BY <1>28, ScanDirFacts
    <2>2. new_dir[t] = Null /\ Null \notin opened
      BY <2>1 DEF ThreadInv, Entry
    <2>3. \A u \in Thread : entry[u] # e
      BY <2>1 DEF OwnedOpen, Entry
    <2> HIDE DEF d
    <2>4. \A c \in opened : unread'[c] \subseteq unread[c]
      BY <2>1
    <2>5. \A c \in opened' : unread'[c] # {} => Owned(c)'
      BY SMTT(30), <2>1, <2>2, <2>4
    <2>6. ASSUME NEW u \in Thread, pc'[u] \in {"get_next", "enqueue"}, entry'[u] # Null
          PROVE  unread'[entry'[u]] = {}
      <3>1. pc[u] = pc'[u] /\ entry[u] \in opened /\ unread[entry[u]] = {}
        BY <2>1, <2>6 DEF OwnedOpen
      <3> QED BY <2>1, <2>4, <3>1
    <2> QED BY <2>5, <2>6
  <1>29. ASSUME NEW t \in Thread, Dispatch(t) PROVE HeldInv'
    <2> DEFINE d == new_dir[t]
    <2>1. pc[t] = "new_dir" /\ d \in Dir /\ UNCHANGED <<main_pc, entry, opened, unread>>
      BY <1>29, DispatchFacts
    <2>2. CASE UNCHANGED <<dir_q, new_dir>> /\ pc' = [pc EXCEPT ![t] = "assign"]
      BY <2>1, <2>2
    <2>3. CASE /\ Range(dir_q)' = Range(dir_q) \cup {d}
               /\ new_dir' = [new_dir EXCEPT ![t] = Null] /\ pc' = [pc EXCEPT ![t] = "scan"]
      <3>1. ASSUME NEW c \in opened, Owned(c) PROVE Owned(c)'
        <4>1. CASE c \in Range(dir_q) \cup {d}
          BY <2>3, <4>1
        <4>2. CASE c \notin Range(dir_q) \cup {d}
          <5>1. PICK u \in Thread : c \in {entry[u], new_dir[u]} /\ c # new_dir[t]
            BY <3>1, <4>2
          <5>2. c \in {entry'[u], new_dir'[u]}
            BY <2>1, <2>3, <5>1
          <5> QED BY <5>2
        <4> QED BY <4>1, <4>2
      <3> HIDE DEF Owned
      <3> QED BY <2>1, <2>3, <3>1
    <2> QED BY <1>29, <2>2, <2>3, DispatchFacts
  <1>30. ASSUME NEW t \in Thread, DispatchFails(t) PROVE HeldInv'
    BY <1>30 DEF DispatchFails, At, Fail, Fault, queueVars, localVars,
        streamVars, outVars, Running, Goto
  <1>31. ASSUME NEW t \in Thread, Assign(t) PROVE HeldInv'
    <2> DEFINE v == next_thread[t]
    <2>1. /\ v \in Thread \ {t} /\ entry[v] = Null /\ new_dir[t] \in Dir
          /\ entry' = [entry EXCEPT ![v] = new_dir[t]]
          /\ new_dir' = [new_dir EXCEPT ![t] = Null]
          /\ pc' = [pc EXCEPT ![t] = "signal"] /\ pc[v] = "sleep"
          /\ UNCHANGED <<main_pc, dir_q, opened, unread>>
      BY <1>31, AssignFacts
    <2> HIDE DEF v
    <2>2. \A u \in Thread \ {v} : entry'[u] = entry[u]
      BY <2>1
    <2>3. \A u \in Thread : pc'[u] \in {"get_next", "enqueue"} => u # v /\ pc[u] = pc'[u]
      BY <2>1
    <2>4. \A c \in opened : Owned(c) => Owned(c)'
      <3> SUFFICES ASSUME NEW c \in opened, Owned(c), c \notin Range(dir_q) PROVE Owned(c)'
        BY <2>1
      <3>1. PICK u \in Thread : c \in {entry[u], new_dir[u]}
        OBVIOUS
      <3>2. c # Null
        BY DEF Entry
      <3>3. CASE c = entry[u]
        BY <2>1, <2>2, <3>2, <3>3
      <3>4. CASE c = new_dir[u] /\ u # t
        BY <2>1, <3>4
      <3>5. CASE c = new_dir[u] /\ u = t
        BY <2>1, <3>5
      <3> QED BY <3>1, <3>3, <3>4, <3>5
    <2> HIDE DEF Owned
    <2> QED BY <2>1, <2>2, <2>3, <2>4
  <1>32. ASSUME NEW t \in Thread, Signal(t) PROVE HeldInv'
    BY <1>32 DEF Signal, At, mutexVars, countVars, queueVars, streamVars,
        outVars, Running
  <1>33. ASSUME NEW t \in Thread, EndOfDir(t) PROVE HeldInv'
    BY <1>33 DEF EndOfDir, At, Goto, Fail, mutexVars, countVars, queueVars,
        localVars, streamVars, outVars, Running
  <1>34. ASSUME NEW t \in Thread, ReaddirFails(t) PROVE HeldInv'
    BY <1>34 DEF ReaddirFails, At, Fail, Fault, readdir, mutexVars, queueVars,
        localVars, streamVars, outVars, Running, Goto
  <1>35. ASSUME NEW t \in Thread, Failed(t) PROVE HeldInv'
    BY <1>35 DEF Failed, At, Goto, SignalMain, mutexVars, countVars, queueVars,
        localVars, streamVars, outVars, Running
  <1>36. CASE UNCHANGED vars
    BY <1>36 DEF vars, mutexVars, countVars, queueVars, localVars, streamVars,
        outVars
  <1> QED
    BY <1>1, <1>2, <1>3, <1>4, <1>5, <1>6, <1>7, <1>8, <1>9, <1>10, <1>11,
        <1>12, <1>13, <1>14, <1>15, <1>16, <1>17, <1>18, <1>19, <1>20, <1>21,
        <1>22, <1>23, <1>24, <1>25, <1>26, <1>27, <1>28, <1>29, <1>30, <1>31,
        <1>32, <1>33, <1>34, <1>35, <1>36
       DEF Next, MainStep, ThreadStep, Terminated

\* A queued directory has a thread that will look at dir_q, because a thread
\* that queues one looks there itself after the end of its stream (line 283).
LEMMA WorkInvStep ==
    ASSUME TypeOK, TypeOK', ThreadInv, ThreadInv', QueueInv, BarrierInv, SingleOwner, OwnedOpen,
           UnreadInv, DoneInv, WorkInv, [Next]_vars
    PROVE  WorkInv'
  <1> USE ThreadsAssumption DEF TypeOK, WorkInv, Worker, Counted, Uncounted
  <1>1. CASE Setup
    <2>1. /\ main_pc = "setup" /\ UNCHANGED <<pc, entry>>
          /\ \A t \in Thread : entry[t] = Null
      BY <1>1, SetupFacts
    <2>2. \A t \in Thread : pc[t] \in Uncounted \cup {"start_wait", "exited"}
      BY <2>1 DEF BarrierInv, EarlyMain, Searching, Busy, ThreadPc
    <2> QED BY <2>1, <2>2
  <1>2. CASE SetupDenied
    BY <1>2 DEF SetupDenied, opendirFails, Exit, mutexVars, queueVars,
        localVars, streamVars, Fault, opendir, CanOpen
  <1>3. CASE SetupNoMemory
    BY <1>3 DEF SetupNoMemory, Fault, opendir, Exit, mutexVars, queueVars,
        localVars, CanOpen
  <1>4. CASE CreateThread
    BY <1>4 DEF CreateThread, Created, mutexVars, countVars, queueVars,
        localVars, streamVars, outVars
  <1>5. CASE MainFails
    BY <1>5 DEF MainFails, Created, Fault, Exit, mutexVars, queueVars,
        localVars, streamVars
  <1>6. CASE LockInitializer
    BY <1>6 DEF LockInitializer, Created, countVars, queueVars, localVars,
        streamVars, outVars
  <1>7. CASE CreateLast
    BY <1>7 DEF CreateLast, Created, mutexVars, countVars, queueVars, localVars,
        streamVars, outVars
  <1>8. CASE WaitInitialized
    BY <1>8 DEF WaitInitialized, countVars, queueVars, localVars, streamVars,
        outVars
  <1>9. CASE Initialized
    BY <1>9 DEF Initialized, Exit, mutexVars, countVars, queueVars, localVars,
        streamVars
  <1>10. CASE LockQueues
    BY <1>10 DEF LockQueues, countVars, queueVars, localVars, streamVars,
        outVars
  <1>11. CASE Broadcast
    BY <1>11 DEF Broadcast, mutexVars, countVars, queueVars, localVars,
        streamVars, outVars
  <1>12. CASE WaitAllSleep
    BY <1>12 DEF WaitAllSleep, countVars, queueVars, localVars, streamVars,
        outVars
  <1>13. CASE AllAsleep
    BY <1>13 DEF AllAsleep, Exit, mutexVars, countVars, queueVars, localVars,
        streamVars
  <1>14. CASE WakeNext
    BY <1>14 DEF WakeNext, mutexVars, countVars, queueVars, localVars,
        streamVars, outVars
  <1>15. CASE WakeEnd
    BY <1>15 DEF WakeEnd, mutexVars, countVars, queueVars, localVars,
        streamVars, outVars
  <1>16. CASE Join
    BY <1>16 DEF Join, Exit, mutexVars, countVars, queueVars, localVars,
        streamVars
  <1>17. ASSUME NEW t \in Thread, AllocEntry(t) PROVE WorkInv'
    BY <1>17 DEF AllocEntry, At, Goto, mutexVars, countVars, queueVars,
        localVars, streamVars, outVars, Running
  <1>18. ASSUME NEW t \in Thread, AllocEntryFails(t) PROVE WorkInv'
    BY <1>18 DEF AllocEntryFails, At, Fail, Fault, mutexVars, queueVars,
        localVars, streamVars, outVars, Running, Goto
  <1>19. ASSUME NEW t \in Thread, InitFailed(t) PROVE WorkInv'
    BY <1>19 DEF InitFailed, At, Goto, SignalMain, mutexVars, countVars,
        queueVars, localVars, streamVars, outVars, Running
  <1>20. ASSUME NEW t \in Thread, WaitStart(t) PROVE WorkInv'
    BY <1>20 DEF WaitStart, At, Goto, SignalMain, LastInitialized, mutexVars,
        queueVars, localVars, streamVars, outVars, Running
  <1>21. ASSUME NEW t \in Thread, Start(t) PROVE WorkInv'
    BY <1>21 DEF Start, At, Goto, mutexVars, countVars, queueVars, localVars,
        streamVars, outVars, Running
  <1>22. ASSUME NEW t \in Thread, TakeDir(t) PROVE WorkInv'
    BY <1>22 DEF TakeDir, At, Goto, dequeue_dir, mutexVars, countVars,
        localVars, streamVars, outVars, Running
  <1>23. ASSUME NEW t \in Thread, Sleep(t) PROVE WorkInv'
    BY <1>23 DEF Sleep, At, Goto, SignalMain, enqueue_thread, EverybodySleeps,
        mutexVars, countVars, localVars, streamVars, outVars, Running
  <1>24. ASSUME NEW t \in Thread, WakeUp(t) PROVE WorkInv'
    <2>1. /\ pc[t] = "woken" /\ UNCHANGED <<entry, dir_q>>
          /\ \A u \in Thread \ {t} : pc'[u] = pc[u]
          /\ done \/ pc'[t] = "scan"
      BY <1>24 DEF WakeUp, At, Goto, queueVars
    <2>2. CASE done
      BY <2>1, <2>2 DEF DoneInv, DoneQuiescent
    <2>3. CASE ~done
      BY <2>1, <2>3
    <2> QED BY <2>2, <2>3
  <1>25. ASSUME NEW t \in Thread, NEW e \in Entry, StatFails(t, e) PROVE WorkInv'
    BY <1>25 DEF StatFails, Fault, Fail, readdir, Consumed, mutexVars, queueVars,
        localVars, outVars, Goto, At, Running
  <1>26. ASSUME NEW t \in Thread, NEW e \in Entry, ScanFile(t, e) PROVE WorkInv'
    BY <1>26 DEF ScanFile, readdir, Consumed, mutexVars, countVars, queueVars,
        localVars, At, Running
  <1>27. ASSUME NEW t \in Thread, NEW e \in Entry, ScanDenied(t, e) PROVE WorkInv'
    BY <1>27 DEF ScanDenied, opendirFails, readdir, Consumed, mutexVars,
        countVars, queueVars, localVars, Fault, opendir, CanOpen, At, Running
  <1>28. ASSUME NEW t \in Thread, NEW e \in Entry, ScanDir(t, e) PROVE WorkInv'
    BY <1>28 DEF ScanDir, Goto, CanOpen, readdir, Consumed, mutexVars,
        countVars, queueVars, outVars, At, Running
  <1>29. ASSUME NEW t \in Thread, Dispatch(t) PROVE WorkInv'
    BY <1>29 DEF Dispatch, At, Goto, enqueue_dir, dequeue_thread, mutexVars,
        countVars, streamVars, outVars, Running
  <1>30. ASSUME NEW t \in Thread, DispatchFails(t) PROVE WorkInv'
    BY <1>30 DEF DispatchFails, At, Fail, Fault, queueVars, localVars,
        streamVars, outVars, Running, Goto
  <1>31. ASSUME NEW t \in Thread, Assign(t) PROVE WorkInv'
    BY <1>31 DEF Assign, At, Goto, mutexVars, countVars, queueVars, streamVars,
        outVars, Running
  <1>32. ASSUME NEW t \in Thread, Signal(t) PROVE WorkInv'
    BY <1>32 DEF Signal, At, mutexVars, countVars, queueVars, streamVars,
        outVars, Running
  <1>33. ASSUME NEW t \in Thread, EndOfDir(t) PROVE WorkInv'
    BY <1>33 DEF EndOfDir, At, Goto, Fail, mutexVars, countVars, queueVars,
        localVars, streamVars, outVars, Running
  <1>34. ASSUME NEW t \in Thread, ReaddirFails(t) PROVE WorkInv'
    BY <1>34 DEF ReaddirFails, At, Fail, Fault, readdir, mutexVars, queueVars,
        localVars, streamVars, outVars, Running, Goto
  <1>35. ASSUME NEW t \in Thread, Failed(t) PROVE WorkInv'
    <2>1. /\ pc[t] = "failed" /\ pc' = [pc EXCEPT ![t] = "exited"] /\ UNCHANGED <<entry, dir_q>>
      BY <1>35 DEF Failed, At, Goto, queueVars
    <2>2. entry[t] # Null
      BY <2>1 DEF ThreadInv
    <2>3. Worker(t)'
      BY <2>1, <2>2
    <2> QED BY <2>3
  <1>36. CASE UNCHANGED vars
    BY <1>36 DEF vars, mutexVars, countVars, queueVars, localVars, streamVars,
        outVars
  <1> QED
    BY <1>1, <1>2, <1>3, <1>4, <1>5, <1>6, <1>7, <1>8, <1>9, <1>10, <1>11,
        <1>12, <1>13, <1>14, <1>15, <1>16, <1>17, <1>18, <1>19, <1>20, <1>21,
        <1>22, <1>23, <1>24, <1>25, <1>26, <1>27, <1>28, <1>29, <1>30, <1>31,
        <1>32, <1>33, <1>34, <1>35, <1>36
       DEF Next, MainStep, ThreadStep, Terminated

\* When main() has been signalled through all_sleep no thread can run on.
LEMMA NobodyMoves ==
    ASSUME TypeOK, ThreadInv, QueueInv, BarrierInv, CountInv, DoneInv, SignalInv,
           main_pc = "sleep_woken"
    PROVE  \A t \in Thread :
               /\ pc[t] \in {"sleep", "init_failed", "failed", "exited"}
               /\ pc[t] = "failed" => threads_failed = num_of_threads
  <1>1. CASE threads_failed = num_of_threads
    <2>1. Dead = Thread
      <3>1. Cardinality(Dead) >= num_of_threads /\ Dead \in SUBSET Thread
        BY <1>1 DEF CountInv, DeadInv, Running, Dead
      <3>2. Cardinality(Dead) <= num_of_threads /\ Cardinality(Dead) \in Nat /\ num_of_threads \in Nat
        BY <3>1, ThreadSets
      <3>3. Cardinality(Dead) = num_of_threads
        BY <3>1, <3>2
      <3> QED BY <3>1, <3>3, ThreadSets
    <2> QED BY <1>1, <2>1 DEF Dead
  <1>2. CASE Counted \subseteq Range(thread_q)
    <2>1. Passed = Thread /\ ~done
      BY DEF BarrierInv, LateMain, EarlyMain, MainPc, DoneInv
    <2>2. \A t \in Counted : pc[t] = "sleep"
      BY <1>2, <2>1 DEF QueueInv, QueuedAsleep
    <2>3. \A t \in Thread : pc[t] \notin {"unborn", "start", "lock_init"}
      BY <2>1 DEF Passed
    <2> QED BY <2>2, <2>3 DEF Counted, Uncounted, ThreadInv
  <1> QED BY <1>1, <1>2 DEF SignalInv

\* all_sleep is signalled for one of two reasons, and the reason stays true
\* until main() runs (lines 172, 224, 274, 344).
LEMMA SignalInvStep ==
    ASSUME TypeOK, TypeOK', ThreadInv, QueueInv, QueueInv', BarrierInv, CountInv, CountInv',
           DoneInv, DoneInv', SignalInv, [Next]_vars
    PROVE  SignalInv'
  <1> USE NobodyMoves DEF SignalInv
  <1>1. CASE Setup
    BY <1>1 DEF Setup, opendir, enqueue_dir, mutexVars, countVars, localVars,
        outVars, CanOpen
  <1>2. CASE SetupDenied
    BY <1>2 DEF SetupDenied, opendirFails, Exit, mutexVars, queueVars,
        localVars, streamVars, Fault, opendir, CanOpen
  <1>3. CASE SetupNoMemory
    BY <1>3 DEF SetupNoMemory, Fault, opendir, Exit, mutexVars, queueVars,
        localVars, CanOpen
  <1>4. CASE CreateThread
    BY <1>4 DEF CreateThread, Created, mutexVars, countVars, queueVars,
        localVars, streamVars, outVars
  <1>5. CASE MainFails
    BY <1>5 DEF MainFails, Created, Fault, Exit, mutexVars, queueVars,
        localVars, streamVars
  <1>6. CASE LockInitializer
    BY <1>6 DEF LockInitializer, Created, countVars, queueVars, localVars,
        streamVars, outVars
  <1>7. CASE CreateLast
    BY <1>7 DEF CreateLast, Created, mutexVars, countVars, queueVars, localVars,
        streamVars, outVars
  <1>8. CASE WaitInitialized
    BY <1>8 DEF WaitInitialized, countVars, queueVars, localVars, streamVars,
        outVars
  <1>9. CASE Initialized
    BY <1>9 DEF Initialized, Exit, mutexVars, countVars, queueVars, localVars,
        streamVars
  <1>10. CASE LockQueues
    BY <1>10 DEF LockQueues, countVars, queueVars, localVars, streamVars,
        outVars
  <1>11. CASE Broadcast
    BY <1>11 DEF Broadcast, mutexVars, countVars, queueVars, localVars,
        streamVars, outVars
  <1>12. CASE WaitAllSleep
    BY <1>12 DEF WaitAllSleep, countVars, queueVars, localVars, streamVars,
        outVars
  <1>13. CASE AllAsleep
    BY <1>13 DEF AllAsleep, Exit, mutexVars, countVars, queueVars, localVars,
        streamVars
  <1>14. CASE WakeNext
    BY <1>14 DEF WakeNext, mutexVars, countVars, queueVars, localVars,
        streamVars, outVars
  <1>15. CASE WakeEnd
    BY <1>15 DEF WakeEnd, mutexVars, countVars, queueVars, localVars,
        streamVars, outVars
  <1>16. CASE Join
    BY <1>16 DEF Join, Exit, mutexVars, countVars, queueVars, localVars,
        streamVars
  <1>17. ASSUME NEW t \in Thread, AllocEntry(t) PROVE SignalInv'
    BY <1>17 DEF AllocEntry, At, Goto, mutexVars, countVars, queueVars,
        localVars, streamVars, outVars, Running
  <1>18. ASSUME NEW t \in Thread, AllocEntryFails(t) PROVE SignalInv'
    BY <1>18 DEF AllocEntryFails, At, Fail, Fault, mutexVars, queueVars,
        localVars, streamVars, outVars, Running, Goto
  <1>19. ASSUME NEW t \in Thread, InitFailed(t) PROVE SignalInv'
    <2>1. /\ pc[t] = "init_failed" /\ pc' = [pc EXCEPT ![t] = "exited"]
          /\ UNCHANGED <<entry, thread_q, threads_failed>>
          /\ main_pc' = "sleep_woken" => main_pc = "sleep_woken"
      BY <1>19 DEF InitFailed, At, Goto, SignalMain, queueVars, countVars
    <2>2. Counted' = Counted
      BY <2>1 DEF Counted, Uncounted, ThreadInv, TypeOK
    <2> QED BY <2>1, <2>2
  <1>20. ASSUME NEW t \in Thread, WaitStart(t) PROVE SignalInv'
    BY <1>20 DEF WaitStart, At, Goto, SignalMain, LastInitialized, mutexVars,
        queueVars, localVars, streamVars, outVars, Running
  <1>21. ASSUME NEW t \in Thread, Start(t) PROVE SignalInv'
    BY <1>21 DEF Start, At, Goto, mutexVars, countVars, queueVars, localVars,
        streamVars, outVars, Running
  <1>22. ASSUME NEW t \in Thread, TakeDir(t) PROVE SignalInv'
    BY <1>22 DEF TakeDir, At, Goto, dequeue_dir, mutexVars, countVars,
        localVars, streamVars, outVars, Running
  <1>23. ASSUME NEW t \in Thread, Sleep(t) PROVE SignalInv'
    <2> SUFFICES ASSUME main_pc' = "sleep_woken"
                 PROVE  thread_q' # <<>> /\ Counted' \subseteq Range(thread_q')
      OBVIOUS
    <2>1. /\ thread_q' = Append(thread_q, t) /\ pc[t] = "enqueue"
          /\ main_pc = "sleep_woken" \/ Len(thread_q') = threads_initialized'
      BY <1>23 DEF Sleep, At, SignalMain, enqueue_thread, EverybodySleeps, countVars
    <2>2. main_pc # "sleep_woken"
      BY <2>1, NobodyMoves
    <2>3. ~done'
      BY DEF DoneInv
    <2>4. Range(thread_q') \subseteq Counted' /\ Counted' \subseteq Thread
      <3>1. Range(thread_q') \subseteq Thread
        BY DEF Range, TypeOK
      <3>2. \A u \in Range(thread_q') : pc'[u] = "sleep"
        BY <2>3 DEF QueueInv, QueuedAsleep
      <3> QED BY <3>1, <3>2 DEF Counted, Uncounted
    <2>5. /\ Cardinality(Range(thread_q')) = threads_initialized'
          /\ Cardinality(Counted') <= threads_initialized'
      BY <2>1, <2>2 DEF CountInv, CountedInv, QueueLenInv
    <2>6. /\ IsFiniteSet(Counted') /\ Cardinality(Counted') \in Nat
          /\ Cardinality(Range(thread_q')) \in Nat
      BY <2>4, ThreadSets
    <2>7. Range(thread_q') = Counted'
      BY <2>4, <2>5, <2>6, FS_Subset
    <2>8. thread_q' # <<>>
      BY <2>1 DEF TypeOK
    <2> QED BY <2>7, <2>8
  <1>24. ASSUME NEW t \in Thread, WakeUp(t) PROVE SignalInv'
    BY <1>24 DEF WakeUp, At, Goto, mutexVars, countVars, queueVars, localVars,
        streamVars, outVars, Running
  <1>25. ASSUME NEW t \in Thread, NEW e \in Entry, StatFails(t, e) PROVE SignalInv'
    BY <1>25 DEF StatFails, Fault, Fail, readdir, Consumed, mutexVars, queueVars,
        localVars, outVars, Goto, At, Running
  <1>26. ASSUME NEW t \in Thread, NEW e \in Entry, ScanFile(t, e) PROVE SignalInv'
    BY <1>26 DEF ScanFile, readdir, Consumed, mutexVars, countVars, queueVars,
        localVars, At, Running
  <1>27. ASSUME NEW t \in Thread, NEW e \in Entry, ScanDenied(t, e) PROVE SignalInv'
    BY <1>27 DEF ScanDenied, opendirFails, readdir, Consumed, mutexVars,
        countVars, queueVars, localVars, Fault, opendir, CanOpen, At, Running
  <1>28. ASSUME NEW t \in Thread, NEW e \in Entry, ScanDir(t, e) PROVE SignalInv'
    BY <1>28 DEF ScanDir, Goto, CanOpen, readdir, Consumed, mutexVars,
        countVars, queueVars, outVars, At, Running
  <1>29. ASSUME NEW t \in Thread, Dispatch(t) PROVE SignalInv'
    BY <1>29 DEF Dispatch, At, Goto, enqueue_dir, dequeue_thread, mutexVars,
        countVars, streamVars, outVars, Running
  <1>30. ASSUME NEW t \in Thread, DispatchFails(t) PROVE SignalInv'
    BY <1>30 DEF DispatchFails, At, Fail, Fault, queueVars, localVars,
        streamVars, outVars, Running, Goto
  <1>31. ASSUME NEW t \in Thread, Assign(t) PROVE SignalInv'
    BY <1>31 DEF Assign, At, Goto, mutexVars, countVars, queueVars, streamVars,
        outVars, Running
  <1>32. ASSUME NEW t \in Thread, Signal(t) PROVE SignalInv'
    BY <1>32 DEF Signal, At, mutexVars, countVars, queueVars, streamVars,
        outVars, Running
  <1>33. ASSUME NEW t \in Thread, EndOfDir(t) PROVE SignalInv'
    BY <1>33 DEF EndOfDir, At, Goto, Fail, mutexVars, countVars, queueVars,
        localVars, streamVars, outVars, Running
  <1>34. ASSUME NEW t \in Thread, ReaddirFails(t) PROVE SignalInv'
    BY <1>34 DEF ReaddirFails, At, Fail, Fault, readdir, mutexVars, queueVars,
        localVars, streamVars, outVars, Running, Goto
  <1>35. ASSUME NEW t \in Thread, Failed(t) PROVE SignalInv'
    BY <1>35 DEF Failed, At, Goto, SignalMain, mutexVars, countVars, queueVars,
        localVars, streamVars, outVars, Running
  <1>36. CASE UNCHANGED vars
    BY <1>36 DEF vars, mutexVars, countVars, queueVars, localVars, streamVars,
        outVars, Counted
  <1> QED
    BY <1>1, <1>2, <1>3, <1>4, <1>5, <1>6, <1>7, <1>8, <1>9, <1>10, <1>11,
        <1>12, <1>13, <1>14, <1>15, <1>16, <1>17, <1>18, <1>19, <1>20, <1>21,
        <1>22, <1>23, <1>24, <1>25, <1>26, <1>27, <1>28, <1>29, <1>30, <1>31,
        <1>32, <1>33, <1>34, <1>35, <1>36
       DEF Next, MainStep, ThreadStep, Terminated

\* done is set when nothing is left to read.
LEMMA DoneInvStep ==
    ASSUME TypeOK, TypeOK', ThreadInv, QueueInv, BarrierInv, CountInv, TreeInv,
           WorkInv, SignalInv, DoneInv, [Next]_vars
    PROVE  DoneInv'
  <1> USE DEF TypeOK, DoneInv, DoneQuiescent
  <1>1. CASE Setup
    BY <1>1 DEF Setup, opendir, enqueue_dir, mutexVars, countVars, localVars,
        outVars, CanOpen
  <1>2. CASE SetupDenied
    BY <1>2 DEF SetupDenied, opendirFails, Exit, mutexVars, queueVars,
        localVars, streamVars, Fault, opendir, CanOpen
  <1>3. CASE SetupNoMemory
    BY <1>3 DEF SetupNoMemory, Fault, opendir, Exit, mutexVars, queueVars,
        localVars, CanOpen
  <1>4. CASE CreateThread
    BY <1>4 DEF CreateThread, Created, mutexVars, countVars, queueVars,
        localVars, streamVars, outVars
  <1>5. CASE MainFails
    BY <1>5 DEF MainFails, Created, Fault, Exit, mutexVars, queueVars,
        localVars, streamVars
  <1>6. CASE LockInitializer
    BY <1>6 DEF LockInitializer, Created, countVars, queueVars, localVars,
        streamVars, outVars
  <1>7. CASE CreateLast
    BY <1>7 DEF CreateLast, Created, mutexVars, countVars, queueVars, localVars,
        streamVars, outVars
  <1>8. CASE WaitInitialized
    BY <1>8 DEF WaitInitialized, countVars, queueVars, localVars, streamVars,
        outVars
  <1>9. CASE Initialized
    BY <1>9 DEF Initialized, Exit, mutexVars, countVars, queueVars, localVars,
        streamVars
  <1>10. CASE LockQueues
    BY <1>10 DEF LockQueues, countVars, queueVars, localVars, streamVars,
        outVars
  <1>11. CASE Broadcast
    BY <1>11 DEF Broadcast, mutexVars, countVars, queueVars, localVars,
        streamVars, outVars
  <1>12. CASE WaitAllSleep
    BY <1>12 DEF WaitAllSleep, countVars, queueVars, localVars, streamVars,
        outVars
  <1>13. CASE AllAsleep
    <2>1. CASE threads_failed = num_of_threads
      BY <1>13, <2>1 DEF AllAsleep, Exit, queueVars, localVars, streamVars
    <2>2. CASE threads_failed # num_of_threads
      <3>1. /\ main_pc = "sleep_woken" /\ done' /\ main_pc' = "wake"
            /\ UNCHANGED <<pc, dir_q, entry, new_dir, opened, unread>>
        BY <1>13, <2>2 DEF AllAsleep, queueVars, localVars, streamVars
      <3>2. thread_q # <<>> /\ Counted \subseteq Range(thread_q) /\ ~done
        BY <2>2, <3>1 DEF SignalInv
      <3>3. \A t \in Counted : pc[t] = "sleep" /\ entry[t] = Null
        BY <3>2 DEF QueueInv, QueuedAsleep
      <3>4. Counted # {}
        <4>1. thread_q[1] \in Range(thread_q) /\ thread_q[1] \in Thread
          BY <3>2 DEF Range
        <4>2. pc[thread_q[1]] = "sleep"
          BY <3>2, <4>1 DEF QueueInv, QueuedAsleep
        <4> QED BY <4>1, <4>2 DEF Counted, Uncounted
      <3>5. dir_q = <<>>
        BY <3>3, <3>4 DEF WorkInv, Worker
      <3>6. \A t \in Thread : pc[t] \in {"sleep", "init_failed", "exited"}
        BY <2>2, <3>1, NobodyMoves
      <3>7. \A t \in Thread : entry[t] = Null
        BY <3>3, <3>6 DEF Counted, Uncounted, ThreadInv
      <3>8. \A t \in Thread : new_dir[t] = Null
        BY <3>6, <3>7 DEF ThreadInv
      <3>9. \A d \in opened : unread[d] = {}
        <4>1. Range(dir_q) = {}
          BY <3>5 DEF Range
        <4>2. Null \notin opened
          BY TreeAssumption DEF Entry
        <4> QED BY <3>1, <3>7, <3>8, <4>1, <4>2 DEF TreeInv, HeldInv, Running, Owned
      <3> QED BY <3>1, <3>5, <3>6, <3>7, <3>8, <3>9
    <2> QED BY <2>1, <2>2
  <1>14. CASE WakeNext
    BY <1>14 DEF WakeNext, mutexVars, countVars, queueVars, localVars,
        streamVars, outVars
  <1>15. CASE WakeEnd
    BY <1>15 DEF WakeEnd, mutexVars, countVars, queueVars, localVars,
        streamVars, outVars
  <1>16. CASE Join
    BY <1>16 DEF Join, Exit, mutexVars, countVars, queueVars, localVars,
        streamVars
  <1>17. ASSUME NEW t \in Thread, AllocEntry(t) PROVE DoneInv'
    BY <1>17 DEF AllocEntry, At, Goto, mutexVars, countVars, queueVars,
        localVars, streamVars, outVars, Running
  <1>18. ASSUME NEW t \in Thread, AllocEntryFails(t) PROVE DoneInv'
    BY <1>18 DEF AllocEntryFails, At, Fail, Fault, mutexVars, queueVars,
        localVars, streamVars, outVars, Running, Goto
  <1>19. ASSUME NEW t \in Thread, InitFailed(t) PROVE DoneInv'
    BY <1>19 DEF InitFailed, At, Goto, SignalMain, mutexVars, countVars,
        queueVars, localVars, streamVars, outVars, Running
  <1>20. ASSUME NEW t \in Thread, WaitStart(t) PROVE DoneInv'
    BY <1>20 DEF WaitStart, At, Goto, SignalMain, LastInitialized, mutexVars,
        queueVars, localVars, streamVars, outVars, Running
  <1>21. ASSUME NEW t \in Thread, Start(t) PROVE DoneInv'
    BY <1>21 DEF Start, At, Goto, mutexVars, countVars, queueVars, localVars,
        streamVars, outVars, Running
  <1>22. ASSUME NEW t \in Thread, TakeDir(t) PROVE DoneInv'
    BY <1>22 DEF TakeDir, At, Goto, dequeue_dir, mutexVars, countVars,
        localVars, streamVars, outVars, Running
  <1>23. ASSUME NEW t \in Thread, Sleep(t) PROVE DoneInv'
    BY <1>23 DEF Sleep, At, Goto, SignalMain, enqueue_thread, EverybodySleeps,
        mutexVars, countVars, localVars, streamVars, outVars, Running
  <1>24. ASSUME NEW t \in Thread, WakeUp(t) PROVE DoneInv'
    BY <1>24 DEF WakeUp, At, Goto, mutexVars, countVars, queueVars, localVars,
        streamVars, outVars, Running
  <1>25. ASSUME NEW t \in Thread, NEW e \in Entry, StatFails(t, e) PROVE DoneInv'
    BY <1>25 DEF StatFails, Fault, Fail, readdir, Consumed, mutexVars, queueVars,
        localVars, outVars, Goto, At, Running
  <1>26. ASSUME NEW t \in Thread, NEW e \in Entry, ScanFile(t, e) PROVE DoneInv'
    BY <1>26 DEF ScanFile, readdir, Consumed, mutexVars, countVars, queueVars,
        localVars, At, Running
  <1>27. ASSUME NEW t \in Thread, NEW e \in Entry, ScanDenied(t, e) PROVE DoneInv'
    BY <1>27 DEF ScanDenied, opendirFails, readdir, Consumed, mutexVars,
        countVars, queueVars, localVars, Fault, opendir, CanOpen, At, Running
  <1>28. ASSUME NEW t \in Thread, NEW e \in Entry, ScanDir(t, e) PROVE DoneInv'
    BY <1>28 DEF ScanDir, Goto, CanOpen, readdir, Consumed, mutexVars,
        countVars, queueVars, outVars, At, Running
  <1>29. ASSUME NEW t \in Thread, Dispatch(t) PROVE DoneInv'
    BY <1>29 DEF Dispatch, At, Goto, enqueue_dir, dequeue_thread, mutexVars,
        countVars, streamVars, outVars, Running
  <1>30. ASSUME NEW t \in Thread, DispatchFails(t) PROVE DoneInv'
    BY <1>30 DEF DispatchFails, At, Fail, Fault, queueVars, localVars,
        streamVars, outVars, Running, Goto
  <1>31. ASSUME NEW t \in Thread, Assign(t) PROVE DoneInv'
    BY <1>31 DEF Assign, At, Goto, mutexVars, countVars, queueVars, streamVars,
        outVars, Running
  <1>32. ASSUME NEW t \in Thread, Signal(t) PROVE DoneInv'
    BY <1>32 DEF Signal, At, mutexVars, countVars, queueVars, streamVars,
        outVars, Running
  <1>33. ASSUME NEW t \in Thread, EndOfDir(t) PROVE DoneInv'
    BY <1>33 DEF EndOfDir, At, Goto, Fail, mutexVars, countVars, queueVars,
        localVars, streamVars, outVars, Running
  <1>34. ASSUME NEW t \in Thread, ReaddirFails(t) PROVE DoneInv'
    BY <1>34 DEF ReaddirFails, At, Fail, Fault, readdir, mutexVars, queueVars,
        localVars, streamVars, outVars, Running, Goto
  <1>35. ASSUME NEW t \in Thread, Failed(t) PROVE DoneInv'
    BY <1>35 DEF Failed, At, Goto, SignalMain, mutexVars, countVars, queueVars,
        localVars, streamVars, outVars, Running
  <1>36. CASE UNCHANGED vars
    BY <1>36 DEF vars, mutexVars, countVars, queueVars, localVars, streamVars,
        outVars
  <1> QED
    BY <1>1, <1>2, <1>3, <1>4, <1>5, <1>6, <1>7, <1>8, <1>9, <1>10, <1>11,
        <1>12, <1>13, <1>14, <1>15, <1>16, <1>17, <1>18, <1>19, <1>20, <1>21,
        <1>22, <1>23, <1>24, <1>25, <1>26, <1>27, <1>28, <1>29, <1>30, <1>31,
        <1>32, <1>33, <1>34, <1>35, <1>36
       DEF Next, MainStep, ThreadStep, Terminated

\* What a step of readdir() adds to the entries read.
LEMMA SeenFacts ==
    ASSUME TypeOK, OwnedOpen, UnreadInv, NEW t \in Thread, NEW e \in Entry,
           readdir(t, e), unread' = Consumed(t, e), opened' = opened
    PROVE  /\ Seen' = Seen \cup {e} /\ e \notin Seen
           /\ entry[t] \in opened /\ e \in Contents[entry[t]]
  <1> DEFINE d == entry[t]
  <1>1. d \in opened /\ d \in Dir /\ e \in unread[d] /\ e \in Contents[d]
    BY DEF TypeOK, OwnedOpen, UnreadInv, readdir
  <1>2. /\ unread'[d] = unread[d] \ {e}
        /\ \A c \in Dir \ {d} : unread'[c] = unread[c]
    BY <1>1 DEF Consumed, TypeOK
  <1>3. \A c \in Dir : e \in Contents[c] => c = d
    BY <1>1, TreeAssumption
  <1> HIDE DEF d
  <1>4. e \notin Seen
    BY <1>1, <1>3 DEF Seen, TypeOK
  <1>5. Seen' = Seen \cup {e}
    BY <1>1, <1>2 DEF Seen, TypeOK
  <1> QED BY <1>1, <1>4, <1>5 DEF d

\* Opening a directory reads its name and none of its entries.
LEMMA SeenScanDir ==
    ASSUME TypeOK, OwnedOpen, UnreadInv, NEW t \in Thread, NEW e \in Entry, ScanDir(t, e)
    PROVE  Seen' = Seen \cup {e}
  <1> DEFINE d == entry[t]
  <1>1. /\ d \in opened /\ d \in Dir /\ e \in Dir \ opened /\ e \in Contents[d] /\ e # d
        /\ opened' = opened \cup {e}
        /\ unread' = [unread EXCEPT ![d] = unread[d] \ {e}, ![e] = Contents[e]]
    BY ScanDirFacts
  <1> HIDE DEF d
  <1>2. /\ unread'[d] = unread[d] \ {e} /\ unread'[e] = Contents[e]
        /\ \A c \in Dir \ {d, e} : unread'[c] = unread[c]
    BY <1>1 DEF TypeOK
  <1>3. \A x \in Entry : x \in Seen' <=> x \in Seen \cup {e}
    BY <1>1, <1>2 DEF Seen, TypeOK
  <1> QED BY <1>3 DEF Seen

\* Opening the root reads nothing.
LEMMA SeenSetup ==
    ASSUME TypeOK, UnreadInv, main_pc = "setup", opendir(Root)
    PROVE  Seen = {} /\ Seen' = {}
  <1>1. opened = {} /\ opened' = {Root} /\ unread' = [unread EXCEPT ![Root] = Contents[Root]]
    BY DEF UnreadInv, opendir
  <1>2. unread'[Root] = Contents[Root]
    BY <1>1, TreeAssumption DEF TypeOK
  <1> QED BY <1>1, <1>2 DEF Seen

\* A file that matches is counted once, when readdir() returns it (line 264).
LEMMA FoundInvStep ==
    ASSUME TypeOK, TypeOK', OwnedOpen, UnreadInv, FoundInv, [Next]_vars
    PROVE  FoundInv'
  <1> USE TreeAssumption DEF FoundInv
  <1>1. CASE Setup
    <2>1. Seen = {} /\ Seen' = {} /\ opened' = {Root}
      BY <1>1, SeenSetup DEF Setup, opendir, UnreadInv
    <2>2. UNCHANGED <<found, num_of_files_found, denied>>
      BY <1>1 DEF Setup, opendir, enqueue_dir, mutexVars, countVars, localVars, outVars, CanOpen
    <2> QED BY <2>1, <2>2
  <1>2. CASE SetupDenied
    <2>1. /\ denied' = {Root} /\ UNCHANGED <<found, num_of_files_found, opened, unread>>
          /\ main_pc = "setup"
      BY <1>2 DEF SetupDenied, streamVars
    <2>2. Seen = {} /\ Seen' = {}
      BY <2>1 DEF Seen, UnreadInv
    <2> QED BY <2>1, <2>2
  <1>3. CASE SetupNoMemory
    <2>1. Seen = {} /\ Seen' = {} /\ opened' = {Root}
      BY <1>3, SeenSetup DEF SetupNoMemory, opendir, UnreadInv
    <2>2. UNCHANGED <<found, num_of_files_found, denied>>
      BY <1>3 DEF SetupNoMemory, Fault, opendir, Exit, mutexVars, queueVars, localVars, CanOpen
    <2> QED BY <2>1, <2>2
  <1>4. CASE CreateThread
    BY <1>4 DEF CreateThread, Created, mutexVars, countVars, queueVars,
        localVars, streamVars, outVars, Seen
  <1>5. CASE MainFails
    BY <1>5 DEF MainFails, Created, Fault, Exit, mutexVars, queueVars,
        localVars, streamVars, Seen
  <1>6. CASE LockInitializer
    BY <1>6 DEF LockInitializer, Created, countVars, queueVars, localVars,
        streamVars, outVars, Seen
  <1>7. CASE CreateLast
    BY <1>7 DEF CreateLast, Created, mutexVars, countVars, queueVars, localVars,
        streamVars, outVars, Seen
  <1>8. CASE WaitInitialized
    BY <1>8 DEF WaitInitialized, countVars, queueVars, localVars, streamVars,
        outVars, Seen
  <1>9. CASE Initialized
    BY <1>9 DEF Initialized, Exit, mutexVars, countVars, queueVars, localVars,
        streamVars, Seen
  <1>10. CASE LockQueues
    BY <1>10 DEF LockQueues, countVars, queueVars, localVars, streamVars,
        outVars, Seen
  <1>11. CASE Broadcast
    BY <1>11 DEF Broadcast, mutexVars, countVars, queueVars, localVars,
        streamVars, outVars, Seen
  <1>12. CASE WaitAllSleep
    BY <1>12 DEF WaitAllSleep, countVars, queueVars, localVars, streamVars,
        outVars, Seen
  <1>13. CASE AllAsleep
    BY <1>13 DEF AllAsleep, Exit, mutexVars, countVars, queueVars, localVars,
        streamVars, Seen
  <1>14. CASE WakeNext
    BY <1>14 DEF WakeNext, mutexVars, countVars, queueVars, localVars,
        streamVars, outVars, Seen
  <1>15. CASE WakeEnd
    BY <1>15 DEF WakeEnd, mutexVars, countVars, queueVars, localVars,
        streamVars, outVars, Seen
  <1>16. CASE Join
    BY <1>16 DEF Join, Exit, mutexVars, countVars, queueVars, localVars,
        streamVars, Seen
  <1>17. ASSUME NEW t \in Thread, AllocEntry(t) PROVE FoundInv'
    BY <1>17 DEF AllocEntry, At, Goto, mutexVars, countVars, queueVars,
        localVars, streamVars, outVars, Running, Seen
  <1>18. ASSUME NEW t \in Thread, AllocEntryFails(t) PROVE FoundInv'
    BY <1>18 DEF AllocEntryFails, At, Fail, Fault, mutexVars, queueVars,
        localVars, streamVars, outVars, Running, Goto, Seen
  <1>19. ASSUME NEW t \in Thread, InitFailed(t) PROVE FoundInv'
    BY <1>19 DEF InitFailed, At, Goto, SignalMain, mutexVars, countVars,
        queueVars, localVars, streamVars, outVars, Running, Seen
  <1>20. ASSUME NEW t \in Thread, WaitStart(t) PROVE FoundInv'
    BY <1>20 DEF WaitStart, At, Goto, SignalMain, LastInitialized, mutexVars,
        queueVars, localVars, streamVars, outVars, Running, Seen
  <1>21. ASSUME NEW t \in Thread, Start(t) PROVE FoundInv'
    BY <1>21 DEF Start, At, Goto, mutexVars, countVars, queueVars, localVars,
        streamVars, outVars, Running, Seen
  <1>22. ASSUME NEW t \in Thread, TakeDir(t) PROVE FoundInv'
    BY <1>22 DEF TakeDir, At, Goto, dequeue_dir, mutexVars, countVars,
        localVars, streamVars, outVars, Running, Seen
  <1>23. ASSUME NEW t \in Thread, Sleep(t) PROVE FoundInv'
    BY <1>23 DEF Sleep, At, Goto, SignalMain, enqueue_thread, EverybodySleeps,
        mutexVars, countVars, localVars, streamVars, outVars, Running, Seen
  <1>24. ASSUME NEW t \in Thread, WakeUp(t) PROVE FoundInv'
    BY <1>24 DEF WakeUp, At, Goto, mutexVars, countVars, queueVars, localVars,
        streamVars, outVars, Running, Seen
  <1>25. ASSUME NEW t \in Thread, NEW e \in Entry, StatFails(t, e) PROVE FoundInv'
    <2>1. Seen' = Seen \cup {e} /\ e \notin Seen
      BY <1>25, SeenFacts DEF StatFails
    <2>2. denied' = denied \cup {e} /\ UNCHANGED <<found, num_of_files_found>>
      BY <1>25 DEF StatFails
    <2> QED BY <2>1, <2>2
  <1>26. ASSUME NEW t \in Thread, NEW e \in Entry, ScanFile(t, e) PROVE FoundInv'
    <2>1. Seen' = Seen \cup {e} /\ e \notin Seen
      BY <1>26, SeenFacts DEF ScanFile
    <2>4. UNCHANGED denied /\ e # Root /\ e \notin denied
      BY <1>26, <2>1 DEF ScanFile, readdir, UnreadInv, TypeOK, At
    <2>2. CASE e \in Match
      <3>1. found' = found \cup {e} /\ num_of_files_found' = num_of_files_found + 1
        BY <1>26, <2>2 DEF ScanFile
      <3>2. e \notin found /\ found \subseteq Entry
        BY <2>1 DEF TypeOK, Entry
      <3>3. IsFiniteSet(found)
        BY <3>2, FS_Subset
      <3>4. Cardinality(found \cup {e}) = Cardinality(found) + 1
        BY <3>2, <3>3, FS_AddElement
      <3> QED BY <2>1, <2>2, <2>4, <3>1, <3>4
    <2>3. CASE e \notin Match
      <3>1. UNCHANGED <<found, num_of_files_found>>
        BY <1>26, <2>3 DEF ScanFile
      <3> QED BY <2>1, <2>3, <2>4, <3>1
    <2> QED BY <2>2, <2>3
  <1>27. ASSUME NEW t \in Thread, NEW e \in Entry, ScanDenied(t, e) PROVE FoundInv'
    <2>1. Seen' = Seen \cup {e} /\ e \notin Seen
      BY <1>27, SeenFacts DEF ScanDenied
    <2>2. denied' = denied \cup {e} /\ UNCHANGED <<found, num_of_files_found>> /\ e \notin Match
      BY <1>27 DEF ScanDenied
    <2> QED BY <2>1, <2>2
  <1>28. ASSUME NEW t \in Thread, NEW e \in Entry, ScanDir(t, e) PROVE FoundInv'
    <2>1. Seen' = Seen \cup {e} /\ e \in Dir
      BY <1>28, SeenScanDir, ScanDirFacts
    <2>2. UNCHANGED <<found, num_of_files_found, denied>> /\ e \notin Match
      BY <1>28, <2>1 DEF ScanDir, outVars
    <2> QED BY <2>1, <2>2
  <1>29. ASSUME NEW t \in Thread, Dispatch(t) PROVE FoundInv'
    BY <1>29 DEF Dispatch, At, Goto, enqueue_dir, dequeue_thread, mutexVars,
        countVars, streamVars, outVars, Running, Seen
  <1>30. ASSUME NEW t \in Thread, DispatchFails(t) PROVE FoundInv'
    BY <1>30 DEF DispatchFails, At, Fail, Fault, queueVars, localVars,
        streamVars, outVars, Running, Goto, Seen
  <1>31. ASSUME NEW t \in Thread, Assign(t) PROVE FoundInv'
    BY <1>31 DEF Assign, At, Goto, mutexVars, countVars, queueVars, streamVars,
        outVars, Running, Seen
  <1>32. ASSUME NEW t \in Thread, Signal(t) PROVE FoundInv'
    BY <1>32 DEF Signal, At, mutexVars, countVars, queueVars, streamVars,
        outVars, Running, Seen
  <1>33. ASSUME NEW t \in Thread, EndOfDir(t) PROVE FoundInv'
    BY <1>33 DEF EndOfDir, At, Goto, Fail, mutexVars, countVars, queueVars,
        localVars, streamVars, outVars, Running, Seen
  <1>34. ASSUME NEW t \in Thread, ReaddirFails(t) PROVE FoundInv'
    BY <1>34 DEF ReaddirFails, At, Fail, Fault, readdir, mutexVars, queueVars,
        localVars, streamVars, outVars, Running, Goto, Seen
  <1>35. ASSUME NEW t \in Thread, Failed(t) PROVE FoundInv'
    BY <1>35 DEF Failed, At, Goto, SignalMain, mutexVars, countVars, queueVars,
        localVars, streamVars, outVars, Running, Seen
  <1>36. CASE UNCHANGED vars
    BY <1>36 DEF vars, mutexVars, countVars, queueVars, localVars, streamVars,
        outVars, Seen
  <1> QED
    BY <1>1, <1>2, <1>3, <1>4, <1>5, <1>6, <1>7, <1>8, <1>9, <1>10, <1>11,
        <1>12, <1>13, <1>14, <1>15, <1>16, <1>17, <1>18, <1>19, <1>20, <1>21,
        <1>22, <1>23, <1>24, <1>25, <1>26, <1>27, <1>28, <1>29, <1>30, <1>31,
        <1>32, <1>33, <1>34, <1>35, <1>36
       DEF Next, MainStep, ThreadStep, Terminated

\* A directory is opened, or reported, or kills its reader (lines 219-237).
LEMMA OpenedInvStep ==
    ASSUME TypeOK, TypeOK', OwnedOpen, UnreadInv, OpenedInv, [Next]_vars
    PROVE  OpenedInv'
  <1> USE TreeAssumption DEF OpenedInv
  <1>1. CASE Setup
    <2>1. Seen = {} /\ Seen' = {} /\ opened' = {Root}
      BY <1>1, SeenSetup DEF Setup, opendir, UnreadInv
    <2>2. Root \notin Denied
      BY <1>1 DEF Setup, opendir, enqueue_dir, mutexVars, countVars, localVars, outVars, CanOpen
    <2> QED BY <2>1, <2>2 DEF Entry
  <1>2. CASE SetupDenied
    <2>1. opened = {} /\ opened' = {} /\ main_pc' = "exited" /\ UNCHANGED unread
      BY <1>2 DEF SetupDenied, Exit, streamVars, UnreadInv
    <2> QED BY <2>1 DEF Seen
  <1>3. CASE SetupNoMemory
    <2>1. Seen = {} /\ Seen' = {} /\ opened' = {Root}
      BY <1>3, SeenSetup DEF SetupNoMemory, opendir, UnreadInv
    <2>2. Root \notin Denied
      BY <1>3 DEF SetupNoMemory, Fault, opendir, Exit, mutexVars, queueVars, localVars, CanOpen
    <2> QED BY <2>1, <2>2 DEF Entry
  <1>4. CASE CreateThread
    BY <1>4 DEF CreateThread, Created, mutexVars, countVars, queueVars,
        localVars, streamVars, outVars, Seen
  <1>5. CASE MainFails
    BY <1>5 DEF MainFails, Created, Fault, Exit, mutexVars, queueVars,
        localVars, streamVars, Seen
  <1>6. CASE LockInitializer
    BY <1>6 DEF LockInitializer, Created, countVars, queueVars, localVars,
        streamVars, outVars, Seen
  <1>7. CASE CreateLast
    BY <1>7 DEF CreateLast, Created, mutexVars, countVars, queueVars, localVars,
        streamVars, outVars, Seen
  <1>8. CASE WaitInitialized
    BY <1>8 DEF WaitInitialized, countVars, queueVars, localVars, streamVars,
        outVars, Seen
  <1>9. CASE Initialized
    BY <1>9 DEF Initialized, Exit, mutexVars, countVars, queueVars, localVars,
        streamVars, Seen
  <1>10. CASE LockQueues
    BY <1>10 DEF LockQueues, countVars, queueVars, localVars, streamVars,
        outVars, Seen
  <1>11. CASE Broadcast
    BY <1>11 DEF Broadcast, mutexVars, countVars, queueVars, localVars,
        streamVars, outVars, Seen
  <1>12. CASE WaitAllSleep
    BY <1>12 DEF WaitAllSleep, countVars, queueVars, localVars, streamVars,
        outVars, Seen
  <1>13. CASE AllAsleep
    BY <1>13 DEF AllAsleep, Exit, mutexVars, countVars, queueVars, localVars,
        streamVars, Seen
  <1>14. CASE WakeNext
    BY <1>14 DEF WakeNext, mutexVars, countVars, queueVars, localVars,
        streamVars, outVars, Seen
  <1>15. CASE WakeEnd
    BY <1>15 DEF WakeEnd, mutexVars, countVars, queueVars, localVars,
        streamVars, outVars, Seen
  <1>16. CASE Join
    BY <1>16 DEF Join, Exit, mutexVars, countVars, queueVars, localVars,
        streamVars, Seen
  <1>17. ASSUME NEW t \in Thread, AllocEntry(t) PROVE OpenedInv'
    BY <1>17 DEF AllocEntry, At, Goto, mutexVars, countVars, queueVars,
        localVars, streamVars, outVars, Running, Seen
  <1>18. ASSUME NEW t \in Thread, AllocEntryFails(t) PROVE OpenedInv'
    BY <1>18 DEF AllocEntryFails, At, Fail, Fault, mutexVars, queueVars,
        localVars, streamVars, outVars, Running, Goto, Seen
  <1>19. ASSUME NEW t \in Thread, InitFailed(t) PROVE OpenedInv'
    BY <1>19 DEF InitFailed, At, Goto, SignalMain, mutexVars, countVars,
        queueVars, localVars, streamVars, outVars, Running, Seen
  <1>20. ASSUME NEW t \in Thread, WaitStart(t) PROVE OpenedInv'
    BY <1>20 DEF WaitStart, At, Goto, SignalMain, LastInitialized, mutexVars,
        queueVars, localVars, streamVars, outVars, Running, Seen
  <1>21. ASSUME NEW t \in Thread, Start(t) PROVE OpenedInv'
    BY <1>21 DEF Start, At, Goto, mutexVars, countVars, queueVars, localVars,
        streamVars, outVars, Running, Seen
  <1>22. ASSUME NEW t \in Thread, TakeDir(t) PROVE OpenedInv'
    BY <1>22 DEF TakeDir, At, Goto, dequeue_dir, mutexVars, countVars,
        localVars, streamVars, outVars, Running, Seen
  <1>23. ASSUME NEW t \in Thread, Sleep(t) PROVE OpenedInv'
    BY <1>23 DEF Sleep, At, Goto, SignalMain, enqueue_thread, EverybodySleeps,
        mutexVars, countVars, localVars, streamVars, outVars, Running, Seen
  <1>24. ASSUME NEW t \in Thread, WakeUp(t) PROVE OpenedInv'
    BY <1>24 DEF WakeUp, At, Goto, mutexVars, countVars, queueVars, localVars,
        streamVars, outVars, Running, Seen
  <1>25. ASSUME NEW t \in Thread, NEW e \in Entry, StatFails(t, e) PROVE OpenedInv'
    BY <1>25 DEF StatFails, Fault, Fail, readdir, Consumed, mutexVars, queueVars,
        localVars, outVars, Goto, At, Running, Seen
  <1>26. ASSUME NEW t \in Thread, NEW e \in Entry, ScanFile(t, e) PROVE OpenedInv'
    BY <1>26 DEF ScanFile, readdir, Consumed, mutexVars, countVars, queueVars,
        localVars, At, Running, Seen
  <1>27. ASSUME NEW t \in Thread, NEW e \in Entry, ScanDenied(t, e) PROVE OpenedInv'
    BY <1>27 DEF ScanDenied, opendirFails, readdir, Consumed, mutexVars,
        countVars, queueVars, localVars, Fault, opendir, CanOpen, At, Running,
        Seen
  <1>28. ASSUME NEW t \in Thread, NEW e \in Entry, ScanDir(t, e) PROVE OpenedInv'
    <2>1. /\ Seen' = Seen \cup {e} /\ e \notin Denied
          /\ opened' = opened \cup {e} /\ main_pc' = main_pc
      BY <1>28, SeenScanDir, ScanDirFacts
    <2>2. UNCHANGED denied
      BY <1>28 DEF ScanDir, outVars
    <2> QED BY <2>1, <2>2
  <1>29. ASSUME NEW t \in Thread, Dispatch(t) PROVE OpenedInv'
    BY <1>29 DEF Dispatch, At, Goto, enqueue_dir, dequeue_thread, mutexVars,
        countVars, streamVars, outVars, Running, Seen
  <1>30. ASSUME NEW t \in Thread, DispatchFails(t) PROVE OpenedInv'
    BY <1>30 DEF DispatchFails, At, Fail, Fault, queueVars, localVars,
        streamVars, outVars, Running, Goto, Seen
  <1>31. ASSUME NEW t \in Thread, Assign(t) PROVE OpenedInv'
    BY <1>31 DEF Assign, At, Goto, mutexVars, countVars, queueVars, streamVars,
        outVars, Running, Seen
  <1>32. ASSUME NEW t \in Thread, Signal(t) PROVE OpenedInv'
    BY <1>32 DEF Signal, At, mutexVars, countVars, queueVars, streamVars,
        outVars, Running, Seen
  <1>33. ASSUME NEW t \in Thread, EndOfDir(t) PROVE OpenedInv'
    BY <1>33 DEF EndOfDir, At, Goto, Fail, mutexVars, countVars, queueVars,
        localVars, streamVars, outVars, Running, Seen
  <1>34. ASSUME NEW t \in Thread, ReaddirFails(t) PROVE OpenedInv'
    BY <1>34 DEF ReaddirFails, At, Fail, Fault, readdir, mutexVars, queueVars,
        localVars, streamVars, outVars, Running, Goto, Seen
  <1>35. ASSUME NEW t \in Thread, Failed(t) PROVE OpenedInv'
    BY <1>35 DEF Failed, At, Goto, SignalMain, mutexVars, countVars, queueVars,
        localVars, streamVars, outVars, Running, Seen
  <1>36. CASE UNCHANGED vars
    BY <1>36 DEF vars, mutexVars, countVars, queueVars, localVars, streamVars,
        outVars, Seen
  <1> QED
    BY <1>1, <1>2, <1>3, <1>4, <1>5, <1>6, <1>7, <1>8, <1>9, <1>10, <1>11,
        <1>12, <1>13, <1>14, <1>15, <1>16, <1>17, <1>18, <1>19, <1>20, <1>21,
        <1>22, <1>23, <1>24, <1>25, <1>26, <1>27, <1>28, <1>29, <1>30, <1>31,
        <1>32, <1>33, <1>34, <1>35, <1>36
       DEF Next, MainStep, ThreadStep, Terminated

\* Only what is reachable from the root is read.
LEMMA ReachInvStep ==
    ASSUME TypeOK, TypeOK', OwnedOpen, UnreadInv, OpenedInv, ReachInv, [Next]_vars
    PROVE  ReachInv'
  <1> USE TreeAssumption DEF ReachInv
  <1>1. CASE Setup
    <2>1. Seen = {} /\ Seen' = {} /\ opened' = {Root}
      BY <1>1, SeenSetup DEF Setup, opendir, UnreadInv
    <2> QED BY <2>1 DEF Closed
  <1>2. CASE SetupDenied
    BY <1>2 DEF SetupDenied, opendirFails, Exit, mutexVars, queueVars,
        localVars, streamVars, Fault, opendir, CanOpen, Seen
  <1>3. CASE SetupNoMemory
    <2>1. Seen = {} /\ Seen' = {} /\ opened' = {Root}
      BY <1>3, SeenSetup DEF SetupNoMemory, opendir, UnreadInv
    <2> QED BY <2>1 DEF Closed
  <1>4. CASE CreateThread
    BY <1>4 DEF CreateThread, Created, mutexVars, countVars, queueVars,
        localVars, streamVars, outVars, Seen
  <1>5. CASE MainFails
    BY <1>5 DEF MainFails, Created, Fault, Exit, mutexVars, queueVars,
        localVars, streamVars, Seen
  <1>6. CASE LockInitializer
    BY <1>6 DEF LockInitializer, Created, countVars, queueVars, localVars,
        streamVars, outVars, Seen
  <1>7. CASE CreateLast
    BY <1>7 DEF CreateLast, Created, mutexVars, countVars, queueVars, localVars,
        streamVars, outVars, Seen
  <1>8. CASE WaitInitialized
    BY <1>8 DEF WaitInitialized, countVars, queueVars, localVars, streamVars,
        outVars, Seen
  <1>9. CASE Initialized
    BY <1>9 DEF Initialized, Exit, mutexVars, countVars, queueVars, localVars,
        streamVars, Seen
  <1>10. CASE LockQueues
    BY <1>10 DEF LockQueues, countVars, queueVars, localVars, streamVars,
        outVars, Seen
  <1>11. CASE Broadcast
    BY <1>11 DEF Broadcast, mutexVars, countVars, queueVars, localVars,
        streamVars, outVars, Seen
  <1>12. CASE WaitAllSleep
    BY <1>12 DEF WaitAllSleep, countVars, queueVars, localVars, streamVars,
        outVars, Seen
  <1>13. CASE AllAsleep
    BY <1>13 DEF AllAsleep, Exit, mutexVars, countVars, queueVars, localVars,
        streamVars, Seen
  <1>14. CASE WakeNext
    BY <1>14 DEF WakeNext, mutexVars, countVars, queueVars, localVars,
        streamVars, outVars, Seen
  <1>15. CASE WakeEnd
    BY <1>15 DEF WakeEnd, mutexVars, countVars, queueVars, localVars,
        streamVars, outVars, Seen
  <1>16. CASE Join
    BY <1>16 DEF Join, Exit, mutexVars, countVars, queueVars, localVars,
        streamVars, Seen
  <1>17. ASSUME NEW t \in Thread, AllocEntry(t) PROVE ReachInv'
    BY <1>17 DEF AllocEntry, At, Goto, mutexVars, countVars, queueVars,
        localVars, streamVars, outVars, Running, Seen
  <1>18. ASSUME NEW t \in Thread, AllocEntryFails(t) PROVE ReachInv'
    BY <1>18 DEF AllocEntryFails, At, Fail, Fault, mutexVars, queueVars,
        localVars, streamVars, outVars, Running, Goto, Seen
  <1>19. ASSUME NEW t \in Thread, InitFailed(t) PROVE ReachInv'
    BY <1>19 DEF InitFailed, At, Goto, SignalMain, mutexVars, countVars,
        queueVars, localVars, streamVars, outVars, Running, Seen
  <1>20. ASSUME NEW t \in Thread, WaitStart(t) PROVE ReachInv'
    BY <1>20 DEF WaitStart, At, Goto, SignalMain, LastInitialized, mutexVars,
        queueVars, localVars, streamVars, outVars, Running, Seen
  <1>21. ASSUME NEW t \in Thread, Start(t) PROVE ReachInv'
    BY <1>21 DEF Start, At, Goto, mutexVars, countVars, queueVars, localVars,
        streamVars, outVars, Running, Seen
  <1>22. ASSUME NEW t \in Thread, TakeDir(t) PROVE ReachInv'
    BY <1>22 DEF TakeDir, At, Goto, dequeue_dir, mutexVars, countVars,
        localVars, streamVars, outVars, Running, Seen
  <1>23. ASSUME NEW t \in Thread, Sleep(t) PROVE ReachInv'
    BY <1>23 DEF Sleep, At, Goto, SignalMain, enqueue_thread, EverybodySleeps,
        mutexVars, countVars, localVars, streamVars, outVars, Running, Seen
  <1>24. ASSUME NEW t \in Thread, WakeUp(t) PROVE ReachInv'
    BY <1>24 DEF WakeUp, At, Goto, mutexVars, countVars, queueVars, localVars,
        streamVars, outVars, Running, Seen
  <1>25. ASSUME NEW t \in Thread, NEW e \in Entry, StatFails(t, e) PROVE ReachInv'
    <2>1. /\ Seen' = Seen \cup {e} /\ entry[t] \in opened /\ e \in Contents[entry[t]]
          /\ opened' = opened
      BY <1>25, SeenFacts DEF StatFails
    <2>2. entry[t] \in Dir /\ entry[t] \notin Denied
      BY <2>1 DEF OpenedInv, TypeOK
    <2> QED BY <2>1, <2>2 DEF Closed
  <1>26. ASSUME NEW t \in Thread, NEW e \in Entry, ScanFile(t, e) PROVE ReachInv'
    <2>1. /\ Seen' = Seen \cup {e} /\ entry[t] \in opened /\ e \in Contents[entry[t]]
          /\ opened' = opened
      BY <1>26, SeenFacts DEF ScanFile
    <2>2. entry[t] \in Dir /\ entry[t] \notin Denied
      BY <2>1 DEF OpenedInv, TypeOK
    <2> QED BY <2>1, <2>2 DEF Closed
  <1>27. ASSUME NEW t \in Thread, NEW e \in Entry, ScanDenied(t, e) PROVE ReachInv'
    <2>1. /\ Seen' = Seen \cup {e} /\ entry[t] \in opened /\ e \in Contents[entry[t]]
          /\ opened' = opened
      BY <1>27, SeenFacts DEF ScanDenied
    <2>2. entry[t] \in Dir /\ entry[t] \notin Denied
      BY <2>1 DEF OpenedInv, TypeOK
    <2> QED BY <2>1, <2>2 DEF Closed
  <1>28. ASSUME NEW t \in Thread, NEW e \in Entry, ScanDir(t, e) PROVE ReachInv'
    <2>1. /\ Seen' = Seen \cup {e} /\ entry[t] \in opened /\ e \in Contents[entry[t]]
          /\ opened' = opened \cup {e}
      BY <1>28, SeenScanDir, ScanDirFacts
    <2>2. entry[t] \in Dir /\ entry[t] \notin Denied
      BY <2>1 DEF OpenedInv, TypeOK
    <2> QED BY <2>1, <2>2 DEF Closed
  <1>29. ASSUME NEW t \in Thread, Dispatch(t) PROVE ReachInv'
    BY <1>29 DEF Dispatch, At, Goto, enqueue_dir, dequeue_thread, mutexVars,
        countVars, streamVars, outVars, Running, Seen
  <1>30. ASSUME NEW t \in Thread, DispatchFails(t) PROVE ReachInv'
    BY <1>30 DEF DispatchFails, At, Fail, Fault, queueVars, localVars,
        streamVars, outVars, Running, Goto, Seen
  <1>31. ASSUME NEW t \in Thread, Assign(t) PROVE ReachInv'
    BY <1>31 DEF Assign, At, Goto, mutexVars, countVars, queueVars, streamVars,
        outVars, Running, Seen
  <1>32. ASSUME NEW t \in Thread, Signal(t) PROVE ReachInv'
    BY <1>32 DEF Signal, At, mutexVars, countVars, queueVars, streamVars,
        outVars, Running, Seen
  <1>33. ASSUME NEW t \in Thread, EndOfDir(t) PROVE ReachInv'
    BY <1>33 DEF EndOfDir, At, Goto, Fail, mutexVars, countVars, queueVars,
        localVars, streamVars, outVars, Running, Seen
  <1>34. ASSUME NEW t \in Thread, ReaddirFails(t) PROVE ReachInv'
    BY <1>34 DEF ReaddirFails, At, Fail, Fault, readdir, mutexVars, queueVars,
        localVars, streamVars, outVars, Running, Goto, Seen
  <1>35. ASSUME NEW t \in Thread, Failed(t) PROVE ReachInv'
    BY <1>35 DEF Failed, At, Goto, SignalMain, mutexVars, countVars, queueVars,
        localVars, streamVars, outVars, Running, Seen
  <1>36. CASE UNCHANGED vars
    BY <1>36 DEF vars, mutexVars, countVars, queueVars, localVars, streamVars,
        outVars, Seen
  <1> QED
    BY <1>1, <1>2, <1>3, <1>4, <1>5, <1>6, <1>7, <1>8, <1>9, <1>10, <1>11,
        <1>12, <1>13, <1>14, <1>15, <1>16, <1>17, <1>18, <1>19, <1>20, <1>21,
        <1>22, <1>23, <1>24, <1>25, <1>26, <1>27, <1>28, <1>29, <1>30, <1>31,
        <1>32, <1>33, <1>34, <1>35, <1>36
       DEF Next, MainStep, ThreadStep, Terminated

\* Whatever is left out leaves a thread behind that never enters thread_q.
LEMMA SpoiledInvStep ==
    ASSUME TypeOK, TypeOK', ThreadInv, ThreadInv', QueueInv, OwnedOpen, UnreadInv,
           DoneInv, DoneInv', SpoiledInv, [Next]_vars
    PROVE  SpoiledInv'
  <1> USE TreeAssumption DEF TypeOK, SpoiledInv, Spoiled, Running
  <1>1. CASE Setup
    BY <1>1 DEF Setup, opendir, enqueue_dir, mutexVars, countVars, localVars,
        outVars, CanOpen, Seen
  <1>2. CASE SetupDenied
    <2>1. main_pc = "setup" /\ main_pc' = "exited" /\ UNCHANGED done
      BY <1>2 DEF SetupDenied, Exit
    <2>2. ~done
      BY <2>1 DEF DoneInv
    <2> QED BY <2>1, <2>2
  <1>3. CASE SetupNoMemory
    BY <1>3 DEF SetupNoMemory, Fault, opendir, Exit, mutexVars, queueVars,
        localVars, CanOpen, Seen
  <1>4. CASE CreateThread
    BY <1>4 DEF CreateThread, Created, mutexVars, countVars, queueVars,
        localVars, streamVars, outVars, Seen
  <1>5. CASE MainFails
    BY <1>5 DEF MainFails, Created, Fault, Exit, mutexVars, queueVars,
        localVars, streamVars, Seen
  <1>6. CASE LockInitializer
    BY <1>6 DEF LockInitializer, Created, countVars, queueVars, localVars,
        streamVars, outVars, Seen
  <1>7. CASE CreateLast
    BY <1>7 DEF CreateLast, Created, mutexVars, countVars, queueVars, localVars,
        streamVars, outVars, Seen
  <1>8. CASE WaitInitialized
    BY <1>8 DEF WaitInitialized, countVars, queueVars, localVars, streamVars,
        outVars, Seen
  <1>9. CASE Initialized
    BY <1>9 DEF Initialized, Exit, mutexVars, countVars, queueVars, localVars,
        streamVars, Seen
  <1>10. CASE LockQueues
    BY <1>10 DEF LockQueues, countVars, queueVars, localVars, streamVars,
        outVars, Seen
  <1>11. CASE Broadcast
    BY <1>11 DEF Broadcast, mutexVars, countVars, queueVars, localVars,
        streamVars, outVars, Seen
  <1>12. CASE WaitAllSleep
    BY <1>12 DEF WaitAllSleep, countVars, queueVars, localVars, streamVars,
        outVars, Seen
  <1>13. CASE AllAsleep
    <2>1. /\ UNCHANGED <<errno, pc, entry, opened, unread, denied, report>>
          /\ main_pc = "sleep_woken"
      BY <1>13 DEF AllAsleep, streamVars
    <2>2. Seen' = Seen
      BY <2>1 DEF Seen
    <2>3. CASE done'
      <3>1. \A t \in Thread : ~Spoiled(t)
        BY <2>1, <2>3 DEF DoneInv, DoneQuiescent, ThreadInv, InScan
      <3> QED BY <2>1, <2>2, <2>3, <3>1
    <2>4. CASE ~done'
      BY <2>1, <2>2, <2>4
    <2> QED BY <2>3, <2>4
  <1>14. CASE WakeNext
    BY <1>14 DEF WakeNext, mutexVars, countVars, queueVars, localVars,
        streamVars, outVars, Seen
  <1>15. CASE WakeEnd
    BY <1>15 DEF WakeEnd, mutexVars, countVars, queueVars, localVars,
        streamVars, outVars, Seen
  <1>16. CASE Join
    BY <1>16 DEF Join, Exit, mutexVars, countVars, queueVars, localVars,
        streamVars, Seen
  <1>17. ASSUME NEW t \in Thread, AllocEntry(t) PROVE SpoiledInv'
    BY <1>17 DEF AllocEntry, At, Goto, mutexVars, countVars, queueVars,
        localVars, streamVars, outVars, Running, Seen
  <1>18. ASSUME NEW t \in Thread, AllocEntryFails(t) PROVE SpoiledInv'
    BY <1>18 DEF AllocEntryFails, At, Fail, Fault, mutexVars, queueVars,
        localVars, streamVars, outVars, Running, Goto, Seen
  <1>19. ASSUME NEW t \in Thread, InitFailed(t) PROVE SpoiledInv'
    BY <1>19 DEF InitFailed, At, Goto, SignalMain, mutexVars, countVars,
        queueVars, localVars, streamVars, outVars, Running, Seen
  <1>20. ASSUME NEW t \in Thread, WaitStart(t) PROVE SpoiledInv'
    BY <1>20 DEF WaitStart, At, Goto, SignalMain, LastInitialized, mutexVars,
        queueVars, localVars, streamVars, outVars, Running, Seen
  <1>21. ASSUME NEW t \in Thread, Start(t) PROVE SpoiledInv'
    BY <1>21 DEF Start, At, Goto, mutexVars, countVars, queueVars, localVars,
        streamVars, outVars, Running, Seen
  <1>22. ASSUME NEW t \in Thread, TakeDir(t) PROVE SpoiledInv'
    <2>1. /\ UNCHANGED <<main_pc, opened, unread, denied, report, done>>
      BY <1>22 DEF TakeDir, At, Goto, dequeue_dir, mutexVars, countVars,
          localVars, streamVars, outVars, Running
    <2>2. Seen' = Seen
      BY <2>1 DEF Seen
    <2>3. \A u \in Thread : Spoiled(u) => Spoiled(u)'
      <3>1. pc[t] \in {"first_dequeue", "get_next"}
        BY <1>22 DEF TakeDir, At
      <3>2. ~errno[t]
        BY <3>1 DEF ThreadInv, InScan
      <3>3. \A u \in Thread \ {t} : errno'[u] = errno[u] /\ pc'[u] = pc[u] /\ entry'[u] = entry[u]
        BY <1>22 DEF TakeDir, Goto
      <3> QED BY <3>1, <3>2, <3>3
    <2> HIDE DEF Spoiled
    <2> QED BY <2>1, <2>2, <2>3
  <1>23. ASSUME NEW t \in Thread, Sleep(t) PROVE SpoiledInv'
    BY <1>23 DEF Sleep, At, Goto, SignalMain, enqueue_thread, EverybodySleeps,
        mutexVars, countVars, localVars, streamVars, outVars, Running, Seen
  <1>24. ASSUME NEW t \in Thread, WakeUp(t) PROVE SpoiledInv'
    <2>1. /\ UNCHANGED <<main_pc, opened, unread, denied, report, done>>
      BY <1>24 DEF WakeUp, At, Goto, mutexVars, countVars, queueVars, localVars,
          streamVars, outVars, Running
    <2>2. Seen' = Seen
      BY <2>1 DEF Seen
    <2>3. \A u \in Thread : Spoiled(u) => Spoiled(u)'
      <3>1. pc[t] = "woken" /\ entry' = entry
        BY <1>24 DEF WakeUp, At
      <3>2. ~errno[t]
        BY <3>1 DEF ThreadInv, InScan
      <3>3. \A u \in Thread \ {t} : errno'[u] = errno[u] /\ pc'[u] = pc[u]
        BY <1>24 DEF WakeUp, Goto
      <3> QED BY <3>1, <3>2, <3>3
    <2> HIDE DEF Spoiled
    <2> QED BY <2>1, <2>2, <2>3
  <1>25. ASSUME NEW t \in Thread, NEW e \in Entry, StatFails(t, e) PROVE SpoiledInv'
    <2>1. /\ pc'[t] = "failed" /\ UNCHANGED <<main_pc, report, done>> /\ pc[t] = "scan"
          /\ denied' = denied \cup {e} /\ readdir(t, e)
      BY <1>25 DEF StatFails, Fault, Fail, readdir, Consumed, mutexVars, queueVars,
          localVars, outVars, Goto, At, Running
    <2>2. ~done
      BY <2>1 DEF DoneInv, DoneQuiescent
    <2>3. e # Root
      BY <2>1 DEF readdir, UnreadInv
    <2> QED BY <2>1, <2>2, <2>3
  <1>26. ASSUME NEW t \in Thread, NEW e \in Entry, ScanFile(t, e) PROVE SpoiledInv'
    <2>1. UNCHANGED <<main_pc, denied, report, done, errno, pc, entry>>
      BY <1>26 DEF ScanFile
    <2>2. Seen' = Seen \cup {e}
      BY <1>26, SeenFacts DEF ScanFile
    <2> QED BY <2>1, <2>2
  <1>27. ASSUME NEW t \in Thread, NEW e \in Entry, ScanDenied(t, e) PROVE SpoiledInv'
    <2>1. /\ errno'[t] /\ UNCHANGED <<main_pc, report, done>> /\ pc[t] = "scan"
          /\ denied' = denied \cup {e} /\ readdir(t, e)
      BY <1>27 DEF ScanDenied, readdir, At
    <2>2. ~done
      BY <2>1 DEF DoneInv, DoneQuiescent
    <2>3. e # Root
      BY <2>1 DEF readdir, UnreadInv
    <2> QED BY <2>1, <2>2, <2>3
  <1>28. ASSUME NEW t \in Thread, NEW e \in Entry, ScanDir(t, e) PROVE SpoiledInv'
    <2>1. UNCHANGED <<main_pc, denied, report, done>>
      BY <1>28 DEF ScanDir, outVars
    <2>2. Seen' = Seen \cup {e}
      BY <1>28, SeenScanDir
    <2>3. \A u \in Thread : Spoiled(u) => Spoiled(u)'
      <3>1. /\ pc[t] = "scan" /\ UNCHANGED <<errno, entry>>
            /\ \A u \in Thread \ {t} : pc'[u] = pc[u]
        BY <1>28 DEF ScanDir, readdir, At, Goto
      <3> QED BY <3>1
    <2> HIDE DEF Spoiled
    <2> QED BY <2>1, <2>2, <2>3
  <1>29. ASSUME NEW t \in Thread, Dispatch(t) PROVE SpoiledInv'
    BY <1>29 DEF Dispatch, At, Goto, enqueue_dir, dequeue_thread, mutexVars,
        countVars, streamVars, outVars, Running, Seen
  <1>30. ASSUME NEW t \in Thread, DispatchFails(t) PROVE SpoiledInv'
    BY <1>30 DEF DispatchFails, At, Fail, Fault, queueVars, localVars,
        streamVars, outVars, Running, Goto, Seen
  <1>31. ASSUME NEW t \in Thread, Assign(t) PROVE SpoiledInv'
    <2>1. /\ UNCHANGED <<main_pc, opened, unread, denied, report, done>>
      BY <1>31 DEF Assign, At, Goto, mutexVars, countVars, queueVars,
          streamVars, outVars, Running
    <2>2. Seen' = Seen
      BY <2>1 DEF Seen
    <2>3. \A u \in Thread : Spoiled(u) => Spoiled(u)'
      <3>1. /\ pc[next_thread[t]] = "sleep" /\ pc[t] = "assign" /\ errno' = errno
            /\ \A u \in Thread \ {next_thread[t]} : entry'[u] = entry[u]
            /\ \A u \in Thread \ {t} : pc'[u] = pc[u]
        BY <1>31 DEF Assign, At, Goto, QueueInv, HandOver, ThreadInv
      <3> QED BY <3>1
    <2> HIDE DEF Spoiled
    <2> QED BY <2>1, <2>2, <2>3
  <1>32. ASSUME NEW t \in Thread, Signal(t) PROVE SpoiledInv'
    BY <1>32 DEF Signal, At, mutexVars, countVars, queueVars, streamVars,
        outVars, Running, Seen
  <1>33. ASSUME NEW t \in Thread, EndOfDir(t) PROVE SpoiledInv'
    BY <1>33 DEF EndOfDir, At, Goto, Fail, mutexVars, countVars, queueVars,
        localVars, streamVars, outVars, Running, Seen
  <1>34. ASSUME NEW t \in Thread, ReaddirFails(t) PROVE SpoiledInv'
    BY <1>34 DEF ReaddirFails, At, Fail, Fault, readdir, mutexVars, queueVars,
        localVars, streamVars, outVars, Running, Goto, Seen
  <1>35. ASSUME NEW t \in Thread, Failed(t) PROVE SpoiledInv'
    <2>1. /\ UNCHANGED <<opened, unread, denied, report, done, entry>>
          /\ pc[t] = "failed" /\ pc'[t] = "exited" /\ main_pc # "exited"
      BY <1>35 DEF Failed, At, Goto, SignalMain, mutexVars, countVars,
          queueVars, localVars, streamVars, outVars, Running
    <2>2. Seen' = Seen
      BY <2>1 DEF Seen
    <2>3. Spoiled(t)'
      BY <2>1 DEF ThreadInv
    <2> QED BY <2>1, <2>2, <2>3
  <1>36. CASE UNCHANGED vars
    BY <1>36 DEF vars, mutexVars, countVars, queueVars, localVars, streamVars,
        outVars, Seen
  <1> QED
    BY <1>1, <1>2, <1>3, <1>4, <1>5, <1>6, <1>7, <1>8, <1>9, <1>10, <1>11,
        <1>12, <1>13, <1>14, <1>15, <1>16, <1>17, <1>18, <1>19, <1>20, <1>21,
        <1>22, <1>23, <1>24, <1>25, <1>26, <1>27, <1>28, <1>29, <1>30, <1>31,
        <1>32, <1>33, <1>34, <1>35, <1>36
       DEF Next, MainStep, ThreadStep, Terminated

\* The report of line 545 is made from a complete search.
LEMMA DoneCompleteStep ==
    ASSUME TypeOK, TypeOK', DoneInv, FoundInv, OpenedInv, ReachInv, SpoiledInv, DoneComplete,
           [Next]_vars
    PROVE  DoneComplete'
  <1> USE DEF DoneComplete, SearchReport
  <1>1. CASE Setup
    BY <1>1 DEF Setup, opendir, enqueue_dir, mutexVars, countVars, localVars,
        outVars, CanOpen, SpoiledInv, Running
  <1>2. CASE SetupDenied
    BY <1>2 DEF SetupDenied, opendirFails, Exit, mutexVars, queueVars,
        localVars, streamVars, Fault, opendir, CanOpen, SpoiledInv, Running
  <1>3. CASE SetupNoMemory
    BY <1>3 DEF SetupNoMemory, Fault, opendir, Exit, mutexVars, queueVars,
        localVars, CanOpen, SpoiledInv, Running
  <1>4. CASE CreateThread
    BY <1>4 DEF CreateThread, Created, mutexVars, countVars, queueVars,
        localVars, streamVars, outVars, SpoiledInv, Running
  <1>5. CASE MainFails
    BY <1>5 DEF MainFails, Created, Fault, Exit, mutexVars, queueVars,
        localVars, streamVars, SpoiledInv, Running
  <1>6. CASE LockInitializer
    BY <1>6 DEF LockInitializer, Created, countVars, queueVars, localVars,
        streamVars, outVars, SpoiledInv, Running
  <1>7. CASE CreateLast
    BY <1>7 DEF CreateLast, Created, mutexVars, countVars, queueVars, localVars,
        streamVars, outVars, SpoiledInv, Running
  <1>8. CASE WaitInitialized
    BY <1>8 DEF WaitInitialized, countVars, queueVars, localVars, streamVars,
        outVars, SpoiledInv, Running
  <1>9. CASE Initialized
    BY <1>9 DEF Initialized, Exit, mutexVars, countVars, queueVars, localVars,
        streamVars, SpoiledInv, Running
  <1>10. CASE LockQueues
    BY <1>10 DEF LockQueues, countVars, queueVars, localVars, streamVars,
        outVars, SpoiledInv, Running
  <1>11. CASE Broadcast
    BY <1>11 DEF Broadcast, mutexVars, countVars, queueVars, localVars,
        streamVars, outVars, SpoiledInv, Running
  <1>12. CASE WaitAllSleep
    BY <1>12 DEF WaitAllSleep, countVars, queueVars, localVars, streamVars,
        outVars, SpoiledInv, Running
  <1>13. CASE AllAsleep
    BY <1>13 DEF AllAsleep, Exit, mutexVars, countVars, queueVars, localVars,
        streamVars, SpoiledInv, Running
  <1>14. CASE WakeNext
    BY <1>14 DEF WakeNext, mutexVars, countVars, queueVars, localVars,
        streamVars, outVars, SpoiledInv, Running
  <1>15. CASE WakeEnd
    BY <1>15 DEF WakeEnd, mutexVars, countVars, queueVars, localVars,
        streamVars, outVars, SpoiledInv, Running
  <1>16. CASE Join
    <2>1. /\ main_pc = "join" /\ report' = num_of_files_found /\ UNCHANGED <<found, denied>>
      BY <1>16 DEF Join
    <2>2. /\ done /\ denied = {} /\ Root \in opened
          /\ \A d \in opened : unread[d] = {}
      BY <2>1 DEF DoneInv, DoneQuiescent, SpoiledInv, OpenedInv
    <2> DEFINE X == Seen \cup {Root}
    <2>3. Closed(X)
      <3> SUFFICES ASSUME NEW d \in X \cap Dir PROVE Contents[d] \subseteq X
        BY DEF Closed
      <3>1. d \in opened
        BY <2>2 DEF OpenedInv
      <3> QED BY <2>2, <3>1, TreeAssumption DEF Seen
    <2>4. X \subseteq Entry
      BY TreeAssumption DEF Seen, Entry
    <2>5. Reachable \subseteq X
      BY <2>3, <2>4 DEF Reachable
    <2>6. X \subseteq Reachable
      BY <2>2, <2>4 DEF Reachable, ReachInv
    <2>7. Root \notin Match
      BY TreeAssumption
    <2>8. found = Matches
      BY <2>2, <2>5, <2>6, <2>7 DEF Matches, FoundInv
    <2> QED BY <2>1, <2>8 DEF FoundInv, Matches, Reachable, Closed
  <1>17. ASSUME NEW t \in Thread, AllocEntry(t) PROVE DoneComplete'
    BY <1>17 DEF AllocEntry, At, Goto, mutexVars, countVars, queueVars,
        localVars, streamVars, outVars, Running, SpoiledInv, Running
  <1>18. ASSUME NEW t \in Thread, AllocEntryFails(t) PROVE DoneComplete'
    BY <1>18 DEF AllocEntryFails, At, Fail, Fault, mutexVars, queueVars,
        localVars, streamVars, outVars, Running, Goto, SpoiledInv, Running
  <1>19. ASSUME NEW t \in Thread, InitFailed(t) PROVE DoneComplete'
    BY <1>19 DEF InitFailed, At, Goto, SignalMain, mutexVars, countVars,
        queueVars, localVars, streamVars, outVars, Running, SpoiledInv, Running
  <1>20. ASSUME NEW t \in Thread, WaitStart(t) PROVE DoneComplete'
    BY <1>20 DEF WaitStart, At, Goto, SignalMain, LastInitialized, mutexVars,
        queueVars, localVars, streamVars, outVars, Running, SpoiledInv, Running
  <1>21. ASSUME NEW t \in Thread, Start(t) PROVE DoneComplete'
    BY <1>21 DEF Start, At, Goto, mutexVars, countVars, queueVars, localVars,
        streamVars, outVars, Running, SpoiledInv, Running
  <1>22. ASSUME NEW t \in Thread, TakeDir(t) PROVE DoneComplete'
    BY <1>22 DEF TakeDir, At, Goto, dequeue_dir, mutexVars, countVars,
        localVars, streamVars, outVars, Running, SpoiledInv, Running
  <1>23. ASSUME NEW t \in Thread, Sleep(t) PROVE DoneComplete'
    BY <1>23 DEF Sleep, At, Goto, SignalMain, enqueue_thread, EverybodySleeps,
        mutexVars, countVars, localVars, streamVars, outVars, Running,
        SpoiledInv, Running
  <1>24. ASSUME NEW t \in Thread, WakeUp(t) PROVE DoneComplete'
    BY <1>24 DEF WakeUp, At, Goto, mutexVars, countVars, queueVars, localVars,
        streamVars, outVars, Running, SpoiledInv, Running
  <1>25. ASSUME NEW t \in Thread, NEW e \in Entry, StatFails(t, e) PROVE DoneComplete'
    BY <1>25 DEF StatFails, Fault, Fail, readdir, Consumed, mutexVars, queueVars,
        localVars, outVars, Goto, At, Running, SpoiledInv, Running
  <1>26. ASSUME NEW t \in Thread, NEW e \in Entry, ScanFile(t, e) PROVE DoneComplete'
    BY <1>26 DEF ScanFile, readdir, Consumed, mutexVars, countVars, queueVars,
        localVars, At, Running, SpoiledInv, Running
  <1>27. ASSUME NEW t \in Thread, NEW e \in Entry, ScanDenied(t, e) PROVE DoneComplete'
    BY <1>27 DEF ScanDenied, opendirFails, readdir, Consumed, mutexVars,
        countVars, queueVars, localVars, Fault, opendir, CanOpen, At, Running,
        SpoiledInv, Running
  <1>28. ASSUME NEW t \in Thread, NEW e \in Entry, ScanDir(t, e) PROVE DoneComplete'
    BY <1>28 DEF ScanDir, Goto, CanOpen, readdir, Consumed, mutexVars,
        countVars, queueVars, outVars, At, Running, SpoiledInv, Running
  <1>29. ASSUME NEW t \in Thread, Dispatch(t) PROVE DoneComplete'
    BY <1>29 DEF Dispatch, At, Goto, enqueue_dir, dequeue_thread, mutexVars,
        countVars, streamVars, outVars, Running, SpoiledInv, Running
  <1>30. ASSUME NEW t \in Thread, DispatchFails(t) PROVE DoneComplete'
    BY <1>30 DEF DispatchFails, At, Fail, Fault, queueVars, localVars,
        streamVars, outVars, Running, Goto, SpoiledInv, Running
  <1>31. ASSUME NEW t \in Thread, Assign(t) PROVE DoneComplete'
    BY <1>31 DEF Assign, At, Goto, mutexVars, countVars, queueVars, streamVars,
        outVars, Running, SpoiledInv, Running
  <1>32. ASSUME NEW t \in Thread, Signal(t) PROVE DoneComplete'
    BY <1>32 DEF Signal, At, mutexVars, countVars, queueVars, streamVars,
        outVars, Running, SpoiledInv, Running
  <1>33. ASSUME NEW t \in Thread, EndOfDir(t) PROVE DoneComplete'
    BY <1>33 DEF EndOfDir, At, Goto, Fail, mutexVars, countVars, queueVars,
        localVars, streamVars, outVars, Running, SpoiledInv, Running
  <1>34. ASSUME NEW t \in Thread, ReaddirFails(t) PROVE DoneComplete'
    BY <1>34 DEF ReaddirFails, At, Fail, Fault, readdir, mutexVars, queueVars,
        localVars, streamVars, outVars, Running, Goto, SpoiledInv, Running
  <1>35. ASSUME NEW t \in Thread, Failed(t) PROVE DoneComplete'
    BY <1>35 DEF Failed, At, Goto, SignalMain, mutexVars, countVars, queueVars,
        localVars, streamVars, outVars, Running, SpoiledInv, Running
  <1>36. CASE UNCHANGED vars
    BY <1>36 DEF vars, mutexVars, countVars, queueVars, localVars, streamVars,
        outVars, SpoiledInv, Running
  <1> QED
    BY <1>1, <1>2, <1>3, <1>4, <1>5, <1>6, <1>7, <1>8, <1>9, <1>10, <1>11,
        <1>12, <1>13, <1>14, <1>15, <1>16, <1>17, <1>18, <1>19, <1>20, <1>21,
        <1>22, <1>23, <1>24, <1>25, <1>26, <1>27, <1>28, <1>29, <1>30, <1>31,
        <1>32, <1>33, <1>34, <1>35, <1>36
       DEF Next, MainStep, ThreadStep, Terminated

(***************************************************************************)
(* The inductive invariant and what follows from it                        *)
(***************************************************************************)
\* The queues at the start.
\* A failure is recorded before main() can read status (lines 126, 221, 271, 484,
\* 509, 546).
LEMMA ExitInvStep ==
    ASSUME TypeOK, SpoiledInv, ExitInv, [Next]_vars
    PROVE  ExitInv'
  <1> USE ThreadsAssumption, NullAssumption DEF TypeOK, ExitInv,
          SuccessMeansComplete, SearchReport, Running, SUCCESS, FAILURE, Created
  <1>1. CASE Setup
    BY <1>1 DEF Setup, opendir, enqueue_dir, mutexVars, countVars, localVars,
        outVars, CanOpen
  <1>2. CASE SetupDenied
    BY <1>2 DEF SetupDenied, opendirFails, Exit, mutexVars, queueVars,
        localVars, streamVars, Fault, opendir, CanOpen
  <1>3. CASE SetupNoMemory
    BY <1>3 DEF SetupNoMemory, Fault, opendir, Exit, mutexVars, queueVars,
        localVars, CanOpen
  <1>4. CASE CreateThread
    BY <1>4 DEF CreateThread, Created, mutexVars, countVars, queueVars,
        localVars, streamVars, outVars
  <1>5. CASE MainFails
    BY <1>5 DEF MainFails, Created, Fault, Exit, mutexVars, queueVars,
        localVars, streamVars
  <1>6. CASE LockInitializer
    BY <1>6 DEF LockInitializer, Created, countVars, queueVars, localVars,
        streamVars, outVars
  <1>7. CASE CreateLast
    BY <1>7 DEF CreateLast, Created, mutexVars, countVars, queueVars, localVars,
        streamVars, outVars
  <1>8. CASE WaitInitialized
    BY <1>8 DEF WaitInitialized, countVars, queueVars, localVars, streamVars,
        outVars
  <1>9. CASE Initialized
    <2>1. num_of_threads # 0
      BY FS_EmptySet DEF num_of_threads
    <2> QED
      BY <1>9, <2>1 DEF Initialized, Exit, mutexVars, countVars, queueVars, localVars, streamVars
  <1>10. CASE LockQueues
    BY <1>10 DEF LockQueues, countVars, queueVars, localVars, streamVars,
        outVars
  <1>11. CASE Broadcast
    BY <1>11 DEF Broadcast, mutexVars, countVars, queueVars, localVars,
        streamVars, outVars
  <1>12. CASE WaitAllSleep
    BY <1>12 DEF WaitAllSleep, countVars, queueVars, localVars, streamVars,
        outVars
  <1>13. CASE AllAsleep
    <2>1. num_of_threads # 0
      BY FS_EmptySet DEF num_of_threads
    <2> QED
      BY <1>13, <2>1 DEF AllAsleep, Exit, mutexVars, countVars, queueVars, localVars, streamVars
  <1>14. CASE WakeNext
    BY <1>14 DEF WakeNext, mutexVars, countVars, queueVars, localVars,
        streamVars, outVars
  <1>15. CASE WakeEnd
    BY <1>15 DEF WakeEnd, mutexVars, countVars, queueVars, localVars,
        streamVars, outVars
  <1>16. CASE Join
    BY <1>16 DEF Join, Exit, mutexVars, countVars, queueVars, localVars, streamVars, SpoiledInv
  <1>17. ASSUME NEW t \in Thread, AllocEntry(t) PROVE ExitInv'
    BY <1>17 DEF AllocEntry, At, Goto, mutexVars, countVars, queueVars,
        localVars, streamVars, outVars, Running
  <1>18. ASSUME NEW t \in Thread, AllocEntryFails(t) PROVE ExitInv'
    BY <1>18 DEF AllocEntryFails, At, Fail, Fault, mutexVars, queueVars,
        localVars, streamVars, outVars, Running, Goto
  <1>19. ASSUME NEW t \in Thread, InitFailed(t) PROVE ExitInv'
    BY <1>19 DEF InitFailed, At, Goto, SignalMain, mutexVars, countVars,
        queueVars, localVars, streamVars, outVars, Running
  <1>20. ASSUME NEW t \in Thread, WaitStart(t) PROVE ExitInv'
    BY <1>20 DEF WaitStart, At, Goto, SignalMain, LastInitialized, mutexVars,
        queueVars, localVars, streamVars, outVars, Running
  <1>21. ASSUME NEW t \in Thread, Start(t) PROVE ExitInv'
    BY <1>21 DEF Start, At, Goto, mutexVars, countVars, queueVars, localVars,
        streamVars, outVars, Running
  <1>22. ASSUME NEW t \in Thread, TakeDir(t) PROVE ExitInv'
    BY <1>22 DEF TakeDir, At, Goto, dequeue_dir, mutexVars, countVars,
        localVars, streamVars, outVars, Running
  <1>23. ASSUME NEW t \in Thread, Sleep(t) PROVE ExitInv'
    BY <1>23 DEF Sleep, At, Goto, SignalMain, enqueue_thread, EverybodySleeps,
        mutexVars, countVars, localVars, streamVars, outVars, Running
  <1>24. ASSUME NEW t \in Thread, WakeUp(t) PROVE ExitInv'
    BY <1>24 DEF WakeUp, At, Goto, mutexVars, countVars, queueVars, localVars,
        streamVars, outVars, Running
  <1>25. ASSUME NEW t \in Thread, NEW e \in Entry, StatFails(t, e) PROVE ExitInv'
    BY <1>25 DEF StatFails, Fail, Fault, readdir, Consumed, mutexVars,
        queueVars, localVars, Goto, At, Running
  <1>26. ASSUME NEW t \in Thread, NEW e \in Entry, ScanFile(t, e) PROVE ExitInv'
    BY <1>26 DEF ScanFile, readdir, Consumed, mutexVars, countVars, queueVars,
        localVars, At, Running
  <1>27. ASSUME NEW t \in Thread, NEW e \in Entry, ScanDenied(t, e) PROVE ExitInv'
    BY <1>27 DEF ScanDenied, opendirFails, readdir, Consumed, mutexVars,
        countVars, queueVars, localVars, Fault, opendir, CanOpen, At, Running
  <1>28. ASSUME NEW t \in Thread, NEW e \in Entry, ScanDir(t, e) PROVE ExitInv'
    BY <1>28 DEF ScanDir, Goto, CanOpen, readdir, Consumed, mutexVars,
        countVars, queueVars, outVars, At, Running
  <1>29. ASSUME NEW t \in Thread, Dispatch(t) PROVE ExitInv'
    BY <1>29 DEF Dispatch, At, Goto, enqueue_dir, dequeue_thread, mutexVars,
        countVars, streamVars, outVars, Running
  <1>30. ASSUME NEW t \in Thread, DispatchFails(t) PROVE ExitInv'
    BY <1>30 DEF DispatchFails, At, Fail, Fault, queueVars, localVars,
        streamVars, outVars, Running, Goto
  <1>31. ASSUME NEW t \in Thread, Assign(t) PROVE ExitInv'
    BY <1>31 DEF Assign, At, Goto, mutexVars, countVars, queueVars, streamVars,
        outVars, Running
  <1>32. ASSUME NEW t \in Thread, Signal(t) PROVE ExitInv'
    BY <1>32 DEF Signal, At, mutexVars, countVars, queueVars, streamVars,
        outVars, Running
  <1>33. ASSUME NEW t \in Thread, EndOfDir(t) PROVE ExitInv'
    BY <1>33 DEF EndOfDir, At, Goto, Fail, mutexVars, countVars, queueVars,
        localVars, streamVars, outVars, Running
  <1>34. ASSUME NEW t \in Thread, ReaddirFails(t) PROVE ExitInv'
    BY <1>34 DEF ReaddirFails, At, Fail, Fault, readdir, mutexVars, queueVars,
        localVars, streamVars, outVars, Running, Goto
  <1>35. ASSUME NEW t \in Thread, Failed(t) PROVE ExitInv'
    BY <1>35 DEF Failed, At, Goto, SignalMain, mutexVars, countVars, queueVars,
        localVars, streamVars, outVars, Running
  <1>36. CASE UNCHANGED vars
    BY <1>36 DEF vars, mutexVars, countVars, queueVars, localVars, streamVars,
        outVars
  <1> QED
    BY <1>1, <1>2, <1>3, <1>4, <1>5, <1>6, <1>7, <1>8, <1>9, <1>10, <1>11,
        <1>12, <1>13, <1>14, <1>15, <1>16, <1>17, <1>18, <1>19, <1>20, <1>21,
        <1>22, <1>23, <1>24, <1>25, <1>26, <1>27, <1>28, <1>29, <1>30, <1>31,
        <1>32, <1>33, <1>34, <1>35, <1>36
       DEF Next, MainStep, ThreadStep, Terminated

LEMMA EmptyQueues ==
    /\ Range(<<>>) = {} /\ IsInjective(<<>>) /\ Len(<<>>) = 0
  BY DEF Range, IsInjective

\* The invariant holds when main() starts.
LEMMA InitIInv == Init => IInv
  <1> SUFFICES ASSUME Init PROVE IInv
    OBVIOUS
  <1> USE ThreadsAssumption, TreeAssumption
  <1>1. TypeOK
    <2>1. /\ main_pc \in MainPc /\ pc \in [Thread -> ThreadPc]
          /\ thread_initializer \in {Main, Null}
          /\ queues_access \in Thread \cup {Main, Null}
      BY DEF Init, MainPc, ThreadPc
    <2>2. /\ threads_initialized \in Nat /\ threads_failed \in Nat
          /\ status \in {SUCCESS, FAILURE}
          /\ num_of_files_found \in Nat /\ th \in Nat /\ faults \in Nat
      BY DEF Init, SUCCESS, FAILURE
    <2>3. done \in BOOLEAN /\ errno \in [Thread -> BOOLEAN]
      BY DEF Init
    <2>4. dir_q \in Seq(Dir) /\ thread_q \in Seq(Thread)
      BY DEF Init
    <2>5. /\ entry \in [Thread -> Dir \cup {Null}]
          /\ new_dir \in [Thread -> Dir \cup {Null}]
          /\ next_thread \in [Thread -> Thread \cup {Null}]
      BY DEF Init
    <2>6. /\ opened \in SUBSET Dir /\ unread \in [Dir -> SUBSET Entry]
          /\ found \in SUBSET File /\ denied \in SUBSET Entry
      BY DEF Init
    <2>7. report \in Nat \cup {Null} /\ exit_code \in {SUCCESS, FAILURE, Null}
      BY DEF Init
    <2> QED BY <2>1, <2>2, <2>3, <2>4, <2>5, <2>6, <2>7 DEF TypeOK
  <1>2. ThreadInv /\ QueueInv
    BY EmptyQueues DEF Init, ThreadInv, QueueInv, QueuedAsleep, HandOver, WokenHasDir, Uncounted, InScan
  <1>3. Passed = {} /\ Counted = {} /\ Dead = {} /\ Seen = {}
    BY DEF Init, Passed, Counted, Uncounted, Dead, Seen
  <1>4. Cardinality({}) = 0
    BY FS_EmptySet
  <1>5. BarrierInv
    BY <1>3, <1>4 DEF Init, BarrierInv, EarlyMain, LateMain, StartBarrier, Searching, Busy
  <1>6. CountInv
    <2>1. CountedInv /\ DeadInv
      BY <1>3, <1>4 DEF Init, CountedInv, DeadInv
    <2>2. QueueLenInv
      BY <1>4, EmptyQueues DEF Init, QueueLenInv
    <2> QED BY <2>1, <2>2 DEF CountInv
  <1>7. TreeInv
    BY EmptyQueues DEF Init, TreeInv, SingleOwner, OwnedOpen, UnreadInv, HeldInv, Owned, Entry
  <1>8. WorkInv /\ SignalInv /\ DoneInv
    BY DEF Init, WorkInv, SignalInv, DoneInv, DoneQuiescent
  <1>9. FoundInv /\ OpenedInv
    BY <1>3, <1>4 DEF Init, FoundInv, OpenedInv
  <1>10. ReachInv /\ SpoiledInv /\ DoneComplete
    BY <1>3 DEF Init, ReachInv, SpoiledInv, DoneComplete, SearchReport
  <1>11. ExitInv
    BY NullAssumption DEF Init, ExitInv, SuccessMeansComplete, Created, SUCCESS
  <1> QED BY <1>1, <1>2, <1>5, <1>6, <1>7, <1>8, <1>9, <1>10, <1>11 DEF IInv

\* Every step keeps it: each part from itself and the parts before it.
LEMMA NextIInv == IInv /\ [Next]_vars => IInv'
  <1> SUFFICES ASSUME IInv, [Next]_vars PROVE IInv'
    OBVIOUS
  <1>1. /\ TypeOK /\ ThreadInv /\ QueueInv /\ BarrierInv /\ CountInv
        /\ SingleOwner /\ OwnedOpen /\ UnreadInv /\ HeldInv /\ TreeInv
        /\ WorkInv /\ SignalInv /\ DoneInv
        /\ FoundInv /\ OpenedInv /\ ReachInv /\ SpoiledInv /\ DoneComplete
        /\ ExitInv
    BY DEF IInv, TreeInv
  <1>2. TypeOK'
    BY <1>1, TypeStep
  <1>3. ThreadInv' /\ QueueInv'
    BY <1>1, <1>2, ThreadInvStep, QueueInvStep
  <1>4. BarrierInv'
    BY <1>1, <1>2, BarrierInvStep
  <1>5. CountInv'
    BY <1>1, <1>2, CountedInvStep, QueueLenInvStep, DeadInvStep DEF CountInv
  <1>6. TreeInv'
    BY <1>1, <1>2, UnreadInvStep, OwnedOpenStep, SingleOwnerStep, HeldInvStep DEF TreeInv
  <1>7. WorkInv' /\ DoneInv'
    BY <1>1, <1>2, <1>3, WorkInvStep, DoneInvStep
  <1>8. SignalInv'
    BY <1>1, <1>2, <1>3, <1>5, <1>7, SignalInvStep
  <1>9. FoundInv' /\ OpenedInv' /\ ReachInv'
    BY <1>1, <1>2, FoundInvStep, OpenedInvStep, ReachInvStep
  <1>10. SpoiledInv' /\ DoneComplete'
    BY <1>1, <1>2, <1>3, <1>7, SpoiledInvStep, DoneCompleteStep
  <1>11. ExitInv'
    BY <1>1, ExitInvStep
  <1> QED BY <1>2, <1>3, <1>4, <1>5, <1>6, <1>7, <1>8, <1>9, <1>10, <1>11 DEF IInv

\* The parts of the invariant hold in every state of every execution, for any
\* number of threads, any tree and any pattern of failing calls.
THEOREM Invariance == Spec => []IInv
  <1>1. Init => IInv
    BY InitIInv
  <1>2. IInv /\ [Next]_vars => IInv'
    BY NextIInv
  <1> QED BY <1>1, <1>2, PTL DEF Spec

\* The variables of pfind keep their types; in particular dir_q never receives a
\* NULL stream.
THEOREM TypeCorrect == Spec => []TypeOK
  <1>1. IInv => TypeOK
    BY DEF IInv
  <1> QED BY <1>1, Invariance, PTL

\* The start barrier (lines 135-148 and 478-504).
THEOREM BarrierHolds == Spec => []StartBarrier
  <1>1. IInv => StartBarrier
    BY DEF IInv, BarrierInv
  <1> QED BY <1>1, Invariance, PTL

\* Two threads never read one DIR stream (lines 204, 247, 252, 289).
THEOREM StreamsHaveOneOwner == Spec => []SingleOwner
  <1>1. IInv => SingleOwner
    BY DEF IInv, TreeInv
  <1> QED BY <1>1, Invariance, PTL

\* The hand-over of lines 243-255 never wakes a thread without a directory.
THEOREM HandOverIsSafe == Spec => []WokenWithWork
  <1>1. IInv => WokenWithWork
    <2> SUFFICES ASSUME IInv, NEW t \in Thread, pc[t] = "scan" \/ (pc[t] = "woken" /\ ~done)
                 PROVE  entry[t] \in opened
      BY DEF WokenWithWork
    <2>1. entry[t] # Null
      BY DEF IInv, ThreadInv, InScan, QueueInv, WokenHasDir
    <2> QED BY <2>1 DEF IInv, TreeInv, OwnedOpen
  <1> QED BY <1>1, Invariance, PTL

\* main() sets done (line 514) only when the search is over.
THEOREM DoneMeansQuiescent == Spec => []DoneQuiescent
  <1>1. IInv => DoneQuiescent
    BY DEF IInv, DoneInv
  <1> QED BY <1>1, Invariance, PTL

\* The number main() prints (line 545) is the number of matches below the root,
\* and all of them have been printed.
THEOREM ReportIsComplete == Spec => []DoneComplete
  <1>1. IInv => DoneComplete
    BY DEF IInv
  <1> QED BY <1>1, Invariance, PTL

\* Once threads exist, the exit code 0 means that the search was reported and that
\* no thread failed (lines 221, 271, 546).
THEOREM SuccessIsEarned == Spec => []SuccessMeansComplete
  <1>1. IInv => SuccessMeansComplete
    BY DEF IInv, ExitInv
  <1> QED BY <1>1, Invariance, PTL

(***************************************************************************)
(* A search in which no call fails                                         *)
(***************************************************************************)
\* There is a descriptor for every directory that is not open yet.
LEMMA AlwaysOpens ==
    ASSUME NoFailure, opened \in SUBSET Dir, NEW d \in Dir, d \notin opened
    PROVE  CanOpen(d)
  <1>1. IsFiniteSet(Dir)
    <2>1. Dir \in SUBSET Entry
      BY DEF Entry
    <2> QED BY <2>1, TreeAssumption, FS_Subset
  <1>2. IsFiniteSet(opened) /\ Cardinality(opened) <= Cardinality(Dir)
        /\ Cardinality(opened) # Cardinality(Dir)
    BY <1>1, FS_Subset
  <1>3. Cardinality(opened) \in Nat /\ Cardinality(Dir) \in Nat /\ MaxOpen \in Nat
    BY <1>1, <1>2, FS_CardinalityType, BoundsAssumption
  <1> QED BY <1>2, <1>3 DEF CanOpen, NoFailure

\* While no call fails, no thread has a reason to give up.
LEMMA HealthyStep ==
    ASSUME NoFailure, IInv, HealthyInv, [Next]_vars
    PROVE  HealthyInv'
  <1> USE DEF IInv, TypeOK, HealthyInv, NoFailure
  <1>1. CASE Setup
    BY <1>1 DEF Setup, opendir, enqueue_dir, mutexVars, countVars, localVars,
        outVars, CanOpen
  <1>2. CASE SetupDenied
    BY <1>2 DEF SetupDenied, opendirFails, Exit, mutexVars, queueVars,
        localVars, streamVars, Fault, opendir, CanOpen
  <1>3. CASE SetupNoMemory
    BY <1>3 DEF SetupNoMemory, Fault, opendir, Exit, mutexVars, queueVars,
        localVars, CanOpen
  <1>4. CASE CreateThread
    BY <1>4 DEF CreateThread, Created, mutexVars, countVars, queueVars,
        localVars, streamVars, outVars
  <1>5. CASE MainFails
    BY <1>5 DEF MainFails, Created, Fault, Exit, mutexVars, queueVars,
        localVars, streamVars
  <1>6. CASE LockInitializer
    BY <1>6 DEF LockInitializer, Created, countVars, queueVars, localVars,
        streamVars, outVars
  <1>7. CASE CreateLast
    BY <1>7 DEF CreateLast, Created, mutexVars, countVars, queueVars, localVars,
        streamVars, outVars
  <1>8. CASE WaitInitialized
    BY <1>8 DEF WaitInitialized, countVars, queueVars, localVars, streamVars,
        outVars
  <1>9. CASE Initialized
    BY <1>9 DEF Initialized, Exit, mutexVars, countVars, queueVars, localVars,
        streamVars
  <1>10. CASE LockQueues
    BY <1>10 DEF LockQueues, countVars, queueVars, localVars, streamVars,
        outVars
  <1>11. CASE Broadcast
    BY <1>11 DEF Broadcast, mutexVars, countVars, queueVars, localVars,
        streamVars, outVars
  <1>12. CASE WaitAllSleep
    BY <1>12 DEF WaitAllSleep, countVars, queueVars, localVars, streamVars,
        outVars
  <1>13. CASE AllAsleep
    BY <1>13 DEF AllAsleep, Exit, mutexVars, countVars, queueVars, localVars,
        streamVars
  <1>14. CASE WakeNext
    BY <1>14 DEF WakeNext, mutexVars, countVars, queueVars, localVars,
        streamVars, outVars
  <1>15. CASE WakeEnd
    BY <1>15 DEF WakeEnd, mutexVars, countVars, queueVars, localVars,
        streamVars, outVars
  <1>16. CASE Join
    BY <1>16 DEF Join, Exit, mutexVars, countVars, queueVars, localVars,
        streamVars
  <1>17. ASSUME NEW t \in Thread, AllocEntry(t) PROVE HealthyInv'
    BY <1>17 DEF AllocEntry, At, Goto, mutexVars, countVars, queueVars,
        localVars, streamVars, outVars, Running
  <1>18. ASSUME NEW t \in Thread, AllocEntryFails(t) PROVE HealthyInv'
    BY <1>18 DEF AllocEntryFails, At, Fail, Fault, mutexVars, queueVars,
        localVars, streamVars, outVars, Running, Goto
  <1>19. ASSUME NEW t \in Thread, InitFailed(t) PROVE HealthyInv'
    BY <1>19 DEF InitFailed, At, Goto, SignalMain, mutexVars, countVars,
        queueVars, localVars, streamVars, outVars, Running
  <1>20. ASSUME NEW t \in Thread, WaitStart(t) PROVE HealthyInv'
    BY <1>20 DEF WaitStart, At, Goto, SignalMain, LastInitialized, mutexVars,
        queueVars, localVars, streamVars, outVars, Running
  <1>21. ASSUME NEW t \in Thread, Start(t) PROVE HealthyInv'
    BY <1>21 DEF Start, At, Goto, mutexVars, countVars, queueVars, localVars,
        streamVars, outVars, Running
  <1>22. ASSUME NEW t \in Thread, TakeDir(t) PROVE HealthyInv'
    BY <1>22 DEF TakeDir, At, Goto, dequeue_dir, mutexVars, countVars,
        localVars, streamVars, outVars, Running
  <1>23. ASSUME NEW t \in Thread, Sleep(t) PROVE HealthyInv'
    BY <1>23 DEF Sleep, At, Goto, SignalMain, enqueue_thread, EverybodySleeps,
        mutexVars, countVars, localVars, streamVars, outVars, Running
  <1>24. ASSUME NEW t \in Thread, WakeUp(t) PROVE HealthyInv'
    BY <1>24 DEF WakeUp, At, Goto, mutexVars, countVars, queueVars, localVars,
        streamVars, outVars, Running
  <1>25. ASSUME NEW t \in Thread, NEW e \in Entry, StatFails(t, e) PROVE HealthyInv'
    BY <1>25 DEF StatFails, Fail, Fault, readdir, Consumed, mutexVars,
        queueVars, localVars, Goto, At, Running
  <1>26. ASSUME NEW t \in Thread, NEW e \in Entry, ScanFile(t, e) PROVE HealthyInv'
    BY <1>26 DEF ScanFile, readdir, Consumed, mutexVars, countVars, queueVars,
        localVars, At, Running
  <1>27. ASSUME NEW t \in Thread, NEW e \in Entry, ScanDenied(t, e) PROVE HealthyInv'
    <2>1. e \in Dir /\ opendirFails(e) /\ e \in unread[entry[t]] /\ entry[t] \in Dir
      BY <1>27 DEF ScanDenied, readdir
    <2>2. e \notin opened
      BY <2>1 DEF TreeInv, UnreadInv
    <2>3. CanOpen(e)
      BY <2>1, <2>2, AlwaysOpens
    <2> QED
      BY <2>1, <2>3 DEF opendirFails, Fault
  <1>28. ASSUME NEW t \in Thread, NEW e \in Entry, ScanDir(t, e) PROVE HealthyInv'
    BY <1>28 DEF ScanDir, Goto, CanOpen, readdir, Consumed, mutexVars,
        countVars, queueVars, outVars, At, Running
  <1>29. ASSUME NEW t \in Thread, Dispatch(t) PROVE HealthyInv'
    BY <1>29 DEF Dispatch, At, Goto, enqueue_dir, dequeue_thread, mutexVars,
        countVars, streamVars, outVars, Running
  <1>30. ASSUME NEW t \in Thread, DispatchFails(t) PROVE HealthyInv'
    BY <1>30 DEF DispatchFails, At, Fail, Fault, queueVars, localVars,
        streamVars, outVars, Running, Goto
  <1>31. ASSUME NEW t \in Thread, Assign(t) PROVE HealthyInv'
    BY <1>31 DEF Assign, At, Goto, mutexVars, countVars, queueVars, streamVars,
        outVars, Running
  <1>32. ASSUME NEW t \in Thread, Signal(t) PROVE HealthyInv'
    BY <1>32 DEF Signal, At, mutexVars, countVars, queueVars, streamVars,
        outVars, Running
  <1>33. ASSUME NEW t \in Thread, EndOfDir(t) PROVE HealthyInv'
    BY <1>33 DEF EndOfDir, At, Goto, Fail, mutexVars, countVars, queueVars,
        localVars, streamVars, outVars, Running
  <1>34. ASSUME NEW t \in Thread, ReaddirFails(t) PROVE HealthyInv'
    BY <1>34 DEF ReaddirFails, At, Fail, Fault, readdir, mutexVars, queueVars,
        localVars, streamVars, outVars, Running, Goto
  <1>35. ASSUME NEW t \in Thread, Failed(t) PROVE HealthyInv'
    BY <1>35 DEF Failed, At, Goto, SignalMain, mutexVars, countVars, queueVars,
        localVars, streamVars, outVars, Running
  <1>36. CASE UNCHANGED vars
    BY <1>36 DEF vars, mutexVars, countVars, queueVars, localVars, streamVars,
        outVars
  <1> QED
    BY <1>1, <1>2, <1>3, <1>4, <1>5, <1>6, <1>7, <1>8, <1>9, <1>10, <1>11,
        <1>12, <1>13, <1>14, <1>15, <1>16, <1>17, <1>18, <1>19, <1>20, <1>21,
        <1>22, <1>23, <1>24, <1>25, <1>26, <1>27, <1>28, <1>29, <1>30, <1>31,
        <1>32, <1>33, <1>34, <1>35, <1>36
       DEF Next, MainStep, ThreadStep, Terminated

LEMMA QueuedWork == ASSUME IInv, HealthyInv PROVE WorkHasWorker
  <1> SUFFICES ASSUME dir_q # <<>>
               PROVE  \E t \in Thread :
                          pc[t] \notin {"enqueue", "sleep", "failed", "init_failed", "exited"}
    BY DEF WorkHasWorker
  <1>1. ~done
    BY DEF IInv, DoneInv, DoneQuiescent
  <1>2. \A t \in Thread : pc[t] \notin {"failed", "init_failed", "exited"}
    BY <1>1 DEF HealthyInv
  <1>3. CASE \E t \in Thread : Worker(t)
    BY <1>2, <1>3 DEF Worker
  <1>4. CASE Counted = {}
    <2>1. PICK t \in Thread : TRUE
      BY ThreadsAssumption
    <2>2. pc[t] \in Uncounted
      BY <1>2, <1>4 DEF Counted
    <2> QED BY <1>2, <2>2 DEF Uncounted
  <1> QED BY <1>3, <1>4 DEF IInv, WorkInv

\* While no call fails a queued directory has a thread that will look at dir_q, in
\* spite of the threads that found it empty and are on their way to sleep (lines
\* 164-170 and 282-284).
THEOREM QueuedDirIsTaken ==
    ASSUME NoFailure
    PROVE  Spec => []WorkHasWorker
  <1>1. Init => HealthyInv
    BY DEF Init, HealthyInv
  <1>2. IInv /\ HealthyInv /\ [Next]_vars => HealthyInv'
    BY HealthyStep
  <1>3. IInv /\ HealthyInv => WorkHasWorker
    BY QueuedWork
  <1> QED BY <1>1, <1>2, <1>3, Invariance, PTL DEF Spec

(***************************************************************************)
(* The refinement of Search                                                *)
(***************************************************************************)
\* found grows by one file at most, and never in the step that ends the process;
\* once the process has ended nothing moves.
LEMMA OutputStep ==
    ASSUME [Next]_vars
    PROVE  /\ found' = found \/ (Running' /\ \E f \in Entry : found' = found \cup {f})
           /\ ~Running => UNCHANGED <<found, report, denied, main_pc>>
  <1> DEFINE P == /\ found' = found \/ (Running' /\ \E f \in Entry : found' = found \cup {f})
                  /\ ~Running => UNCHANGED <<found, report, denied, main_pc>>
  <1> USE DEF Running
  <1>1. CASE Setup
    BY <1>1 DEF Setup, opendir, enqueue_dir, mutexVars, countVars, localVars,
        outVars, CanOpen
  <1>2. CASE SetupDenied
    BY <1>2 DEF SetupDenied, opendirFails, Exit, mutexVars, queueVars,
        localVars, streamVars, Fault, opendir, CanOpen
  <1>3. CASE SetupNoMemory
    BY <1>3 DEF SetupNoMemory, Fault, opendir, Exit, mutexVars, queueVars,
        localVars, CanOpen
  <1>4. CASE CreateThread
    BY <1>4 DEF CreateThread, Created, mutexVars, countVars, queueVars,
        localVars, streamVars, outVars
  <1>5. CASE MainFails
    BY <1>5 DEF MainFails, Created, Fault, Exit, mutexVars, queueVars,
        localVars, streamVars
  <1>6. CASE LockInitializer
    BY <1>6 DEF LockInitializer, Created, countVars, queueVars, localVars,
        streamVars, outVars
  <1>7. CASE CreateLast
    BY <1>7 DEF CreateLast, Created, mutexVars, countVars, queueVars, localVars,
        streamVars, outVars
  <1>8. CASE WaitInitialized
    BY <1>8 DEF WaitInitialized, countVars, queueVars, localVars, streamVars,
        outVars
  <1>9. CASE Initialized
    BY <1>9 DEF Initialized, Exit, mutexVars, countVars, queueVars, localVars,
        streamVars
  <1>10. CASE LockQueues
    BY <1>10 DEF LockQueues, countVars, queueVars, localVars, streamVars,
        outVars
  <1>11. CASE Broadcast
    BY <1>11 DEF Broadcast, mutexVars, countVars, queueVars, localVars,
        streamVars, outVars
  <1>12. CASE WaitAllSleep
    BY <1>12 DEF WaitAllSleep, countVars, queueVars, localVars, streamVars,
        outVars
  <1>13. CASE AllAsleep
    BY <1>13 DEF AllAsleep, Exit, mutexVars, countVars, queueVars, localVars,
        streamVars
  <1>14. CASE WakeNext
    BY <1>14 DEF WakeNext, mutexVars, countVars, queueVars, localVars,
        streamVars, outVars
  <1>15. CASE WakeEnd
    BY <1>15 DEF WakeEnd, mutexVars, countVars, queueVars, localVars,
        streamVars, outVars
  <1>16. CASE Join
    BY <1>16 DEF Join, Exit, mutexVars, countVars, queueVars, localVars,
        streamVars
  <1>17. ASSUME NEW t \in Thread, AllocEntry(t) PROVE P
    BY <1>17 DEF AllocEntry, At, Goto, mutexVars, countVars, queueVars,
        localVars, streamVars, outVars, Running
  <1>18. ASSUME NEW t \in Thread, AllocEntryFails(t) PROVE P
    BY <1>18 DEF AllocEntryFails, At, Fail, Fault, mutexVars, queueVars,
        localVars, streamVars, outVars, Running, Goto
  <1>19. ASSUME NEW t \in Thread, InitFailed(t) PROVE P
    BY <1>19 DEF InitFailed, At, Goto, SignalMain, mutexVars, countVars,
        queueVars, localVars, streamVars, outVars, Running
  <1>20. ASSUME NEW t \in Thread, WaitStart(t) PROVE P
    BY <1>20 DEF WaitStart, At, Goto, SignalMain, LastInitialized, mutexVars,
        queueVars, localVars, streamVars, outVars, Running
  <1>21. ASSUME NEW t \in Thread, Start(t) PROVE P
    BY <1>21 DEF Start, At, Goto, mutexVars, countVars, queueVars, localVars,
        streamVars, outVars, Running
  <1>22. ASSUME NEW t \in Thread, TakeDir(t) PROVE P
    BY <1>22 DEF TakeDir, At, Goto, dequeue_dir, mutexVars, countVars,
        localVars, streamVars, outVars, Running
  <1>23. ASSUME NEW t \in Thread, Sleep(t) PROVE P
    BY <1>23 DEF Sleep, At, Goto, SignalMain, enqueue_thread, EverybodySleeps,
        mutexVars, countVars, localVars, streamVars, outVars, Running
  <1>24. ASSUME NEW t \in Thread, WakeUp(t) PROVE P
    BY <1>24 DEF WakeUp, At, Goto, mutexVars, countVars, queueVars, localVars,
        streamVars, outVars, Running
  <1>25. ASSUME NEW t \in Thread, NEW e \in Entry, StatFails(t, e) PROVE P
    BY <1>25 DEF StatFails, Fault, Fail, readdir, Consumed, mutexVars, queueVars,
        localVars, outVars, Goto, At, Running
  <1>26. ASSUME NEW t \in Thread, NEW e \in Entry, ScanFile(t, e) PROVE P
    <2>1. /\ found' = found \/ found' = found \cup {e}
          /\ main_pc' = main_pc /\ main_pc # "exited"
      BY <1>26 DEF ScanFile, readdir, At, Running
    <2> QED BY <2>1
  <1>27. ASSUME NEW t \in Thread, NEW e \in Entry, ScanDenied(t, e) PROVE P
    BY <1>27 DEF ScanDenied, opendirFails, readdir, Consumed, mutexVars,
        countVars, queueVars, localVars, Fault, opendir, CanOpen, At, Running
  <1>28. ASSUME NEW t \in Thread, NEW e \in Entry, ScanDir(t, e) PROVE P
    BY <1>28 DEF ScanDir, Goto, CanOpen, readdir, Consumed, mutexVars,
        countVars, queueVars, outVars, At, Running
  <1>29. ASSUME NEW t \in Thread, Dispatch(t) PROVE P
    BY <1>29 DEF Dispatch, At, Goto, enqueue_dir, dequeue_thread, mutexVars,
        countVars, streamVars, outVars, Running
  <1>30. ASSUME NEW t \in Thread, DispatchFails(t) PROVE P
    BY <1>30 DEF DispatchFails, At, Fail, Fault, queueVars, localVars,
        streamVars, outVars, Running, Goto
  <1>31. ASSUME NEW t \in Thread, Assign(t) PROVE P
    BY <1>31 DEF Assign, At, Goto, mutexVars, countVars, queueVars, streamVars,
        outVars, Running
  <1>32. ASSUME NEW t \in Thread, Signal(t) PROVE P
    BY <1>32 DEF Signal, At, mutexVars, countVars, queueVars, streamVars,
        outVars, Running
  <1>33. ASSUME NEW t \in Thread, EndOfDir(t) PROVE P
    BY <1>33 DEF EndOfDir, At, Goto, Fail, mutexVars, countVars, queueVars,
        localVars, streamVars, outVars, Running
  <1>34. ASSUME NEW t \in Thread, ReaddirFails(t) PROVE P
    BY <1>34 DEF ReaddirFails, At, Fail, Fault, readdir, mutexVars, queueVars,
        localVars, streamVars, outVars, Running, Goto
  <1>35. ASSUME NEW t \in Thread, Failed(t) PROVE P
    BY <1>35 DEF Failed, At, Goto, SignalMain, mutexVars, countVars, queueVars,
        localVars, streamVars, outVars, Running
  <1>36. CASE UNCHANGED vars
    BY <1>36 DEF vars, mutexVars, countVars, queueVars, localVars, streamVars,
        outVars
  <1> QED
    BY <1>1, <1>2, <1>3, <1>4, <1>5, <1>6, <1>7, <1>8, <1>9, <1>10, <1>11,
        <1>12, <1>13, <1>14, <1>15, <1>16, <1>17, <1>18, <1>19, <1>20, <1>21,
        <1>22, <1>23, <1>24, <1>25, <1>26, <1>27, <1>28, <1>29, <1>30, <1>31,
        <1>32, <1>33, <1>34, <1>35, <1>36
       DEF Next, MainStep, ThreadStep, Terminated

\* Every step of pfind is a step of the abstract search or leaves it unchanged.
LEMMA RefinementStep ==
    ASSUME IInv, IInv', [Next]_vars
    PROVE  [S!Next]_(S!vars)
  <1>1. /\ found' = found \/ (Running' /\ \E f \in Entry : found' = found \cup {f})
        /\ ~Running => UNCHANGED <<found, report, denied, main_pc>>
    BY OutputStep
  <1>2. Running => SearchReport = Null
    BY DEF IInv, SpoiledInv, SearchReport
  <1>3. Running' => SearchReport' = Null
    BY DEF IInv, SpoiledInv, SearchReport
  <1>4. CASE ~Running
    <2>1. found' = found /\ SearchReport' = SearchReport /\ (~Running)' = ~Running
      BY <1>1, <1>4 DEF SearchReport, Running
    <2> QED BY <2>1 DEF S!vars
  <1>5. CASE Running /\ Running' /\ found' = found
    <2>1. SearchReport' = SearchReport /\ (~Running)' = ~Running
      BY <1>2, <1>3, <1>5
    <2> QED BY <1>5, <2>1 DEF S!vars
  <1>6. CASE Running /\ Running' /\ found' # found
    <2>1. PICK f \in Entry : found' = found \cup {f}
      BY <1>1, <1>6
    <2>2. f \notin found /\ f \in found'
      BY <2>1, <1>6
    <2>3. f \in Match /\ f \in Seen'
      BY <2>2 DEF IInv, FoundInv
    <2>4. f \in Reachable
      BY <2>3 DEF IInv, ReachInv, Reachable
    <2>5. f \in Matches \ found
      BY <2>2, <2>3, <2>4 DEF Matches
    <2>6. SearchReport' = SearchReport /\ (~Running)' = ~Running
      BY <1>2, <1>3, <1>6
    <2>7. S!PrintMatch(f)
      BY <1>6, <2>1, <2>5, <2>6 DEF S!PrintMatch
    <2> QED BY <2>5, <2>7 DEF S!Next
  <1>7. CASE Running /\ ~Running'
    <2>1. found' = found
      BY <1>1, <1>7
    <2>2. CASE SearchReport' = Null
      <3>1. S!GiveUp
        BY <1>2, <1>7, <2>1, <2>2 DEF S!GiveUp
      <3> QED BY <3>1 DEF S!Next
    <2>3. CASE SearchReport' # Null
      <3>1. found' = Matches /\ SearchReport' = Cardinality(Matches)
        BY <2>3 DEF IInv, DoneComplete
      <3>2. found = Matches /\ (~Running)' = TRUE /\ ~(~Running)
        BY <1>7, <2>1, <3>1
      <3>3. S!Finish
        BY <2>1, <3>1, <3>2 DEF S!Finish
      <3> QED BY <3>3 DEF S!Next
    <2> QED BY <2>2, <2>3
  <1> QED BY <1>4, <1>5, <1>6, <1>7

\* pfind implements the abstract search: what it prints and reports is what a
\* complete search would, for any number of threads, tree and failing calls.
THEOREM PfindImplementsSearch == Spec => SearchSpec
  <1>1. Init => S!Init
    BY DEF Init, S!Init, SearchReport, Running
  <1>2. IInv /\ IInv' /\ [Next]_vars => [S!Next]_(S!vars)
    BY RefinementStep
  <1> QED BY <1>1, <1>2, Invariance, PTL DEF Spec, SearchSpec, S!Spec

=============================================================================
