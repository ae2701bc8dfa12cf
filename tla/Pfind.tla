------------------------------- MODULE Pfind -------------------------------
(***************************************************************************)
(* hw04/pfind.c: a parallel search of a directory tree for file names.     *)
(* main() starts num_of_threads searching threads behind a start barrier   *)
(* (thread_initializer, all_initialized, start_work).  A thread that meets *)
(* a directory hands it to a sleeping thread of thread_q or, when nobody   *)
(* sleeps, appends it to dir_q; a thread without work enters thread_q and  *)
(* sleeps on its own condition variable.  The thread that makes thread_q   *)
(* hold every initialised thread signals all_sleep, and main() ends.       *)
(*                                                                         *)
(* One step is one critical section or one stretch of code between two     *)
(* accesses to shared state.  A directory and its path are one element of  *)
(* Dir: a path has one parent, so the paths reached form a tree.           *)
(***************************************************************************)
EXTENDS Naturals, Sequences, FiniteSets, Functions

CONSTANTS
    Thread,     \* the searching threads
    Main,       \* the initial thread
    Dir, File,  \* the paths below the root: directories and other entries
    Root,       \* argv[1]
    Contents,   \* the entries of a directory, "." and ".." left out
    Match,      \* files whose name contains search_term
    Denied,     \* directories opendir() may not open (EACCES)
    MaxOpen,    \* descriptors this process may hold (RLIMIT_NOFILE)
    Faults,     \* the library calls that may fail in this instance
    MaxFaults,  \* bound on how many of those failures happen
    Null

Entry == Dir \cup File

FaultKind == {"argc", "opendir", "malloc", "pthread_create", "pthread_join",
              "thread_malloc", "dir_malloc", "readdir", "stat"}

ASSUME ThreadsAssumption ==
    /\ IsFiniteSet(Thread) /\ Thread # {}
    /\ Main \notin Thread /\ Null \notin Thread /\ Main # Null

\* Nothing is no number of files and no exit code.
ASSUME NullAssumption == Null \notin Nat

ASSUME TreeAssumption ==
    /\ IsFiniteSet(Entry) /\ Dir \cap File = {} /\ Null \notin Entry
    /\ Root \in Dir
    /\ Contents \in [Dir -> SUBSET Entry]
    /\ \A d \in Dir : Root \notin Contents[d]
    /\ \A c, d \in Dir : c # d => Contents[c] \cap Contents[d] = {}
    /\ Match \subseteq File /\ Denied \subseteq Dir

ASSUME BoundsAssumption ==
    /\ MaxOpen \in Nat \ {0} /\ MaxFaults \in Nat /\ Faults \subseteq FaultKind

num_of_threads == Cardinality(Thread)

SUCCESS == 0
FAILURE == 1

VARIABLES
    main_pc, pc,            \* control of main() and of the searching threads
    thread_initializer,     \* the mutexes: their owner, or Null
    queues_access,
    threads_initialized, threads_failed, status, done,
    dir_q, thread_q,        \* the two FIFO lists
    entry,                  \* my_thread_entry->dir of each thread
    new_dir, next_thread,   \* scan_dir's locals new_dir, next_thread_in_queue
    errno,                  \* is errno of this thread non-zero?
    opened, unread,         \* open DIR streams and what each still has to yield
    num_of_files_found, found, report, exit_code,          \* what it outputs
    denied,                 \* entries that opendir() or stat() failed on
    th,                     \* main's cursor in thread_q when it wakes everybody
    faults                  \* library failures so far

mutexVars == <<thread_initializer, queues_access>>
countVars == <<threads_initialized, threads_failed, status>>
queueVars == <<dir_q, thread_q>>
localVars == <<new_dir, next_thread>>
streamVars == <<opened, unread>>
outVars   == <<num_of_files_found, found, denied, report, exit_code>>
vars == <<main_pc, pc, mutexVars, countVars, done, queueVars, entry, localVars,
          errno, streamVars, outVars, th, faults>>

MainPc == {"setup", "create", "create_last", "before_init_wait", "init_wait",
           "init_woken", "lock_queues", "broadcast", "before_sleep_wait",
           "sleep_wait", "sleep_woken", "wake", "join", "exited"}

ThreadPc == {"unborn", "start", "init_failed", "lock_init", "start_wait",
             "start_woken", "first_dequeue", "scan", "new_dir", "assign",
             "signal", "get_next", "enqueue", "sleep", "woken", "failed",
             "exited"}

\* Threads between start_work and their exit that are not asleep in thread_q.
Busy(t) == pc[t] \in {"start_woken", "first_dequeue", "scan", "new_dir",
                      "assign", "signal", "get_next", "enqueue", "woken"}

Searching(t) == Busy(t) \/ pc[t] \in {"sleep", "failed"}

(***************************************************************************)
(* Library calls, from the way pfind.c uses them.                          *)
(***************************************************************************)
\* A call of this kind fails ("argc": the call of pfind); at most MaxFaults do.
Fault(kind) ==
    /\ kind \in Faults /\ faults < MaxFaults
    /\ faults' = faults + 1

\* pthread_cond_signal on all_initialized and all_sleep, where only main() waits.
SignalMain(waiting, woken, condition) ==
    main_pc' = IF condition /\ main_pc = waiting THEN woken ELSE main_pc

\* opendir() succeeds: the stream starts before the first entry and stays open,
\* because nothing in pfind.c calls closedir().
CanOpen(d) == d \notin Denied /\ Cardinality(opened) < MaxOpen

opendir(d) ==
    /\ CanOpen(d)
    /\ opened' = opened \cup {d}
    /\ unread' = [unread EXCEPT ![d] = Contents[d]]

\* It fails: no permission, no descriptor left, or some other error.
opendirFails(d) ==
    \/ ~CanOpen(d) /\ UNCHANGED faults
    \/ CanOpen(d) /\ Fault("opendir")

Exit(code) == main_pc' = "exited" /\ exit_code' = code

\* The other threads run until main() ends the process.
Running == main_pc # "exited"

(***************************************************************************)
(* The queues.                                                             *)
(***************************************************************************)
\* Mutant: enqueue an entry that is not the caller's.
enqueue_thread_wrong(t) == thread_q' = Append(thread_q, next_thread[t])

enqueue_thread(t) == thread_q' = Append(thread_q, t)

enqueue_dir(d) == dir_q' = Append(dir_q, d)

dequeue_thread == thread_q' = Tail(thread_q)

\* Mutant: the first directory is returned and stays in the queue.
dequeue_dir_kept == UNCHANGED dir_q

dequeue_dir == dir_q' = Tail(dir_q)

-----------------------------------------------------------------------------
(***************************************************************************)
(* main()                                                                  *)
(***************************************************************************)
Init ==
    /\ main_pc = "setup" /\ pc = [t \in Thread |-> "unborn"]
    /\ thread_initializer = Null /\ queues_access = Null
    /\ threads_initialized = 0 /\ threads_failed = 0
    /\ status = SUCCESS /\ done = FALSE
    /\ dir_q = <<>> /\ thread_q = <<>>
    /\ entry = [t \in Thread |-> Null]
    /\ new_dir = [t \in Thread |-> Null]
    /\ next_thread = [t \in Thread |-> Null]
    /\ errno = [t \in Thread |-> FALSE]
    /\ opened = {} /\ unread = [d \in Dir |-> {}]
    /\ num_of_files_found = 0 /\ found = {} /\ denied = {}
    /\ report = Null /\ exit_code = Null
    /\ th = 0 /\ faults = 0

\* opendir(root), the two queues and the array of thread ids.
Setup ==
    /\ main_pc = "setup"
    /\ opendir(Root)
    /\ enqueue_dir(Root)
    /\ main_pc' = "create"
    /\ UNCHANGED <<pc, mutexVars, countVars, done, thread_q, entry, localVars,
                   errno, outVars, th, faults>>

\* The root cannot be opened: say so, report no file and exit.
SetupDenied ==
    /\ main_pc = "setup" /\ opendirFails(Root)
    /\ status' = FAILURE
    /\ denied' = {Root} /\ report' = num_of_files_found
    /\ Exit(FAILURE)
    /\ UNCHANGED <<pc, mutexVars, threads_initialized, threads_failed, done,
                   queueVars, entry, localVars, errno, streamVars,
                   num_of_files_found, found, th>>

\* malloc fails for a queue or for threads_id: exit(FAILURE).  For the entry of
\* the root, enqueue_dir() ends the only thread instead, so the exit code is 0.
SetupNoMemory ==
    /\ main_pc = "setup" /\ opendir(Root) /\ Fault("malloc")
    /\ status' = FAILURE
    /\ \/ Exit(FAILURE) /\ UNCHANGED threads_failed
       \/ Exit(SUCCESS) /\ threads_failed' = threads_failed + 1
    /\ UNCHANGED <<pc, mutexVars, threads_initialized, done, queueVars, entry,
                   localVars, errno, num_of_files_found, found, denied, report, th>>

Created == {t \in Thread : pc[t] # "unborn"}

\* One iteration of the loop that creates all threads but the last.
CreateThread ==
    /\ main_pc = "create" /\ Cardinality(Created) < num_of_threads - 1
    /\ \E t \in Thread \ Created : pc' = [pc EXCEPT ![t] = "start"]
    /\ UNCHANGED <<main_pc, mutexVars, countVars, done, queueVars, entry,
                   localVars, errno, streamVars, outVars, th, faults>>

LockInitializer ==
    /\ main_pc = "create" /\ Cardinality(Created) = num_of_threads - 1
    /\ thread_initializer = Null /\ thread_initializer' = Main
    /\ main_pc' = "create_last"
    /\ UNCHANGED <<pc, queues_access, countVars, done, queueVars, entry,
                   localVars, errno, streamVars, outVars, th, faults>>

CreateLast ==
    /\ main_pc = "create_last" /\ main_pc' = "before_init_wait"
    /\ \E t \in Thread \ Created : pc' = [pc EXCEPT ![t] = "start"]
    /\ UNCHANGED <<mutexVars, countVars, done, queueVars, entry, localVars,
                   errno, streamVars, outVars, th, faults>>

\* pthread_cond_wait(&all_initialized, &thread_initializer) goes to sleep.
WaitInitialized ==
    /\ main_pc = "before_init_wait" /\ main_pc' = "init_wait"
    /\ thread_initializer' = Null
    /\ UNCHANGED <<pc, queues_access, countVars, done, queueVars, entry,
                   localVars, errno, streamVars, outVars, th, faults>>

\* ... and returns, owning thread_initializer.
Initialized ==
    /\ main_pc = "init_woken" /\ thread_initializer = Null
    /\ IF threads_failed = num_of_threads
       THEN Exit(status)
       ELSE main_pc' = "lock_queues" /\ UNCHANGED exit_code
    /\ UNCHANGED <<pc, mutexVars, countVars, done, queueVars, entry, localVars,
                   errno, streamVars, num_of_files_found, found, denied, report,
                   th, faults>>

LockQueues ==
    /\ main_pc = "lock_queues" /\ main_pc' = "broadcast"
    /\ queues_access = Null /\ queues_access' = Main
    /\ UNCHANGED <<pc, thread_initializer, countVars, done, queueVars, entry,
                   localVars, errno, streamVars, outVars, th, faults>>

\* pthread_cond_broadcast(&start_work)
Broadcast ==
    /\ main_pc = "broadcast" /\ main_pc' = "before_sleep_wait"
    /\ pc' = [t \in Thread |-> IF pc[t] = "start_wait" THEN "start_woken" ELSE pc[t]]
    /\ UNCHANGED <<mutexVars, countVars, done, queueVars, entry, localVars,
                   errno, streamVars, outVars, th, faults>>

\* pthread_cond_wait(&all_sleep, &queues_access) goes to sleep.
WaitAllSleep ==
    /\ main_pc = "before_sleep_wait" /\ main_pc' = "sleep_wait"
    /\ queues_access' = Null
    /\ UNCHANGED <<pc, thread_initializer, countVars, done, queueVars, entry,
                   localVars, errno, streamVars, outVars, th, faults>>

\* ... and returns; done is set before queues_access is released.
AllAsleep ==
    /\ main_pc = "sleep_woken" /\ queues_access = Null
    /\ IF threads_failed = num_of_threads
       THEN Exit(status) /\ UNCHANGED <<done, th>>
       ELSE /\ done' = TRUE /\ th' = 1
            /\ main_pc' = "wake" /\ UNCHANGED exit_code
    /\ UNCHANGED <<pc, mutexVars, countVars, queueVars, entry, localVars, errno,
                   streamVars, num_of_files_found, found, denied, report, faults>>

\* One round of the loop that signals each thread of thread_q.
WakeNext ==
    /\ main_pc = "wake" /\ th <= Len(thread_q)
    /\ pc' = IF pc[thread_q[th]] = "sleep"
             THEN [pc EXCEPT ![thread_q[th]] = "woken"] ELSE pc
    /\ th' = th + 1
    /\ UNCHANGED <<main_pc, mutexVars, countVars, done, queueVars, entry,
                   localVars, errno, streamVars, outVars, faults>>

WakeEnd ==
    /\ main_pc = "wake" /\ th > Len(thread_q)
    /\ main_pc' = "join"
    /\ UNCHANGED <<pc, mutexVars, countVars, done, queueVars, entry, localVars,
                   errno, streamVars, outVars, th, faults>>

\* main() says what failed and ends with FAILURE: the number of arguments is not
\* 3, or pthread_create or pthread_join fails.
MainFails ==
    /\ \/ main_pc = "setup" /\ Fault("argc")
       \/ main_pc = "create" /\ Cardinality(Created) < num_of_threads - 1 /\ Fault("pthread_create")
       \/ main_pc = "create_last" /\ Fault("pthread_create")
       \/ main_pc = "join" /\ Fault("pthread_join")
    /\ status' = FAILURE /\ Exit(FAILURE)
    /\ UNCHANGED <<pc, mutexVars, threads_initialized, threads_failed, done,
                   queueVars, entry, localVars, errno, streamVars,
                   num_of_files_found, found, denied, report, th>>

\* pthread_join of every thread, then the report.
Join ==
    /\ main_pc = "join" /\ \A t \in Thread : pc[t] = "exited"
    /\ report' = num_of_files_found
    /\ Exit(status)
    /\ UNCHANGED <<pc, mutexVars, countVars, done, queueVars, entry, localVars,
                   errno, streamVars, num_of_files_found, found, denied, th, faults>>

MainStep ==
    \/ Setup \/ SetupDenied \/ SetupNoMemory
    \/ CreateThread \/ MainFails \/ LockInitializer \/ CreateLast
    \/ WaitInitialized \/ Initialized \/ LockQueues \/ Broadcast
    \/ WaitAllSleep \/ AllAsleep \/ WakeNext \/ WakeEnd \/ Join

-----------------------------------------------------------------------------
(***************************************************************************)
(* thread_func(): the start barrier                                        *)
(***************************************************************************)
\* The thread is there, and the process has not ended.
At(t, label) == Running /\ pc[t] = label

Goto(t, label) == pc' = [pc EXCEPT ![t] = label]

\* Mutants: the failing thread takes itself out of threads_initialized; it does
\* not record the failure in status.
FailUncounted(t, label) ==
    /\ status' = FAILURE
    /\ threads_failed' = threads_failed + 1
    /\ threads_initialized' = threads_initialized - 1
    /\ Goto(t, label)

FailSilently(t, label) ==
    /\ threads_failed' = threads_failed + 1
    /\ UNCHANGED <<status, threads_initialized>>
    /\ Goto(t, label)

\* A thread gives up: status and threads_failed now, the test of threads_failed
\* and the signal in a later step.
Fail(t, label) ==
    /\ status' = FAILURE
    /\ threads_failed' = threads_failed + 1
    /\ UNCHANGED threads_initialized
    /\ Goto(t, label)

AllocEntry(t) ==
    /\ At(t, "start") /\ Goto(t, "lock_init")
    /\ UNCHANGED <<main_pc, mutexVars, countVars, done, queueVars, entry,
                   localVars, errno, streamVars, outVars, th, faults>>

AllocEntryFails(t) ==
    /\ At(t, "start") /\ Fault("thread_malloc") /\ Fail(t, "init_failed")
    /\ UNCHANGED <<main_pc, mutexVars, done, queueVars, entry, localVars, errno,
                   streamVars, outVars, th>>

\* The signal is sent without thread_initializer.
InitFailed(t) ==
    /\ At(t, "init_failed") /\ Goto(t, "exited")
    /\ SignalMain("init_wait", "init_woken", threads_failed = num_of_threads)
    /\ UNCHANGED <<mutexVars, countVars, done, queueVars, entry, localVars,
                   errno, streamVars, outVars, th, faults>>

\* Mutant: off by one.
LastInitializedEarly == threads_initialized' + threads_failed = num_of_threads - 1

\* Is this the last thread to initialise?
LastInitialized == threads_initialized' + threads_failed = num_of_threads

\* Count this thread, signal main() if it is the last one, and wait for
\* start_work, which releases thread_initializer.
WaitStart(t) ==
    /\ At(t, "lock_init") /\ thread_initializer = Null
    /\ threads_initialized' = threads_initialized + 1
    /\ SignalMain("init_wait", "init_woken", LastInitialized)
    /\ Goto(t, "start_wait")
    /\ UNCHANGED <<mutexVars, threads_failed, status, done, queueVars, entry,
                   localVars, errno, streamVars, outVars, th, faults>>

\* pthread_cond_wait(&start_work) returns and thread_initializer is released.
Start(t) ==
    /\ At(t, "start_woken") /\ thread_initializer = Null
    /\ Goto(t, "first_dequeue")
    /\ UNCHANGED <<main_pc, mutexVars, countVars, done, queueVars, entry,
                   localVars, errno, streamVars, outVars, th, faults>>

(***************************************************************************)
(* thread_func() and scan_dir(): taking work                               *)
(***************************************************************************)
\* Take the first directory of dir_q and scan it, or go to sleep.  The same
\* critical section starts a thread (first_dequeue) and ends scan_dir (get_next).
TakeDir(t) ==
    /\ (At(t, "first_dequeue") \/ At(t, "get_next")) /\ queues_access = Null
    /\ \/ /\ dir_q # <<>>
          /\ dequeue_dir
          /\ entry' = [entry EXCEPT ![t] = Head(dir_q)]
          /\ errno' = [errno EXCEPT ![t] = FALSE]
          /\ Goto(t, "scan")
       \/ /\ dir_q = <<>>
          /\ Goto(t, "enqueue")
          /\ UNCHANGED <<dir_q, entry, errno>>
    /\ UNCHANGED <<main_pc, mutexVars, countVars, done, thread_q, localVars,
                   streamVars, outVars, th, faults>>

\* Mutant: main() is told when one thread is still scanning.
EverybodySleepsEarly == Len(thread_q') = threads_initialized - 1

\* Does thread_q now hold every thread that initialised?
EverybodySleeps == Len(thread_q') = threads_initialized

\* Enter thread_q, tell main() when everybody is there, and wait on the
\* thread's own condition variable, which releases queues_access.
Sleep(t) ==
    /\ At(t, "enqueue") /\ queues_access = Null
    /\ entry' = [entry EXCEPT ![t] = Null]
    /\ enqueue_thread(t)
    /\ SignalMain("sleep_wait", "sleep_woken", EverybodySleeps)
    /\ Goto(t, "sleep")
    /\ UNCHANGED <<mutexVars, countVars, done, dir_q, localVars, errno,
                   streamVars, outVars, th, faults>>

\* pthread_cond_wait returns, owning queues_access: exit if done, else scan.
WakeUp(t) ==
    /\ At(t, "woken") /\ queues_access = Null
    /\ \/ done /\ Goto(t, "exited") /\ UNCHANGED errno
       \/ ~done /\ Goto(t, "scan") /\ errno' = [errno EXCEPT ![t] = FALSE]
    /\ UNCHANGED <<main_pc, mutexVars, countVars, done, queueVars, entry,
                   localVars, streamVars, outVars, th, faults>>

(***************************************************************************)
(* scan_dir(): one entry at a time, in the order readdir() gives them      *)
(***************************************************************************)
readdir(t, e) ==
    /\ At(t, "scan") /\ entry[t] # Null
    /\ e \in unread[entry[t]]

Consumed(t, e) == [unread EXCEPT ![entry[t]] = @ \ {e}]

\* stat() fails, as on a dangling link: the thread exits.
StatFails(t, e) ==
    /\ readdir(t, e) /\ Fault("stat")
    /\ unread' = Consumed(t, e)
    /\ denied' = denied \cup {e}
    /\ Fail(t, "failed")
    /\ UNCHANGED <<main_pc, mutexVars, done, queueVars, entry, localVars, errno,
                   opened, num_of_files_found, found, report, exit_code, th>>

ScanFile(t, e) ==
    /\ readdir(t, e) /\ e \in File
    /\ unread' = Consumed(t, e)
    /\ IF e \in Match
       THEN /\ num_of_files_found' = num_of_files_found + 1
            /\ found' = found \cup {e}
       ELSE UNCHANGED <<num_of_files_found, found>>
    /\ UNCHANGED <<main_pc, pc, mutexVars, countVars, done, queueVars, entry,
                   localVars, errno, opened, denied, report, exit_code, th, faults>>

\* opendir() fails: the directory is reported and errno stays set.
ScanDenied(t, e) ==
    /\ readdir(t, e) /\ e \in Dir /\ opendirFails(e)
    /\ unread' = Consumed(t, e)
    /\ denied' = denied \cup {e}
    /\ errno' = [errno EXCEPT ![t] = TRUE]
    /\ UNCHANGED <<main_pc, pc, mutexVars, countVars, done, queueVars, entry,
                   localVars, opened, num_of_files_found, found, report,
                   exit_code, th>>

ScanDir(t, e) ==
    /\ readdir(t, e) /\ e \in Dir /\ CanOpen(e)
    /\ opened' = opened \cup {e}
    /\ unread' = [Consumed(t, e) EXCEPT ![e] = Contents[e]]
    /\ new_dir' = [new_dir EXCEPT ![t] = e]
    /\ Goto(t, "new_dir")
    /\ UNCHANGED <<main_pc, mutexVars, countVars, done, queueVars, entry,
                   next_thread, errno, outVars, th, faults>>

\* The critical section that finds somebody for new_dir: a sleeping thread, or
\* else dir_q.
Dispatch(t) ==
    /\ At(t, "new_dir") /\ queues_access = Null
    /\ \/ /\ thread_q # <<>>
          /\ dequeue_thread
          /\ next_thread' = [next_thread EXCEPT ![t] = Head(thread_q)]
          /\ Goto(t, "assign")
          /\ UNCHANGED <<dir_q, new_dir>>
       \/ /\ thread_q = <<>>
          /\ enqueue_dir(new_dir[t])
          /\ new_dir' = [new_dir EXCEPT ![t] = Null]
          /\ Goto(t, "scan")
          /\ UNCHANGED <<thread_q, next_thread>>
    /\ UNCHANGED <<main_pc, mutexVars, countVars, done, entry, errno,
                   streamVars, outVars, th, faults>>

\* malloc fails in enqueue_dir: the thread exits and still owns queues_access.
DispatchFails(t) ==
    /\ At(t, "new_dir") /\ queues_access = Null /\ thread_q = <<>>
    /\ Fault("dir_malloc") /\ Fail(t, "failed")
    /\ queues_access' = t
    /\ UNCHANGED <<main_pc, thread_initializer, done, queueVars, entry,
                   localVars, errno, streamVars, outVars, th>>

\* Mutant: the directory is written into the caller's own entry.
AssignOwn(t) ==
    /\ At(t, "assign")
    /\ entry' = [entry EXCEPT ![t] = new_dir[t]]
    /\ new_dir' = [new_dir EXCEPT ![t] = Null]
    /\ Goto(t, "signal")
    /\ UNCHANGED <<main_pc, mutexVars, countVars, done, queueVars, next_thread,
                   errno, streamVars, outVars, th, faults>>

\* Write the directory into the entry of the dequeued thread ...
Assign(t) ==
    /\ At(t, "assign")
    /\ entry' = [entry EXCEPT ![next_thread[t]] = new_dir[t]]
    /\ new_dir' = [new_dir EXCEPT ![t] = Null]
    /\ Goto(t, "signal")
    /\ UNCHANGED <<main_pc, mutexVars, countVars, done, queueVars, next_thread,
                   errno, streamVars, outVars, th, faults>>

\* Mutant: the condition variable is not signalled.
SignalLost(t) ==
    /\ At(t, "signal") /\ Goto(t, "scan")
    /\ next_thread' = [next_thread EXCEPT ![t] = Null]
    /\ UNCHANGED <<main_pc, mutexVars, countVars, done, queueVars, entry,
                   new_dir, errno, streamVars, outVars, th, faults>>

\* ... and signal its condition variable.
Signal(t) ==
    /\ At(t, "signal")
    /\ LET u == next_thread[t]
       IN  pc' = [pc EXCEPT ![u] = IF @ = "sleep" THEN "woken" ELSE @,
                            ![t] = "scan"]
    /\ next_thread' = [next_thread EXCEPT ![t] = Null]
    /\ UNCHANGED <<main_pc, mutexVars, countVars, done, queueVars, entry,
                   new_dir, errno, streamVars, outVars, th, faults>>

\* Mutant: scan_dir returns without looking at dir_q once more.
EndOfDirReturns(t) ==
    /\ At(t, "scan") /\ entry[t] # Null /\ unread[entry[t]] = {}
    /\ \/ errno[t] /\ Fail(t, "failed")
       \/ ~errno[t] /\ Goto(t, "enqueue") /\ UNCHANGED countVars
    /\ UNCHANGED <<main_pc, mutexVars, done, queueVars, entry, localVars, errno,
                   streamVars, outVars, th, faults>>

\* readdir() returns NULL at the end of the stream and leaves errno alone, so
\* the test that follows sees what an earlier opendir() left there.
EndOfDir(t) ==
    /\ At(t, "scan") /\ entry[t] # Null /\ unread[entry[t]] = {}
    /\ \/ errno[t] /\ Fail(t, "failed")
       \/ ~errno[t] /\ Goto(t, "get_next") /\ UNCHANGED countVars
    /\ UNCHANGED <<main_pc, mutexVars, done, queueVars, entry, localVars, errno,
                   streamVars, outVars, th, faults>>

\* readdir() returns NULL because it failed.
ReaddirFails(t) ==
    /\ At(t, "scan") /\ entry[t] # Null
    /\ Fault("readdir") /\ Fail(t, "failed")
    /\ errno' = [errno EXCEPT ![t] = TRUE]
    /\ UNCHANGED <<main_pc, mutexVars, done, queueVars, entry, localVars,
                   streamVars, outVars, th>>

\* The test of threads_failed and pthread_exit, common to the failures of
\* scan_dir and enqueue_dir.
Failed(t) ==
    /\ At(t, "failed") /\ Goto(t, "exited")
    /\ SignalMain("sleep_wait", "sleep_woken", threads_failed = num_of_threads)
    /\ UNCHANGED <<mutexVars, countVars, done, queueVars, entry, localVars,
                   errno, streamVars, outVars, th, faults>>

ThreadStep(t) ==
    \/ AllocEntry(t) \/ AllocEntryFails(t) \/ InitFailed(t)
    \/ WaitStart(t) \/ Start(t)
    \/ TakeDir(t) \/ Sleep(t) \/ WakeUp(t)
    \/ \E e \in Entry : StatFails(t, e) \/ ScanFile(t, e)
                        \/ ScanDenied(t, e) \/ ScanDir(t, e)
    \/ Dispatch(t) \/ DispatchFails(t) \/ Assign(t) \/ Signal(t)
    \/ EndOfDir(t) \/ ReaddirFails(t) \/ Failed(t)

\* The process is gone; a state that has no other step is a hang of main().
Terminated == ~Running /\ UNCHANGED vars

Next == MainStep \/ (\E t \in Thread : ThreadStep(t)) \/ Terminated

Spec == Init /\ [][Next]_vars

\* The scheduler runs every thread that can run, and a mutex that is free for
\* good is eventually given to a thread that waits for it.
FairSpec == Spec /\ WF_vars(MainStep) /\ \A t \in Thread : WF_vars(ThreadStep(t))

-----------------------------------------------------------------------------
(***************************************************************************)
(* Properties                                                              *)
(***************************************************************************)
TypeOK ==
    /\ main_pc \in MainPc
    /\ pc \in [Thread -> ThreadPc]
    /\ thread_initializer \in {Main, Null}
    /\ queues_access \in Thread \cup {Main, Null}
    /\ threads_initialized \in Nat /\ threads_failed \in Nat
    /\ status \in {SUCCESS, FAILURE} /\ done \in BOOLEAN
    /\ dir_q \in Seq(Dir) /\ thread_q \in Seq(Thread)
    /\ entry \in [Thread -> Dir \cup {Null}]
    /\ new_dir \in [Thread -> Dir \cup {Null}]
    /\ next_thread \in [Thread -> Thread \cup {Null}]
    /\ errno \in [Thread -> BOOLEAN]
    /\ opened \in SUBSET Dir /\ unread \in [Dir -> SUBSET Entry]
    /\ num_of_files_found \in Nat /\ found \in SUBSET File
    /\ denied \in SUBSET Entry
    /\ report \in Nat \cup {Null}
    /\ exit_code \in {SUCCESS, FAILURE, Null}
    /\ th \in Nat /\ faults \in Nat

\* No thread leaves the start barrier before every thread has either counted
\* itself in threads_initialized or failed: the code relies on it when it
\* compares thread_q->len with threads_initialized (lines 139, 145, 172).
StartBarrier ==
    (\E t \in Thread : Searching(t)) =>
        \A u \in Thread : pc[u] \notin {"unborn", "start", "lock_init"}

\* A DIR stream belongs to one place at a time: a position of dir_q, the hands
\* of the thread that opened it, or the entry of one thread.  readdir() on one
\* stream from two threads would be a data race (lines 204, 247, 252, 289).
SingleOwner ==
    /\ IsInjective(dir_q)
    /\ \A t, u \in Thread : t # u /\ entry[t] # Null => entry[t] # entry[u]
    /\ \A t, u \in Thread : t # u /\ new_dir[t] # Null => new_dir[t] # new_dir[u]
    /\ \A t, u \in Thread : new_dir[t] # Null => new_dir[t] # entry[u]
    /\ \A t \in Thread : {entry[t], new_dir[t]} \cap Range(dir_q) = {}

\* A thread that scans, or is woken to scan, has an open stream in its entry:
\* the directory is written before the signal, so readdir(NULL) never happens
\* (lines 177-189, 250-254).
WokenWithWork ==
    \A t \in Thread :
        pc[t] = "scan" \/ (pc[t] = "woken" /\ ~done) => entry[t] \in opened

\* While no call fails, a queued directory is never forgotten: some thread has
\* yet to look at dir_q, although a thread that found it empty may already be
\* on its way to sleep without looking again (lines 282-284 and 164-170 are
\* two critical sections).
WorkHasWorker ==
    dir_q # <<>> =>
        \E t \in Thread :
            pc[t] \notin {"enqueue", "sleep", "failed", "init_failed", "exited"}

\* done is set only when the search is over: nobody holds or waits for a
\* directory, dir_q is empty, every stream has been read to its end.
DoneQuiescent ==
    done => /\ dir_q = <<>>
            /\ \A t \in Thread : /\ pc[t] \in {"sleep", "woken", "init_failed", "exited"}
                                 /\ entry[t] = Null /\ new_dir[t] = Null
            /\ \A d \in opened : unread[d] = {}

(***************************************************************************)
(* The reference: what a search of the tree finds.  An entry is reachable  *)
(* when it lies in every set that contains the root and the contents of    *)
(* each directory of the set that can be searched.                         *)
(***************************************************************************)
Closed(S) ==
    /\ Root \in S
    /\ \A d \in (S \cap Dir) \ Denied : Contents[d] \subseteq S

Reachable == {e \in Entry : \A S \in SUBSET Entry : Closed(S) => e \in S}

Matches == Match \cap Reachable

\* What "Done searching, found n files" says; after "Directory <root>:
\* Permission denied." it says nothing of the tree.
SearchReport == IF Root \in denied THEN Null ELSE report

\* It is printed only when every match has been printed, and n is their number,
\* whatever failed on the way (lines 509, 545).
DoneComplete ==
    SearchReport # Null => found = Matches /\ SearchReport = Cardinality(Matches)

\* Once a thread has been created, the exit code 0 is given only to a search that
\* was reported and in which no thread failed (lines 221, 271, 546).
SuccessMeansComplete ==
    exit_code = SUCCESS /\ Created # {} => SearchReport # Null /\ threads_failed = 0

\* pfind implements the abstract search.
S == INSTANCE Search WITH Total <- Cardinality(Matches), None <- Null,
                          report <- SearchReport, ended <- ~Running
SearchSpec == S!Spec

\* With no failing call the search ends and reports the number of matches: no
\* signal is lost and no thread sleeps through the end.
SearchEnds == <>(report = Cardinality(Matches))

\* "lock queues before all searching threads to ensure reaching all_sleep
\* condition" (line 500): main() returns from that wait.
AllSleepReached ==
    (main_pc = "sleep_wait") ~> (main_pc \notin {"sleep_wait", "sleep_woken"})
=============================================================================
