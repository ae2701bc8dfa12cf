------------------------------ MODULE PfindInv ------------------------------
(***************************************************************************)
(* The inductive invariant of Pfind: why the start barrier holds, why a    *)
(* woken thread has work, why every directory has one owner, and why an    *)
(* empty search is reported only when it is really over.  Each part is     *)
(* proved in PfindProofs from itself and the parts before it.              *)
(***************************************************************************)
EXTENDS Pfind

\* Locations before a thread has counted itself, inside scan_dir, and dead.
Uncounted == {"unborn", "start", "lock_init", "init_failed"}
InScan    == {"scan", "new_dir", "assign", "signal"}
Dead      == {t \in Thread : pc[t] \in {"init_failed", "failed", "exited"}}

\* The threads threads_initialized must still account for: a thread that died
\* with a directory in its entry stays among them for ever.
Counted == {t \in Thread : pc[t] \notin Uncounted /\ (pc[t] = "exited" => entry[t] # Null)}

\* What the locals of a thread hold at each location of its code.
ThreadInv ==
    \A t \in Thread :
        /\ pc[t] \in {"new_dir", "assign"} => new_dir[t] # Null
        /\ new_dir[t] # Null => pc[t] \in {"new_dir", "assign", "failed", "exited"}
        /\ next_thread[t] # Null <=> pc[t] \in {"assign", "signal"}
        /\ pc[t] \in Uncounted \cup {"start_wait", "start_woken", "first_dequeue"}
               => entry[t] = Null
        /\ pc[t] \in InScan \cup {"get_next", "failed"} => entry[t] # Null
        /\ errno[t] => pc[t] \in InScan \cup {"failed", "exited"}
        /\ pc[t] = "exited" /\ (new_dir[t] # Null \/ errno[t]) => entry[t] # Null

\* A queued thread sleeps without a directory.
QueuedAsleep == \A u \in Range(thread_q) : entry[u] = Null /\ (pc[u] = "sleep" \/ done)

\* A dequeued thread sleeps until the one thread that dequeued it has assigned
\* a directory to it and signalled.
HandOver ==
    \A t \in Thread : next_thread[t] # Null =>
        /\ pc[next_thread[t]] = "sleep" /\ next_thread[t] \notin Range(thread_q)
        /\ pc[t] = "assign" => entry[next_thread[t]] = Null
        /\ pc[t] = "signal" => entry[next_thread[t]] # Null
        /\ \A u \in Thread \ {t} : next_thread[u] # next_thread[t]

\* Before the end nobody is woken without a directory.
WokenHasDir == \A t \in Thread : pc[t] = "woken" /\ ~done => entry[t] # Null

QueueInv == IsInjective(thread_q) /\ QueuedAsleep /\ HandOver /\ WokenHasDir

\* main() before and after all_initialized; the threads past the start barrier.
EarlyMain == {"setup", "create", "create_last", "before_init_wait", "init_wait"}
LateMain  == MainPc \ (EarlyMain \cup {"exited"})
Passed    == {t \in Thread : pc[t] \notin {"unborn", "start", "lock_init"}}

\* The start barrier: while main() waits for all_initialized the two counters
\* add up to the threads that have passed; afterwards everybody has.
BarrierInv ==
    /\ main_pc \in EarlyMain =>
           /\ \A t \in Thread : ~Searching(t)
           /\ threads_initialized + threads_failed = Cardinality(Passed)
    /\ main_pc \in LateMain => Passed = Thread
    /\ StartBarrier

\* The counters against the threads they count.
CountedInv == Cardinality(Counted) <= threads_initialized
QueueLenInv == Len(thread_q) = Cardinality(Range(thread_q))
DeadInv == Running => threads_failed <= Cardinality(Dead)

CountInv == CountedInv /\ QueueLenInv /\ DeadInv

\* Only open streams are owned.
OwnedOpen ==
    /\ \A t \in Thread : {entry[t], new_dir[t]} \subseteq opened \cup {Null}
    /\ Range(dir_q) \subseteq opened

\* An entry still to be read has not been opened yet, and a directory is opened
\* only after its parent.
UnreadInv ==
    /\ \A d \in Dir : unread[d] \subseteq Contents[d] /\ unread[d] \cap opened = {}
    /\ \A d \in Dir \ opened : unread[d] = {} /\ Contents[d] \cap opened = {}
    /\ main_pc = "setup" => opened = {}

\* A stream keeps an owner until it has been read to its end.
Owned(d) == d \in Range(dir_q) \/ \E t \in Thread : d \in {entry[t], new_dir[t]}

HeldInv ==
    /\ \A t \in Thread : pc[t] \in {"get_next", "enqueue"} /\ entry[t] # Null
                             => unread[entry[t]] = {}
    /\ \A d \in opened : Running /\ unread[d] # {} => Owned(d)

TreeInv == SingleOwner /\ OwnedOpen /\ UnreadInv /\ HeldInv

\* A thread that will still look at dir_q, or died in a directory.
Worker(t) == t \in Counted /\ pc[t] \notin {"enqueue", "sleep"}

\* A queued directory has a worker, unless no thread was ever initialised.
WorkInv == dir_q # <<>> => (\E t \in Thread : Worker(t)) \/ Counted = {}

\* main() is signalled only when every counted thread is queued, or all failed.
SignalInv ==
    main_pc = "sleep_woken" =>
        \/ threads_failed = num_of_threads
        \/ thread_q # <<>> /\ Counted \subseteq Range(thread_q)

\* done belongs to the end of main(), and then no directory is left.
DoneInv ==
    /\ main_pc \in {"wake", "join"} => done
    /\ done => main_pc \in {"wake", "join", "exited"}
    /\ DoneQuiescent

\* The entries readdir() has returned so far.
Seen == {e \in Entry : \E d \in opened : e \in Contents[d] \ unread[d]}

\* A thread that met a directory it could not open or an entry it could not
\* stat(): it never enters thread_q again.
Spoiled(t) == errno[t] \/ pc[t] = "failed" \/ (pc[t] = "exited" /\ entry[t] # Null)

\* What has been printed is what has been read.
FoundInv ==
    /\ found = (Match \cap Seen) \ denied
    /\ denied \subseteq Seen \cup {Root}
    /\ num_of_files_found = Cardinality(found)

\* A directory that has been read about was opened, or reported, or killed the
\* thread that read about it.
OpenedInv ==
    /\ Seen \cap Dir \subseteq opened \cup denied
    /\ opened \cap Denied = {}
    /\ main_pc \notin {"setup", "exited"} => Root \in opened

\* Only what is reachable has been read.
ReachInv == \A X \in SUBSET Entry : Closed(X) => Seen \cup opened \subseteq X

\* Nothing was left out without a trace that keeps main() from reporting.
SpoiledInv ==
    /\ Running => report = Null /\ Root \notin denied
    /\ Running /\ denied # {} => \E t \in Thread : Spoiled(t)
    /\ done => denied = {}

\* A thread that failed is recorded in status, which becomes the exit code.
ExitInv ==
    /\ Running => exit_code = Null
    /\ threads_failed = 0 \/ status = FAILURE
    /\ main_pc = "setup" => Created = {}
    /\ SuccessMeansComplete

\* The inductive invariant, checked by TLC before it is proved.
IInv ==
    /\ TypeOK /\ ThreadInv /\ QueueInv /\ BarrierInv /\ CountInv
    /\ TreeInv /\ WorkInv /\ SignalInv /\ DoneInv
    /\ FoundInv /\ OpenedInv /\ ReachInv /\ SpoiledInv /\ DoneComplete
    /\ ExitInv

\* No call fails: none is made to, and every directory can be opened.
NoFailure == Faults = {} /\ Denied = {} /\ Cardinality(Dir) <= MaxOpen

\* Then no thread dies before the search is over.
HealthyInv ==
    \A t \in Thread : /\ pc[t] \notin {"init_failed", "failed"} /\ ~errno[t]
                      /\ pc[t] = "exited" => done
==============================================================================
