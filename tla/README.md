# Verification of the operating-systems exercises

TLA+ models of the concurrent and stateful programs of this repository, TLC
configurations that check them on small instances, and TLAPS proofs of every safety
property for instances of any size: the parallel search of `hw04/pfind.c`, the message
slot driver and its two clients, the page tables, the shell, the character device, the
threads that count and search for primes, the condition variable, and the processes
that exchange data through pipes, fifos, a mapped file or a file and a signal.
`PROJECT.json` maps every
definition to the lines it models and lists the runs, the mutants, the
hazards and the theorems.

## 1. Inventory

The repository is a set of independent C programs. Nothing links them except
that `message_sender` and `message_reader` use the device of `message_slot.c`,
and that `myshell.c` is called by the loop of `shell.c`.

| Component | State | Operations | Hard behaviour |
|---|---|---|---|
| `hw04/pfind.c`, parallel search | two FIFO lists (`dir_q`, `thread_q`), an entry and a condition variable per thread, counters, `status`, `done`, open `DIR` streams, two mutexes, three condition variables | `main`, `thread_func`, `scan_dir`, the four queue operations | start barrier, hand-over of work to sleeping threads, detection of the end, threads that fail, waits without a loop, calls that fail |
| `hw03/message_slot.c`, character device | a linked list of `NODE`s per minor, `private_data` of each open file | load, unload, open, release, ioctl, read, write | no lock: calls of two processes interleave; memory that is used before it is filled in; faults in the middle of a copy; out of memory |
| `hw03/message_sender.c`, `message_reader.c` | a descriptor | open, ioctl, write or read, close | the message outlives the sender; other processes on the channel; every call may be refused |
| `hw02/myshell.c` with `hw02/shell.c` | children, the ends of a pipe, dispositions of signals | read a line, run it (plain, `&`, `>`, `\|`), wait | children that end in any order, SIGINT at any moment, ends of a pipe left open, system calls that fail |
| `hw01/pt.c` with `hw01/os.c`, page tables | page frames | query, update, allocation of a frame | leaf and table entries look the same; words of fixed width |
| `rec09-mutex/cond_var_ex1.c` | a counter, a mutex, a condition variable | threads that increment and signal, one that waits and adds | lost updates, a signal nobody waits for, waits that return without one |
| `rec09-mutex/mutex_ex1.c` to `mutex_ex3.c`, `rec08-threads/3_*` and `5_*` | a counter, atomic, locked or neither | threads that increment it or take numbers from it | lost updates, loops that end by what other threads took, a mutex to be given back |
| `rec06-devices/CHARDEV1`, `CHARDEV2` and `user_chardev.c` | an open flag under a spin lock, a buffer, an encryption flag | load, unload, open, release, read, write, ioctl | exclusive open, files shared after a fork, unlocked reads and writes, the bound of the buffer |
| `rec04-pipes-mmap`: pipes, fifos, `mmap_a.c` with `mmap_b.c` | the ends of pipes, what is in them, an integer in a mapped file | pipe, fork, mkfifo, open, read, write, close, wait | reads and writes that cut a message, the end of file, SIGPIPE, opens that wait for each other, accesses ordered by sleeps only |
| `rec03-exec-wait-signals/life_meaning.c` and `worker.c` | a file, `keep_waiting` | write the file, send a signal, wait for it | the answer of an earlier run, a worker that fails |
| the rest of `rec02` to `rec05` and `rec08`, `hw02/extra.c` | none that is shared | demonstrations; `extra.c` is not in the build | none |

What makes each one correct:

* **pfind**: nobody searches before everybody is ready; a stream is read by one
  thread at a time; a woken thread has a directory; a queued directory has
  somebody who will take it; `done` is set only when nothing is left; the number
  reported is the number of matches; the process ends.
* **message slot**: a channel keeps its last message, a file uses the channel it
  asked for, uninitialised or freed memory is never used.
* **sender and reader**: a reader that finds a message gets one.
* **condition variable exercise**: no increment is lost, the watcher does not
  sleep through the limit, all threads end.
* **counters**: what is printed at the end is every increment, or every prime
  once, and all threads are joined.
* **character device**: one open file at a time, what its user wrote is what is
  stored, nothing is written outside the buffer, every call returns.
* **pipes, fifos, file and signal**: whoever ends in the ordinary way has read
  the whole message of this run, and everybody ends.
* **shell**: the prompt returns, and when it does the command is over and
  nothing of it is left; background commands survive Ctrl-C.
* **page tables**: each table is a map of its own, and walks stay in the frames
  that were allocated.

The hazards, one by one with the line where each bites, are in `PROJECT.json`.

## 2. Modules

| Module | What it is |
|---|---|
| `Pfind` | `hw04/pfind.c`, all of it |
| `Search` | what a search promises; `Pfind` implements it |
| `PfindInv` | the inductive invariant of `Pfind` |
| `PfindProofs` | the theorems about `Pfind` |
| `MessageSlot` | `hw03/message_slot.c` |
| `Slots` | what message slots promise; `MessageSlot` implements it |
| `MessageSlotProofs` | the theorems about `MessageSlot` that hold whatever calls overlap |
| `SlotsProofs` | the theorems about `MessageSlot` that need calls to exclude each other, and that it implements `Slots`; the theorems about `SlotClients` |
| `SlotClients` | `hw03/message_sender.c` and `message_reader.c`, composed with `MessageSlot` |
| `Watch` | `rec09-mutex/cond_var_ex1.c` |
| `WatchProofs` | the theorems about `Watch` |
| `PageTable` | `hw01/pt.c` and the frames of `hw01/os.c` |
| `PageMap` | what page tables promise; `PageTable` implements it |
| `PageTableProofs` | the theorems about `PageTable`, and that it implements `PageMap` |
| `Shell` | `hw02/myshell.c` under the loop of `hw02/shell.c` |
| `ShellProofs` | the theorems about `Shell` |
| `CharDevice` | the two drivers of `rec06-devices` and `user_chardev.c` |
| `CharDeviceProofs` | the theorems about `CharDevice` |
| `Counters` | the programs of `rec09-mutex` and `rec08-threads` whose threads share a counter |
| `Exchange` | the programs of `rec04-pipes-mmap` and `rec03` in which two or three processes exchange data |
| `Recitations` | one program of `Counters` or of `Exchange` is run |
| `RecitationsProofs` | the theorems about `Counters` and `Exchange` |
| `MCPfind`, `MCMessageSlot`, `MCSlotClients`, `MCPageTable`, `MCShell`, `MCCharDevice`, `MCRecitations` | the instances TLC checks (`Watch` needs none) |

Definitions whose comment starts with "Mutant" stand before the definition they
change; no specification uses them. Each shows that a property notices the bug
it is there for.

### Pfind

One step is one critical section, or the code between two accesses to shared
state. `main_pc` and `pc[t]` say where `main()` and each thread are; a mutex is
its owner or `Null`. A critical section that never waits inside is one step
that requires the mutex to be free; `main()` holds `thread_initializer` across
the creation of the last thread, and `queues_access` across the broadcast, so
there the owner is recorded. `pthread_cond_wait` is two steps (release and
sleep; wake and own the mutex), and a signal moves the sleeper only if it is
asleep, so a signal that nobody waits for is lost, as it is in the program.

* A path is one element of `Dir` or `File`. The tree is a constant; `Denied`
  are the directories `opendir()` refuses; `Match` is what `strstr()` accepts.
  `denied` collects the entries on which `opendir()` or `stat()` has failed.
* `errno` is kept per thread as "is it non-zero", because the test after the
  loop of `scan_dir` reads what an earlier call left there.
* `opened` never shrinks: nothing calls `closedir()`. `MaxOpen` bounds it.
* A failing library call is a step of its own (`Fault`), and at most
  `MaxFaults` of the kinds in `Faults` happen; a wrong number of arguments counts
  as one. Those after which `main()` returns at once are `MainFails`.
* `scan_dir` calls itself at its end; since nothing happens after the call, the
  model goes back to the same location.
* Queue entries that `malloc()` returns are read before all their fields are
  written. The program never frees memory, so they lie in fresh pages and hold
  zeros; the model takes this as given.

### MessageSlot

A call is a sequence of steps, one per access to shared memory; `call[f]` holds
its locals. `Overlapping` names the calls that may run while others do: with
none of them, calls are atomic with respect to each other, which is the setting
of the refinement. `NODE.channel_id` has `Width` bits and `ioctl_param` does
not. `asked`, `sent` and `ret` are history: the channel each file asked for, the
last message each channel was sent, the last result of each file. An open file
makes one call at a time. The counting of open files by the kernel, which keeps
the module from being unloaded, follows from `fops.owner` and is modelled as
the guard `Unused`.

`device_ioctl` loads the shared pointer, `devices[minor]` or `curr->next`, again for
every access, so that racing callers may find another value each time. The test of
line 119 and the load of line 134, the allocation and the test for `NULL` (121, 122
and 140, 141), the three stores that fill in the `NODE` (127 to 129, 146 to 148) and
the load that becomes `private_data` (130, 149) are steps of their own. Each of the
three stores loads the pointer and stores through it in one step.

Memory from `kmalloc` is recycled and holds `Garbage` until it is stored to. As an id,
`Garbage` may compare equal or different to anything; as a length it is any number; as
a pointer it is any value of `Pointer`: `NULL`, a `NODE` in use, also one of another
minor, a `NODE` that was freed, or memory that is no `NODE`. A walk through such a
pointer goes on wherever it leads (`NextOf`, `Shared`), and what it takes for a channel
becomes `private_data`. Memory that is not a `NODE` in use answers every load with
any value and forgets what is stored into it, or is not mapped, and then the kernel
ends the process (`Oops`). What a store through such a pointer does to the memory of
other parts of the kernel is outside the model.

### SlotClients

A process and the file it opens have one name. Its steps are those of `main()`:
each starts a call of the driver, and the next one looks at the result when the
call has returned. When a process exits, the kernel releases its file. The files
that belong to neither program make any call, so that the two are checked among
processes of which nothing is known. `promised` is history.

### Watch

`count++` and `count += 125` are a load and a store. `pthread_cond_wait` is two
steps as in `Pfind`, and here it may also return without a signal, which the
loop around it allows. The signal moves the watcher only if it sleeps. `sleep(1)`
and what is printed leave no trace.

### CharDevice

`CHARDEV1` is `CHARDEV2` without the ioctl and the shift, so its behaviours are
those in which nobody calls ioctl. A step is one access to a variable of the
device: `++dev_open_flag`, `--dev_open_flag` and `the_message[i] += 1` are a
load and a store, and the copy goes byte by byte. `device_read`, `device_write`
and `device_ioctl` take no lock, and none is modelled. `fd[p]` names the open
file of a process after the process that opened it; `Fork` gives it to another
process, and the last one to close it calls `device_release`. The processes in
`Other` make any call in any order, with buffers that may fault (`get_user`
then stores 0 and its result is ignored); those in `User` are the lines of
`user_chardev.c`, again and again. The former may set the flag to any integer of
`Flags`, since line 121 of `CHARDEV2` stores what it is given; that the latter use the
device alone is what `UserUndisturbed` says. Loading clears the device; a module with an open file or
a call in progress is not unloaded (`Fops.owner`).

### Counters and Exchange

Both hold several small programs, chosen by `program` and `exercise`.
`Counters` has the loops of `main()` once, since all five programs start and
join their threads in the same way, and the bodies of the threads one by one:
`++counter` is one step for the atomic counters, a load and a store for the
plain ones. `is_prime` is the code's trial division, compared with the
definition of a prime in `PrimesFound`. A call of `main()` or of a locking thread that
fails ends the program with all its threads wherever they are (`ExitFails`).

In `Exchange` a program is a script for each of its processes, and the actions
are the system calls, so that pipes and fifos behave in the same way in all
programs: a read returns what is there and sees the end of file when every copy
of the write end is closed; a write of at most `PIPE_BUF` bytes is in one piece
and a longer one goes in as there is room; a write without a reader is ended by
SIGPIPE; `open()` of a fifo takes part at once and returns when the other side
has come; exit closes what is open. `Message` gives every byte a name, so that
mixed and lost bytes are seen. `file` is the shared file of `life_meaning.c`,
with or without the answer of an earlier run, or the mapped integer of
`mmap_a.c`. Opening, reading and writing the file may fail (`FileFails`).
Sleeps order nothing. Only one program runs in a behaviour;
`Recitations` composes the two modules.

### PageTable

The word of an entry is modelled with its width: `pte` shifts and cuts,
`frame` shifts back. `walk` is the loop that both functions share. The number
of levels, the bits per level, the shift and the word are constants, because
the code's 5 levels of 9 bits are out of reach for enumeration. `AllocFails` ends the
process at any time: in `alloc_page_frame()`, which every update may call, either no
frame is left or `mmap()` fails, and then nothing of the tables is looked at again.

### Shell

A line is a sequence of tokens, and the first special one decides what is run.
The ends of the pipe are the sets of processes that hold them. SIGCHLD is
ignored, so a child disappears when it ends, and `waitpid()` returns with
`ECHILD`. Children go through fork, redirection, `signal()` and `execvp()` in
steps, and Ctrl-C may come at any of them. What a program does is external: a
reader of the pipe ends at the end of file, a writer ends when a reader runs or
none is left.

## 3. Runs

| Run | Instance | Shows | Distinct states |
|---|---|---|---|
| `PfindSearch` | 3 threads, 5 directories, 3 files, no failures | `TypeOK`, `StartBarrier`, `SingleOwner`, `WokenWithWork`, `WorkHasWorker`, `DoneQuiescent`, no deadlock, and `SearchEnds` under fairness | 39 484 |
| `PfindFaults` | 3 threads, the same tree, up to 2 failing calls of any kind | `IInv`, `DoneComplete`, `SuccessMeansComplete`, and `Pfind` implements `Search` | 71 724 |
| `SlotCalls` | 2 files, 2 minors, ids 0 to 2, memory for 2 channels, no overlap | `TypeOK`, `NoUseAfterFree`, `OneNodePerChannel`, and `MessageSlot` implements `Slots` | 829 055 |
| `SlotClients` | a sender, a reader, another program; 2 channels and memory for one, reads and writes overlap, buffers that fault | `NoGarbageRead`, `Delivered` | 2 197 805 |
| `SlotRacing` | 2 files, 2 minors, ioctls overlap, memory for 3 channels | `FreedOnce`, `ListsInitialized` | 2 351 406 |
| `PageTables` | 3 levels of 2 entries, 5 frames | `WalksStayInMemory`, `TablesAreTrees`, and `PageTable` implements `PageMap` | 5 268 |
| `Watch` | 2 incrementing threads and the watcher, 10 rounds, limit 12, as in the code | `TypeOK`, `CountExact`, `WaitsForLimit`, no deadlock, and `AllJoined` under fairness | 31 691 |
| `ShellJobs` | 2 lines out of 9 forms, 3 processes, 1 failing call | `TypeOK`, `PromptIsClean`, `BackgroundSurvives`, and `PromptReturns` under fairness | 15 726 |
| `CharDevice` | `user_chardev` and 2 other processes, a buffer of 2 bytes, writes of 1 and 3 | `TypeOK`, `ExclusiveOpen`, `UserUndisturbed`, no deadlock, and `CallsReturn` under fairness | 89 649 |
| `Recitations` | 3 threads, 2 rounds, `TOTAL` 9; messages of 0 to 4 bytes, pipes of 3, atomic writes and reads of 2 | `FinalCount`, `PrimesFound`, `Complete`, `AnswerOfThisRun`, and `ThreadsJoined`, `ProcessesEnd` under fairness | 62 417 |

Why the bounds are enough to be interesting:

* *pfind.* Three threads are the least with which one thread hands a directory
  to a second while a third goes to sleep. The tree has two directories in the
  root and two in one of them, so that directories are queued, handed over and
  found by a thread that just ended another one. With two failures of any kind
  and three threads, none, one or two fail, at every point of the code, and at
  least one is left to see what they leave behind.
* *message slot.* Two channels in a list exercise its head and its tail, and two
  minors share the memory, so both allocations fail too. `BUF_LEN` is 2, with
  messages of length 0, 1, 2 and 3. In `SlotRacing` three `NODE`s
  let both racing callers allocate, and one more append; one id is enough, because an
  uninitialised one compares equal or different anyway and an ioctl that does not
  recognise its channel appends. Uninitialised pointers lead to all three and beyond.
* *sender and reader.* Both lengths of message and a torn one, so that a read
  overlaps writes that make the message longer and shorter. Memory for one
  channel makes every ioctl on the second one fail; longer lists are the matter
  of `SlotCalls`. Processes read one byte or `BUF_LEN`, as the reader does.
  `Delivered` needs ids that fit an `unsigned int`, see
  `SlotWideIds`.
* *condition variable.* The instance is the program.
* *page tables.* Five frames hold one full path and a fork at any level, or two
  roots with a path each in part; the mapped numbers are that of a table frame
  and the largest that fits the word. The program may stop after "out of
  physical memory", so this run does not look for deadlocks.
* *character device.* Three processes are the least with which two share a file
  after a fork while a third tries to open it. The buffer is shorter than one
  message and longer than the other, and a char has three values, so that the
  shift wraps around.
* *counters.* Three threads overwrite each other's stores in every way that more
  would; up to `TOTAL` + 2 there are primes, composites and 4, and each thread
  takes several numbers.
* *pipes and fifos.* With reads and atomic writes of 2 bytes and pipes of 3, the
  lengths 0 to 4 are an empty message, one that fits, one that needs two reads,
  one that cannot be written in one piece and one that does not fit the pipe. Two
  `fifo_writer`s write twice each. Programs end, so this run does not look for
  deadlocks; `ProcessesEnd` does.
* *shell.* The second line runs while the background process of the first one
  does.

Runs that end in a violation show where the code and its own comments part:

* `PfindDeniedHangs`: line 500 says "lock queues before all searching threads to
  ensure reaching all_sleep condition". A directory that may not be opened
  leaves `errno` set, the thread takes the end of the stream for an error and
  exits, and `main()` waits for ever. The same wait never ends after a `stat()`
  that fails, or a `malloc()` that fails in `enqueue_dir`, which exits with the
  queues locked.
* `SlotWideIds`: `message_slot.c` line 19 says "each node represents a channel".
  An id wider than `unsigned int` is stored truncated and compared in full, so
  asking for it twice makes two `NODE`s.

Met while modelling and not given a run, mostly because no line of the repository
states what should happen: when the thread of `pfind` that comes last fails to
allocate its entry, nobody signals `all_initialized`, and with one thread the
signal of the failing thread can come before `main()` waits; the waits of `pfind`
are not in a loop, so a return without a signal, which POSIX allows and the model
leaves out, lets `main()` set `done` while threads search; two racing ioctls can share one `NODE`, and one that
follows an uninitialised `next` can keep a `NODE` of another minor or a freed one, so
that `OneNodePerChannel` and `NoUseAfterFree` hold only while ioctls exclude other calls; a read
compares its buffer with a `msg_len` that may grow before the copy; a write
whose buffer faults leaves a mixture of two messages; `pfind` exits with 0 when
`malloc()` fails for the root; directories are reported as denied when the
descriptors run out; `pipe_exec` goes on after `pipe()` has failed; `mutex_ex3` prints 4 as a prime and
goes past `TOTAL` by one number for each thread but one (`PrimesFound` says exactly
this); `papa_son_pipe2` writes a zero behind its buffer when a read fills it, and
ends by SIGPIPE when `fork()` fails; a `fifo_writer` that comes when the reader is
leaving loses its data; what the device logs as "last written" keeps the tail of a
longer message before it, and has no zero at its end when the buffer is full;
`life_meaning` waits for ever when its worker fails.

### Fairness

`SearchEnds`: weak fairness of `main()` and of each thread. Every thread of a
process is scheduled, and a mutex whose owner releases it is eventually given to
a thread that asks; each step takes a mutex only for its own duration, so weak
fairness of the whole thread is what the scheduler gives. Nothing is assumed of
the order in which threads obtain a mutex, nor that a signal is remembered.

`AllJoined`: weak fairness of `main()` and of the watcher, strong fairness of each
incrementing thread. The watcher may wake without a signal again and again, and
takes the mutex each time; a thread that asks for the mutex finds it free again
and again, and gets it in the end. That is what strong fairness says and what a
mutex with a queue of waiters gives. Nothing is assumed of the returns without a
signal.

`CallsReturn`: weak fairness of the steps of each call, because the kernel runs
every call to its end, and strong fairness of taking the spin lock, because
Linux grants its spin locks in the order in which they are asked for. Nothing is
assumed of the processes: they may stop between calls and keep the device open.

`ThreadsJoined`, `ProcessesEnd`: weak fairness of `main()`, of each thread and of
each process. A thread that waits for the mutex of `mutex_ex2` may be passed by
the others, but only for as many rounds as they have. Nothing is assumed of
failures.

`PromptReturns`: weak fairness of the shell, of each child until it has called
`execvp()`, and of the end of a foreground program that can end. A program that
runs for ever keeps the prompt away in any shell. Nothing is assumed of
background programs, of Ctrl-C or of the user.

## 4. Proofs

`PfindProofs` proves the following for every finite set of threads, every finite
tree, every set of denied directories, every limit on descriptors and every pattern of
failing calls. The assumptions are `ThreadsAssumption` (there
is a thread), `TreeAssumption` (the contents of directories are disjoint and the
root is in none of them, which is what makes them paths), `BoundsAssumption` and
`NullAssumption` (nothing is no number).

| Theorem | Statement |
|---|---|
| `Invariance` | `Spec => []IInv` |
| `TypeCorrect` | `Spec => []TypeOK` |
| `BarrierHolds` | `Spec => []StartBarrier` |
| `StreamsHaveOneOwner` | `Spec => []SingleOwner` |
| `HandOverIsSafe` | `Spec => []WokenWithWork` |
| `DoneMeansQuiescent` | `Spec => []DoneQuiescent` |
| `ReportIsComplete` | `Spec => []DoneComplete` |
| `SuccessIsEarned` | `Spec => []SuccessMeansComplete` |
| `QueuedDirIsTaken` | `NoFailure` implies `Spec => []WorkHasWorker` |
| `PfindImplementsSearch` | `Spec => SearchSpec` |

None of these is inductive. `IInv` is the conjunction of parts that are proved
in order, each from itself and earlier ones:

1. `ThreadInv`: what the locals of a thread hold at each location.
2. `QueueInv`: a queued thread sleeps without a directory; a dequeued one sleeps
   until the one thread that dequeued it has assigned and signalled. This is why
   a woken thread has work although the hand-over is outside the mutex.
3. `BarrierInv`: until `main()` is signalled, the two counters add up to the
   threads that have passed the barrier; when the sum reaches the number of
   threads, all have.
4. `CountInv`: `threads_initialized` is at least the number of threads that can
   still enter `thread_q` or have died with a directory in hand. A thread that
   dies stays counted, so the equality of line 172 cannot be met without it.
5. `TreeInv`: a stream has one owner, and keeps an owner until it has been read
   to its end. It rests on the tree: an entry still to be read has not been
   opened.
6. `WorkInv`: a queued directory has a thread that will still look at `dir_q`.
   It holds although a thread finds `dir_q` empty in one critical section and
   goes to sleep in another: what is queued in between is queued by a thread
   that is still scanning.
7. `SignalInv`, `DoneInv`: `main()` is woken only when every counted thread is in
   `thread_q` or all have failed, so `done` means that nothing is left.
8. `FoundInv`, `OpenedInv`, `ReachInv`, `SpoiledInv`: what has been printed is
   what has been read and matches; a directory read about has been opened, or
   has left behind a thread that never sleeps again, which keeps `main()` from
   reporting; only reachable entries are read. At the end the set of entries read
   is closed, so it is the reachable set, which gives `DoneComplete`.
9. `ExitInv`: a thread that has failed is recorded in `status`, which `main()`
   returns, and until `main()` ends there is no exit code.

`WorkHasWorker` is about searches in which no call fails (`NoFailure`: no fault, no
denied directory, a descriptor for each directory), because a thread that dies can
leave a directory in the queue with all the others asleep, as `PfindDeniedHangs`
shows. `HealthyInv` says that then no thread dies before `done`, and `WorkInv` does
the rest.

The reachable set is defined as the intersection of the closed sets, so that the
proof needs no induction over the tree. Refinement maps `Search`'s report to the
report of a root that could be opened, and its end to the exit of `main()`: a
step of `ScanFile` prints one match that was not printed before, `Join`
finishes, the other exits give up, everything else stutters.

`WatchProofs` proves, for any number of incrementing threads, of rounds and any
limit that they can reach together (`WatchAssumption`):

| Theorem | Statement |
|---|---|
| `WatchTypes` | `Spec => []TypeOK` |
| `NothingIsLost` | `Spec => []CountExact` |
| `WatcherWaitsForLimit` | `Spec => []WaitsForLimit` |

The inductive invariant adds that the owner of the mutex is the one thread in its
critical section (`Exclusion`), that the value a thread has loaded is still that
of `count` (`Current`), and that a thread that has not ended has a round left
(`RoundLeft`). `CountExact` counts the set of rounds that were made, so that an
increment adds one element and no induction over a sum is needed. The test for
equality with the limit is enough because the increment that reaches it holds the
mutex until it has signalled: no second thread can be between its store and its
test. The watcher leaves its loop only by finding the limit reached while it has the
mutex, and `count` never falls.

`MessageSlotProofs` proves, for any sets of files, minors, ids, buffers and `NODE`s
and **whatever calls overlap**:

| Theorem | Statement |
|---|---|
| `SlotTypes` | `Spec => []TypeOK` |
| `ListsAreFreedOnce` | `Spec => []FreedOnce` |
| `ListsAreInitialized` | `Spec => []ListsInitialized` |

The assumptions are `SlotAssumption` (the lengths and widths are numbers, buffers
are sequences of bytes of which a beginning is mapped, and uninitialised memory
is told apart from what is stored), `NullAssumption` (`Null` is no `NODE`, message
or channel) and `PowerAssumption` (2^`Width` is a positive number, which the provers
do not know). The inductive invariant `RaceInv` is about links, that is the heads of
the lists and the `next` fields that were stored, and makes no claim about where a
caller is: an uninitialised pointer may have led it anywhere. It says what kind of
locals a call has (`CallInv`, `FileInv`); that a link leads to a `NODE` that is
allocated (`LinksUsed`) and to which no other link leads (`LinkedOnce`), because a
link is only ever stored by `kmalloc` or set to `NULL`; and that a `NODE` whose id or
`next` was never stored has, at the very pointer that leads to it, a caller that has
yet to store it (`LinksFilled`). The last part is the reason why `ListsInitialized`
survives the races: the caller whose `NODE` was replaced fills in the one that
replaced it, and a caller that the kernel ends in between went through `NULL` or
through a pointer that is no link, so no link needs it.

`SlotsProofs` adds what holds only when calls exclude each other:

| Theorem | Hypotheses | Statement |
|---|---|---|
| `NeverFreedInUse` | ioctls do not overlap | `Spec => []NoUseAfterFree` |
| `ReadsReturnStored` | the same | `Spec => []NoGarbageRead` |
| `ChannelsHaveOneNode` | the same, and ids fit (`Narrow`) | `Spec => []OneNodePerChannel` |
| `DriverImplementsSlots` | nothing overlaps, `Narrow`, buffers are mapped (`Mapped`) | `Spec => SlotsSpec` |
| `ClientsUseDriver` | none | `ClientSpec => Spec` |
| `MessagesAreDelivered` | ioctls do not overlap, `Narrow`, no process reads into unmapped memory (`~BadRead`) | `ClientSpec => []Delivered` |

Each hypothesis is needed, and `SlotCalls` or `SlotClients` is an instance of it.
An ioctl that overlaps returns a `NODE` that is not filled in yet, makes a second
one for its channel, or follows what the memory of a new `NODE` held before; an id that
does not fit makes a second one too (`SlotWideIds`); a buffer that faults in the middle
leaves a mixture of two messages, and a read that overlaps a write returns one. Reads
and writes may overlap in the first three theorems and in the last. `CleanInv` adds to
`RaceInv` that every `NODE` that is filled in holds stored bytes up to its `msg_len`
(`Clean`), that files refer to such ones of their own minor only (`Uses`), where an
ioctl is and what it has done there (`Stage`), and that the `NODE` of an ioctl in
progress is the only one not filled in (`Complete`). From `Complete` and `Stage` it
follows that no ioctl ever follows an uninitialised pointer. `ListInv` says that
a list has a channel once, that a file has what it asked for,
and that a search which has come to the end has missed nothing; `SlotInv` that a
`NODE` holds what its channel was last sent, except while it is written, and that
a copy agrees with its source as far as it has come. In the refinement the last
step of a call is the step of `Slots`, and everything before it stutters.

`MessagesAreDelivered` is about `message_reader` among any senders, readers and other
programs, whose buffer holds any message (`ClientAssumption`). `MessageInv` says that a
channel which was ever sent a message has a `NODE` in its list with a `msg_len` that
is not 0: `device_write` sets it only to a length above 0, and no `NODE` is ever taken
out of a list while the device is loaded. `ReaderOf(f)` follows `main()` of the
reader, line by line: a promised message is still there at its ioctl, the ioctl ends
its search at the `NODE` of the channel, needs no memory and so cannot fail, and the
read finds a `msg_len` between 1 and the length of the buffer. What the other
processes do changes none of it (`ReaderOthers`).

`ShellProofs`, for any set of pids, any lines and any failing calls
(`ShellAssumption`):

| Theorem | Statement |
|---|---|
| `ShellTypes` | `Spec => []TypeOK` |
| `CleanPrompt` | `Spec => []PromptIsClean` |
| `CtrlCSparesBackground` | `Spec => BackgroundSurvives` |

`JobInv` says, for each point of `process_arglist`, that the foreground children
that live are those the shell will still wait for, `EndInv` that an end of the pipe
is held by the shell only while it sets up the command, and otherwise by a
foreground process, and `SigintInv` that a background child ignores SIGINT from
its fork on, which it has from the shell.

`CharDeviceProofs`, for any numbers of processes, any buffers and any message that
fits (`CharDeviceAssumption`):

| Theorem | Statement |
|---|---|
| `DeviceTypes` | `Spec => []TypeOK` |
| `OneOpenFile` | `Spec => []ExclusiveOpen` |
| `UserReadsItsOwn` | `Spec => []UserUndisturbed` |

`DeviceInv` says that the owner of the lock is the process inside the critical
section (`LockInv`), that a flag which was loaded is still current (`RegInv`), and
that there is one file at most, of which the flag knows (`FileInv`). From this,
`OwnInv` says that `user_chardev` shares its file with nobody, so that no other call
can touch the buffer, and `LineInv` and `DataInv` follow its lines.

`PageTableProofs`, for any number of levels, of bits per level and of frames and any
width of a word and of its shift, so also for the 5 levels of 9 bits, the shift of 12
and the 64 bits of the code:

| Theorem | Statement |
|---|---|
| `WalksStay` | `Spec => []WalksStayInMemory` |
| `TablesStayTrees` | `Spec => []TablesAreTrees` |
| `TablesAreMaps` | `Spec => PageMapSpec` |

The assumptions are `PageTableAssumption` (the numbers of frames and of mapped pages
fit the word beside the shift) and `PowerAssumption`, laws of powers of two that are
true of all numbers and that the provers do not know. The two invariants together
with the type of the memory are inductive. The argument:

1. `Word`: `frame` undoes `pte` for every number that fits, and what `pte` returns is
   valid. `SameDigits`: pages with the same index at every level are the same page.
2. `walk` is a recursive function; `WalkExists` shows by induction over the levels that
   its equation has a solution, and everything after uses the equation (`WalkSteps`).
   Induction is done with the least element of a set of levels.
3. `CreateWalks`: after an update a walk is what it was where it had a table; a table
   that was missing is now the new one exactly if the walk belongs to this table and has
   the indices of this page so far. The step uses `TablesAreTrees`: the one old entry
   that is written lies on no other walk.
4. `CreateAnswer` and `DestroyWalks` carry this one step further, to the page itself,
   which is the refinement.

`RecitationsProofs`, for any numbers of threads and rounds, any `TOTAL`
(`CountersAssumption`) and any sizes of pipes and messages (`ExchangeAssumption`):

| Theorem | Statement |
|---|---|
| `CountersAddUp` | `Spec => []FinalCount` |
| `PrimesArePrinted` | `Spec => []PrimesFound` |
| `AnswerIsNew` | `Spec => []AnswerOfThisRun` |
| `MessagesArrive` | `Spec => []Complete` |

`MainInv` says which threads have been created and joined. The counter of the
atomic and the locked program is the cardinality of the set of rounds made
(`SumInv`, with `RoundInv` for the mutex and the value that was loaded), and the plain
one is at most the number of threads that have stored (`PlainInv`). For `mutex_ex3`,
no two threads have one number in hand, the numbers from `TOTAL` on are as many as
the threads that hold or held one, and a number has been printed once when its
test is over (`NumberInv`). The lemma `TrialDivision` shows that the loop of
`is_prime` finds a divisor of every composite number except 4. For `life_meaning`,
`LifeInv` says that the worker has written its answer before it signals, and that
the parent reads after the signal.

`MessagesArrive` rests on `ExchangeInv`, an invariant for each of the programs:

1. `Flow(r, w, rs, ws)`, of `pipe`, `papa_son_pipe` and `fifo2`: what the reader has
   and what is in the pipe are together the part of the message that has been written,
   the whole of it once `write()` has returned; each side keeps its end until it is
   done. So the end of file, which needs every write end closed, comes after the whole
   message has been written, and the reader leaves its loop with all of it. Nobody
   gets SIGPIPE, because the reader closes its end only then. The lemmas hold for any
   capacity, any `PIPE_BUF` and any size of a read (`ReadsOn`, `WritesOn`).
2. `Fifo2Inv` adds how the two processes meet: at most one has begun to open the fifo
   until both have.
3. `Papa2Held` and `Papa2Data`, of `papa_son_pipe2`, for messages that one write puts
   into the pipe in one piece and one read takes: both pipes in turn are empty, full
   or read. It includes the program without a child, which `fork()` leaves behind.
4. `MmapInv` lists what `x` can be before and after the store of each process.
5. `FifoData`, of `fifo_reader` with two writers: what was read and what is in the pipe
   are whole messages (`Messages`), of each writer no more than it has made calls; each
   `write()` of no more than `PIPE_BUF` bytes adds one (`StreamGrows`). An open that
   fails leaves the reader with nothing, which is whole too.

The lengths in the two hypotheses of `Complete` (messages of `papa_son_pipe2` and of
the two `fifo_writer`s that fit into one atomic write, or one read) are needed: longer
ones arrive in pieces, and those of two writers mixed.

Only model-checked:

* Liveness under fairness (`SearchEnds`, `AllJoined`, `PromptReturns`, `CallsReturn`,
  `ThreadsJoined`, `ProcessesEnd` and the violated properties), which is out of the
  reach of the prover.

Every invariant and every other action property that a passing run checks is stated by
a theorem.

## 5. Not modelled

* Formatting, messages on standard error, the copying and joining of path names,
  and the lengths of buffers for them in `pfind.c`; the recursion depth of
  `scan_dir`.
* A number of threads that is zero or not a number: the code then writes outside
  an array.
* More than one call at a time on one open file of the device; `register_chrdev`
  failing, which leaves no state; the memory of the kernel that a racing ioctl may
  overwrite through an uninitialised pointer.
* The words of a command, and what programs do, in the shell.
* The text that the drivers log; the calls of `user_chardev` beyond its own file.
* `pipe()` failing in `papa_son_pipe2.c`, which goes on with descriptors that were
  never written; errors of `read()`, `write()` and `munmap()` on descriptors and
  mappings that are in order; a `getppid()` in `worker.c` after the parent has
  been ended by somebody else, and a `kill()` there that fails.
* `1_simple_thread.c`, `2_return.c` and `4_hard_thread.c`, whose threads share
  nothing that is written; `mmap.c` and `mmap2.c`, one process each; the programs
  of `rec02`, `rec05` and the rest of `rec03`, which show one call each, print and
  keep no state that a property could be about.
* The programs `tester*.c`, which are tests.
* The programs marked `not_modelled` in `PROJECT.json`, with the reason there.

## 6. State of the project

Done: all modules, and the proofs of every safety property about `Pfind`, `MessageSlot`,
`SlotClients`, `PageTable`, `Watch`, `Shell`, `CharDevice`, `Counters` and `Exchange`.

What is left is out of the prover's reach (liveness) or of the model's (section 5).
