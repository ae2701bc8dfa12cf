------------------------------ MODULE Exchange ------------------------------
(***************************************************************************)
(* The programs of rec04-pipes-mmap in which processes pass data through   *)
(* pipes, fifos and a file in memory, and life_meaning with its worker     *)
(* (rec03), who use a file and a signal.  A program is a script for each   *)
(* of its processes; the actions are the system calls and the accesses to  *)
(* memory that the scripts name.                                           *)
(***************************************************************************)
EXTENDS Integers, Sequences, FiniteSets

CONSTANTS
    BUF_SIZE,   \* what one read() asks for at most
    PIPE_BUF,   \* a write of so many bytes is atomic
    Capacity,   \* of a pipe
    MaxLen,     \* bound on the length of a message
    Repeats     \* argv[2] of fifo_writer

ExchangeProgram ==
    {"pipe", "papa_son_pipe", "papa_son_pipe2", "fifo", "fifo2", "mmap", "life_meaning"}

ASSUME ExchangeAssumption ==
    /\ BUF_SIZE \in Nat \ {0} /\ PIPE_BUF \in Nat \ {0}
    /\ Capacity \in Nat /\ PIPE_BUF <= Capacity
    /\ MaxLen \in Nat /\ Repeats \in Nat

\* "p" is the parent, or the reader of a fifo; "c" the child, or a writer; "d" a
\* second fifo_writer.
Process == {"p", "c", "d"}
Pipe == {1, 2}

Call(op, pipe, n) == [op |-> op, pipe |-> pipe, n |-> n]
CloseR(x) == Call("close_r", x, 0)
CloseW(x) == Call("close_w", x, 0)
Write(x)  == Call("write", x, 0)
Plain(op) == Call(op, 1, 0)

-----------------------------------------------------------------------------
(***************************************************************************)
(* The programs                                                            *)
(***************************************************************************)
\* The loops of write() go on until nothing is left, which one blocking write
\* does at once; those of read() go on until the end of file.
Pipe_Parent == << Plain("fork"), CloseW(1), Call("read_all", 1, BUF_SIZE), CloseR(1) >>
Pipe_Child == << CloseR(1), Write(1), CloseW(1) >>

\* Mutant: the child keeps its copy of the write end.
PapaSon_ChildOpen == << Call("read_all", 1, 1), CloseR(1) >>

PapaSon_Child == << CloseW(1), Call("read_all", 1, 1), CloseR(1) >>
PapaSon_Parent == << Plain("fork"), CloseR(1), Write(1), CloseW(1), Plain("wait") >>

\* Mutant: the child answers before it has read.
PapaSon2_ChildEarly ==
    << CloseW(1), CloseR(2), Call("reply", 2, 0), Call("read", 1, BUF_SIZE), CloseR(1),
       CloseW(2) >>

PapaSon2_Child ==
    << CloseW(1), CloseR(2), Call("read", 1, BUF_SIZE), CloseR(1), Call("reply", 2, 0),
       CloseW(2) >>
PapaSon2_Parent ==
    << Plain("fork"), CloseR(1), CloseW(2), Write(1), CloseW(1), Call("read", 2, BUF_SIZE),
       CloseR(2), Plain("wait") >>

\* fifo_reader and fifo_writer look at no result of open().
Fifo_Reader == << Plain("open_r"), Call("read_all", 1, BUF_SIZE), CloseR(1) >>
Fifo_Writer == << Plain("open_w") >> \o [k \in 1 .. Repeats |-> Write(1)] \o << CloseW(1) >>

Fifo2_Reader ==
    << Plain("mkfifo"), Plain("open_r"), Call("read_all", 1, BUF_SIZE), CloseR(1),
       Plain("unlink") >>
Fifo2_Writer == << Plain("open_w"), Write(1), CloseW(1) >>

\* Mutant: the worker sends the signal before it writes the file.
WorkerEarly == << Plain("truncate"), Plain("kill"), Plain("write_file") >>

Worker == << Plain("truncate"), Plain("write_file"), Plain("kill") >>
LifeMeaning == << Plain("fork"), Plain("await"), Plain("read_file") >>

\* (*x)++ is a load and a store; sleep() orders nothing.
Mmap_A == << Plain("fork"), Plain("store"), Plain("print"), Plain("print") >>
Mmap_B == << Plain("load"), Plain("increment") >>

Nothing == << >>

Script(ex) ==
    CASE ex = "pipe"           -> [p |-> Pipe_Parent,     c |-> Pipe_Child,     d |-> Nothing]
      [] ex = "papa_son_pipe"  -> [p |-> PapaSon_Parent,  c |-> PapaSon_Child,  d |-> Nothing]
      [] ex = "papa_son_pipe2" -> [p |-> PapaSon2_Parent, c |-> PapaSon2_Child, d |-> Nothing]
      [] ex = "fifo"           -> [p |-> Fifo_Reader,     c |-> Fifo_Writer,    d |-> Fifo_Writer]
      [] ex = "fifo2"          -> [p |-> Fifo2_Reader,    c |-> Fifo2_Writer,   d |-> Nothing]
      [] ex = "mmap"           -> [p |-> Mmap_A,          c |-> Mmap_B,         d |-> Nothing]
      [] ex = "life_meaning"   -> [p |-> LifeMeaning,     c |-> Worker,         d |-> Nothing]

\* What the worker finds out, and what an earlier run may have left in the file.
Answer == <<4, 2>>
Stale == <<0, 0, 0>>

\* The same for the integer in the mapped file: a new file is full of zeros.
OldX == {0, 6}

-----------------------------------------------------------------------------
VARIABLES
    exercise,       \* the program that runs
    step, status,   \* of each process: the next call, and whether it runs
    held,           \* descriptors: process, pipe, end
    buf,            \* the contents of the pipes
    sent,           \* bytes of the current write() that are in the pipe
    out,            \* what a process has read, and printed
    met,            \* processes whose open() of the fifo has met the other side
    fifo, file,     \* does the fifo exist?  the contents of the shared file
    keep_waiting,
    len             \* the length of the messages
exchangeVars ==
    <<exercise, step, status, held, buf, sent, out, met, fifo, file, keep_waiting, len>>

\* The processes a user starts; the others are forked.
Initial ==
    CASE exercise = "fifo" -> {"p", "c", "d"}
      [] exercise = "fifo2" -> {"p", "c"}
      [] OTHER -> IF exercise \in ExchangeProgram THEN {"p"} ELSE {}

ExchangeStart ==
    /\ step = [p \in Process |-> 1]
    /\ status = [p \in Process |-> IF p \in Initial THEN "running" ELSE "unborn"]
    /\ held = {} /\ buf = [x \in Pipe |-> <<>>]
    /\ sent = [p \in Process |-> 0] /\ out = [p \in Process |-> <<>>]
    /\ met = {} /\ fifo \in (IF exercise \in {"fifo", "fifo2"} THEN BOOLEAN ELSE {FALSE})
    /\ file \in CASE exercise = "life_meaning" -> {<<>>, Stale}
                 [] exercise = "mmap" -> {<<x>> : x \in OldX}
                 [] OTHER -> {<<>>}
    /\ keep_waiting = TRUE /\ len \in (IF exercise \in ExchangeProgram THEN 0 .. MaxLen ELSE {0})

Running(p) == status[p] = "running"
Calls(p) == Script(exercise)[p]
Current(p) == Calls(p)[step[p]]
Does(p, op) == Running(p) /\ step[p] <= Len(Calls(p)) /\ Current(p).op = op

Holders(h, x) == {d \in h : d[2] = x}
Readers(x) == {d \in held : d[2] = x /\ d[3] = "r"}
Writers(x) == {d \in held : d[2] = x /\ d[3] = "w"}

Returns(p) == step' = [step EXCEPT ![p] = @ + 1]

\* Descriptors are closed; a pipe that nobody holds is gone.
Release(fds) ==
    /\ held' = held \ fds
    /\ buf' = [x \in Pipe |-> IF Holders(held \ fds, x) = {} THEN <<>> ELSE buf[x]]

\* A process ends, and closes what it has open.
Ends(p, how) ==
    /\ status' = [status EXCEPT ![p] = how]
    /\ Release({d \in held : d[1] = p})

-----------------------------------------------------------------------------
(***************************************************************************)
(* Processes                                                               *)
(***************************************************************************)
PipesOf(ex) == CASE ex = "papa_son_pipe2" -> {1, 2}
                 [] ex \in {"mmap", "life_meaning"} -> {}
                 [] OTHER -> {1}

\* pipe() and fork(): the child has a copy of every descriptor.
Fork(p) ==
    /\ Does(p, "fork") /\ Returns(p)
    /\ status' = [status EXCEPT !["c"] = "running"]
    /\ held' = {"p", "c"} \X PipesOf(exercise) \X {"r", "w"}
    /\ UNCHANGED <<exercise, buf, sent, out, met, fifo, file, keep_waiting, len>>

\* pipe() or fork() fails.  papa_son_pipe2 looks at neither: without a child it
\* goes on as the parent (a failed pipe() leaves it with descriptors of no pipe).
ForkFails(p) ==
    /\ Does(p, "fork")
    /\ IF exercise = "papa_son_pipe2"
       THEN /\ held' = {"p"} \X PipesOf(exercise) \X {"r", "w"}
            /\ Returns(p) /\ UNCHANGED <<status, buf>>
       ELSE Ends(p, "failed") /\ UNCHANGED step
    /\ UNCHANGED <<exercise, sent, out, met, fifo, file, keep_waiting, len>>

\* wait() returns when the child has ended, or when there is none.
Wait(p) ==
    /\ Does(p, "wait") /\ ~Running("c") /\ Returns(p)
    /\ UNCHANGED <<exercise, status, held, buf, sent, out, met, fifo, file,
                   keep_waiting, len>>

Exit(p) ==
    /\ Running(p) /\ step[p] > Len(Calls(p)) /\ Ends(p, "exited")
    /\ UNCHANGED <<exercise, step, sent, out, met, fifo, file, keep_waiting, len>>

-----------------------------------------------------------------------------
(***************************************************************************)
(* Pipes and fifos                                                         *)
(***************************************************************************)
Close(p) ==
    /\ \E end \in {"r", "w"} :
           /\ Does(p, IF end = "r" THEN "close_r" ELSE "close_w")
           /\ Release({<<p, Current(p).pipe, end>>})
    /\ Returns(p)
    /\ UNCHANGED <<exercise, status, sent, out, met, fifo, file, keep_waiting, len>>

\* A message, each byte of it told apart from those of other writers.  The reply
\* of papa_son_pipe2 is a number.
Message(p) == [k \in 1 .. len |-> <<p, k>>]
Data(p) == IF Current(p).op = "reply" THEN <<Len(out[p])>> ELSE Message(p)

Writing(p) == Does(p, "write") \/ Does(p, "reply")

\* A part of the data goes into the pipe: all of it when it is short, and else
\* what there is room for; write() returns when nothing is left.
WriteSome(p) ==
    /\ Writing(p)
    /\ LET x == Current(p).pipe
           total == Len(Data(p))
           left == total - sent[p]
           room == Capacity - Len(buf[x])
       IN  /\ <<p, x, "w">> \in held /\ (Readers(x) # {} \/ total = 0)
           /\ \E k \in 0 .. left :
                  /\ k <= room /\ (k = left \/ (total > PIPE_BUF /\ k = room /\ k > 0))
                  /\ buf' = [buf EXCEPT ![x] = @ \o SubSeq(Data(p), sent[p] + 1, sent[p] + k)]
                  /\ sent' = [sent EXCEPT ![p] = IF k = left THEN 0 ELSE @ + k]
                  /\ IF k = left THEN Returns(p) ELSE UNCHANGED step
    /\ UNCHANGED <<exercise, status, held, out, met, fifo, file, keep_waiting, len>>

\* SIGPIPE: nobody can read any more.
WriteKilled(p) ==
    /\ Writing(p) /\ <<p, Current(p).pipe, "w">> \in held
    /\ Data(p) # <<>> /\ Readers(Current(p).pipe) = {}
    /\ Ends(p, "killed")
    /\ UNCHANGED <<exercise, step, sent, out, met, fifo, file, keep_waiting, len>>

Reading(p) == Does(p, "read") \/ Does(p, "read_all")

\* read() gives what is there, up to what it was asked for.
ReadSome(p) ==
    /\ Reading(p) /\ <<p, Current(p).pipe, "r">> \in held
    /\ LET data == buf[Current(p).pipe]
           n == IF Len(data) < Current(p).n THEN Len(data) ELSE Current(p).n
       IN  /\ data # <<>>
           /\ out' = [out EXCEPT ![p] = @ \o SubSeq(data, 1, n)]
           /\ buf' = [buf EXCEPT ![Current(p).pipe] = SubSeq(@, n + 1, Len(@))]
    /\ IF Does(p, "read") THEN Returns(p) ELSE UNCHANGED step
    /\ UNCHANGED <<exercise, status, held, sent, met, fifo, file, keep_waiting, len>>

\* The end of file, once every copy of the write end is closed.
ReadEnd(p) ==
    /\ Reading(p) /\ <<p, Current(p).pipe, "r">> \in held
    /\ buf[Current(p).pipe] = <<>> /\ Writers(Current(p).pipe) = {}
    /\ Returns(p)
    /\ UNCHANGED <<exercise, status, held, buf, sent, out, met, fifo, file,
                   keep_waiting, len>>

\* read() or write() with the -1 of an open() that failed.
NoDescriptor(p) ==
    /\ \/ Reading(p) /\ <<p, Current(p).pipe, "r">> \notin held
       \/ Writing(p) /\ <<p, Current(p).pipe, "w">> \notin held
    /\ Returns(p)
    /\ UNCHANGED <<exercise, status, held, buf, sent, out, met, fifo, file,
                   keep_waiting, len>>

\* fifo_reader2 makes the fifo and fails when there is one already.
Mkfifo(p) ==
    /\ Does(p, "mkfifo")
    /\ IF fifo THEN Ends(p, "failed") /\ UNCHANGED <<step, fifo>>
               ELSE fifo' = TRUE /\ Returns(p) /\ UNCHANGED <<status, held, buf>>
    /\ UNCHANGED <<exercise, sent, out, met, file, keep_waiting, len>>

Unlink(p) ==
    /\ Does(p, "unlink") /\ fifo' = FALSE /\ Returns(p)
    /\ UNCHANGED <<exercise, status, held, buf, sent, out, met, file, keep_waiting, len>>

End(p) == IF Does(p, "open_r") THEN "r" ELSE "w"

\* open() of a fifo that is not there.
OpenFails(p) ==
    /\ (Does(p, "open_r") \/ Does(p, "open_w")) /\ ~fifo /\ <<p, 1, End(p)>> \notin held
    /\ IF exercise = "fifo2" THEN Ends(p, "failed") /\ UNCHANGED step
                             ELSE Returns(p) /\ UNCHANGED <<status, held, buf>>
    /\ UNCHANGED <<exercise, sent, out, met, fifo, file, keep_waiting, len>>

\* open() takes part at once, and returns when the other side has come.
OpenBegins(p) ==
    /\ (Does(p, "open_r") \/ Does(p, "open_w")) /\ fifo /\ <<p, 1, End(p)>> \notin held
    /\ LET others == {d \in held : d[3] # End(p)}
       IN  met' = met \cup {d[1] : d \in others} \cup (IF others = {} THEN {} ELSE {p})
    /\ held' = held \cup {<<p, 1, End(p)>>}
    /\ UNCHANGED <<exercise, step, status, buf, sent, out, fifo, file, keep_waiting, len>>

OpenReturns(p) ==
    /\ (Does(p, "open_r") \/ Does(p, "open_w")) /\ <<p, 1, End(p)>> \in held /\ p \in met
    /\ Returns(p)
    /\ UNCHANGED <<exercise, status, held, buf, sent, out, met, fifo, file,
                   keep_waiting, len>>

-----------------------------------------------------------------------------
(***************************************************************************)
(* The file and the signal of life_meaning                                 *)
(***************************************************************************)
\* The worker cannot be executed, or one of the two cannot open, read or write
\* the file.
FileFails(p) ==
    /\ Does(p, "truncate") \/ Does(p, "write_file") \/ Does(p, "read_file")
    /\ Ends(p, "failed")
    /\ UNCHANGED <<exercise, step, sent, out, met, fifo, file, keep_waiting, len>>

Truncate(p) ==
    /\ Does(p, "truncate") /\ file' = <<>> /\ Returns(p)
    /\ UNCHANGED <<exercise, status, held, buf, sent, out, met, fifo, keep_waiting, len>>

\* One byte at a time: a reader may come in between.
WriteFile(p) ==
    /\ Does(p, "write_file")
    /\ IF Len(file) < Len(Answer) THEN file' = SubSeq(Answer, 1, Len(file) + 1) /\ UNCHANGED step
                                  ELSE Returns(p) /\ UNCHANGED file
    /\ UNCHANGED <<exercise, status, held, buf, sent, out, met, fifo, keep_waiting, len>>

\* my_signal_handler runs in the parent.
Kill(p) ==
    /\ Does(p, "kill") /\ keep_waiting' = FALSE /\ Returns(p)
    /\ UNCHANGED <<exercise, status, held, buf, sent, out, met, fifo, file, len>>

Await(p) ==
    /\ Does(p, "await") /\ ~keep_waiting /\ Returns(p)
    /\ UNCHANGED <<exercise, status, held, buf, sent, out, met, fifo, file,
                   keep_waiting, len>>

read_from_file(p) ==
    /\ Does(p, "read_file")
    /\ IF Len(out[p]) < Len(file)
       THEN out' = [out EXCEPT ![p] = SubSeq(file, 1, Len(@) + 1)] /\ UNCHANGED step
       ELSE Returns(p) /\ UNCHANGED out
    /\ UNCHANGED <<exercise, status, held, buf, sent, met, fifo, file, keep_waiting, len>>

-----------------------------------------------------------------------------
(***************************************************************************)
(* The mapped file of mmap_a and mmap_b                                    *)
(***************************************************************************)
\* A process cannot be executed, or cannot open or map the file.
MmapFails(p) ==
    /\ Does(p, "store") \/ Does(p, "load")
    /\ Ends(p, "failed")
    /\ UNCHANGED <<exercise, step, sent, out, met, fifo, file, keep_waiting, len>>

StoreX(p) ==
    /\ \/ Does(p, "store") /\ file' = <<5>>
       \/ Does(p, "increment") /\ file' = <<out[p][1] + 1>>
    /\ Returns(p)
    /\ UNCHANGED <<exercise, status, held, buf, sent, out, met, fifo, keep_waiting, len>>

LoadX(p) ==
    /\ Does(p, "load") \/ Does(p, "print")
    /\ out' = [out EXCEPT ![p] = @ \o file] /\ Returns(p)
    /\ UNCHANGED <<exercise, status, held, buf, sent, met, fifo, file, keep_waiting, len>>

ProcessStep(p) ==
    \/ Fork(p) \/ Wait(p) \/ Exit(p) \/ Close(p)
    \/ WriteSome(p) \/ WriteKilled(p) \/ ReadSome(p) \/ ReadEnd(p) \/ NoDescriptor(p)
    \/ Mkfifo(p) \/ Unlink(p) \/ OpenFails(p) \/ OpenBegins(p) \/ OpenReturns(p)
    \/ Truncate(p) \/ WriteFile(p) \/ Kill(p) \/ Await(p) \/ read_from_file(p)
    \/ StoreX(p) \/ LoadX(p)

ExchangeNext == \E p \in Process :
    ProcessStep(p) \/ ForkFails(p) \/ FileFails(p) \/ MmapFails(p)

-----------------------------------------------------------------------------
(***************************************************************************)
(* Properties                                                              *)
(***************************************************************************)
\* What a process that has come to its end has read.
Took(p) == status[p] = "exited"

\* Whole messages of the fifo_writers in some order, and of each of them no more
\* than it writes: a writer that is killed, or that the reader has not waited for,
\* may be there with fewer or none.
Times(w, q) == Cardinality({k \in DOMAIN w : w[k] = q})
Whole(s) ==
    \E n \in 0 .. 2 * Repeats : \E w \in [1 .. n -> {"c", "d"}] :
        /\ \A q \in {"c", "d"} : Times(w, q) <= Repeats
        /\ s = [k \in 1 .. n * len |-> Message(w[((k - 1) \div len) + 1])[((k - 1) % len) + 1]]

\* Whoever leaves in the ordinary way has the whole message, and nothing else,
\* however it was cut into reads and writes: of the fifo_writers, whose messages
\* are short enough, whole messages and none twice; of papa_son_pipe2's parent what the child
\* can say of a message that one read takes; of mmap_a the value changes at most
\* once, to 6 or to what mmap_b made of the file before (pipe.c:33-53,
\* papa_son_pipe.c:38-53, papa_son_pipe2.c:28-45, fifo_reader2.c:28,
\* fifo_reader.c:21, mmap_a.c:47-50).
Complete ==
    /\ exercise = "pipe" /\ Took("p") => out["p"] = Message("c")
    /\ exercise = "papa_son_pipe" /\ Took("c") => out["c"] = Message("p")
    /\ exercise = "papa_son_pipe2" /\ len <= PIPE_BUF /\ len <= BUF_SIZE /\ Took("p") /\ Took("c") =>
           out["p"] = <<len>> /\ out["c"] = Message("p")
    /\ exercise = "fifo2" /\ Took("p") => out["p"] = Message("c")
    /\ exercise = "mmap" /\ Took("p") =>
           \E y \in {5, 6} \cup {x + 1 : x \in OldX} : out["p"] \in {<<5, y>>, <<y, y>>}
    /\ exercise = "fifo" /\ len \in 1 .. PIPE_BUF /\ Took("p") => Whole(out["p"])

\* The parent prints the answer of this run's worker, not what an earlier run left
\* in SHARED_FILE and not a part of it (life_meaning.c:70-78, worker.c:38-40).
AnswerOfThisRun == exercise = "life_meaning" /\ Took("p") => out["p"] = Answer

\* A process that does not wait for the other side of a fifo ends: every end that
\* keeps a reader from the end of file is closed, and nobody waits for a process
\* that waits for it.  Only a worker that failed leaves its parent waiting.
ProcessesEnd ==
    \A p \in Process :
        Running(p) /\ ~Does(p, "mkfifo") /\ ~Does(p, "open_r") /\ ~Does(p, "open_w")
            ~> ~Running(p) \/ (exercise = "life_meaning" /\ status["c"] = "failed")
=============================================================================
