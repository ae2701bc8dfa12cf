------------------------------- MODULE Shell -------------------------------
(***************************************************************************)
(* hw02/myshell.c under the loop of hw02/shell.c: a shell that reads a     *)
(* line, forks the processes of the command, and waits for those that run  *)
(* in the foreground.  SIGINT and SIGCHLD are ignored by the shell, so     *)
(* children vanish when they end; children in the foreground restore       *)
(* SIGINT after the fork, children in the background do not.               *)
(***************************************************************************)
EXTENDS Integers, Sequences, FiniteSets

CONSTANTS
    Pid,        \* processes the system can create
    Line,       \* the lines a user types: sequences of Token
    MaxLines,   \* bound on the lines read
    Faults,     \* the system calls that may fail in this instance
    MaxFaults,  \* bound on how many of those failures happen
    Null

Token == {"word", "&", ">", "|"}

ASSUME ShellAssumption ==
    /\ IsFiniteSet(Pid) /\ Null \notin Pid /\ "shell" \notin Pid
    /\ Line \subseteq Seq(Token) /\ MaxLines \in Nat /\ MaxFaults \in Nat
    /\ Faults \subseteq {"pipe", "fork", "signal", "open", "exec"}

VARIABLES
    pc,             \* the shell: where it is
    arglist,        \* the line it works on
    ca_pid, cb_pid, \* the children it waits for
    parent_status,  \* FALSE: the shell is to end
    proc,           \* the children: role, progress and disposition of SIGINT
    readers, writers,  \* who holds the ends of the pipe
    lines, faults   \* counters of the bounds

ends == <<readers, writers>>
vars == <<pc, arglist, ca_pid, cb_pid, parent_status, proc, ends, lines, faults>>

None == [role |-> "none", at |-> "dead", sigint |-> "ignore"]
Live(p) == proc[p].at # "dead"
Free == {p \in Pid : proc[p] = None}

Fault(kind) ==
    /\ kind \in Faults /\ faults < MaxFaults
    /\ faults' = faults + 1

\* prepare() has run.
Init ==
    /\ pc = "prompt" /\ arglist = <<>> /\ ca_pid = Null /\ cb_pid = Null
    /\ parent_status = TRUE /\ proc = [p \in Pid |-> None]
    /\ readers = {} /\ writers = {}
    /\ lines = 0 /\ faults = 0

-----------------------------------------------------------------------------
(***************************************************************************)
(* process_arglist(): the first special token decides                      *)
(***************************************************************************)
Special(line) == {i \in 1 .. Len(line) : line[i] # "word"}

First(line) == CHOOSE i \in Special(line) : \A j \in Special(line) : i <= j

Kind(line) ==
    IF Special(line) = {} THEN "normal"
    ELSE CASE line[First(line)] = "&" -> "background"
           [] line[First(line)] = ">" -> "redirection"
           [] line[First(line)] = "|" -> "pipe"

\* exit(1) when the line starts with & or >.
ExitsAtOnce(line) == Kind(line) \in {"background", "redirection"} /\ First(line) = 1

\* The words a child of this role executes, or the file it opens, are missing.
NothingToRun(role) ==
    \/ role = "writer" /\ First(arglist) = 1
    \/ role = "reader" /\ First(arglist) = Len(arglist)

NoFileName == First(arglist) = Len(arglist)

ReadLine ==
    /\ pc = "prompt" /\ lines < MaxLines
    /\ \E line \in Line : /\ arglist' = line
                          /\ pc' = IF line = <<>> THEN "prompt"
                                   ELSE IF ExitsAtOnce(line) THEN "exited"
                                   ELSE IF Kind(line) = "pipe" THEN "pipe" ELSE "fork"
    /\ lines' = lines + 1
    /\ UNCHANGED <<ca_pid, cb_pid, parent_status, proc, ends, faults>>

\* getline() fails at the end of the input, or process_arglist() returned 0.
Finalize ==
    /\ \/ pc = "prompt" \/ pc = "quit"
    /\ pc' = "exited"
    /\ readers' = readers \ {"shell"} /\ writers' = writers \ {"shell"}
    /\ UNCHANGED <<arglist, ca_pid, cb_pid, parent_status, proc, lines, faults>>

\* process_arglist() returns parent_status to the loop of shell.c.
ReturnTo(status) ==
    /\ pc' = IF status THEN "prompt" ELSE "quit"
    /\ parent_status' = TRUE /\ ca_pid' = Null /\ cb_pid' = Null

-----------------------------------------------------------------------------
(***************************************************************************)
(* normal_exec, background_exec, redirection_exec, pipe_exec               *)
(***************************************************************************)
\* fork(): the child inherits the ends of the pipe and ignores SIGINT.
fork(p, role) ==
    /\ p \in Free
    /\ proc' = [proc EXCEPT ![p] = [role |-> role, at |-> "forked", sigint |-> "ignore"]]
    /\ readers' = readers \cup (IF "shell" \in readers THEN {p} ELSE {})
    /\ writers' = writers \cup (IF "shell" \in writers THEN {p} ELSE {})

\* Mutant: the result of a failing fork() is taken for a pid.
ForkFailsWaits ==
    /\ pc \in {"fork", "fork_a", "fork_b"} /\ Fault("fork")
    /\ pc' = "wait_a" /\ ca_pid' = -1
    /\ UNCHANGED <<arglist, cb_pid, parent_status, proc, ends, lines>>

ForkFails ==
    /\ pc \in {"fork", "fork_a", "fork_b"} /\ Fault("fork")
    /\ ReturnTo(FALSE)
    /\ UNCHANGED <<arglist, proc, ends, lines>>

Fork ==
    /\ pc = "fork"
    /\ \E p \in Pid :
           /\ fork(p, Kind(arglist))
           /\ IF Kind(arglist) = "background"
              THEN ReturnTo(TRUE)
              ELSE /\ pc' = "wait_a" /\ ca_pid' = p
                   /\ UNCHANGED <<cb_pid, parent_status>>
    /\ UNCHANGED <<arglist, lines, faults>>

\* pipe(); when it fails pipe_exec goes on with what pipefds happened to hold:
\* the children run on the standard streams, and the shell, whatever it closes
\* by mistake, ends after them because parent_status is 0.
Pipe ==
    /\ pc = "pipe" /\ pc' = "fork_a"
    /\ \/ /\ readers' = {"shell"} /\ writers' = {"shell"}
          /\ UNCHANGED <<parent_status, faults>>
       \/ /\ Fault("pipe") /\ parent_status' = FALSE
          /\ UNCHANGED ends
    /\ UNCHANGED <<arglist, ca_pid, cb_pid, proc, lines>>

ForkWriter ==
    /\ pc = "fork_a" /\ pc' = "fork_b"
    /\ \E p \in Pid : fork(p, "writer") /\ ca_pid' = p
    /\ UNCHANGED <<arglist, cb_pid, parent_status, lines, faults>>

ForkReader ==
    /\ pc = "fork_b" /\ pc' = "close"
    /\ \E p \in Pid : fork(p, "reader") /\ cb_pid' = p
    /\ UNCHANGED <<arglist, ca_pid, parent_status, lines, faults>>

CloseEnds ==
    /\ pc = "close" /\ pc' = "wait_a"
    /\ readers' = readers \ {"shell"} /\ writers' = writers \ {"shell"}
    /\ UNCHANGED <<arglist, ca_pid, cb_pid, parent_status, proc, lines, faults>>

\* Mutant: pipe_exec waits for the first child only.
WaitFirstOnly ==
    /\ pc = "wait_a" /\ ~Live(ca_pid)
    /\ ReturnTo(parent_status)
    /\ UNCHANGED <<arglist, proc, ends, lines, faults>>

\* wait_child_process(): SIGCHLD is ignored, so waitpid() blocks until the child
\* has ended and then fails with ECHILD, which counts as success.
WaitFirst ==
    /\ pc = "wait_a" /\ ~Live(ca_pid)
    /\ IF cb_pid = Null
       THEN ReturnTo(parent_status)
       ELSE pc' = "wait_b" /\ UNCHANGED <<ca_pid, cb_pid, parent_status>>
    /\ UNCHANGED <<arglist, proc, ends, lines, faults>>

WaitSecond ==
    /\ pc = "wait_b" /\ ~Live(cb_pid)
    /\ ReturnTo(parent_status)
    /\ UNCHANGED <<arglist, proc, ends, lines, faults>>

ShellStep ==
    \/ ReadLine \/ Finalize \/ ForkFails \/ Fork \/ Pipe
    \/ ForkWriter \/ ForkReader \/ CloseEnds \/ WaitFirst \/ WaitSecond

-----------------------------------------------------------------------------
(***************************************************************************)
(* The children, up to execvp()                                            *)
(***************************************************************************)
shellVars == <<pc, arglist, ca_pid, cb_pid, parent_status, lines>>

\* A process that ends closes its descriptors and, nobody waiting, disappears.
Die(p) ==
    /\ proc' = [proc EXCEPT ![p] = None]
    /\ readers' = readers \ {p} /\ writers' = writers \ {p}

Become(p, at) == proc' = [proc EXCEPT ![p].at = at]

\* Mutant: the second child keeps the write end.
PlumbKeeps(p) ==
    /\ proc[p].at = "forked"
    /\ Become(p, "plumbed")
    /\ readers' = IF proc[p].role = "writer" THEN readers \ {p} ELSE readers
    /\ UNCHANGED <<shellVars, writers, faults>>

\* Redirect stdin and stdout: each end of the pipe that the child does not use is
\* closed, the other one becomes its standard input or output.
Plumb(p) ==
    /\ proc[p].at = "forked"
    /\ Become(p, "plumbed")
    /\ readers' = IF proc[p].role = "writer" THEN readers \ {p} ELSE readers
    /\ writers' = IF proc[p].role = "reader" THEN writers \ {p} ELSE writers
    /\ UNCHANGED <<shellVars, faults>>

\* The output file cannot be opened, or there is no name after ">".
OpenFails(p) ==
    /\ proc[p].at = "forked" /\ proc[p].role = "redirection"
    /\ \/ NoFileName /\ UNCHANGED faults
       \/ ~NoFileName /\ Fault("open")
    /\ Die(p)
    /\ UNCHANGED shellVars

\* Mutant: background children restore SIGINT too.
RestoreSigintAlways(p) ==
    /\ proc[p].at = "plumbed" /\ proc[p].sigint = "ignore"
    /\ proc' = [proc EXCEPT ![p].sigint = "default",
                            ![p].at = IF proc[p].role = "background" THEN @ ELSE "ready"]
    /\ UNCHANGED <<shellVars, ends, faults>>

RestoreSigint(p) ==
    /\ proc[p].at = "plumbed" /\ proc[p].role # "background"
    /\ \/ /\ proc' = [proc EXCEPT ![p].at = "ready", ![p].sigint = "default"]
          /\ UNCHANGED <<ends, faults>>
       \/ Fault("signal") /\ Die(p)
    /\ UNCHANGED shellVars

Exec(p) ==
    /\ \/ proc[p].at = "ready"
       \/ proc[p].at = "plumbed" /\ proc[p].role = "background"
    /\ \/ ~NothingToRun(proc[p].role) /\ Become(p, "running") /\ UNCHANGED <<ends, faults>>
       \/ NothingToRun(proc[p].role) /\ Die(p) /\ UNCHANGED faults
       \/ ~NothingToRun(proc[p].role) /\ Fault("exec") /\ Die(p)
    /\ UNCHANGED shellVars

(***************************************************************************)
(* The programs and the terminal.  A program that reads the pipe ends when *)
(* it meets the end of file: nobody holds the write end.  A program that   *)
(* writes more than the pipe holds ends when a reader takes it, or by      *)
(* SIGPIPE when nobody holds the read end.                                 *)
(***************************************************************************)
CanEnd(p) ==
    CASE proc[p].role = "reader" -> writers = {}
      [] proc[p].role = "writer" ->
             readers = {} \/ \E q \in readers : q # "shell" /\ proc[q].role = "reader"
                                                /\ proc[q].at = "running"
      [] OTHER -> TRUE

Ends(p) ==
    /\ proc[p].at = "running" /\ CanEnd(p)
    /\ Die(p)
    /\ UNCHANGED <<shellVars, faults>>

\* Ctrl-C: SIGINT for every process of the terminal's foreground group, in which
\* all children stay; it ends those that do not ignore it.
Interrupted == {p \in Pid : Live(p) /\ proc[p].sigint = "default"}

Interrupt ==
    /\ pc # "exited" /\ Interrupted # {}
    /\ proc' = [p \in Pid |-> IF p \in Interrupted THEN None ELSE proc[p]]
    /\ readers' = readers \ Interrupted /\ writers' = writers \ Interrupted
    /\ UNCHANGED <<shellVars, faults>>

ChildStep(p) == Plumb(p) \/ OpenFails(p) \/ RestoreSigint(p) \/ Exec(p)

\* The shell is gone and so are its children.
Terminated == pc = "exited" /\ Free = Pid /\ UNCHANGED vars

Next ==
    \/ ShellStep \/ Interrupt
    \/ \E p \in Pid : ChildStep(p) \/ Ends(p)
    \/ Terminated

Spec == Init /\ [][Next]_vars

\* The processes run, and a program in the foreground ends when it can.  Nothing
\* is assumed of programs in the background, of Ctrl-C or of the user.
Foreground(p) == proc[p].role \notin {"background", "none"}

FairSpec ==
    /\ Spec
    /\ WF_vars(ShellStep)
    /\ \A p \in Pid : WF_vars(ChildStep(p)) /\ WF_vars(Foreground(p) /\ Ends(p))

-----------------------------------------------------------------------------
(***************************************************************************)
(* Properties                                                              *)
(***************************************************************************)
TypeOK ==
    /\ pc \in {"prompt", "fork", "pipe", "fork_a", "fork_b", "close", "wait_a",
               "wait_b", "quit", "exited"}
    /\ ca_pid \in Pid \cup {Null} /\ cb_pid \in Pid \cup {Null}
    /\ proc \in [Pid -> [role : {"none", "normal", "background", "redirection",
                                 "writer", "reader"},
                         at : {"dead", "forked", "plumbed", "ready", "running"},
                         sigint : {"ignore", "default"}]]
    /\ readers \cup writers \subseteq Pid \cup {"shell"}

\* The prompt comes back only when the whole command has ended: every process in
\* the foreground is gone and no end of a pipe is left open in the shell or in a
\* process that runs on in the background (lines 94, 179, 275-282).
PromptIsClean ==
    pc = "prompt" => /\ \A p \in Pid : Live(p) => proc[p].role = "background"
                     /\ readers = {} /\ writers = {}

\* A command in the foreground ends and the prompt comes back, or the shell ends:
\* no process waits for an end of file that cannot come (lines 216, 252, 275).
PromptReturns == (pc \notin {"prompt", "exited"}) ~> (pc \in {"prompt", "exited"})

\* A background command outlives Ctrl-C (lines 103-132 leave SIGINT ignored).
BackgroundSurvives ==
    [][Interrupt => \A p \in Pid : proc[p].role = "background" => proc'[p] = proc[p]]_vars
=============================================================================
