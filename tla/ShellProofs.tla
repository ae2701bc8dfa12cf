----------------------------- MODULE ShellProofs -----------------------------
(***************************************************************************)
(* Proofs about Shell, for any processes, lines and bounds and any system  *)
(* calls that fail.                                                        *)
(***************************************************************************)
EXTENDS Shell, WellFoundedInduction, TLAPS

ForkedKind == {"normal", "background", "redirection"}

\* The line the shell works on, when it came to a fork outside a pipe.
LineInv ==
    /\ arglist \in Seq(Token) /\ parent_status \in BOOLEAN
    /\ pc = "fork" => Kind(arglist) \in ForkedKind

\* A process that the shell has to wait for.
Awaited(p) == Live(p) /\ proc[p].role # "background"

\* At each point of process_arglist, the children that may still run in the
\* foreground are those the shell is still going to wait for.
JobInv ==
    /\ pc \in {"prompt", "fork", "pipe", "fork_a"} => \A p \in Pid : ~Awaited(p)
    /\ pc = "fork_b" => \A p \in Pid : Awaited(p) => p = ca_pid
    /\ pc \in {"close", "wait_a"} => \A p \in Pid : Awaited(p) => p \in {ca_pid, cb_pid}
    /\ pc = "wait_b" => \A p \in Pid : Awaited(p) => p = cb_pid

\* An end of the pipe is held by the shell, while it sets the pipe up, or by a
\* process in the foreground.
EndInv ==
    /\ \A r \in readers \cup writers : r \in Pid => Awaited(r)
    /\ "shell" \in readers \cup writers => pc \in {"fork_a", "fork_b", "close", "quit"}

\* Only processes in the foreground restore SIGINT.
SigintInv == \A p \in Pid : proc[p].role = "background" => proc[p].sigint = "ignore"

IInv == TypeOK /\ LineInv /\ JobInv /\ EndInv /\ SigintInv

-----------------------------------------------------------------------------
\* A nonempty set of natural numbers has a least element.
LEMMA LeastElement ==
    ASSUME NEW S, S \subseteq Nat, S # {}
    PROVE  \E x \in S : \A y \in S : x <= y
<1>1. PICK x \in S : \A y \in S : ~ (<<y, x>> \in OpToRel(<, Nat))
  BY NatLessThanWellFounded, WFMin
<1>2. \A y \in S : ~ (y < x)
  BY <1>1 DEF OpToRel
<1> QED
  BY <1>2

\* The first special token of a line decides what kind of command it is.
LEMMA KindOfLine ==
    ASSUME NEW l \in Seq(Token)
    PROVE  Kind(l) \in ForkedKind \cup {"pipe"}
<1>1. CASE Special(l) = {}
  BY <1>1 DEF Kind, ForkedKind
<1>2. CASE Special(l) # {}
  <2>1. Special(l) \subseteq Nat
    BY DEF Special
  <2>2. \E k \in Special(l) : \A j \in Special(l) : k <= j
    BY <1>2, <2>1, LeastElement
  <2>3. First(l) \in Special(l)
    BY <2>2 DEF First
  <2>4. l[First(l)] \in {"&", ">", "|"}
    BY <2>3 DEF Special, Token
  <2> QED
    BY <1>2, <2>4 DEF Kind, ForkedKind
<1> QED
  BY <1>1, <1>2

-----------------------------------------------------------------------------
LEMMA Initially == Init => IInv
<1> SUFFICES ASSUME Init PROVE IInv
  OBVIOUS
<1>1. TypeOK
  BY DEF Init, TypeOK, None
<1>2. \A p \in Pid : ~Awaited(p) /\ proc[p].role = "none"
  BY DEF Init, None, Awaited, Live
<1>3. LineInv
  BY DEF Init, LineInv
<1>4. JobInv /\ EndInv /\ SigintInv
  BY <1>2 DEF Init, JobInv, EndInv, SigintInv
<1> QED
  BY <1>1, <1>3, <1>4 DEF IInv

LEMMA TypeStep == IInv /\ [Next]_vars => TypeOK'
<1> SUFFICES ASSUME IInv, [Next]_vars PROVE TypeOK'
  OBVIOUS
<1> USE ShellAssumption DEF IInv, TypeOK
<1>1. CASE ReadLine
  <2>1. pc' \in {"prompt", "exited", "pipe", "fork"}
    BY <1>1 DEF ReadLine
  <2> QED
    BY <1>1, <2>1 DEF ReadLine, ends
<1>2. CASE Finalize
  BY <1>2 DEF Finalize, ends
<1>3. CASE ForkFails
  BY <1>3 DEF ForkFails, ends, ReturnTo, Fault
<1>4. CASE Fork
  <2>1. Kind(arglist) \in ForkedKind
    BY <1>4 DEF Fork, LineInv
  <2> QED
    BY <1>4, <2>1 DEF Fork, ReturnTo, fork, Free, ForkedKind
<1>5. CASE Pipe
  BY <1>5 DEF Pipe, ends, Fault
<1>6. CASE ForkWriter
  BY <1>6 DEF ForkWriter, ends, fork, Free
<1>7. CASE ForkReader
  BY <1>7 DEF ForkReader, ends, fork, Free
<1>8. CASE CloseEnds
  BY <1>8 DEF CloseEnds, ends
<1>9. CASE WaitFirst
  BY <1>9 DEF WaitFirst, ends, ReturnTo
<1>10. CASE WaitSecond
  BY <1>10 DEF WaitSecond, ends, ReturnTo
<1>11. CASE Interrupt
  BY <1>11 DEF Interrupt, ends, Interrupted, shellVars, None
<1>12. ASSUME NEW p \in Pid, Plumb(p) PROVE TypeOK'
  BY <1>12 DEF Plumb, ends, Become, shellVars
<1>13. ASSUME NEW p \in Pid, OpenFails(p) PROVE TypeOK'
  BY <1>13 DEF OpenFails, ends, Die, None, shellVars, Fault
<1>14. ASSUME NEW p \in Pid, RestoreSigint(p) PROVE TypeOK'
  BY <1>14 DEF RestoreSigint, ends, Die, None, shellVars, Fault
<1>15. ASSUME NEW p \in Pid, Exec(p) PROVE TypeOK'
  BY <1>15 DEF Exec, ends, Become, Die, None, shellVars, Fault
<1>16. ASSUME NEW p \in Pid, Ends(p) PROVE TypeOK'
  BY <1>16 DEF Ends, ends, Die, None, shellVars
<1>17. CASE UNCHANGED vars
  BY <1>17 DEF vars, ends
<1> QED
  BY <1>1, <1>2, <1>3, <1>4, <1>5, <1>6, <1>7, <1>8, <1>9, <1>10, <1>11, <1>12,
     <1>13, <1>14, <1>15, <1>16, <1>17
  DEF Next, ShellStep, ChildStep, Terminated

LEMMA LineStep == IInv /\ [Next]_vars => LineInv'
<1> SUFFICES ASSUME IInv, [Next]_vars PROVE LineInv'
  OBVIOUS
<1> USE ShellAssumption DEF IInv, LineInv
<1>1. CASE ReadLine
  <2>1. PICK l \in Line : /\ arglist' = l
                         /\ pc' = IF l = <<>> THEN "prompt"
                                  ELSE IF ExitsAtOnce(l) THEN "exited"
                                  ELSE IF Kind(l) = "pipe" THEN "pipe" ELSE "fork"
    BY <1>1 DEF ReadLine
  <2>2. l \in Seq(Token) /\ Kind(l) \in ForkedKind \cup {"pipe"}
    BY KindOfLine
  <2> QED
    BY <1>1, <2>1, <2>2 DEF ReadLine
<1>2. CASE Finalize
  BY <1>2 DEF Finalize, ends
<1>3. CASE ForkFails
  BY <1>3 DEF ForkFails, ends, ReturnTo, Fault
<1>4. CASE Fork
  BY <1>4 DEF Fork, ends, ReturnTo, fork, Free
<1>5. CASE Pipe
  BY <1>5 DEF Pipe, ends, Fault
<1>6. CASE ForkWriter
  BY <1>6 DEF ForkWriter, ends, fork, Free
<1>7. CASE ForkReader
  BY <1>7 DEF ForkReader, ends, fork, Free
<1>8. CASE CloseEnds
  BY <1>8 DEF CloseEnds, ends
<1>9. CASE WaitFirst
  BY <1>9 DEF WaitFirst, ends, ReturnTo
<1>10. CASE WaitSecond
  BY <1>10 DEF WaitSecond, ends, ReturnTo
<1>11. CASE Interrupt
  BY <1>11 DEF Interrupt, ends, Interrupted, shellVars, None
<1>12. ASSUME NEW p \in Pid, Plumb(p) PROVE LineInv'
  BY <1>12 DEF Plumb, ends, Become, shellVars
<1>13. ASSUME NEW p \in Pid, OpenFails(p) PROVE LineInv'
  BY <1>13 DEF OpenFails, ends, Die, None, shellVars, Fault
<1>14. ASSUME NEW p \in Pid, RestoreSigint(p) PROVE LineInv'
  BY <1>14 DEF RestoreSigint, ends, Die, None, shellVars, Fault
<1>15. ASSUME NEW p \in Pid, Exec(p) PROVE LineInv'
  BY <1>15 DEF Exec, ends, Become, Die, None, shellVars, Fault
<1>16. ASSUME NEW p \in Pid, Ends(p) PROVE LineInv'
  BY <1>16 DEF Ends, ends, Die, None, shellVars
<1>17. CASE UNCHANGED vars
  BY <1>17 DEF vars, ends
<1> QED
  BY <1>1, <1>2, <1>3, <1>4, <1>5, <1>6, <1>7, <1>8, <1>9, <1>10, <1>11, <1>12,
     <1>13, <1>14, <1>15, <1>16, <1>17
  DEF Next, ShellStep, ChildStep, Terminated

\* A step of a child brings no process into the foreground.
LEMMA ChildMoves ==
    ASSUME TypeOK, NEW p \in Pid, ChildStep(p) \/ Ends(p), NEW q \in Pid
    PROVE  /\ Awaited(q)' => Awaited(q)
           /\ Awaited(q) /\ ~Awaited(q)' => q \notin readers' \cup writers'
<1> USE DEF TypeOK, Awaited, Live
<1>1. ASSUME Die(p) PROVE (Awaited(q)' => Awaited(q)) /\ (q = p => q \notin readers' \cup writers')
                          /\ (q # p => proc'[q] = proc[q])
  BY <1>1 DEF Die, None
<1>2. ASSUME NEW at, at # "dead", Become(p, at), Live(p) PROVE Awaited(q)' <=> Awaited(q)
  BY <1>2 DEF Become
<1>3. CASE Plumb(p)
  BY <1>2, <1>3 DEF Plumb
<1>4. CASE OpenFails(p)
  BY <1>1, <1>4 DEF OpenFails
<1>5. CASE RestoreSigint(p)
  <2>1. CASE proc' = [proc EXCEPT ![p].at = "ready", ![p].sigint = "default"]
    BY <1>5, <2>1 DEF RestoreSigint
  <2>2. CASE Die(p)
    BY <1>1, <2>2
  <2> QED
    BY <1>5, <2>1, <2>2 DEF RestoreSigint
<1>6. CASE Exec(p)
  <2>1. CASE Become(p, "running")
    BY <1>2, <1>6, <2>1 DEF Exec
  <2>2. CASE Die(p)
    BY <1>1, <2>2
  <2> QED
    BY <1>6, <2>1, <2>2 DEF Exec
<1>7. CASE Ends(p)
  BY <1>1, <1>7 DEF Ends
<1> QED
  BY <1>3, <1>4, <1>5, <1>6, <1>7 DEF ChildStep

\* The shell waits for every process it started in the foreground.
LEMMA JobStep == IInv /\ [Next]_vars => JobInv'
<1> SUFFICES ASSUME IInv, [Next]_vars PROVE JobInv'
  OBVIOUS
<1> USE DEF IInv, TypeOK, Awaited, Live
<1>1. CASE ReadLine
  BY <1>1 DEF ReadLine, JobInv
<1>2. CASE Finalize
  BY <1>2 DEF Finalize, JobInv
<1>3. CASE ForkFails
  BY <1>3 DEF ForkFails, ReturnTo, Fault, JobInv
<1>4. CASE Fork
  <2>1. PICK p \in Pid : /\ fork(p, Kind(arglist))
                         /\ IF Kind(arglist) = "background"
                            THEN ReturnTo(TRUE)
                            ELSE /\ pc' = "wait_a" /\ ca_pid' = p
                                 /\ UNCHANGED <<cb_pid, parent_status>>
    BY <1>4 DEF Fork
  <2>2. \A q \in Pid : ~Awaited(q)
    BY <1>4 DEF Fork, JobInv
  <2>3. \A q \in Pid : Awaited(q)' => q = p /\ Kind(arglist) # "background"
    BY <2>1, <2>2 DEF fork
  <2> QED
    BY <2>1, <2>3 DEF ReturnTo, JobInv
<1>5. CASE Pipe
  BY <1>5 DEF Pipe, Fault, JobInv
<1>6. CASE ForkWriter
  <2>1. PICK p \in Pid : fork(p, "writer") /\ ca_pid' = p
    BY <1>6 DEF ForkWriter
  <2>2. \A q \in Pid : Awaited(q)' => q = p \/ Awaited(q)
    BY <2>1 DEF fork
  <2> QED
    BY <1>6, <2>1, <2>2 DEF ForkWriter, JobInv
<1>7. CASE ForkReader
  <2>1. PICK p \in Pid : fork(p, "reader") /\ cb_pid' = p
    BY <1>7 DEF ForkReader
  <2>2. \A q \in Pid : Awaited(q)' => q = p \/ Awaited(q)
    BY <2>1 DEF fork
  <2> QED
    BY <1>7, <2>1, <2>2 DEF ForkReader, JobInv
<1>8. CASE CloseEnds
  BY <1>8 DEF CloseEnds, JobInv
<1>9. CASE WaitFirst
  <2>1. \A q \in Pid : Awaited(q) => q = cb_pid
    BY <1>9 DEF WaitFirst, JobInv
  <2>2. \A q \in Pid : Awaited(q)' <=> Awaited(q)
    BY <1>9 DEF WaitFirst
  <2> QED
    BY <1>9, <2>1, <2>2, ShellAssumption DEF WaitFirst, ReturnTo, JobInv
<1>10. CASE WaitSecond
  <2>1. \A q \in Pid : ~Awaited(q)
    BY <1>10 DEF WaitSecond, JobInv
  <2>2. \A q \in Pid : Awaited(q)' <=> Awaited(q)
    BY <1>10 DEF WaitSecond
  <2> QED
    BY <1>10, <2>1, <2>2 DEF WaitSecond, ReturnTo, JobInv
<1>11. CASE Interrupt
  <2>1. \A q \in Pid : Awaited(q)' => Awaited(q)
    BY <1>11 DEF Interrupt, None
  <2> QED
    BY <1>11, <2>1 DEF Interrupt, shellVars, JobInv
<1>12. ASSUME NEW p \in Pid, Plumb(p) PROVE JobInv'
  <2>1. \A q \in Pid : Awaited(q)' => Awaited(q)
    BY <1>12, ChildMoves DEF ChildStep, IInv
  <2> QED
    BY <1>12, <2>1 DEF Plumb, shellVars, JobInv
<1>13. ASSUME NEW p \in Pid, OpenFails(p) PROVE JobInv'
  <2>1. \A q \in Pid : Awaited(q)' => Awaited(q)
    BY <1>13, ChildMoves DEF ChildStep, IInv
  <2> QED
    BY <1>13, <2>1 DEF OpenFails, shellVars, JobInv
<1>14. ASSUME NEW p \in Pid, RestoreSigint(p) PROVE JobInv'
  <2>1. \A q \in Pid : Awaited(q)' => Awaited(q)
    BY <1>14, ChildMoves DEF ChildStep, IInv
  <2> QED
    BY <1>14, <2>1 DEF RestoreSigint, shellVars, JobInv
<1>15. ASSUME NEW p \in Pid, Exec(p) PROVE JobInv'
  <2>1. \A q \in Pid : Awaited(q)' => Awaited(q)
    BY <1>15, ChildMoves DEF ChildStep, IInv
  <2> QED
    BY <1>15, <2>1 DEF Exec, shellVars, JobInv
<1>16. ASSUME NEW p \in Pid, Ends(p) PROVE JobInv'
  <2>1. \A q \in Pid : Awaited(q)' => Awaited(q)
    BY <1>16, ChildMoves DEF ChildStep, IInv
  <2> QED
    BY <1>16, <2>1 DEF Ends, shellVars, JobInv
<1>17. CASE UNCHANGED vars
  BY <1>17 DEF vars, JobInv
<1> QED
  BY <1>1, <1>2, <1>3, <1>4, <1>5, <1>6, <1>7, <1>8, <1>9, <1>10, <1>11, <1>12,
     <1>13, <1>14, <1>15, <1>16, <1>17
  DEF Next, ShellStep, ChildStep, Terminated

\* Whoever inherits an end of the pipe runs in the foreground, and a process that
\* ends leaves none behind.
LEMMA EndStep == IInv /\ [Next]_vars => EndInv'
<1> SUFFICES ASSUME IInv, [Next]_vars PROVE EndInv'
  OBVIOUS
<1> USE ShellAssumption DEF IInv, TypeOK, Awaited, Live
<1>1. CASE ReadLine
  BY <1>1 DEF ReadLine, ends, EndInv
<1>2. CASE Finalize
  BY <1>2 DEF Finalize, ends, EndInv
<1>3. CASE ForkFails
  BY <1>3 DEF ForkFails, ends, ReturnTo, Fault, EndInv
<1>4. CASE Fork
  <2>1. PICK p \in Pid : fork(p, Kind(arglist))
    BY <1>4 DEF Fork
  <2>2. \A q \in Pid : ~Awaited(q)
    BY <1>4 DEF Fork, JobInv
  <2>3. readers = {} /\ writers = {}
    BY <1>4, <2>2 DEF Fork, EndInv
  <2> QED
    BY <2>1, <2>3 DEF fork, EndInv
<1>5. CASE Pipe
  BY <1>5 DEF Pipe, ends, Fault, EndInv
<1>6. CASE ForkWriter
  <2>1. PICK p \in Pid : fork(p, "writer")
    BY <1>6 DEF ForkWriter
  <2>2. Awaited(p)' /\ \A q \in Pid : Awaited(q) => Awaited(q)'
    BY <2>1 DEF fork
  <2>3. readers' \subseteq readers \cup {p} /\ writers' \subseteq writers \cup {p}
    BY <2>1 DEF fork
  <2>4. pc' \in {"fork_b", "close"}
    BY <1>6 DEF ForkWriter
  <2> QED
    BY <2>2, <2>3, <2>4 DEF EndInv
<1>7. CASE ForkReader
  <2>1. PICK p \in Pid : fork(p, "reader")
    BY <1>7 DEF ForkReader
  <2>2. Awaited(p)' /\ \A q \in Pid : Awaited(q) => Awaited(q)'
    BY <2>1 DEF fork
  <2>3. readers' \subseteq readers \cup {p} /\ writers' \subseteq writers \cup {p}
    BY <2>1 DEF fork
  <2>4. pc' \in {"fork_b", "close"}
    BY <1>7 DEF ForkReader
  <2> QED
    BY <2>2, <2>3, <2>4 DEF EndInv
<1>8. CASE CloseEnds
  BY <1>8 DEF CloseEnds, ends, EndInv
<1>9. CASE WaitFirst
  BY <1>9 DEF WaitFirst, ends, ReturnTo, EndInv
<1>10. CASE WaitSecond
  BY <1>10 DEF WaitSecond, ends, ReturnTo, EndInv
<1>11. CASE Interrupt
  <2>1. \A q \in Pid \ Interrupted : Awaited(q)' <=> Awaited(q)
    BY <1>11 DEF Interrupt
  <2> QED
    BY <1>11, <2>1 DEF Interrupt, shellVars, EndInv
<1>12. ASSUME NEW p \in Pid, Plumb(p) PROVE EndInv'
  <2>1. \A q \in Pid : Awaited(q) /\ ~Awaited(q)' => q \notin readers' \cup writers'
    BY <1>12, ChildMoves DEF ChildStep, IInv
  <2>2. readers' \subseteq readers /\ writers' \subseteq writers
    BY <1>12 DEF Plumb, ends, Die
  <2> QED
    BY <1>12, <2>1, <2>2 DEF Plumb, shellVars, EndInv
<1>13. ASSUME NEW p \in Pid, OpenFails(p) PROVE EndInv'
  <2>1. \A q \in Pid : Awaited(q) /\ ~Awaited(q)' => q \notin readers' \cup writers'
    BY <1>13, ChildMoves DEF ChildStep, IInv
  <2>2. readers' \subseteq readers /\ writers' \subseteq writers
    BY <1>13 DEF OpenFails, ends, Die
  <2> QED
    BY <1>13, <2>1, <2>2 DEF OpenFails, shellVars, EndInv
<1>14. ASSUME NEW p \in Pid, RestoreSigint(p) PROVE EndInv'
  <2>1. \A q \in Pid : Awaited(q) /\ ~Awaited(q)' => q \notin readers' \cup writers'
    BY <1>14, ChildMoves DEF ChildStep, IInv
  <2>2. readers' \subseteq readers /\ writers' \subseteq writers
    BY <1>14 DEF RestoreSigint, ends, Die
  <2> QED
    BY <1>14, <2>1, <2>2 DEF RestoreSigint, shellVars, EndInv
<1>15. ASSUME NEW p \in Pid, Exec(p) PROVE EndInv'
  <2>1. \A q \in Pid : Awaited(q) /\ ~Awaited(q)' => q \notin readers' \cup writers'
    BY <1>15, ChildMoves DEF ChildStep, IInv
  <2>2. readers' \subseteq readers /\ writers' \subseteq writers
    BY <1>15 DEF Exec, ends, Die
  <2> QED
    BY <1>15, <2>1, <2>2 DEF Exec, shellVars, EndInv
<1>16. ASSUME NEW p \in Pid, Ends(p) PROVE EndInv'
  <2>1. \A q \in Pid : Awaited(q) /\ ~Awaited(q)' => q \notin readers' \cup writers'
    BY <1>16, ChildMoves DEF ChildStep, IInv
  <2>2. readers' \subseteq readers /\ writers' \subseteq writers
    BY <1>16 DEF Ends, ends, Die
  <2> QED
    BY <1>16, <2>1, <2>2 DEF Ends, shellVars, EndInv
<1>17. CASE UNCHANGED vars
  BY <1>17 DEF vars, ends, EndInv
<1> QED
  BY <1>1, <1>2, <1>3, <1>4, <1>5, <1>6, <1>7, <1>8, <1>9, <1>10, <1>11, <1>12,
     <1>13, <1>14, <1>15, <1>16, <1>17
  DEF Next, ShellStep, ChildStep, Terminated

LEMMA SigintStep == IInv /\ [Next]_vars => SigintInv'
<1> SUFFICES ASSUME IInv, [Next]_vars PROVE SigintInv'
  OBVIOUS
<1> USE DEF IInv, TypeOK, SigintInv
<1>1. CASE ReadLine
  BY <1>1 DEF ReadLine, ends
<1>2. CASE Finalize
  BY <1>2 DEF Finalize, ends
<1>3. CASE ForkFails
  BY <1>3 DEF ForkFails, ends, ReturnTo, Fault
<1>4. CASE Fork
  BY <1>4 DEF Fork, ends, ReturnTo, fork, Free
<1>5. CASE Pipe
  BY <1>5 DEF Pipe, ends, Fault
<1>6. CASE ForkWriter
  BY <1>6 DEF ForkWriter, ends, fork, Free
<1>7. CASE ForkReader
  BY <1>7 DEF ForkReader, ends, fork, Free
<1>8. CASE CloseEnds
  BY <1>8 DEF CloseEnds, ends
<1>9. CASE WaitFirst
  BY <1>9 DEF WaitFirst, ends, ReturnTo
<1>10. CASE WaitSecond
  BY <1>10 DEF WaitSecond, ends, ReturnTo
<1>11. CASE Interrupt
  BY <1>11 DEF Interrupt, ends, Interrupted, shellVars, None
<1>12. ASSUME NEW p \in Pid, Plumb(p) PROVE SigintInv'
  BY <1>12 DEF Plumb, ends, Become, shellVars
<1>13. ASSUME NEW p \in Pid, OpenFails(p) PROVE SigintInv'
  BY <1>13 DEF OpenFails, ends, Die, None, shellVars, Fault
<1>14. ASSUME NEW p \in Pid, RestoreSigint(p) PROVE SigintInv'
  BY <1>14 DEF RestoreSigint, ends, Die, None, shellVars, Fault
<1>15. ASSUME NEW p \in Pid, Exec(p) PROVE SigintInv'
  BY <1>15 DEF Exec, ends, Become, Die, None, shellVars, Fault
<1>16. ASSUME NEW p \in Pid, Ends(p) PROVE SigintInv'
  BY <1>16 DEF Ends, ends, Die, None, shellVars
<1>17. CASE UNCHANGED vars
  BY <1>17 DEF vars, ends
<1> QED
  BY <1>1, <1>2, <1>3, <1>4, <1>5, <1>6, <1>7, <1>8, <1>9, <1>10, <1>11, <1>12,
     <1>13, <1>14, <1>15, <1>16, <1>17
  DEF Next, ShellStep, ChildStep, Terminated

LEMMA ShellInvariance == Spec => []IInv
<1>1. IInv /\ [Next]_vars => IInv'
  BY TypeStep, LineStep, JobStep, EndStep, SigintStep DEF IInv
<1> QED
  BY Initially, <1>1, PTL DEF Spec

-----------------------------------------------------------------------------
(***************************************************************************)
(* Theorems                                                                *)
(***************************************************************************)
\* The shell waits only for children it has started, and the ends of a pipe are
\* held by processes that exist (lines 74-98, 195-288).
THEOREM ShellTypes == Spec => []TypeOK
<1>1. IInv => TypeOK
  BY DEF IInv
<1> QED
  BY <1>1, ShellInvariance, PTL

\* When the prompt is back nothing of the command is left, whatever system calls
\* failed and whichever children died before the shell waited for them, also when a
\* pid is used again (lines 94, 179, 275-282).
THEOREM CleanPrompt == Spec => []PromptIsClean
<1>1. IInv => PromptIsClean
  <2> SUFFICES ASSUME IInv, pc = "prompt"
               PROVE  /\ \A p \in Pid : Live(p) => proc[p].role = "background"
                      /\ readers = {} /\ writers = {}
    BY DEF PromptIsClean
  <2>1. \A p \in Pid : ~Awaited(p)
    BY DEF IInv, JobInv
  <2>2. readers \cup writers \subseteq Pid \cup {"shell"}
    BY DEF IInv, TypeOK
  <2>3. \A r \in readers \cup writers : r \notin Pid /\ r # "shell"
    BY <2>1 DEF IInv, EndInv
  <2> QED
    BY <2>1, <2>2, <2>3 DEF Awaited
<1> QED
  BY <1>1, ShellInvariance, PTL

\* Ctrl-C leaves every background command as it was (lines 103-132).
THEOREM CtrlCSparesBackground == Spec => BackgroundSurvives
<1> DEFINE Spared ==
      Interrupt => \A p \in Pid : proc[p].role = "background" => proc'[p] = proc[p]
<1>1. IInv /\ [Next]_vars => [Spared]_vars
  <2> SUFFICES ASSUME IInv, Interrupt, NEW p \in Pid, proc[p].role = "background"
               PROVE  proc'[p] = proc[p]
    OBVIOUS
  <2>1. p \notin Interrupted
    BY DEF IInv, SigintInv, Interrupted
  <2> QED
    BY <2>1 DEF Interrupt
<1> QED
  BY <1>1, ShellInvariance, PTL DEF Spec, BackgroundSurvives
==============================================================================
