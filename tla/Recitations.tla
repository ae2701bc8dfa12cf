---------------------------- MODULE Recitations ----------------------------
(***************************************************************************)
(* One program of Counters or of Exchange is run.                          *)
(***************************************************************************)
EXTENDS Counters, Exchange

vars == <<countVars, exchangeVars>>

Init ==
    /\ \/ program \in CountProgram /\ exercise = "none"
       \/ program = "none" /\ exercise \in ExchangeProgram
    /\ CountStart /\ ExchangeStart

Next ==
    \/ CountNext /\ UNCHANGED exchangeVars
    \/ ExchangeNext /\ UNCHANGED countVars

Spec == Init /\ [][Next]_vars

\* The scheduler runs every thread and process that can run.  A thread that asks
\* for the mutex of mutex_ex2 need not get it before the others are done with
\* theirs.  Nothing is assumed of failures.
FairSpec ==
    /\ Spec
    /\ WF_vars(MainStep /\ UNCHANGED exchangeVars)
    /\ \A t \in Thread : WF_vars((Lock(t) \/ ThreadStep(t)) /\ UNCHANGED exchangeVars)
    /\ \A p \in Process : WF_vars(ProcessStep(p) /\ UNCHANGED countVars)
=============================================================================
