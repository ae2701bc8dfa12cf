------------------------------- MODULE Search -------------------------------
(***************************************************************************)
(* What a search promises: it prints matching paths, each once, and when   *)
(* it says "Done searching, found n files" every match has been printed    *)
(* and n is their number.  It may also end without saying so.              *)
(***************************************************************************)
CONSTANTS Matches,  \* the paths a complete search prints
          Total,    \* how many they are
          None

VARIABLES found, report, ended
vars == <<found, report, ended>>

Init == found = {} /\ report = None /\ ended = FALSE

PrintMatch(f) ==
    /\ ~ended /\ f \in Matches \ found
    /\ found' = found \cup {f}
    /\ UNCHANGED <<report, ended>>

Finish ==
    /\ ~ended /\ found = Matches
    /\ report' = Total /\ ended' = TRUE
    /\ UNCHANGED found

GiveUp ==
    /\ ~ended /\ ended' = TRUE
    /\ UNCHANGED <<found, report>>

Next == (\E f \in Matches : PrintMatch(f)) \/ Finish \/ GiveUp

Spec == Init /\ [][Next]_vars
=============================================================================
