------------------------------ MODULE PageMap ------------------------------
(***************************************************************************)
(* What a set of page tables promises: each is a map from virtual to       *)
(* physical page numbers of its own.                                       *)
(***************************************************************************)
CONSTANTS Table, VPN, PPN, Unmapped

VARIABLES map  \* map[t] is <<>> until table t exists
vars == map

Init == map = [t \in Table |-> <<>>]

NewTable(t) ==
    /\ map[t] = <<>>
    /\ map' = [map EXCEPT ![t] = [v \in VPN |-> Unmapped]]

Map(t, v, p) ==
    /\ map[t] # <<>>
    /\ map' = [map EXCEPT ![t][v] = p]

Next == \E t \in Table : \/ NewTable(t)
                         \/ \E v \in VPN, p \in PPN \cup {Unmapped} : Map(t, v, p)

Spec == Init /\ [][Next]_vars
=============================================================================
