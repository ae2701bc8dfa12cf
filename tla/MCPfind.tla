------------------------------ MODULE MCPfind ------------------------------
(***************************************************************************)
(* Small instances of Pfind.  The tree:  root/{a/{c/{f1}, d}, b/{f2}, f3}  *)
(* where f1, f2 match the search term and f3 does not.                     *)
(***************************************************************************)
EXTENDS PfindInv, TLC

CONSTANTS root, a, b, c, d, f1, f2, f3

MCDir == {root, a, b, c, d}
MCFile == {f1, f2, f3}
MCContents == (root :> {a, b, f3}) @@ (a :> {c, d}) @@ (b :> {f2}) @@ (c :> {f1})
              @@ (d :> {})
MCMatch == {f1, f2}

\* The threads are created by main in any order and play the same part.
ThreadSymmetry == Permutations(Thread)
=============================================================================
