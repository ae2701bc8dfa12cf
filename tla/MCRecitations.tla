--------------------------- MODULE MCRecitations ---------------------------
(***************************************************************************)
(* Three threads, and messages shorter than, as long as and longer than a  *)
(* pipe takes at once.                                                     *)
(***************************************************************************)
EXTENDS Recitations
=============================================================================
