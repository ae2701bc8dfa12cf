---------------------------- MODULE MCPageTable ----------------------------
(***************************************************************************)
(* Tables of three levels with two entries each.  The mapped page numbers  *)
(* include those of frames that hold tables, and the largest one.          *)
(***************************************************************************)
EXTENDS PageTable
=============================================================================
