---------------------------- MODULE MCCharDevice ----------------------------
(***************************************************************************)
(* A buffer of two bytes and messages shorter and longer than it; a char   *)
(* of three values, so that the shift of the last one wraps around.        *)
(***************************************************************************)
EXTENDS CharDevice

MCHello == <<2>>
MCBuffers == {<<1>>, <<1, 2, 1>>}
=============================================================================
