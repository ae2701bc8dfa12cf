--------------------------- MODULE MCSlotClients ---------------------------
(***************************************************************************)
(* A sender, a reader and another program whose buffers may fault.         *)
(***************************************************************************)
EXTENDS SlotClients

CONSTANT x

MCByte == {x}

Whole(bytes) == [bytes |-> bytes, mapped |-> Len(bytes)]

\* A short message, a long one, and a buffer whose second byte cannot be read.
MCBuffer == {Whole(<<x>>), Whole(<<x, x>>), [bytes |-> <<x, x>>, mapped |-> 1]}
=============================================================================
