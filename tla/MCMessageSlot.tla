--------------------------- MODULE MCMessageSlot ---------------------------
(***************************************************************************)
(* Small instances of MessageSlot: messages of up to BUF_LEN bytes and one *)
(* that is too long.                                                       *)
(***************************************************************************)
EXTENDS MessageSlot, TLC

CONSTANTS x, y

MCByte == {x, y}

Whole(bytes) == [bytes |-> bytes, mapped |-> Len(bytes)]

MCBuffer == {Whole(<<>>), Whole(<<x>>), Whole(<<y, x>>), Whole(<<x, x, x>>)}

MCNoBuffer == {}

Symmetric == Permutations(NodeRef) \cup Permutations(File)
=============================================================================
