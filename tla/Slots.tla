------------------------------- MODULE Slots -------------------------------
(***************************************************************************)
(* What a message slot promises: every channel holds the last message that *)
(* was written to it, a read returns that message whole, and a call that   *)
(* is refused changes nothing.                                             *)
(***************************************************************************)
CONSTANTS File, Channel, Message, None

VARIABLES slot,  \* the message of each channel
          chan,  \* the channel each open file is set to
          ret    \* what the last call of each file returned
vars == <<slot, chan, ret>>

Init ==
    /\ slot = [c \in Channel |-> None]
    /\ chan = [f \in File |-> None] /\ ret = [f \in File |-> None]

SetChannel(f, c) ==
    /\ chan' = [chan EXCEPT ![f] = c] /\ ret' = [ret EXCEPT ![f] = <<"ok">>]
    /\ UNCHANGED slot

Write(f, m) ==
    /\ chan[f] # None
    /\ slot' = [slot EXCEPT ![chan[f]] = m] /\ ret' = [ret EXCEPT ![f] = <<"ok">>]
    /\ UNCHANGED chan

Read(f) ==
    /\ chan[f] # None /\ slot[chan[f]] # None
    /\ ret' = [ret EXCEPT ![f] = <<"read", slot[chan[f]]>>]
    /\ UNCHANGED <<slot, chan>>

Refuse(f, e) ==
    /\ e = "EWOULDBLOCK" => chan[f] # None /\ slot[chan[f]] = None
    /\ e = "ENOSPC" => chan[f] # None /\ slot[chan[f]] # None
    /\ ret' = [ret EXCEPT ![f] = <<e>>]
    /\ UNCHANGED <<slot, chan>>

Close(f) ==
    /\ chan' = [chan EXCEPT ![f] = None] /\ ret' = [ret EXCEPT ![f] = None]
    /\ UNCHANGED slot

Unload ==
    /\ \A f \in File : chan[f] = None
    /\ slot' = [c \in Channel |-> None]
    /\ UNCHANGED <<chan, ret>>

Error == {"EINVAL", "EWOULDBLOCK", "ENOSPC", "EMSGSIZE", "ENOMEM"}

Next ==
    \/ \E f \in File : \/ \E c \in Channel : SetChannel(f, c)
                       \/ \E m \in Message : Write(f, m)
                       \/ Read(f)
                       \/ \E e \in Error : Refuse(f, e)
                       \/ Close(f)
    \/ Unload

Spec == Init /\ [][Next]_vars
=============================================================================
