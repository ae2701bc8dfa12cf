---------------------------- MODULE SlotClients ----------------------------
(***************************************************************************)
(* hw03/message_sender.c and hw03/message_reader.c on the device of        *)
(* MessageSlot: each process opens the device, sets the channel, makes one *)
(* call and closes.  The remaining files belong to programs of which       *)
(* nothing is known: they make any call.                                   *)
(***************************************************************************)
EXTENDS MessageSlot

CONSTANTS Sender, Reader  \* the processes, named after the file each one opens

Client == Sender \cup Reader

ASSUME ClientAssumption ==
    /\ Client \subseteq File /\ Sender \cap Reader = {}
    /\ BUF_LEN \in ReadLen  \* the buffer of a reader

EXIT_SUCCESS == 0
EXIT_FAILURE == 1
Signalled == 139  \* ended by SIGSEGV or by the kernel

VARIABLES
    pc,         \* control of each client
    channel_id, buf, exit_code,
    promised    \* history: had the channel a message when the reader opened?
clientVars == <<pc, channel_id, buf, exit_code, promised>>
allVars == <<vars, clientVars>>

ClientInit ==
    /\ Init
    /\ pc = [f \in Client |-> "start"] /\ channel_id = [f \in Client |-> Null]
    /\ buf = [f \in Client |-> <<>>] /\ exit_code = [f \in Client |-> Null]
    /\ promised = [f \in Client |-> FALSE]

Goto(f, label) == pc' = [pc EXCEPT ![f] = label]

exit(f, code) == Goto(f, "exited") /\ exit_code' = [exit_code EXCEPT ![f] = code]

\* argv[2] is read before argc is tested: with too few arguments the process is
\* killed, with any other wrong number it says so.
BadArguments(f) ==
    /\ pc[f] = "start"
    /\ \E code \in {EXIT_FAILURE, Signalled} : exit(f, code)
    /\ UNCHANGED <<vars, channel_id, buf, promised>>

Open(f) ==
    /\ pc[f] = "start" /\ device_open(f) /\ Goto(f, "opened")
    /\ \E id \in ChannelId :
          /\ channel_id' = [channel_id EXCEPT ![f] = id]
          /\ promised' = [promised EXCEPT ![f] = sent[<<file'[f].minor, id>>] # Null]
    /\ UNCHANGED <<buf, exit_code>>

\* No such device, no permission, no descriptor left.
OpenFails(f) ==
    /\ pc[f] = "start"
    /\ exit(f, EXIT_FAILURE)
    /\ UNCHANGED <<vars, channel_id, buf, promised>>

SetChannel(f) ==
    /\ pc[f] = "opened" /\ Ioctl(f, channel_id[f]) /\ Goto(f, "set")
    /\ UNCHANGED <<channel_id, buf, exit_code, promised>>

\* The call that was made last has returned.
Returned(f, label) == pc[f] = label /\ Ready(f)

Succeeded(f) == ret[f][1] \in {"ok", "read"}

\* Mutant: the buffer is one byte short.
BufferShort == BUF_LEN - 1

\* unsigned char buf[BUF_LEN]
BufferLen == BUF_LEN

\* argv[3], a string of the process.
Argument == {b \in Buffer : b.mapped = Len(b.bytes)}

Call(f) ==
    /\ Returned(f, "set") /\ Succeeded(f) /\ Goto(f, "called")
    /\ \/ f \in Sender /\ \E b \in Argument : Write(f, b)
       \/ f \in Reader /\ Read(f, BufferLen)
    /\ UNCHANGED <<channel_id, buf, exit_code, promised>>

\* ioctl, write or read has failed; the kernel closes the file of the process.
CallFailed(f) ==
    /\ Returned(f, "set") \/ Returned(f, "called")
    /\ ~Succeeded(f)
    /\ exit(f, IF ret[f] = <<"oops">> THEN Signalled ELSE EXIT_FAILURE)
    /\ device_release(f)
    /\ UNCHANGED <<channel_id, buf, promised>>

\* close(), which cannot fail: device_release() returns 0.
Close(f) ==
    /\ Returned(f, "called") /\ Succeeded(f)
    /\ device_release(f)
    /\ \/ f \in Sender /\ exit(f, EXIT_SUCCESS) /\ UNCHANGED buf
       \/ f \in Reader /\ Goto(f, "closed") /\ buf' = [buf EXCEPT ![f] = ret[f][2]]
                       /\ UNCHANGED exit_code
    /\ UNCHANGED <<channel_id, promised>>

\* write(1, buf, bytes_read)
WriteOut(f) ==
    /\ pc[f] = "closed"
    /\ \E code \in {EXIT_SUCCESS, EXIT_FAILURE} : exit(f, code)
    /\ UNCHANGED <<vars, channel_id, buf, promised>>

ClientStep(f) ==
    \/ BadArguments(f) \/ Open(f) \/ OpenFails(f) \/ SetChannel(f)
    \/ Call(f) \/ CallFailed(f) \/ Close(f) \/ WriteOut(f)
    \/ Inside(f) /\ UNCHANGED clientVars

ClientNext ==
    \/ \E f \in Client : ClientStep(f)
    \/ \E f \in File \ Client : Step(f) /\ UNCHANGED clientVars
    \/ (msgslot_init \/ msgslot_exit) /\ UNCHANGED clientVars

ClientSpec == ClientInit /\ [][ClientNext]_allVars

-----------------------------------------------------------------------------
\* A message outlives the sender: a reader that finds one on its channel when it
\* opens the device is never turned away, whoever writes or reads meanwhile, and
\* a reader that exits with EXIT_SUCCESS has read something (message_reader.c
\* lines 24-56, message_slot.c lines 43-105).
Delivered ==
    \A f \in Reader :
        pc[f] = "exited" /\ (promised[f] \/ exit_code[f] = EXIT_SUCCESS) => buf[f] # <<>>
==================================================
