---------------------------- MODULE MessageSlot ----------------------------
(***************************************************************************)
(* hw03/message_slot.c: a character device whose minors are message slots. *)
(* device_ioctl() finds or appends the NODE of a channel in the list of    *)
(* the minor and keeps it in file->private_data; device_read() and         *)
(* device_write() copy the message one byte at a time.  The driver takes   *)
(* no lock, so calls on different files interleave between the accesses    *)
(* to shared memory that are the steps of this module.                     *)
(***************************************************************************)
EXTENDS Integers, Sequences, FiniteSets

CONSTANTS
    File,         \* open files, one call at a time in each
    Minor,        \* minor numbers in use
    ChannelId,    \* the values of ioctl_param, unsigned longs
    Width,        \* bits of NODE.channel_id, an unsigned int
    NodeRef,      \* memory for NODEs: kmalloc fails when it is used up
    BUF_LEN,
    Byte, Zero,   \* what user buffers hold; what get_user stores on a fault
    Buffer,       \* user buffers to write: [bytes, mapped], mapped of them readable
    ReadLen,      \* user buffers to read into: how long they are
    BadRead,      \* may put_user fault?
    Overlapping,  \* the calls that may run while another one does
    Null, Garbage \* Garbage: memory that was never initialised

Ops == {"ioctl", "read", "write"}

ASSUME SlotAssumption ==
    /\ BUF_LEN \in Nat \ {0} /\ Width \in Nat
    /\ ChannelId \subseteq Nat /\ Overlapping \subseteq Ops
    /\ Null \notin NodeRef /\ Garbage \notin NodeRef /\ Garbage # Null
    /\ \A b \in Buffer : b.bytes \in Seq(Byte) /\ b.mapped \in 0 .. Len(b.bytes)
    /\ ReadLen \subseteq Nat /\ BadRead \in BOOLEAN
    /\ Garbage \notin Nat \cup Byte \cup {Zero}

\* Arithmetic that the provers do not know.
ASSUME PowerAssumption == 2^Width \in Nat \ {0}

VARIABLES
    loaded,           \* is the module inserted?
    devices, node,    \* the lists, and the memory of their NODEs
    file,             \* minor and private_data of each open file
    call,             \* the call in progress on each file: its locals
    asked, sent, ret  \* history: channel asked for, last message, last result

memVars == <<devices, node>>
histVars == <<asked, sent, ret>>
vars == <<loaded, memVars, file, call, histVars>>

Channel == Minor \X ChannelId
Message == {b.bytes : b \in Buffer}

Closed == [minor |-> Null, private_data |-> Null]
Idle   == [op |-> "none", pc |-> "idle"]
IsOpen(f) == file[f] # Closed
Ready(f)  == IsOpen(f) /\ call[f] = Idle

\* A call may start: nothing else runs, or only calls that overlap with it.
MayStart(f, op) ==
    /\ Ready(f)
    /\ \A g \in File : call[g] # Idle => {op, call[g].op} \subseteq Overlapping

At(f, pc) == call[f].pc = pc

Return(f, value) ==
    /\ call' = [call EXCEPT ![f] = Idle]
    /\ ret' = [ret EXCEPT ![f] = value]

Init ==
    /\ loaded = FALSE
    /\ devices = [m \in Minor |-> Null] /\ node = [n \in NodeRef |-> Null]
    /\ file = [f \in File |-> Closed] /\ call = [f \in File |-> Idle]
    /\ asked = [f \in File |-> Null] /\ ret = [f \in File |-> Null]
    /\ sent = [c \in Channel |-> Null]

-----------------------------------------------------------------------------
(***************************************************************************)
(* The life of the module and of a file.  The kernel counts open files,    *)
(* because fops.owner is THIS_MODULE, and unloads only an unused module.   *)
(***************************************************************************)
msgslot_init ==
    /\ ~loaded /\ loaded' = TRUE
    /\ devices' = [m \in Minor |-> Null]
    /\ UNCHANGED <<node, file, call, histVars>>

\* The NODEs of a list, found along next.
InList(m) ==
    {n \in NodeRef : \A S \in SUBSET NodeRef :
        /\ devices[m] \in NodeRef => devices[m] \in S
        /\ \A p \in S : node[p] # Null /\ node[p].next \in NodeRef => node[p].next \in S
        => n \in S}

\* Mutant: fops without .owner.
UnusedAlways == TRUE

Unused == \A f \in File : ~IsOpen(f)

\* Every list is freed.
msgslot_exit ==
    /\ loaded /\ Unused /\ loaded' = FALSE
    /\ node' = [n \in NodeRef |-> IF \E m \in Minor : n \in InList(m) THEN Null ELSE node[n]]
    /\ sent' = [c \in Channel |-> Null]
    /\ UNCHANGED <<devices, file, call, asked, ret>>

device_open(f) ==
    /\ loaded /\ ~IsOpen(f)
    /\ \E m \in Minor : file' = [file EXCEPT ![f] = [minor |-> m, private_data |-> Null]]
    /\ UNCHANGED <<loaded, memVars, call, histVars>>

device_release(f) ==
    /\ Ready(f)
    /\ file' = [file EXCEPT ![f] = Closed]
    /\ asked' = [asked EXCEPT ![f] = Null] /\ ret' = [ret EXCEPT ![f] = Null]
    /\ UNCHANGED <<loaded, memVars, call, sent>>

-----------------------------------------------------------------------------
(***************************************************************************)
(* Pointers.  A NODE is used from the time kmalloc returns it, with what   *)
(* its memory held before: a field that was never stored may have any      *)
(* value, and next may point to any NODE, of another minor or freed, or to *)
(* memory that is none (Garbage, as a pointer).  Memory that is not a NODE *)
(* in use also may hold anything, and a store to it is lost to the lists;  *)
(* such an address, and always NULL, may be unmapped.                      *)
(***************************************************************************)
Pointer == NodeRef \cup {Null, Garbage}

InUse(p) == p \in NodeRef /\ node[p] # Null

\* What a load through p may give.
NextOf(p) == IF InUse(p) /\ node[p].next # Garbage THEN {node[p].next} ELSE Pointer
LenOf(p) == IF InUse(p) /\ node[p].msg_len # Garbage THEN {node[p].msg_len}
            ELSE 0 .. BUF_LEN + 1
ByteOf(p, k) == IF InUse(p) THEN node[p].channel[k] ELSE Garbage
CouldBe(p, id) == InUse(p) => node[p].channel_id \in {id, Garbage}
CouldDiffer(p, id) == InUse(p) => node[p].channel_id # id

Store(p, fields) == node' = IF InUse(p) THEN [node EXCEPT ![p] = fields] ELSE node

-----------------------------------------------------------------------------
(***************************************************************************)
(* device_ioctl().  The shared pointer is devices[minor] while curr is     *)
(* NULL, and curr->next afterwards; it is loaded again for every access.   *)
(***************************************************************************)
minor(f)  == file[f].minor
Target(f) == file[f].private_data

Shared(f) == IF call[f].curr = Null THEN {devices[minor(f)]} ELSE NextOf(call[f].curr)

Continue(f, pc) ==
    /\ call' = [call EXCEPT ![f].pc = pc]
    /\ UNCHANGED ret

SetTo(f, p) ==
    /\ file' = [file EXCEPT ![f].private_data = p]
    /\ asked' = [asked EXCEPT ![f] = <<minor(f), call[f].id>>]
    /\ Return(f, <<"ok">>)

Ioctl(f, id) ==
    /\ MayStart(f, "ioctl")
    /\ IF id = 0
       THEN Return(f, <<"EINVAL">>)
       ELSE /\ call' = [call EXCEPT ![f] = [op |-> "ioctl", pc |-> "head", id |-> id,
                                            curr |-> Null, next |-> Null]]
            /\ UNCHANGED ret
    /\ UNCHANGED <<loaded, memVars, file, asked, sent>>

\* Mutants: every ioctl allocates a new head.
ReadHeadAlloc(f) ==
    /\ At(f, "head") /\ Continue(f, "alloc")
    /\ UNCHANGED <<loaded, memVars, file, asked, sent>>

\* Is there a list?
ReadHead(f) ==
    /\ At(f, "head") /\ Continue(f, IF devices[minor(f)] = Null THEN "alloc" ELSE "first")
    /\ UNCHANGED <<loaded, memVars, file, asked, sent>>

First(f) ==
    /\ At(f, "first")
    /\ call' = [call EXCEPT ![f].curr = devices[minor(f)], ![f].pc = "next"]
    /\ UNCHANGED <<loaded, memVars, file, histVars>>

LoadNext(f) ==
    /\ At(f, "next") /\ call[f].curr # Null
    /\ \E p \in NextOf(call[f].curr) : call' = [call EXCEPT ![f].next = p, ![f].pc = "walk"]
    /\ UNCHANGED <<loaded, memVars, file, histVars>>

\* The loop over the list: the channel is found, or the list ends, or the next
\* NODE is examined.
Found(f) ==
    /\ At(f, "walk") /\ CouldBe(call[f].curr, call[f].id)
    /\ SetTo(f, call[f].curr)
    /\ UNCHANGED <<loaded, memVars, sent>>

Differs(f) ==
    /\ At(f, "walk") /\ CouldDiffer(call[f].curr, call[f].id)
    /\ call' = [call EXCEPT ![f].next = Null,  \* not used again
                            ![f].pc = IF call[f].next = Null THEN "alloc" ELSE "advance"]
    /\ UNCHANGED <<loaded, memVars, file, histVars>>

Advance(f) ==
    /\ At(f, "advance")
    /\ \E p \in NextOf(call[f].curr) : call' = [call EXCEPT ![f].curr = p, ![f].pc = "next"]
    /\ UNCHANGED <<loaded, memVars, file, histVars>>

\* kmalloc: memory with whatever it held before.
Fresh == [channel_id |-> Garbage, channel |-> [i \in 0 .. BUF_LEN - 1 |-> Garbage],
          msg_len |-> Garbage, next |-> Garbage]

Unallocated == {n \in NodeRef : node[n] = Null}

\* The shared pointer is made to point to p, in memory nd.
Link(f, p, nd) ==
    LET c == call[f].curr
    IN  IF c = Null
        THEN devices' = [devices EXCEPT ![minor(f)] = p] /\ node' = nd
        ELSE /\ UNCHANGED devices
             /\ node' = IF c \in NodeRef /\ nd[c] # Null THEN [nd EXCEPT ![c].next = p] ELSE nd

\* The NODE is reachable before it is initialised.
Alloc(f) ==
    /\ At(f, "alloc")
    /\ \/ \E n \in Unallocated : Link(f, n, [node EXCEPT ![n] = Fresh])
       \/ Unallocated = {} /\ Link(f, Null, node)
    /\ Continue(f, "check")
    /\ UNCHANGED <<loaded, file, asked, sent>>

\* The test for NULL sees what another caller may have stored meanwhile.
Check(f) ==
    /\ At(f, "check")
    /\ \E n \in Shared(f) : IF n = Null THEN Return(f, <<"ENOMEM">>) ELSE Continue(f, "id")
    /\ UNCHANGED <<loaded, memVars, file, asked, sent>>

SetId(f) ==
    /\ At(f, "id")
    /\ \E n \in Shared(f) \ {Null} :
          Store(n, [node[n] EXCEPT !.channel_id = call[f].id % 2^Width])
    /\ Continue(f, "clear")
    /\ UNCHANGED <<loaded, devices, file, asked, sent>>

\* Mutants: next is left as kmalloc returned it; the list is closed into a ring.
SetNextForgotten(f) ==
    /\ At(f, "clear") /\ Continue(f, "len")
    /\ UNCHANGED <<loaded, memVars, file, asked, sent>>

SetNextRing(f) ==
    /\ At(f, "clear")
    /\ \E n \in Shared(f) \ {Null} : Store(n, [node[n] EXCEPT !.next = devices[minor(f)]])
    /\ Continue(f, "len")
    /\ UNCHANGED <<loaded, devices, file, asked, sent>>

SetNext(f) ==
    /\ At(f, "clear")
    /\ \E n \in Shared(f) \ {Null} : Store(n, [node[n] EXCEPT !.next = Null])
    /\ Continue(f, "len")
    /\ UNCHANGED <<loaded, devices, file, asked, sent>>

SetLen(f) ==
    /\ At(f, "len")
    /\ \E n \in Shared(f) \ {Null} : Store(n, [node[n] EXCEPT !.msg_len = 0])
    /\ Continue(f, "take")
    /\ UNCHANGED <<loaded, devices, file, asked, sent>>

\* curr = the shared pointer, which becomes private_data.
Take(f) ==
    /\ At(f, "take")
    /\ \E n \in Shared(f) : SetTo(f, n)
    /\ UNCHANGED <<loaded, memVars, sent>>

-----------------------------------------------------------------------------
(***************************************************************************)
(* device_write() and device_read()                                        *)
(***************************************************************************)
\* Mutants: off by one in the length; msg_len is set before the bytes are copied.
WriteTooLong(f, buffer) ==
    /\ MayStart(f, "write")
    /\ IF Target(f) = Null THEN Return(f, <<"EINVAL">>)
       ELSE IF Len(buffer.bytes) \notin 1 .. BUF_LEN + 1 THEN Return(f, <<"EMSGSIZE">>)
       ELSE /\ call' = [call EXCEPT ![f] = [op |-> "write", pc |-> "write", i |-> 0,
                                            buffer |-> buffer]]
            /\ UNCHANGED ret
    /\ UNCHANGED <<loaded, memVars, file, asked, sent>>

WriteLengthFirst(f, buffer) ==
    /\ MayStart(f, "write") /\ Target(f) # Null /\ Len(buffer.bytes) \in 1 .. BUF_LEN
    /\ Store(Target(f), [node[Target(f)] EXCEPT !.msg_len = Len(buffer.bytes)])
    /\ call' = [call EXCEPT ![f] = [op |-> "write", pc |-> "write", i |-> 0,
                                    buffer |-> buffer]]
    /\ UNCHANGED <<loaded, devices, file, histVars>>

Write(f, buffer) ==
    /\ MayStart(f, "write")
    /\ IF Target(f) = Null THEN Return(f, <<"EINVAL">>)
       ELSE IF Len(buffer.bytes) \notin 1 .. BUF_LEN THEN Return(f, <<"EMSGSIZE">>)
       ELSE /\ call' = [call EXCEPT ![f] = [op |-> "write", pc |-> "write", i |-> 0,
                                            buffer |-> buffer]]
            /\ UNCHANGED ret
    /\ UNCHANGED <<loaded, memVars, file, asked, sent>>

\* get_user(node->channel[i], &buffer[i]), which stores a zero when it faults.
WriteByte(f) ==
    /\ At(f, "write") /\ call[f].i < Len(call[f].buffer.bytes)
    /\ LET i == call[f].i
           b == call[f].buffer
       IN  \/ /\ i < b.mapped
              /\ Store(Target(f), [node[Target(f)] EXCEPT !.channel[i] = b.bytes[i + 1]])
              /\ call' = [call EXCEPT ![f].i = i + 1] /\ UNCHANGED ret
           \/ /\ i >= b.mapped
              /\ Store(Target(f), [node[Target(f)] EXCEPT !.channel[i] = Zero])
              /\ Return(f, <<"EINVAL">>)
    /\ UNCHANGED <<loaded, devices, file, asked, sent>>

\* Mutant: a shorter message keeps the length of the one before.
WriteEndLonger(f) ==
    /\ At(f, "write") /\ call[f].i = Len(call[f].buffer.bytes)
    /\ Store(Target(f), [node[Target(f)] EXCEPT !.msg_len = IF @ > call[f].i THEN @ ELSE call[f].i])
    /\ sent' = [sent EXCEPT ![asked[f]] = call[f].buffer.bytes]
    /\ Return(f, <<"ok">>)
    /\ UNCHANGED <<loaded, devices, file, asked>>

WriteEnd(f) ==
    /\ At(f, "write") /\ call[f].i = Len(call[f].buffer.bytes)
    /\ Store(Target(f), [node[Target(f)] EXCEPT !.msg_len = call[f].i])
    /\ sent' = [sent EXCEPT ![asked[f]] = call[f].buffer.bytes]
    /\ Return(f, <<"ok">>)
    /\ UNCHANGED <<loaded, devices, file, asked>>

Read(f, length) ==
    /\ MayStart(f, "read")
    /\ IF Target(f) = Null THEN Return(f, <<"EINVAL">>)
       ELSE /\ call' = [call EXCEPT ![f] = [op |-> "read", pc |-> "exists",
                                            length |-> length, out |-> <<>>]]
            /\ UNCHANGED ret
    /\ UNCHANGED <<loaded, memVars, file, asked, sent>>

\* Has the channel a message?
ReadExists(f) ==
    /\ At(f, "exists")
    /\ \E len \in LenOf(Target(f)) :
          IF len = 0 THEN Return(f, <<"EWOULDBLOCK">>) ELSE Continue(f, "fits")
    /\ UNCHANGED <<loaded, memVars, file, asked, sent>>

\* Does it fit into the buffer?
ReadFits(f) ==
    /\ At(f, "fits")
    /\ \E len \in LenOf(Target(f)) :
          IF call[f].length < len THEN Return(f, <<"ENOSPC">>) ELSE Continue(f, "read")
    /\ UNCHANGED <<loaded, memVars, file, asked, sent>>

\* The loop condition, which reads node->msg_len every time.
MoreToRead(f, msg_len) ==
    Len(call[f].out) < msg_len /\ Len(call[f].out) < BUF_LEN

ReadByte(f) ==
    /\ At(f, "read")
    /\ \E len \in LenOf(Target(f)) : MoreToRead(f, len)
    /\ \/ /\ call' = [call EXCEPT ![f].out =
                         Append(@, ByteOf(Target(f), Len(@)))]
          /\ UNCHANGED ret
       \/ BadRead /\ Return(f, <<"EINVAL">>)
    /\ UNCHANGED <<loaded, memVars, file, asked, sent>>

ReadEnd(f) ==
    /\ At(f, "read")
    /\ \E len \in LenOf(Target(f)) : ~MoreToRead(f, len)
    /\ Return(f, <<"read", call[f].out>>)
    /\ UNCHANGED <<loaded, memVars, file, asked, sent>>

\* The pointers that the next access of a call goes through.
Followed(f) ==
    CASE call[f].pc \in {"next", "walk", "advance"} -> {call[f].curr}
      [] call[f].pc \in {"alloc", "check", "take"} -> {call[f].curr} \ {Null}
      [] call[f].pc \in {"id", "clear", "len"} -> Shared(f) \cup ({call[f].curr} \ {Null})
      [] call[f].op \in {"write", "read"} -> {Target(f)}
      [] OTHER -> {}

\* The kernel kills the process.
Oops(f) ==
    /\ \E p \in Followed(f) : ~InUse(p)
    /\ Return(f, <<"oops">>)
    /\ UNCHANGED <<loaded, memVars, file, asked, sent>>

\* The rest of a call that has started.
Inside(f) ==
    \/ ReadHead(f) \/ First(f) \/ LoadNext(f) \/ Found(f) \/ Differs(f) \/ Advance(f)
    \/ Alloc(f) \/ Check(f) \/ SetId(f) \/ SetNext(f) \/ SetLen(f) \/ Take(f)
    \/ WriteByte(f) \/ WriteEnd(f)
    \/ ReadExists(f) \/ ReadFits(f) \/ ReadByte(f) \/ ReadEnd(f)
    \/ Oops(f)

Step(f) ==
    \/ device_open(f) \/ device_release(f)
    \/ \E id \in ChannelId : Ioctl(f, id)
    \/ \E b \in Buffer : Write(f, b)
    \/ \E n \in ReadLen : Read(f, n)
    \/ Inside(f)

Next == msgslot_init \/ msgslot_exit \/ \E f \in File : Step(f)

Spec == Init /\ [][Next]_vars

-----------------------------------------------------------------------------
(***************************************************************************)
(* Properties                                                              *)
(***************************************************************************)
NodeType == [channel_id : Nat \cup {Garbage}, msg_len : 0 .. BUF_LEN \cup {Garbage},
             channel : [0 .. BUF_LEN - 1 -> Byte \cup {Zero, Garbage}],
             next : Pointer]

\* A null pointer is no memory, no message, no minor and no channel.
ASSUME NullAssumption == Null \notin NodeType \cup Message \cup Minor \cup Channel

TypeOK ==
    /\ loaded \in BOOLEAN
    /\ devices \in [Minor -> NodeRef \cup {Null}]
    /\ node \in [NodeRef -> NodeType \cup {Null}]
    /\ file \in [File -> [minor : Minor \cup {Null}, private_data : Pointer]]
    /\ asked \in [File -> Channel \cup {Null}]
    /\ sent \in [Channel -> Message \cup {Null}]

\* A file never uses a NODE that has been freed: the module cannot be removed
\* while the file is open (lines 163, 197).
NoUseAfterFree ==
    \A f \in File : IsOpen(f) => loaded /\ (Target(f) # Null => node[Target(f)] # Null)

\* "each node represents a channel" (line 19): two files that asked for one
\* channel share a NODE, and two files that asked for different ones do not.
OneNodePerChannel ==
    \A f, g \in File : asked[f] # Null /\ asked[g] # Null =>
        (Target(f) = Target(g) <=> asked[f] = asked[g])

\* The driver implements the abstract slots when calls do not overlap: a read
\* returns the last message written to the channel that was asked for, whole,
\* through whatever file (lines 43-158).
Abstract == INSTANCE Slots WITH None <- Null, slot <- sent, chan <- asked
SlotsSpec == Abstract!Spec

\* Every byte a read has copied was stored by a write: msg_len is set only after
\* the bytes below it, so uninitialised kernel memory is never returned, also
\* when reads and writes overlap (lines 66-74, 94-103).
NoGarbageRead ==
    \A f \in File : At(f, "read") =>
        \A i \in 1 .. Len(call[f].out) : call[f].out[i] # Garbage

\* msgslot_exit(), which follows every list to its end, frees each NODE once,
\* whatever ioctls have raced: the lists share no NODE, and none joins another
\* one or itself (lines 121-156, 189-199).
FreedOnce ==
    loaded => \A m, k \in Minor : \A p \in InList(m) :
        /\ m # k => p \notin InList(k)
        /\ node[p] # Null /\ node[p].next \in NodeRef =>
              /\ node[p].next # devices[k]
              /\ \A q \in InList(k) \ {p} : node[q].next # node[p].next

\* When no ioctl runs, every NODE of a list is initialised: what one caller
\* published another may have overwritten, but never left unfilled (lines
\* 121-129, 140-148).
ListsInitialized ==
    loaded /\ (\A f \in File : call[f].op # "ioctl") =>
        \A m \in Minor : \A n \in InList(m) :
            node[n] # Null /\ node[n].next # Garbage /\ node[n].channel_id # Garbage
=============================================================================
