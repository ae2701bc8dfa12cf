------------------------- MODULE MessageSlotProofs -------------------------
(***************************************************************************)
(* Proofs about MessageSlot, for any calls that overlap with any others.   *)
(***************************************************************************)
EXTENDS MessageSlot, TLAPS

(***************************************************************************)
(* The calls in progress                                                   *)
(***************************************************************************)
AnyByte == Byte \cup {Zero, Garbage}
IoctlPc == {"head", "first", "next", "walk", "advance", "alloc", "check", "id", "clear",
            "len", "take"}
ReadPc == {"exists", "fits", "read"}

IoctlCall == [op : {"ioctl"}, pc : IoctlPc, id : ChannelId, curr : Pointer, next : Pointer]
WriteCall == [op : {"write"}, pc : {"write"}, i : 0 .. BUF_LEN, buffer : Buffer]
ReadCall  == [op : {"read"}, pc : ReadPc, length : ReadLen, out : Seq(AnyByte)]
CallType == {Idle} \cup IoctlCall \cup WriteCall \cup ReadCall

\* Calls are made on open files; those that read or write have a private_data.
CallOf(f) ==
    /\ call[f] # Idle => IsOpen(f)
    /\ call[f].op \in {"read", "write"} => Target(f) # Null
    /\ call[f].op = "write" => /\ Len(call[f].buffer.bytes) \in 1 .. BUF_LEN
                               /\ call[f].i <= Len(call[f].buffer.bytes)

CallInv == call \in [File -> CallType] /\ \A f \in File : CallOf(f)

\* Only a module that is loaded has open files.
FileInv == \A f \in File : IsOpen(f) => loaded /\ minor(f) \in Minor

(***************************************************************************)
(* Links.  A pointer in the driver's memory to a NODE was stored when the  *)
(* NODE was allocated: it is the only one, and whoever stored it fills the *)
(* NODE in, unless another caller does.                                    *)
(***************************************************************************)
Heads == IF loaded THEN {m \in Minor : devices[m] \in NodeRef} ELSE {}
Preds == {p \in NodeRef : node[p] # Null /\ node[p].next \in NodeRef}

LinksUsed ==
    /\ \A m \in Heads : node[devices[m]] # Null
    /\ \A p \in Preds : node[node[p].next] # Null

LinkedOnce ==
    /\ \A m, k \in Heads : devices[m] = devices[k] => m = k
    /\ \A m \in Heads, p \in Preds : devices[m] # node[p].next
    /\ \A p, q \in Preds : node[p].next = node[q].next => p = q

\* The callers at a link, and what they have still to do.
AtHead(m) == {f \in File : call[f].op = "ioctl" /\ call[f].curr = Null /\ minor(f) = m}
AtNode(p) == {f \in File : call[f].op = "ioctl" /\ call[f].curr = p}
BeforeId == {"check", "id"}
BeforeNext == {"check", "id", "clear"}

Pending(n, callers) ==
    /\ node[n].channel_id = Garbage => \E f \in callers : call[f].pc \in BeforeId
    /\ node[n].next = Garbage => \E f \in callers : call[f].pc \in BeforeNext

LinksFilled ==
    /\ \A m \in Heads : Pending(devices[m], AtHead(m))
    /\ \A p \in Preds : Pending(node[p].next, AtNode(p))

Linked == LinksUsed /\ LinkedOnce /\ LinksFilled

RaceInv == TypeOK /\ CallInv /\ FileInv /\ Linked

-----------------------------------------------------------------------------
(***************************************************************************)
(* What a call knows                                                       *)
(***************************************************************************)
LEMMA Calls ==
    ASSUME CallInv, NEW f \in File
    PROVE  /\ call[f] = Idle \/ call[f] \in IoctlCall \/ call[f] \in WriteCall \/ call[f] \in ReadCall
           /\ call[f].pc \in IoctlPc <=> call[f].op = "ioctl"
           /\ call[f].pc \in IoctlPc <=> call[f] \in IoctlCall
           /\ At(f, "write") <=> call[f] \in WriteCall
           /\ call[f].pc \in ReadPc <=> call[f] \in ReadCall
           /\ call[f] = Idle <=> call[f].op = "none"
           /\ call[f] # Idle => IsOpen(f)
<1>1. CallOf(f) /\ call[f] \in CallType
  BY DEF CallInv
<1>2. ~("none" \in {"ioctl", "read", "write"}) /\ ~("idle" \in IoctlPc \cup ReadPc \cup {"write"})
      /\ IoctlPc \cap ReadPc = {} /\ ~("write" \in IoctlPc \cup ReadPc)
  BY DEF IoctlPc, ReadPc
<1> QED
  BY <1>1, <1>2 DEF CallOf, CallType, At, IoctlCall, WriteCall, ReadCall, Idle

LEMMA OpenFile ==
    ASSUME FileInv, NEW f \in File, IsOpen(f)
    PROVE  loaded /\ minor(f) \in Minor
BY DEF FileInv

\* A call that is on its way.
LEMMA Busy ==
    ASSUME CallInv, FileInv, NEW f \in File, call[f].pc \in IoctlPc
    PROVE  /\ call[f] \in IoctlCall /\ call[f].op = "ioctl" /\ call[f].curr \in Pointer
           /\ call[f].id \in ChannelId /\ IsOpen(f) /\ loaded /\ minor(f) \in Minor
BY Calls, OpenFile DEF Idle, IoctlCall

LEMMA WriteFacts ==
    ASSUME CallInv, NEW f \in File, At(f, "write")
    PROVE  /\ Target(f) # Null /\ call[f] \in WriteCall /\ call[f].buffer \in Buffer
           /\ call[f].i \in 0 .. BUF_LEN /\ BUF_LEN \in Nat \ {0}
           /\ Len(call[f].buffer.bytes) \in 1 .. BUF_LEN
           /\ call[f].i <= Len(call[f].buffer.bytes)
           /\ call[f].i < Len(call[f].buffer.bytes) =>
                 /\ call[f].i \in 0 .. BUF_LEN - 1
                 /\ call[f].buffer.bytes[call[f].i + 1] \in Byte
<1>1. call[f] \in WriteCall
  BY Calls
<1>2. call[f].op = "write" /\ call[f].buffer \in Buffer /\ call[f].i \in 0 .. BUF_LEN
  BY <1>1 DEF WriteCall
<1>3. /\ Target(f) # Null /\ Len(call[f].buffer.bytes) \in 1 .. BUF_LEN
      /\ call[f].i <= Len(call[f].buffer.bytes)
  BY <1>2 DEF CallInv, CallOf
<1>4. call[f].buffer.bytes \in Seq(Byte) /\ BUF_LEN \in Nat \ {0}
  BY <1>2, SlotAssumption
<1>5. call[f].i < Len(call[f].buffer.bytes) =>
                 /\ call[f].i \in 0 .. BUF_LEN - 1
                 /\ call[f].buffer.bytes[call[f].i + 1] \in Byte
  BY <1>2, <1>3, <1>4
<1> QED
  BY <1>1, <1>2, <1>3, <1>4, <1>5

LEMMA ReadFacts ==
    ASSUME TypeOK, CallInv, NEW f \in File, call[f].pc \in ReadPc
    PROVE  /\ call[f] \in ReadCall /\ Target(f) # Null /\ IsOpen(f)
           /\ call[f].out \in Seq(AnyByte) /\ Len(call[f].out) \in Nat
           /\ Len(call[f].out) < BUF_LEN => ByteOf(Target(f), Len(call[f].out)) \in AnyByte
<1>1. call[f] \in ReadCall
  BY Calls
<1>2. call[f].op = "read" /\ call[f].out \in Seq(AnyByte)
  BY <1>1 DEF ReadCall
<1>3. Target(f) # Null /\ IsOpen(f)
  BY <1>2, Calls DEF CallInv, CallOf, Idle
<1>4. Len(call[f].out) \in Nat /\ BUF_LEN \in Nat
  BY <1>2, SlotAssumption
<1>5. Len(call[f].out) < BUF_LEN => Len(call[f].out) \in 0 .. BUF_LEN - 1
  BY <1>4
<1>6. InUse(Target(f)) => node[Target(f)].channel \in [0 .. BUF_LEN - 1 -> AnyByte]
  BY DEF TypeOK, InUse, NodeType, AnyByte
<1>7. Len(call[f].out) < BUF_LEN => ByteOf(Target(f), Len(call[f].out)) \in AnyByte
  BY <1>5, <1>6 DEF ByteOf, AnyByte
<1> QED
  BY <1>1, <1>2, <1>3, <1>4, <1>7

LEMMA FreshType == Fresh \in NodeType /\ Fresh # Null /\ Fresh.next = Garbage
                   /\ Fresh.channel_id = Garbage /\ Fresh.msg_len = Garbage
<1>1. [i \in 0 .. BUF_LEN - 1 |-> Garbage] \in [0 .. BUF_LEN - 1 -> Byte \cup {Zero, Garbage}]
  OBVIOUS
<1>2. Fresh \in NodeType
  BY <1>1 DEF Fresh, NodeType, Pointer
<1> QED
  BY <1>2, NullAssumption DEF Fresh

LEMMA Loads ==
    ASSUME TypeOK, NEW p
    PROVE  NextOf(p) \subseteq Pointer
BY DEF NextOf, InUse, TypeOK, NodeType

LEMMA SharedType ==
    ASSUME TypeOK, CallInv, FileInv, NEW f \in File, call[f].pc \in IoctlPc
    PROVE  Shared(f) \subseteq Pointer
BY Busy, Loads DEF Shared, TypeOK, Pointer

-----------------------------------------------------------------------------
(***************************************************************************)
(* The steps, by what they do to the driver's memory                       *)
(***************************************************************************)
\* One file takes a step.
OnlyFile(f) ==
    \A g \in File \ {f} : call'[g] = call[g] /\ file'[g] = file[g] /\ asked'[g] = asked[g]

\* Nothing but the call and its result changes.
Begins(f) ==
    \/ \E id \in ChannelId : Ioctl(f, id)
    \/ \E b \in Buffer : Write(f, b)
    \/ \E len \in ReadLen : Read(f, len)
Looks(f) ==
    \/ ReadHead(f) \/ First(f) \/ LoadNext(f) \/ Differs(f) \/ Advance(f) \/ Check(f)
    \/ ReadExists(f) \/ ReadFits(f) \/ ReadByte(f) \/ ReadEnd(f) \/ Oops(f)
Quiet(f) == Begins(f) \/ Looks(f)

\* The call ends with a NODE for the file.
Settles(f) == Found(f) \/ Take(f)

\* A field of the NODE behind the shared pointer is stored.
Fills(f) == SetId(f) \/ SetNext(f) \/ SetLen(f)
Stores(f) == WriteByte(f) \/ WriteEnd(f)

LEMMA Kinds ==
    ASSUME NEW f
    PROVE  Step(f) <=> \/ device_open(f) \/ device_release(f) \/ Quiet(f) \/ Settles(f)
                       \/ Alloc(f) \/ Fills(f) \/ Stores(f)
BY DEF Step, Inside, Quiet, Begins, Looks, Settles, Fills, Stores

LEMMA QuietSame ==
    ASSUME NEW f, Quiet(f)
    PROVE  UNCHANGED <<loaded, devices, node, file, asked, sent>>
<1>1. CASE \E id \in ChannelId : Ioctl(f, id)
  BY <1>1 DEF Ioctl, memVars
<1>2. CASE \E b \in Buffer : Write(f, b)
  BY <1>2 DEF Write, memVars
<1>3. CASE \E len \in ReadLen : Read(f, len)
  BY <1>3 DEF Read, memVars
<1>4. CASE ReadHead(f) \/ First(f) \/ LoadNext(f)
  BY <1>4 DEF ReadHead, First, LoadNext, memVars, histVars
<1>5. CASE Differs(f) \/ Advance(f) \/ Check(f) \/ Oops(f)
  BY <1>5 DEF Differs, Advance, Check, Oops, memVars, histVars
<1>6. CASE ReadExists(f) \/ ReadFits(f) \/ ReadByte(f) \/ ReadEnd(f)
  BY <1>6 DEF ReadExists, ReadFits, ReadByte, ReadEnd, memVars
<1> QED
  BY <1>1, <1>2, <1>3, <1>4, <1>5, <1>6 DEF Quiet, Begins, Looks

\* An ioctl finds the channel at curr, or takes what it has put behind the pointer.
LEMMA Settled ==
    ASSUME TypeOK, CallInv, FileInv, NEW f \in File, Settles(f)
    PROVE  /\ UNCHANGED <<loaded, devices, node, sent>>
           /\ call[f].pc \in {"walk", "take"} /\ call[f].pc \in IoctlPc
           /\ \E p \in Pointer : SetTo(f, p) /\ p \in (IF At(f, "walk") THEN {call[f].curr} ELSE Shared(f))
<1>1. CASE Found(f)
  BY <1>1, Busy DEF Found, At, IoctlPc, memVars
<1>2. CASE Take(f)
  BY <1>2, SharedType DEF Take, At, IoctlPc, memVars
<1> QED
  BY <1>1, <1>2 DEF Settles

\* What a store leaves of the NODE: r is stored in n.
FilledBy(f, n, r) ==
    \/ /\ SetId(f) /\ r = [node[n] EXCEPT !.channel_id = call[f].id % 2^Width]
    \/ /\ SetNext(f) /\ r = [node[n] EXCEPT !.next = Null]
    \/ /\ SetLen(f) /\ r = [node[n] EXCEPT !.msg_len = 0]

LEMMA IdType ==
    ASSUME NEW id \in ChannelId
    PROVE  id % 2^Width \in Nat
<1>1. id \in Nat /\ 2^Width \in Nat \ {0}
  BY SlotAssumption, PowerAssumption
<1>2. \A a \in Nat, b \in Nat \ {0} : a % b \in Nat
  OBVIOUS
<1> QED
  BY <1>1, <1>2, Zenon

\* A caller fills a NODE in use, or its store goes elsewhere.
LEMMA NodeFilled ==
    ASSUME TypeOK, CallInv, FileInv, NEW f \in File, Fills(f)
    PROVE  /\ UNCHANGED <<loaded, devices, file, asked, sent, ret>>
           /\ call[f].pc \in {"id", "clear", "len"} /\ call[f].pc \in IoctlPc
           /\ \E n \in Shared(f) \ {Null} :
                 \/ ~InUse(n) /\ node' = node
                 \/ /\ InUse(n)
                    /\ \E r \in NodeType : /\ node' = [node EXCEPT ![n] = r]
                                           /\ FilledBy(f, n, r)
<1>1. CASE SetId(f)
  <2>1. call[f].pc \in IoctlPc /\ At(f, "id")
    BY <1>1 DEF SetId, At, IoctlPc
  <2>2. call[f].id % 2^Width \in Nat
    BY <2>1, Busy, IdType
  <2>3. PICK n \in Shared(f) \ {Null} :
            node' = IF InUse(n) THEN [node EXCEPT ![n] = [node[n] EXCEPT !.channel_id = call[f].id % 2^Width]]
                    ELSE node
    BY <1>1 DEF SetId, Store
  <2> DEFINE r == [node[n] EXCEPT !.channel_id = call[f].id % 2^Width]
  <2>4. InUse(n) => r \in NodeType
    <3> SUFFICES ASSUME InUse(n) PROVE r \in NodeType
      OBVIOUS
    <3>1. PICK c \in Nat : c = call[f].id % 2^Width
      BY <2>2
    <3>2. node[n] \in NodeType
      BY DEF InUse, TypeOK
    <3>3. [node[n] EXCEPT !.channel_id = c] \in NodeType
      BY <3>2 DEF NodeType
    <3> QED
      BY <3>1, <3>3
  <2>5. InUse(n) => node' = [node EXCEPT ![n] = r] /\ FilledBy(f, n, r)
    BY <1>1, <2>3 DEF FilledBy
  <2> HIDE DEF r
  <2>6. UNCHANGED <<loaded, devices, file, asked, sent, ret>>
    BY <1>1 DEF SetId, Continue
  <2> QED
    BY <2>1, <2>3, <2>4, <2>5, <2>6 DEF At
<1>2. CASE SetNext(f)
  <2>1. call[f].pc \in IoctlPc /\ At(f, "clear")
    BY <1>2 DEF SetNext, At, IoctlPc
  <2>3. PICK n \in Shared(f) \ {Null} :
            node' = IF InUse(n) THEN [node EXCEPT ![n] = [node[n] EXCEPT !.next = Null]]
                    ELSE node
    BY <1>2 DEF SetNext, Store
  <2> DEFINE r == [node[n] EXCEPT !.next = Null]
  <2>4. InUse(n) => r \in NodeType
    BY DEF InUse, TypeOK, NodeType, Pointer
  <2>5. InUse(n) => node' = [node EXCEPT ![n] = r] /\ FilledBy(f, n, r)
    BY <1>2, <2>3 DEF FilledBy
  <2> HIDE DEF r
  <2>6. UNCHANGED <<loaded, devices, file, asked, sent, ret>>
    BY <1>2 DEF SetNext, Continue
  <2> QED
    BY <2>1, <2>3, <2>4, <2>5, <2>6 DEF At
<1>3. CASE SetLen(f)
  <2>1. call[f].pc \in IoctlPc /\ At(f, "len")
    BY <1>3 DEF SetLen, At, IoctlPc
  <2>2. 0 \in 0 .. BUF_LEN
    BY SlotAssumption
  <2>3. PICK n \in Shared(f) \ {Null} :
            node' = IF InUse(n) THEN [node EXCEPT ![n] = [node[n] EXCEPT !.msg_len = 0]]
                    ELSE node
    BY <1>3 DEF SetLen, Store
  <2> DEFINE r == [node[n] EXCEPT !.msg_len = 0]
  <2>4. InUse(n) => r \in NodeType
    BY <2>2 DEF InUse, TypeOK, NodeType, Pointer
  <2>5. InUse(n) => node' = [node EXCEPT ![n] = r] /\ FilledBy(f, n, r)
    BY <1>3, <2>3 DEF FilledBy
  <2> HIDE DEF r
  <2>6. UNCHANGED <<loaded, devices, file, asked, sent, ret>>
    BY <1>3 DEF SetLen, Continue
  <2> QED
    BY <2>1, <2>3, <2>4, <2>5, <2>6 DEF At
<1> QED
  BY <1>1, <1>2, <1>3 DEF Fills

\* What a byte, and then the length, of a message does to its NODE.
LEMMA ByteStored ==
    ASSUME TypeOK, CallInv, NEW f \in File, WriteByte(f)
    PROVE  \/ ~InUse(Target(f)) /\ node' = node
           \/ /\ InUse(Target(f))
              /\ \E r \in NodeType : \E v \in Byte \cup {Zero} :
                    /\ node' = [node EXCEPT ![Target(f)] = r]
                    /\ r.next = node[Target(f)].next /\ r.channel_id = node[Target(f)].channel_id
                    /\ r.msg_len = node[Target(f)].msg_len
                    /\ r.channel = [node[Target(f)].channel EXCEPT ![call[f].i] = v]
                    /\ call[f].i < call[f].buffer.mapped => v = call[f].buffer.bytes[call[f].i + 1]
<1>1. call[f].i \in 0 .. BUF_LEN - 1 /\ call[f].buffer.bytes[call[f].i + 1] \in Byte
  BY WriteFacts DEF WriteByte
<1>2. PICK v \in Byte \cup {Zero} :
          /\ Store(Target(f), [node[Target(f)] EXCEPT !.channel[call[f].i] = v])
          /\ call[f].i < call[f].buffer.mapped => v = call[f].buffer.bytes[call[f].i + 1]
  <2>1. call[f].i \in Int /\ call[f].buffer.mapped \in Int
    BY <1>1, WriteFacts, SlotAssumption DEF WriteByte
  <2>2. CASE call[f].i < call[f].buffer.mapped
    <3>1. Store(Target(f), [node[Target(f)] EXCEPT
                                !.channel[call[f].i] = call[f].buffer.bytes[call[f].i + 1]])
      BY <2>1, <2>2 DEF WriteByte
    <3> QED
      BY <1>1, <3>1
  <2>3. CASE ~(call[f].i < call[f].buffer.mapped)
    <3>1. Store(Target(f), [node[Target(f)] EXCEPT !.channel[call[f].i] = Zero])
      BY <2>1, <2>3 DEF WriteByte
    <3> QED
      BY <2>3, <3>1
  <2> QED
    BY <2>2, <2>3
<1> DEFINE r == [node[Target(f)] EXCEPT !.channel[call[f].i] = v]
<1>3. ASSUME InUse(Target(f))
      PROVE  /\ r \in NodeType /\ r.next = node[Target(f)].next
             /\ r.channel_id = node[Target(f)].channel_id /\ r.msg_len = node[Target(f)].msg_len
             /\ r.channel = [node[Target(f)].channel EXCEPT ![call[f].i] = v]
  <2>1. node[Target(f)] \in NodeType
    BY <1>3 DEF InUse, TypeOK
  <2> QED
    BY <1>1, <2>1 DEF NodeType
<1>4. node' = IF InUse(Target(f)) THEN [node EXCEPT ![Target(f)] = r] ELSE node
  BY <1>2 DEF Store
<1> HIDE DEF r
<1> QED
  BY <1>2, <1>3, <1>4

LEMMA LengthStored ==
    ASSUME TypeOK, CallInv, NEW f \in File, WriteEnd(f)
    PROVE  \/ ~InUse(Target(f)) /\ node' = node
           \/ /\ InUse(Target(f))
              /\ \E r \in NodeType :
                    /\ node' = [node EXCEPT ![Target(f)] = r]
                    /\ r.next = node[Target(f)].next /\ r.channel_id = node[Target(f)].channel_id
                    /\ r.channel = node[Target(f)].channel /\ r.msg_len = call[f].i
<1>1. call[f].i \in 0 .. BUF_LEN
  BY WriteFacts DEF WriteEnd
<1> DEFINE r == [node[Target(f)] EXCEPT !.msg_len = call[f].i]
<1>2. ASSUME InUse(Target(f))
      PROVE  /\ r \in NodeType /\ r.next = node[Target(f)].next
             /\ r.channel_id = node[Target(f)].channel_id
             /\ r.channel = node[Target(f)].channel /\ r.msg_len = call[f].i
  <2>1. node[Target(f)] \in NodeType
    BY <1>2 DEF InUse, TypeOK
  <2> QED
    BY <1>1, <2>1 DEF NodeType
<1>3. node' = IF InUse(Target(f)) THEN [node EXCEPT ![Target(f)] = r] ELSE node
  BY DEF WriteEnd, Store
<1> HIDE DEF r
<1> QED
  BY <1>2, <1>3

\* A NODE, or none, is put behind the shared pointer; nd is the memory that kmalloc
\* leaves.
AllocatedIn(f, p, nd) ==
    /\ \/ p \in Unallocated /\ nd = [node EXCEPT ![p] = Fresh]
       \/ p = Null /\ Unallocated = {} /\ nd = node
    /\ nd \in [NodeRef -> NodeType \cup {Null}]
    /\ \/ /\ call[f].curr = Null
          /\ devices' = [devices EXCEPT ![minor(f)] = p] /\ node' = nd
       \/ /\ call[f].curr # Null /\ devices' = devices
          /\ \/ /\ call[f].curr \in NodeRef /\ nd[call[f].curr] # Null
                /\ \E r \in NodeType : /\ r = [nd[call[f].curr] EXCEPT !.next = p]
                                       /\ node' = [nd EXCEPT ![call[f].curr] = r]
             \/ ~(call[f].curr \in NodeRef /\ nd[call[f].curr] # Null) /\ node' = nd

LEMMA Allocated ==
    ASSUME TypeOK, CallInv, FileInv, NEW f \in File, Alloc(f)
    PROVE  /\ UNCHANGED <<loaded, file, asked, sent, ret>>
           /\ At(f, "alloc") /\ call[f].pc \in IoctlPc
           /\ call' = [call EXCEPT ![f].pc = "check"]
           /\ \E p \in NodeRef \cup {Null}, nd \in [NodeRef -> NodeType \cup {Null}] : AllocatedIn(f, p, nd)
<1>1. UNCHANGED <<loaded, file, asked, sent, ret>> /\ At(f, "alloc") /\ call[f].pc \in IoctlPc
      /\ call' = [call EXCEPT ![f].pc = "check"]
  BY DEF Alloc, At, IoctlPc, Continue
<1>2. ASSUME NEW p \in NodeRef \cup {Null}, NEW nd, Link(f, p, nd),
             nd \in [NodeRef -> NodeType \cup {Null}],
             \/ p \in Unallocated /\ nd = [node EXCEPT ![p] = Fresh]
             \/ p = Null /\ Unallocated = {} /\ nd = node
      PROVE  AllocatedIn(f, p, nd)
  <2>1. CASE call[f].curr \in NodeRef /\ nd[call[f].curr] # Null /\ call[f].curr # Null
    <3> DEFINE r == [nd[call[f].curr] EXCEPT !.next = p]
    <3>1. nd[call[f].curr] \in NodeType
      BY <1>2, <2>1
    <3>2. r \in NodeType
      BY <3>1 DEF NodeType, Pointer
    <3>3. node' = [nd EXCEPT ![call[f].curr] = r] /\ devices' = devices
      BY <1>2, <2>1 DEF Link
    <3> QED
      BY <1>2, <2>1, <3>2, <3>3 DEF AllocatedIn
  <2>2. CASE ~(call[f].curr \in NodeRef /\ nd[call[f].curr] # Null /\ call[f].curr # Null)
    BY <1>2, <2>2, SlotAssumption DEF Link, AllocatedIn
  <2> QED
    BY <2>1, <2>2
<1>3. CASE \E n \in Unallocated : Link(f, n, [node EXCEPT ![n] = Fresh])
  <2>1. PICK n \in Unallocated : Link(f, n, [node EXCEPT ![n] = Fresh])
    BY <1>3
  <2>2. n \in NodeRef
    BY DEF Unallocated
  <2>3. [node EXCEPT ![n] = Fresh] \in [NodeRef -> NodeType \cup {Null}]
    BY FreshType DEF TypeOK
  <2> QED
    BY <1>1, <1>2, <2>1, <2>2, <2>3
<1>4. CASE Unallocated = {} /\ Link(f, Null, node)
  <2>1. node \in [NodeRef -> NodeType \cup {Null}]
    BY DEF TypeOK
  <2> QED
    BY <1>1, <1>2, <1>4, <2>1
<1> QED
  BY <1>3, <1>4 DEF Alloc

-----------------------------------------------------------------------------
(***************************************************************************)
(* Types                                                                   *)
(***************************************************************************)
LEMMA TypeStep == TypeOK /\ CallInv /\ FileInv /\ [Next]_vars => TypeOK'
<1> SUFFICES ASSUME TypeOK, CallInv, FileInv, [Next]_vars PROVE TypeOK'
  OBVIOUS
<1>1. CASE msgslot_init
  BY <1>1 DEF msgslot_init, histVars, TypeOK, Pointer
<1>2. CASE msgslot_exit
  BY <1>2 DEF msgslot_exit, TypeOK
<1>3. ASSUME NEW f \in File, device_open(f) PROVE TypeOK'
  BY <1>3 DEF device_open, memVars, histVars, TypeOK, Pointer
<1>4. ASSUME NEW f \in File, device_release(f) PROVE TypeOK'
  BY <1>4 DEF device_release, memVars, Closed, TypeOK, Pointer
<1>5. ASSUME NEW f \in File, Quiet(f) PROVE TypeOK'
  BY <1>5, QuietSame DEF TypeOK
<1>6. ASSUME NEW f \in File, Settles(f) PROVE TypeOK'
  <2>1. PICK p \in Pointer : SetTo(f, p)
    BY <1>6, Settled
  <2>2. <<minor(f), call[f].id>> \in Channel
    BY <1>6, Settled, Busy DEF Channel
  <2> QED
    BY <1>6, <2>1, <2>2, Settled DEF SetTo, TypeOK
<1>7. ASSUME NEW f \in File, Alloc(f) PROVE TypeOK'
  <2>1. PICK p \in NodeRef \cup {Null}, nd \in [NodeRef -> NodeType \cup {Null}] : AllocatedIn(f, p, nd)
    BY <1>7, Allocated
  <2>2. node' \in [NodeRef -> NodeType \cup {Null}] /\ devices' \in [Minor -> NodeRef \cup {Null}]
    BY <2>1 DEF AllocatedIn, TypeOK
  <2> QED
    BY <1>7, <2>2, Allocated DEF TypeOK
<1>8. ASSUME NEW f \in File, Fills(f) PROVE TypeOK'
  BY <1>8, NodeFilled DEF TypeOK
<1>9. ASSUME NEW f \in File, Stores(f) PROVE TypeOK'
  <2>1. CASE WriteByte(f)
    BY <2>1, ByteStored DEF WriteByte, TypeOK
  <2>2. CASE WriteEnd(f)
    <3>1. call[f].buffer.bytes \in Message
      BY <2>2, WriteFacts DEF WriteEnd, Message
    <3>2. node' \in [NodeRef -> NodeType \cup {Null}]
      BY <2>2, LengthStored DEF TypeOK
    <3> QED
      BY <2>2, <3>1, <3>2 DEF WriteEnd, TypeOK
  <2> QED
    BY <1>9, <2>1, <2>2 DEF Stores
<1>10. CASE UNCHANGED vars
  BY <1>10 DEF vars, memVars, histVars, TypeOK
<1> QED
  BY <1>1, <1>2, <1>3, <1>4, <1>5, <1>6, <1>7, <1>8, <1>9, <1>10, Kinds DEF Next

LEMMA FileFrame ==
    ASSUME FileInv, loaded' = loaded,
           \A f \in File : file'[f] = file[f] \/ file'[f] = Closed
                           \/ (IsOpen(f) /\ file'[f].minor = file[f].minor)
    PROVE  FileInv'
BY DEF FileInv, IsOpen, minor

LEMMA FileStep == TypeOK /\ CallInv /\ FileInv /\ [Next]_vars => FileInv'
<1> SUFFICES ASSUME TypeOK, CallInv, FileInv, [Next]_vars PROVE FileInv'
  OBVIOUS
<1>1. CASE msgslot_init
  BY <1>1 DEF msgslot_init, FileInv, IsOpen, minor
<1>2. CASE msgslot_exit
  BY <1>2 DEF msgslot_exit, Unused, FileInv, IsOpen
<1>3. ASSUME NEW f \in File, device_open(f) PROVE FileInv'
  BY <1>3 DEF device_open, TypeOK, FileInv, IsOpen, minor
<1>4. ASSUME NEW f \in File, device_release(f) PROVE FileInv'
  BY <1>4, FileFrame DEF device_release, TypeOK
<1>5. ASSUME NEW f \in File, Quiet(f) PROVE FileInv'
  BY <1>5, QuietSame, FileFrame
<1>6. ASSUME NEW f \in File, Settles(f) PROVE FileInv'
  BY <1>6, Settled, Busy, FileFrame DEF SetTo, TypeOK
<1>7. ASSUME NEW f \in File, Alloc(f) PROVE FileInv'
  BY <1>7, Allocated, FileFrame
<1>8. ASSUME NEW f \in File, Fills(f) PROVE FileInv'
  BY <1>8, NodeFilled, FileFrame
<1>9. ASSUME NEW f \in File, Stores(f) PROVE FileInv'
  BY <1>9, FileFrame DEF Stores, WriteByte, WriteEnd
<1>10. CASE UNCHANGED vars
  BY <1>10, FileFrame DEF vars
<1> QED
  BY <1>1, <1>2, <1>3, <1>4, <1>5, <1>6, <1>7, <1>8, <1>9, <1>10, Kinds DEF Next

LEMMA CallFrame ==
    ASSUME CallInv, NEW f \in File, NEW c \in CallType, call' = [call EXCEPT ![f] = c],
           \A g \in File \ {f} : file'[g] = file[g], CallOf(f)'
    PROVE  CallInv'
<1>1. \A g \in File \ {f} : call'[g] = call[g]
  BY DEF CallInv
<1>2. \A g \in File \ {f} : CallOf(g)'
  BY <1>1 DEF CallInv, CallOf, IsOpen, Target
<1> QED
  BY <1>2 DEF CallInv

LEMMA CallReturned ==
    ASSUME CallInv, NEW f \in File, NEW value, Return(f, value),
           \A g \in File \ {f} : file'[g] = file[g]
    PROVE  CallInv'
<1>1. call' = [call EXCEPT ![f] = Idle] /\ call'[f] = Idle
  BY DEF Return, CallInv
<1>2. CallOf(f)'
  BY <1>1 DEF CallOf, Idle
<1> QED
  BY <1>1, <1>2, CallFrame DEF CallType

\* An ioctl goes on: what changes is where it is and what it holds.
LEMMA IoctlGoesOn ==
    ASSUME CallInv, NEW f \in File, call[f].pc \in IoctlPc, file' = file,
           NEW c \in IoctlCall, call' = [call EXCEPT ![f] = c]
    PROVE  CallInv'
<1>1. IsOpen(f) /\ call'[f] = c
  BY Calls DEF CallInv, Idle, IoctlPc
<1>2. CallOf(f)'
  BY <1>1 DEF CallOf, IsOpen, IoctlCall
<1> QED
  BY <1>2, CallFrame DEF CallType

LEMMA IoctlContinues ==
    ASSUME CallInv, NEW f \in File, call[f].pc \in IoctlPc, file' = file,
           NEW to \in IoctlPc, call' = [call EXCEPT ![f].pc = to]
    PROVE  CallInv'
<1> DEFINE c == [call[f] EXCEPT !.pc = to]
<1>1. c \in IoctlCall
  BY Calls DEF IoctlCall
<1>2. call' = [call EXCEPT ![f] = c]
  OBVIOUS
<1> HIDE DEF c
<1> QED
  BY <1>1, <1>2, IoctlGoesOn

\* A read goes on.
LEMMA ReadGoesOn ==
    ASSUME CallInv, NEW f \in File, call[f].pc \in ReadPc, file' = file,
           NEW c \in ReadCall, call' = [call EXCEPT ![f] = c]
    PROVE  CallInv'
<1>1. IsOpen(f) /\ call'[f] = c /\ call[f].op = "read"
  BY Calls DEF CallInv, Idle, ReadCall
<1>2. CallOf(f)'
  BY <1>1 DEF CallOf, IsOpen, ReadCall, CallInv, Target
<1> QED
  BY <1>2, CallFrame DEF CallType

LEMMA CallBegins ==
    ASSUME TypeOK, CallInv, NEW f \in File, Begins(f)
    PROVE  CallInv'
<1>1. ASSUME NEW id \in ChannelId, Ioctl(f, id) PROVE CallInv'
  <2>1. CASE id = 0
    BY <1>1, <2>1, CallReturned DEF Ioctl
  <2>2. CASE id # 0
    <3> DEFINE c == [op |-> "ioctl", pc |-> "head", id |-> id, curr |-> Null, next |-> Null]
    <3>1. c \in CallType /\ call' = [call EXCEPT ![f] = c] /\ IsOpen(f) /\ file' = file
      BY <1>1, <2>2 DEF Ioctl, MayStart, Ready, CallType, IoctlCall, IoctlPc, Pointer
    <3>2. call'[f] = c
      BY <3>1 DEF CallInv
    <3>3. CallOf(f)'
      BY <3>1, <3>2 DEF CallOf, IsOpen
    <3> HIDE DEF c
    <3> QED
      BY <3>1, <3>3, CallFrame
  <2> QED
    BY <2>1, <2>2
<1>2. ASSUME NEW b \in Buffer, Write(f, b) PROVE CallInv'
  <2>1. CASE \E value : Return(f, value)
    BY <1>2, <2>1, CallReturned DEF Write
  <2>2. CASE ~ \E value : Return(f, value)
    <3> DEFINE c == [op |-> "write", pc |-> "write", i |-> 0, buffer |-> b]
    <3>1. /\ call' = [call EXCEPT ![f] = c] /\ IsOpen(f) /\ file' = file
          /\ Target(f) # Null /\ Len(b.bytes) \in 1 .. BUF_LEN
      BY <1>2, <2>2 DEF Write, MayStart, Ready
    <3>2. c \in CallType
      BY SlotAssumption DEF CallType, WriteCall
    <3>3. call'[f] = c
      BY <3>1 DEF CallInv
    <3>4. CallOf(f)'
      BY <3>1, <3>3, SlotAssumption DEF CallOf, IsOpen, Target
    <3> HIDE DEF c
    <3> QED
      BY <3>1, <3>2, <3>4, CallFrame
  <2> QED
    BY <2>1, <2>2
<1>3. ASSUME NEW len \in ReadLen, Read(f, len) PROVE CallInv'
  <2>1. CASE \E value : Return(f, value)
    BY <1>3, <2>1, CallReturned DEF Read
  <2>2. CASE ~ \E value : Return(f, value)
    <3> DEFINE c == [op |-> "read", pc |-> "exists", length |-> len, out |-> <<>>]
    <3>1. /\ call' = [call EXCEPT ![f] = c] /\ IsOpen(f) /\ file' = file
          /\ Target(f) # Null
      BY <1>3, <2>2 DEF Read, MayStart, Ready
    <3>2. c \in CallType
      BY DEF CallType, ReadCall, ReadPc
    <3>3. call'[f] = c
      BY <3>1 DEF CallInv
    <3>4. CallOf(f)'
      BY <3>1, <3>3 DEF CallOf, IsOpen, Target
    <3> HIDE DEF c
    <3> QED
      BY <3>1, <3>2, <3>4, CallFrame
  <2> QED
    BY <2>1, <2>2
<1> QED
  BY <1>1, <1>2, <1>3 DEF Begins

\* How an ioctl that looks at the list moves.
LEMMA Moves ==
    ASSUME TypeOK, CallInv, FileInv, NEW f \in File, Looks(f), call[f].pc \in IoctlPc
    PROVE  /\ file' = file
           /\ \/ Oops(f) /\ Return(f, <<"oops">>)
              \/ Check(f) /\ Return(f, <<"ENOMEM">>)
              \/ \E c \in IoctlCall :
                    call' = [call EXCEPT ![f] = c] /\ ret' = ret /\ c.id = call[f].id
<1>1. file' = file
  BY QuietSame DEF Quiet
<1>2. call[f] \in IoctlCall /\ minor(f) \in Minor
  BY Busy
<1>3. ASSUME NEW to \in IoctlPc, Continue(f, to)
      PROVE  \E c \in IoctlCall : call' = [call EXCEPT ![f] = c] /\ ret' = ret /\ c.id = call[f].id
  <2>1. [call[f] EXCEPT !.pc = to] \in IoctlCall /\ [call[f] EXCEPT !.pc = to].id = call[f].id
    BY <1>2 DEF IoctlCall
  <2> QED
    BY <1>3, <2>1 DEF Continue
<1>4. ASSUME NEW p \in Pointer, NEW q \in Pointer, NEW to \in IoctlPc,
             call' = [call EXCEPT ![f] = [call[f] EXCEPT !.curr = p, !.next = q, !.pc = to]],
             ret' = ret
      PROVE  \E c \in IoctlCall : call' = [call EXCEPT ![f] = c] /\ ret' = ret /\ c.id = call[f].id
  <2> DEFINE c == [call[f] EXCEPT !.curr = p, !.next = q, !.pc = to]
  <2>1. c \in IoctlCall /\ c.id = call[f].id
    BY <1>2 DEF IoctlCall
  <2> QED
    BY <1>4, <2>1
<1>5. CASE ReadHead(f)
  BY <1>1, <1>3, <1>5 DEF ReadHead, IoctlPc
<1>6. CASE First(f)
  <2>1. devices[minor(f)] \in Pointer /\ "next" \in IoctlPc /\ ret' = ret
    BY <1>2, <1>6 DEF TypeOK, Pointer, IoctlPc, First, histVars
  <2>2. call' = [call EXCEPT ![f] = [call[f] EXCEPT !.curr = devices[minor(f)],
                                          !.next = call[f].next, !.pc = "next"]]
    BY <1>2, <1>6 DEF First, CallInv, IoctlCall
  <2> QED
    BY <1>1, <1>2, <1>4, <2>1, <2>2 DEF IoctlCall
<1>7. CASE LoadNext(f)
  <2>1. PICK p \in NextOf(call[f].curr) : call' = [call EXCEPT ![f].next = p, ![f].pc = "walk"]
    BY <1>7 DEF LoadNext
  <2>2. p \in Pointer /\ "walk" \in IoctlPc /\ ret' = ret
    BY <1>7, Loads DEF IoctlPc, LoadNext, histVars
  <2>3. call' = [call EXCEPT ![f] = [call[f] EXCEPT !.curr = call[f].curr,
                                          !.next = p, !.pc = "walk"]]
    BY <1>2, <2>1 DEF CallInv, IoctlCall
  <2> QED
    BY <1>1, <1>2, <1>4, <2>2, <2>3 DEF IoctlCall
<1>8. CASE Differs(f)
  <2> DEFINE to == IF call[f].next = Null THEN "alloc" ELSE "advance"
  <2>1. to \in IoctlPc /\ ret' = ret /\ Null \in Pointer
    BY <1>8 DEF IoctlPc, Differs, histVars, Pointer
  <2>2. call' = [call EXCEPT ![f] = [call[f] EXCEPT !.curr = call[f].curr,
                                          !.next = Null, !.pc = to]]
    BY <1>2, <1>8 DEF Differs, CallInv, IoctlCall
  <2> HIDE DEF to
  <2> QED
    BY <1>1, <1>2, <1>4, <2>1, <2>2 DEF IoctlCall
<1>9. CASE Advance(f)
  <2>1. PICK p \in NextOf(call[f].curr) : call' = [call EXCEPT ![f].curr = p, ![f].pc = "next"]
    BY <1>9 DEF Advance
  <2>2. p \in Pointer /\ "next" \in IoctlPc /\ ret' = ret
    BY <1>9, Loads DEF IoctlPc, Advance, histVars
  <2>3. call' = [call EXCEPT ![f] = [call[f] EXCEPT !.curr = p,
                                          !.next = call[f].next, !.pc = "next"]]
    BY <1>2, <2>1 DEF CallInv, IoctlCall
  <2> QED
    BY <1>1, <1>2, <1>4, <2>2, <2>3 DEF IoctlCall
<1>10. CASE Check(f)
  BY <1>1, <1>3, <1>10 DEF Check, IoctlPc
<1>11. CASE Oops(f)
  BY <1>1, <1>11 DEF Oops
<1>12. CASE ReadExists(f) \/ ReadFits(f) \/ ReadByte(f) \/ ReadEnd(f)
  BY <1>12 DEF ReadExists, ReadFits, ReadByte, ReadEnd, At, IoctlPc
<1> QED
  BY <1>5, <1>6, <1>7, <1>8, <1>9, <1>10, <1>11, <1>12 DEF Looks

LEMMA CallReads ==
    ASSUME TypeOK, CallInv, NEW f \in File, Looks(f), call[f].pc \in ReadPc
    PROVE  CallInv'
<1>1. file' = file /\ call[f] \in ReadCall
  BY QuietSame, Calls DEF Quiet
<1>2. CASE \E value : Return(f, value)
  BY <1>1, <1>2, CallReturned
<1>3. ASSUME NEW to \in ReadPc, Continue(f, to) PROVE CallInv'
  <2> DEFINE c == [call[f] EXCEPT !.pc = to]
  <2>1. c \in ReadCall /\ call' = [call EXCEPT ![f] = c]
    BY <1>1, <1>3 DEF ReadCall, Continue
  <2> HIDE DEF c
  <2> QED
    BY <1>1, <2>1, ReadGoesOn
<1>4. CASE ReadExists(f) \/ ReadFits(f)
  BY <1>2, <1>3, <1>4 DEF ReadExists, ReadFits, ReadPc
<1>5. CASE ReadByte(f) /\ ~ \E value : Return(f, value)
  <2>1. PICK byte : byte = ByteOf(Target(f), Len(call[f].out))
    OBVIOUS
  <2> DEFINE c == [call[f] EXCEPT !.out = Append(@, byte)]
  <2>2. call' = [call EXCEPT ![f] = c]
    BY <1>5, <2>1 DEF ReadByte
  <2>3. Len(call[f].out) < BUF_LEN
    BY <1>5 DEF ReadByte, MoreToRead
  <2>4. byte \in AnyByte /\ call[f].out \in Seq(AnyByte)
    BY <2>1, <2>3, ReadFacts
  <2>5. Append(call[f].out, byte) \in Seq(AnyByte)
    BY <2>4
  <2>6. c \in ReadCall
    BY <1>1, <2>5 DEF ReadCall
  <2> HIDE DEF c
  <2> QED
    BY <1>1, <2>2, <2>6, ReadGoesOn
<1>6. CASE ReadEnd(f) \/ Oops(f)
  BY <1>2, <1>6 DEF ReadEnd, Oops
<1>7. CASE ReadHead(f) \/ First(f) \/ LoadNext(f) \/ Differs(f) \/ Advance(f) \/ Check(f)
  BY <1>7 DEF ReadHead, First, LoadNext, Differs, Advance, Check, At, ReadPc
<1> QED
  BY <1>2, <1>4, <1>5, <1>6, <1>7 DEF Looks

LEMMA LooksFrom ==
    ASSUME CallInv, NEW f \in File, Looks(f)
    PROVE  call[f].pc \in IoctlPc \cup ReadPc \cup {"write"}
<1>1. CASE Oops(f)
  <2>1. call[f] # Idle
    <3>1. Followed(f) # {}
      BY <1>1 DEF Oops
    <3>2. Idle.pc = "idle" /\ Idle.op = "none"
      BY DEF Idle
    <3> QED
      BY <3>1, <3>2 DEF Followed
  <2> QED
    BY <2>1, Calls DEF WriteCall, At
<1> QED
  BY <1>1 DEF Looks, ReadHead, First, LoadNext, Differs, Advance, Check, ReadExists, ReadFits,
     ReadByte, ReadEnd, At, IoctlPc, ReadPc

LEMMA CallStep == TypeOK /\ CallInv /\ FileInv /\ [Next]_vars => CallInv'
<1> SUFFICES ASSUME TypeOK, CallInv, FileInv, [Next]_vars PROVE CallInv'
  OBVIOUS
<1>1. CASE msgslot_init
  BY <1>1 DEF msgslot_init, CallInv, CallOf, IsOpen, Target
<1>2. CASE msgslot_exit
  BY <1>2 DEF msgslot_exit, CallInv, CallOf, IsOpen, Target
<1>3. ASSUME NEW f \in File, device_open(f) PROVE CallInv'
  <2>1. call[f] = Idle /\ call' = call
    BY <1>3, Calls DEF device_open
  <2>2. \A g \in File : CallOf(g)'
    BY <1>3, <2>1 DEF device_open, TypeOK, CallInv, CallOf, IsOpen, Target, Idle
  <2> QED
    BY <2>1, <2>2 DEF CallInv
<1>4. ASSUME NEW f \in File, device_release(f) PROVE CallInv'
  <2>1. call[f] = Idle /\ call' = call
    BY <1>4 DEF device_release, Ready
  <2>2. \A g \in File : CallOf(g)'
    BY <1>4, <2>1 DEF device_release, TypeOK, CallInv, CallOf, IsOpen, Target, Idle
  <2> QED
    BY <2>1, <2>2 DEF CallInv
<1>5. ASSUME NEW f \in File, Begins(f) PROVE CallInv'
  BY <1>5, CallBegins
<1>6. ASSUME NEW f \in File, Looks(f) PROVE CallInv'
  <2>1. CASE call[f].pc \in IoctlPc
    BY <1>6, <2>1, Moves, IoctlGoesOn, CallReturned
  <2>2. CASE call[f].pc \in ReadPc
    BY <1>6, <2>2, CallReads
  <2>3. CASE call[f].pc = "write"
    <3>1. Oops(f) /\ file' = file
      BY <1>6, <2>3, QuietSame DEF Quiet, Looks, ReadHead, First, LoadNext, Differs, Advance,
         Check, ReadExists, ReadFits, ReadByte, ReadEnd, At
    <3> QED
      BY <3>1, CallReturned DEF Oops
  <2> QED
    BY <1>6, <2>1, <2>2, <2>3, LooksFrom
<1>7. ASSUME NEW f \in File, Settles(f) PROVE CallInv'
  BY <1>7, Settled, CallReturned DEF SetTo, TypeOK
<1>8. ASSUME NEW f \in File, Alloc(f) PROVE CallInv'
  BY <1>8, Allocated, IoctlContinues DEF IoctlPc
<1>9. ASSUME NEW f \in File, Fills(f) PROVE CallInv'
  <2>1. PICK to \in IoctlPc : Continue(f, to)
    BY <1>9 DEF Fills, SetId, SetNext, SetLen, IoctlPc
  <2> QED
    BY <1>9, <2>1, NodeFilled, IoctlContinues DEF Continue
<1>10. ASSUME NEW f \in File, Stores(f) PROVE CallInv'
  <2>1. CASE \E value : Return(f, value)
    BY <1>10, <2>1, CallReturned DEF Stores, WriteByte, WriteEnd
  <2>2. CASE WriteByte(f) /\ ~ \E value : Return(f, value)
    <3>1. /\ At(f, "write") /\ call' = [call EXCEPT ![f].i = call[f].i + 1] /\ file' = file
          /\ call[f].i < Len(call[f].buffer.bytes)
      BY <2>2 DEF WriteByte
    <3> DEFINE c == [call[f] EXCEPT !.i = call[f].i + 1]
    <3>2. /\ call[f] \in WriteCall /\ Target(f) # Null /\ IsOpen(f)
          /\ call[f].i + 1 \in 0 .. BUF_LEN /\ call[f].i + 1 <= Len(call[f].buffer.bytes)
          /\ Len(call[f].buffer.bytes) \in 1 .. BUF_LEN
      <4>1. call[f] \in WriteCall /\ Target(f) # Null
        BY <3>1, WriteFacts
      <4>2. IsOpen(f)
        BY <4>1, Calls DEF WriteCall, Idle
      <4> QED
        BY <3>1, <4>1, <4>2, WriteFacts
    <3>3. c \in CallType /\ c.op = "write" /\ c.i = call[f].i + 1 /\ c.buffer = call[f].buffer
      BY <3>2 DEF CallType, WriteCall
    <3>4. call' = [call EXCEPT ![f] = c]
      BY <3>1
    <3> HIDE DEF c
    <3>5. call'[f] = c
      BY <3>4 DEF CallInv
    <3>6. CallOf(f)'
      BY <3>1, <3>2, <3>3, <3>5 DEF CallOf, IsOpen, Target
    <3> QED
      BY <3>1, <3>3, <3>4, <3>6, CallFrame
  <2> QED
    BY <1>10, <2>1, <2>2 DEF Stores, WriteEnd
<1>11. CASE UNCHANGED vars
  BY <1>11 DEF vars, CallInv, CallOf, IsOpen, Target
<1> QED
  BY <1>1, <1>2, <1>3, <1>4, <1>5, <1>6, <1>7, <1>8, <1>9, <1>10, <1>11, Kinds DEF Next, Quiet

-----------------------------------------------------------------------------
(***************************************************************************)
(* Links                                                                   *)
(***************************************************************************)
LinkTo(f, n) ==
    /\ call[f].op = "ioctl"
    /\ \/ call[f].curr = Null /\ minor(f) \in Heads /\ devices[minor(f)] = n
       \/ call[f].curr \in Preds /\ node[call[f].curr].next = n

\* The shared pointer of a caller at a link.
LEMMA LinkShared ==
    ASSUME RaceInv, NEW f \in File, NEW n \in NodeRef, LinkTo(f, n)
    PROVE  /\ Shared(f) = {n} /\ InUse(n) /\ n # Null
           /\ call[f].curr # Null => InUse(call[f].curr)
<1>1. CASE call[f].curr = Null
  BY <1>1, SlotAssumption DEF LinkTo, Shared, InUse, RaceInv, Linked, LinksUsed, Heads, Preds
<1>2. CASE call[f].curr # Null
  <2>1. call[f].curr \in Preds /\ node[call[f].curr].next = n
    BY <1>2 DEF LinkTo
  <2>2. InUse(call[f].curr) /\ NextOf(call[f].curr) = {n}
    BY <2>1, SlotAssumption DEF InUse, NextOf, Preds
  <2> QED
    BY <1>2, <2>1, <2>2, SlotAssumption DEF Shared, InUse, RaceInv, Linked, LinksUsed
<1> QED
  BY <1>1, <1>2

\* No NODE appears, no link is made, no field loses its value, and a caller that
\* still has to fill the NODE behind its link stays.
LEMMA LinkedSame ==
    ASSUME RaceInv, NEW f \in File, loaded' = loaded, devices' = devices,
           \A g \in File \ {f} : call'[g] = call[g] /\ file'[g] = file[g],
           \A n \in NodeRef :
               /\ node'[n] = Null <=> node[n] = Null
               /\ node[n] # Null => /\ node'[n].next \in NodeRef => node'[n].next = node[n].next
                                    /\ node'[n].channel_id = Garbage => node[n].channel_id = Garbage
                                    /\ node'[n].next = Garbage => node[n].next = Garbage,
           \A n \in NodeRef : LinkTo(f, n) /\ call[f].pc \in BeforeNext =>
               /\ node'[n].channel_id = Garbage /\ call[f].pc \in BeforeId
                  => call'[f].op = "ioctl" /\ call'[f].curr = call[f].curr
                     /\ file'[f] = file[f] /\ call'[f].pc \in BeforeId
               /\ node'[n].next = Garbage
                  => call'[f].op = "ioctl" /\ call'[f].curr = call[f].curr
                     /\ file'[f] = file[f] /\ call'[f].pc \in BeforeNext
    PROVE  Linked'
<1>0. BeforeId \subseteq BeforeNext
  BY DEF BeforeId, BeforeNext
<1>1. /\ Heads' = Heads /\ Preds' \subseteq Preds /\ Preds \subseteq NodeRef
      /\ \A p \in Preds' : node'[p].next = node[p].next /\ node[p].next \in NodeRef
      /\ \A m \in Heads : devices[m] \in NodeRef
  BY DEF Heads, Preds
<1>2. LinksUsed'
  BY <1>1 DEF RaceInv, Linked, LinksUsed
<1>3. LinkedOnce'
  BY <1>1 DEF RaceInv, Linked, LinkedOnce
<1>4. ASSUME NEW m \in Heads PROVE Pending(devices[m], AtHead(m))'
  <2> DEFINE n == devices[m]
  <2>1. n \in NodeRef /\ node[n] # Null /\ Pending(n, AtHead(m))
    BY <1>1 DEF RaceInv, Linked, LinksUsed, LinksFilled
  <2>2. ASSUME NEW g \in AtHead(m), g # f PROVE g \in AtHead(m)' /\ call'[g] = call[g]
    BY <2>2 DEF AtHead, minor
  <2>3. f \in AtHead(m) => LinkTo(f, n)
    BY DEF AtHead, LinkTo
  <2>4. ASSUME node'[n].channel_id = Garbage
        PROVE  \E g \in AtHead(m)' : call'[g].pc \in BeforeId
    <3>1. PICK g \in AtHead(m) : call[g].pc \in BeforeId
      BY <2>1, <2>4 DEF Pending
    <3>2. CASE g = f
      BY <1>0, <2>1, <2>3, <2>4, <3>1, <3>2 DEF AtHead, minor
    <3> QED
      BY <2>2, <3>1, <3>2
  <2>5. ASSUME node'[n].next = Garbage
        PROVE  \E g \in AtHead(m)' : call'[g].pc \in BeforeNext
    <3>1. PICK g \in AtHead(m) : call[g].pc \in BeforeNext
      BY <2>1, <2>5 DEF Pending
    <3>2. CASE g = f
      BY <2>1, <2>3, <2>5, <3>1, <3>2 DEF AtHead, minor
    <3> QED
      BY <2>2, <3>1, <3>2
  <2> QED
    BY <2>4, <2>5 DEF Pending
<1>5. ASSUME NEW p \in Preds' PROVE Pending(node[p].next, AtNode(p))'
  <2>0. PICK n \in NodeRef : n = node[p].next
    BY <1>1
  <2>1. p \in Preds /\ n \in NodeRef /\ node[n] # Null /\ Pending(n, AtNode(p)) /\ node'[p].next = n
    BY <1>1, <2>0 DEF RaceInv, Linked, LinksUsed, LinksFilled
  <2>2. ASSUME NEW g \in AtNode(p), g # f PROVE g \in AtNode(p)' /\ call'[g] = call[g]
    BY <2>2 DEF AtNode
  <2>3. f \in AtNode(p) => LinkTo(f, n)
    BY <2>0, <2>1 DEF AtNode, LinkTo
  <2>4. ASSUME node'[n].channel_id = Garbage
        PROVE  \E g \in AtNode(p)' : call'[g].pc \in BeforeId
    <3>1. PICK g \in AtNode(p) : call[g].pc \in BeforeId
      BY <2>1, <2>4 DEF Pending
    <3>2. CASE g = f
      BY <1>0, <2>1, <2>3, <2>4, <3>1, <3>2 DEF AtNode
    <3> QED
      BY <2>2, <3>1, <3>2
  <2>5. ASSUME node'[n].next = Garbage
        PROVE  \E g \in AtNode(p)' : call'[g].pc \in BeforeNext
    <3>1. PICK g \in AtNode(p) : call[g].pc \in BeforeNext
      BY <2>1, <2>5 DEF Pending
    <3>2. CASE g = f
      BY <2>1, <2>3, <2>5, <3>1, <3>2 DEF AtNode
    <3> QED
      BY <2>2, <3>1, <3>2
  <2> QED
    BY <2>1, <2>4, <2>5 DEF Pending
<1> QED
  BY <1>1, <1>2, <1>3, <1>4, <1>5 DEF Linked, LinksFilled

\* An allocation makes one link, to a NODE that had none; the others stay.
LEMMA LinkMade ==
    ASSUME RaceInv, NEW f \in File, Alloc(f)
    PROVE  \E p \in NodeRef \cup {Null} :
        /\ p \in NodeRef => node[p] = Null
        /\ \A m \in Heads' : \/ m \in Heads /\ devices'[m] = devices[m]
                             \/ p \in NodeRef /\ devices'[m] = p /\ call[f].curr = Null /\ m = minor(f)
        /\ \A q \in Preds' : \/ q \in Preds /\ node'[q].next = node[q].next
                             \/ p \in NodeRef /\ node'[q].next = p /\ call[f].curr = q /\ q # Null
        /\ \A n \in NodeRef :
               /\ node[n] # Null => /\ node'[n] # Null /\ node'[n].channel_id = node[n].channel_id
                                    /\ node'[n].next = Garbage => node[n].next = Garbage
                                    /\ node'[n].msg_len = node[n].msg_len
                                    /\ node'[n].channel = node[n].channel
               /\ node'[n] # Null => node[n] # Null \/ n = p
        /\ p \in NodeRef => node'[p] # Null /\ node'[p].channel_id = Garbage
                            /\ node'[p].msg_len = Garbage
<1>1. PICK p \in NodeRef \cup {Null}, nd \in [NodeRef -> NodeType \cup {Null}] : AllocatedIn(f, p, nd)
  BY Allocated DEF RaceInv
<1>2. loaded /\ loaded' = loaded /\ minor(f) \in Minor
  BY Allocated, Busy DEF RaceInv
<1>3. /\ nd \in [NodeRef -> NodeType \cup {Null}] /\ node \in [NodeRef -> NodeType \cup {Null}]
      /\ p \in NodeRef => node[p] = Null /\ nd[p] = Fresh
      /\ \A n \in NodeRef : n # p => nd[n] = node[n]
  BY <1>1, SlotAssumption DEF AllocatedIn, Unallocated, RaceInv, TypeOK
<1>4. Fresh # Null /\ Fresh.channel_id = Garbage /\ Fresh.next = Garbage /\ Fresh.msg_len = Garbage
  BY FreshType
<1>5. CASE call[f].curr = Null
  <2>1. devices' = [devices EXCEPT ![minor(f)] = p] /\ node' = nd
    BY <1>1, <1>5, SlotAssumption DEF AllocatedIn
  <2>2. \A m \in Heads' : \/ m \in Heads /\ devices'[m] = devices[m]
                          \/ p \in NodeRef /\ devices'[m] = p /\ call[f].curr = Null /\ m = minor(f)
    BY <1>2, <1>5, <2>1 DEF Heads, RaceInv, TypeOK
  <2>3. \A q \in Preds' : q \in Preds /\ node'[q].next = node[q].next
    BY <1>3, <1>4, <2>1, SlotAssumption DEF Preds
  <2> QED
    BY <1>3, <1>4, <2>1, <2>2, <2>3, Zenon
<1>6. CASE call[f].curr # Null
  <2>1. devices' = devices
    BY <1>1, <1>6 DEF AllocatedIn
  <2>2. \A m \in Heads' : m \in Heads /\ devices'[m] = devices[m]
    BY <1>2, <2>1 DEF Heads
  <2>3. CASE call[f].curr \in NodeRef /\ nd[call[f].curr] # Null
    <3>1. PICK c \in NodeRef : c = call[f].curr
      BY <2>3
    <3>2. PICK r \in NodeType : r = [nd[c] EXCEPT !.next = p] /\ node' = [nd EXCEPT ![c] = r]
      BY <1>1, <1>6, <2>3, <3>1 DEF AllocatedIn
    <3>3. nd[c] \in NodeType
      BY <1>3, <2>3, <3>1
    <3>4. /\ r.next = p /\ r.channel_id = nd[c].channel_id /\ r.msg_len = nd[c].msg_len
          /\ r.channel = nd[c].channel /\ r # Null
      BY <3>2, <3>3, NullAssumption DEF NodeType
    <3>5. node'[c] = r /\ \A n \in NodeRef : n # c => node'[n] = nd[n]
      BY <1>3, <3>2
    <3>6. ASSUME NEW q \in Preds'
          PROVE  \/ q \in Preds /\ node'[q].next = node[q].next
                 \/ p \in NodeRef /\ node'[q].next = p /\ call[f].curr = q /\ q # Null
      BY <1>3, <1>4, <1>6, <3>1, <3>4, <3>5, SlotAssumption DEF Preds
    <3>7. ASSUME NEW n \in NodeRef, node[n] # Null
          PROVE  /\ node'[n] # Null /\ node'[n].channel_id = node[n].channel_id
                 /\ node'[n].next = Garbage => node[n].next = Garbage
                 /\ node'[n].msg_len = node[n].msg_len
                 /\ node'[n].channel = node[n].channel
      BY <1>3, <3>4, <3>5, <3>7, SlotAssumption
    <3>8. ASSUME NEW n \in NodeRef, node'[n] # Null
          PROVE  node[n] # Null \/ n = p
      BY <1>3, <2>3, <3>1, <3>5, <3>8
    <3>9. p \in NodeRef => node'[p] # Null /\ node'[p].channel_id = Garbage
                            /\ node'[p].msg_len = Garbage
      BY <1>3, <1>4, <3>4, <3>5
    <3> QED
      BY <1>3, <2>2, <3>6, <3>7, <3>8, <3>9
  <2>4. CASE ~(call[f].curr \in NodeRef /\ nd[call[f].curr] # Null)
    <3>1. node' = nd
      BY <1>1, <1>6, <2>4 DEF AllocatedIn
    <3>2. \A q \in Preds' : q \in Preds /\ node'[q].next = node[q].next
      BY <1>3, <1>4, <3>1, SlotAssumption DEF Preds
    <3> QED
      BY <1>3, <1>4, <2>2, <3>1, <3>2, Zenon
  <2> QED
    BY <2>3, <2>4
<1> QED
  BY <1>5, <1>6

LEMMA LinkedAlloc ==
    ASSUME RaceInv, NEW f \in File, Alloc(f)
    PROVE  Linked'
<1>1. PICK p \in NodeRef \cup {Null} :
        /\ p \in NodeRef => node[p] = Null
        /\ \A m \in Heads' : \/ m \in Heads /\ devices'[m] = devices[m]
                             \/ p \in NodeRef /\ devices'[m] = p /\ call[f].curr = Null /\ m = minor(f)
        /\ \A q \in Preds' : \/ q \in Preds /\ node'[q].next = node[q].next
                             \/ p \in NodeRef /\ node'[q].next = p /\ call[f].curr = q /\ q # Null
        /\ \A n \in NodeRef :
               /\ node[n] # Null => /\ node'[n] # Null /\ node'[n].channel_id = node[n].channel_id
                                    /\ node'[n].next = Garbage => node[n].next = Garbage
               /\ node'[n] # Null => node[n] # Null \/ n = p
        /\ p \in NodeRef => node'[p] # Null
  BY LinkMade
<1>2. /\ call[f].pc = "alloc" /\ call' = [call EXCEPT ![f].pc = "check"] /\ file' = file
      /\ call[f] \in IoctlCall /\ call[f].op = "ioctl"
  BY Allocated, Busy DEF RaceInv, At
<1>3. /\ call'[f].op = "ioctl" /\ call'[f].curr = call[f].curr /\ call'[f].pc = "check"
      /\ \A g \in File \ {f} : call'[g] = call[g]
  BY <1>2 DEF RaceInv, CallInv, IoctlCall
<1>4. /\ \A m \in Heads : devices[m] \in NodeRef /\ node[devices[m]] # Null
      /\ \A q \in Preds : q \in NodeRef /\ node[q].next \in NodeRef /\ node[node[q].next] # Null
  BY DEF RaceInv, Linked, LinksUsed, Heads, Preds
<1>5. LinksUsed'
  BY <1>1, <1>4 DEF LinksUsed
<1>6. LinkedOnce'
  <2>1. ASSUME NEW m \in Heads', NEW k \in Heads', devices'[m] = devices'[k] PROVE m = k
    BY <1>1, <1>4, <2>1 DEF RaceInv, Linked, LinkedOnce
  <2>2. ASSUME NEW m \in Heads', NEW q \in Preds' PROVE devices'[m] # node'[q].next
    BY <1>1, <1>4 DEF RaceInv, Linked, LinkedOnce
  <2>3. ASSUME NEW q \in Preds', NEW s \in Preds', node'[q].next = node'[s].next PROVE q = s
    BY <1>1, <1>4, <2>3 DEF RaceInv, Linked, LinkedOnce
  <2> QED
    BY <2>1, <2>2, <2>3 DEF LinkedOnce
<1>7. BeforeId = {"check", "id"} /\ BeforeNext = {"check", "id", "clear"}
  BY DEF BeforeId, BeforeNext
<1>8. ASSUME NEW m \in Heads' PROVE Pending(devices[m], AtHead(m))'
  <2>1. CASE m \in Heads /\ devices'[m] = devices[m]
    <3>1. Pending(devices[m], AtHead(m)) /\ devices[m] \in NodeRef /\ node[devices[m]] # Null
      BY <1>4, <2>1 DEF RaceInv, Linked, LinksFilled
    <3>2. ASSUME NEW g \in AtHead(m), call[g].pc \in BeforeNext
          PROVE  g \in AtHead(m)' /\ call'[g].pc = call[g].pc
      BY <1>2, <1>3, <1>7, <3>2 DEF AtHead, minor
    <3> QED
      BY <1>1, <1>7, <2>1, <3>1, <3>2 DEF Pending
  <2>2. CASE call[f].curr = Null /\ m = minor(f)
    <3>1. f \in AtHead(m)'
      BY <1>2, <1>3, <2>2 DEF AtHead, minor
    <3> QED
      BY <1>3, <1>7, <3>1 DEF Pending
  <2> QED
    BY <1>1, <2>1, <2>2
<1>9. ASSUME NEW q \in Preds' PROVE Pending(node[q].next, AtNode(q))'
  <2>1. CASE q \in Preds /\ node'[q].next = node[q].next
    <3>1. /\ Pending(node[q].next, AtNode(q)) /\ node[q].next \in NodeRef
          /\ node[node[q].next] # Null
      BY <1>4, <2>1 DEF RaceInv, Linked, LinksFilled
    <3>2. ASSUME NEW g \in AtNode(q), call[g].pc \in BeforeNext
          PROVE  g \in AtNode(q)' /\ call'[g].pc = call[g].pc
      BY <1>2, <1>3, <1>7, <3>2 DEF AtNode
    <3> QED
      BY <1>1, <1>7, <2>1, <3>1, <3>2 DEF Pending
  <2>2. CASE call[f].curr = q
    <3>1. f \in AtNode(q)'
      BY <1>3, <2>2 DEF AtNode
    <3> QED
      BY <1>3, <1>7, <3>1 DEF Pending
  <2> QED
    BY <1>1, <2>1, <2>2
<1> QED
  BY <1>5, <1>6, <1>8, <1>9 DEF Linked, LinksFilled

-----------------------------------------------------------------------------
(***************************************************************************)
(* Lists                                                                   *)
(***************************************************************************)
LEMMA ListLeast ==
    ASSUME NEW m, NEW S \in SUBSET NodeRef, devices[m] \in NodeRef => devices[m] \in S,
           \A p \in S : node[p] # Null /\ node[p].next \in NodeRef => node[p].next \in S
    PROVE  InList(m) \subseteq S
BY DEF InList

LEMMA ListHead ==
    ASSUME NEW m, devices[m] \in NodeRef
    PROVE  devices[m] \in InList(m)
BY DEF InList

LEMMA ListNext ==
    ASSUME NEW m, NEW p \in InList(m), node[p] # Null, node[p].next \in NodeRef
    PROVE  node[p].next \in InList(m)
BY DEF InList

\* What is in a list is its head, or follows something in it.
LEMMA ListPred ==
    ASSUME NEW m, NEW n \in InList(m), n # devices[m]
    PROVE  \E q \in InList(m) : q \in Preds /\ node[q].next = n
<1> SUFFICES ASSUME \A q \in InList(m) : q \in Preds => node[q].next # n PROVE FALSE
  OBVIOUS
<1> DEFINE S == InList(m) \ {n}
<1>1. S \in SUBSET NodeRef /\ InList(m) \in SUBSET NodeRef
  BY DEF InList
<1>2. devices[m] \in NodeRef => devices[m] \in S
  BY ListHead
<1>3. ASSUME NEW p \in S, node[p] # Null, node[p].next \in NodeRef PROVE node[p].next \in S
  BY <1>1, <1>3, ListNext DEF Preds
<1> HIDE DEF S
<1>4. InList(m) \subseteq S
  BY <1>1, <1>2, <1>3, ListLeast
<1> QED
  BY <1>4 DEF S

LEMMA ListUsed ==
    ASSUME Linked, loaded, NEW m \in Minor
    PROVE  InList(m) \subseteq {n \in NodeRef : node[n] # Null}
<1> DEFINE S == {n \in NodeRef : node[n] # Null}
<1>1. devices[m] \in NodeRef => devices[m] \in S
  BY DEF Linked, LinksUsed, Heads
<1>2. \A p \in S : node[p] # Null /\ node[p].next \in NodeRef => node[p].next \in S
  BY DEF Linked, LinksUsed, Preds
<1> HIDE DEF S
<1>3. S \in SUBSET NodeRef
  BY DEF S
<1>4. InList(m) \subseteq S
  BY <1>1, <1>2, <1>3, ListLeast
<1> QED
  BY <1>4 DEF S

LEMMA ListsDisjoint ==
    ASSUME Linked, loaded, NEW m \in Minor, NEW k \in Minor, m # k
    PROVE  InList(m) \cap InList(k) = {}
<1> DEFINE S == NodeRef \ InList(k)
<1>1. S \in SUBSET NodeRef
  OBVIOUS
<1>2. devices[m] \in NodeRef => devices[m] \in S
  <2> SUFFICES ASSUME devices[m] \in NodeRef, devices[m] \in InList(k) PROVE FALSE
    OBVIOUS
  <2>1. m \in Heads /\ (devices[k] \in NodeRef => k \in Heads)
    BY DEF Heads
  <2>2. devices[m] # devices[k]
    BY <2>1 DEF Linked, LinkedOnce
  <2> QED
    BY <2>1, <2>2, ListPred DEF Linked, LinkedOnce
<1>3. ASSUME NEW p \in S, node[p] # Null, node[p].next \in NodeRef PROVE node[p].next \in S
  <2> SUFFICES ASSUME node[p].next \in InList(k) PROVE FALSE
    BY <1>3
  <2>1. p \in Preds /\ (devices[k] \in NodeRef => k \in Heads)
    BY <1>3 DEF Preds, Heads
  <2>2. node[p].next # devices[k]
    BY <1>3, <2>1 DEF Linked, LinkedOnce
  <2>3. PICK q \in InList(k) : q \in Preds /\ node[q].next = node[p].next
    BY <2>2, ListPred
  <2> QED
    BY <2>1, <2>3 DEF Linked, LinkedOnce
<1> HIDE DEF S
<1>4. InList(m) \subseteq S
  BY <1>1, <1>2, <1>3, ListLeast
<1> QED
  BY <1>4 DEF S

-----------------------------------------------------------------------------
LEMMA LinkedExit ==
    ASSUME RaceInv, msgslot_exit
    PROVE  Linked'
<1>1. /\ loaded /\ ~loaded' /\ call' = call /\ file' = file /\ Linked
      /\ node' = [n \in NodeRef |-> IF \E m \in Minor : n \in InList(m) THEN Null ELSE node[n]]
  BY DEF msgslot_exit, RaceInv
<1>2. /\ Heads' = {} /\ Preds' \subseteq Preds /\ Preds \subseteq NodeRef
      /\ \A p \in Preds' : node'[p] = node[p] /\ \A m \in Minor : p \notin InList(m)
  BY <1>1 DEF Heads, Preds
<1>3. ASSUME NEW p \in Preds' PROVE node'[node[p].next] = node[node[p].next] /\ node[node[p].next] # Null
  <2>0. p \in Preds /\ node[p].next \in NodeRef
    BY <1>2 DEF Preds
  <2>1. node[node[p].next] # Null
    BY <1>1, <2>0 DEF Linked, LinksUsed
  <2>2. ASSUME NEW m \in Minor, node[p].next \in InList(m) PROVE FALSE
    <3>1. devices[m] \in NodeRef => m \in Heads
      BY <1>1 DEF Heads
    <3>2. node[p].next # devices[m]
      BY <1>1, <2>0, <3>1 DEF Linked, LinkedOnce
    <3>3. PICK q \in InList(m) : q \in Preds /\ node[q].next = node[p].next
      BY <2>2, <3>2, ListPred
    <3>4. q = p
      BY <1>1, <2>0, <3>3 DEF Linked, LinkedOnce
    <3> QED
      BY <1>2, <3>3, <3>4
  <2> QED
    BY <1>1, <2>0, <2>1, <2>2
<1>4. LinksUsed' /\ LinkedOnce'
  <2>1. LinkedOnce
    BY <1>1 DEF Linked
  <2> QED
    BY <1>2, <1>3, <2>1 DEF LinksUsed, LinkedOnce
<1>5. ASSUME NEW p \in Preds' PROVE Pending(node[p].next, AtNode(p))'
  <2>1. Pending(node[p].next, AtNode(p))
    BY <1>1, <1>2 DEF Linked, LinksFilled
  <2>2. AtNode(p)' = AtNode(p)
    BY <1>1 DEF AtNode
  <2> QED
    BY <1>1, <1>2, <1>3, <2>1, <2>2 DEF Pending
<1> QED
  BY <1>2, <1>4, <1>5 DEF Linked, LinksFilled

LEMMA LinkedInitStep ==
    ASSUME RaceInv, msgslot_init
    PROVE  Linked'
<1>1. /\ Heads' = {} /\ Preds' = Preds /\ node' = node /\ \A p : AtNode(p)' = AtNode(p)
      /\ call' = call
  BY SlotAssumption DEF msgslot_init, Heads, Preds, AtNode
<1>2. \A p \in Preds' : Pending(node[p].next, AtNode(p))'
  BY <1>1 DEF RaceInv, Linked, LinksFilled, Pending
<1> QED
  BY <1>1, <1>2 DEF RaceInv, Linked, LinksUsed, LinkedOnce, LinksFilled

LEMMA LinkedStep == RaceInv /\ [Next]_vars => Linked'
<1> SUFFICES ASSUME RaceInv, [Next]_vars PROVE Linked'
  OBVIOUS
<1>0. TypeOK /\ CallInv /\ FileInv /\ BeforeId = {"check", "id"} /\ BeforeNext = {"check", "id", "clear"}
  BY DEF RaceInv, BeforeId, BeforeNext
<1>1. ASSUME NEW f \in File, device_open(f) \/ device_release(f) PROVE Linked'
  <2>1. call[f].pc = "idle"
    BY <1>0, <1>1, Calls DEF device_open, device_release, Ready, Idle
  <2>2. /\ UNCHANGED <<loaded, devices, node, call>>
        /\ \A g \in File \ {f} : file'[g] = file[g]
    BY <1>0, <1>1 DEF device_open, device_release, memVars, TypeOK
  <2> QED
    BY <1>0, <2>1, <2>2, LinkedSame
<1>2. ASSUME NEW f \in File, Quiet(f) PROVE Linked'
  <2>1. UNCHANGED <<loaded, devices, node, file>>
    BY <1>2, QuietSame
  <2>2. \A g \in File \ {f} : call'[g] = call[g]
    <3>1. PICK c : call' = [call EXCEPT ![f] = c]
      <4>1. CASE Begins(f)
        BY <4>1 DEF Begins, Ioctl, Write, Read, Return
      <4>2. CASE Looks(f)
        BY <4>2, Zenon DEF Looks, ReadHead, First, LoadNext, Differs, Advance, Check, ReadExists, ReadFits,
             ReadByte, ReadEnd, Oops, Return, Continue
      <4> QED
        BY <1>2, <4>1, <4>2 DEF Quiet
    <3> QED
      BY <1>0, <3>1 DEF CallInv
  <2>3. ASSUME NEW n \in NodeRef, LinkTo(f, n), call[f].pc \in BeforeNext
        PROVE  /\ call'[f].op = "ioctl" /\ call'[f].curr = call[f].curr /\ call[f].pc \in BeforeId
               /\ call'[f].pc \in BeforeId
    <3>1. Shared(f) = {n} /\ InUse(n) /\ n # Null /\ (call[f].curr # Null => InUse(call[f].curr))
      BY <2>3, LinkShared
    <3>2. call[f] \in IoctlCall /\ call[f].pc \in IoctlPc /\ call[f] # Idle
      BY <1>0, <2>3, Busy DEF IoctlPc, Idle
    <3>3. ~Oops(f)
      <4>1. CASE call[f].pc = "check"
        <5>1. Followed(f) = {call[f].curr} \ {Null}
          BY <2>3, <4>1 DEF Followed, LinkTo
        <5> QED
          BY <3>1, <5>1 DEF Oops
      <4>2. CASE call[f].pc \in {"id", "clear"}
        <5>1. Followed(f) = Shared(f) \cup ({call[f].curr} \ {Null})
          BY <2>3, <4>2 DEF Followed, LinkTo
        <5> QED
          BY <3>1, <5>1 DEF Oops
      <4> QED
        BY <1>0, <2>3, <4>1, <4>2
    <3>4. ~Begins(f)
      BY <3>2 DEF Begins, Ioctl, Write, Read, MayStart, Ready
    <3>5. Check(f)
      BY <1>0, <1>2, <2>3, <3>3, <3>4 DEF Quiet, Looks, ReadHead, First, LoadNext, Differs, Advance,
         ReadExists, ReadFits, ReadByte, ReadEnd, At
    <3>6. At(f, "check") /\ call' = [call EXCEPT ![f].pc = "id"]
      BY <3>1, <3>5 DEF Check, Continue
    <3> QED
      BY <1>0, <3>2, <3>6 DEF CallInv, IoctlCall, At
  <2> QED
    BY <1>0, <2>1, <2>2, <2>3, LinkedSame
<1>3. ASSUME NEW f \in File, Settles(f) PROVE Linked'
  <2>1. UNCHANGED <<loaded, devices, node>> /\ call[f].pc \in {"walk", "take"}
    BY <1>0, <1>3, Settled
  <2>2. PICK p : SetTo(f, p)
    BY <1>0, <1>3, Settled
  <2>3. \A g \in File \ {f} : call'[g] = call[g] /\ file'[g] = file[g]
    BY <1>0, <2>2 DEF SetTo, Return, CallInv, TypeOK
  <2> QED
    BY <1>0, <2>1, <2>3, LinkedSame
<1>4. ASSUME NEW f \in File, Alloc(f) PROVE Linked'
  BY <1>4, LinkedAlloc
<1>5. ASSUME NEW f \in File, Fills(f) PROVE Linked'
  <2>1. UNCHANGED <<loaded, devices, file>> /\ call[f].pc \in IoctlPc
    BY <1>0, <1>5, NodeFilled
  <2>2. PICK n \in Shared(f) \ {Null} :
                 \/ ~InUse(n) /\ node' = node
                 \/ /\ InUse(n)
                    /\ \E r \in NodeType : /\ node' = [node EXCEPT ![n] = r]
                                           /\ FilledBy(f, n, r)
    BY <1>0, <1>5, NodeFilled
  <2>3. PICK to \in {"clear", "len", "take"} :
               /\ call' = [call EXCEPT ![f].pc = to]
               /\ to = IF At(f, "id") THEN "clear" ELSE IF At(f, "clear") THEN "len" ELSE "take"
               /\ ~At(f, "check")
    BY <1>5 DEF Fills, SetId, SetNext, SetLen, At, Continue
  <2>4. /\ call[f] \in IoctlCall /\ call'[f].op = "ioctl" /\ call'[f].curr = call[f].curr
        /\ call'[f].pc = to /\ \A g \in File \ {f} : call'[g] = call[g]
    BY <1>0, <2>1, <2>3, Busy DEF CallInv, IoctlCall
  <2>5. ASSUME NEW x \in NodeRef
        PROVE  /\ node'[x] = Null <=> node[x] = Null
               /\ node[x] # Null => /\ node'[x].next \in NodeRef => node'[x].next = node[x].next
                                    /\ node'[x].channel_id = Garbage => node[x].channel_id = Garbage
                                    /\ node'[x].next = Garbage => node[x].next = Garbage
    <3>1. CASE InUse(n) /\ n = x
      <4>1. PICK r \in NodeType : node' = [node EXCEPT ![n] = r] /\ FilledBy(f, n, r)
        BY <2>2, <3>1
      <4>2. node[n] \in NodeType /\ r # Null /\ node'[n] = r /\ node[n] # Null
        BY <1>0, <3>1, <4>1, NullAssumption DEF InUse, TypeOK
      <4>3. call[f].id % 2^Width \in Nat
        BY <2>1, <1>0, Busy, IdType
      <4>4. r.channel_id = Garbage => node[n].channel_id = Garbage
        BY <4>1, <4>2, <4>3, SlotAssumption DEF FilledBy, NodeType
      <4>5. r.next \in NodeRef => r.next = node[n].next
        BY <4>1, <4>2, SlotAssumption DEF FilledBy, NodeType
      <4>6. r.next = Garbage => node[n].next = Garbage
        BY <4>1, <4>2, SlotAssumption DEF FilledBy, NodeType
      <4> QED
        BY <3>1, <4>2, <4>4, <4>5, <4>6
    <3>2. CASE ~(InUse(n) /\ n = x)
      BY <1>0, <2>2, <3>2 DEF TypeOK
    <3> QED
      BY <3>1, <3>2
  <2>6. ASSUME NEW x \in NodeRef, LinkTo(f, x), call[f].pc \in BeforeNext
        PROVE  /\ call[f].pc \in BeforeId => node'[x].channel_id # Garbage
               /\ node'[x].next = Garbage => to \in BeforeNext
    <3>1. n = x /\ InUse(n)
      BY <2>2, <2>6, LinkShared
    <3>2. PICK r \in NodeType : node' = [node EXCEPT ![n] = r] /\ FilledBy(f, n, r)
      BY <2>2, <3>1
    <3>3. node[n] \in NodeType /\ node'[n] = r
      BY <1>0, <3>1, <3>2 DEF InUse, TypeOK
    <3>4. call[f].id % 2^Width \in Nat
      BY <2>1, <1>0, Busy, IdType
    <3>5. CASE At(f, "id")
      <4>1. r.channel_id = call[f].id % 2^Width
        BY <3>2, <3>3, <3>5 DEF FilledBy, SetNext, SetLen, At, NodeType
      <4> QED
        BY <1>0, <2>3, <3>1, <3>3, <3>4, <3>5, <4>1, SlotAssumption
    <3>6. CASE At(f, "clear")
      <4>1. r.next = Null
        BY <3>2, <3>3, <3>6 DEF FilledBy, SetId, SetLen, At, NodeType
      <4> QED
        BY <1>0, <3>1, <3>3, <3>6, <4>1, SlotAssumption DEF At
    <3> QED
      BY <1>0, <2>3, <2>6, <3>5, <3>6 DEF At
  <2> QED
    BY <1>0, <2>1, <2>4, <2>5, <2>6, LinkedSame
<1>6. ASSUME NEW f \in File, Stores(f) PROVE Linked'
  <2>1. UNCHANGED <<loaded, devices, file>> /\ call[f].pc = "write"
    BY <1>6 DEF Stores, WriteByte, WriteEnd, At
  <2>2. \A g \in File \ {f} : call'[g] = call[g]
    BY <1>0, <1>6 DEF Stores, WriteByte, WriteEnd, Return, CallInv
  <2>3. \/ node' = node
        \/ /\ InUse(Target(f))
           /\ \E r \in NodeType : /\ node' = [node EXCEPT ![Target(f)] = r]
                                  /\ r.next = node[Target(f)].next
                                  /\ r.channel_id = node[Target(f)].channel_id
    BY <1>0, <1>6, ByteStored, LengthStored DEF Stores
  <2>4. ASSUME NEW x \in NodeRef
        PROVE  /\ node'[x] = Null <=> node[x] = Null
               /\ node[x] # Null => /\ node'[x].next = node[x].next
                                    /\ node'[x].channel_id = node[x].channel_id
    BY <1>0, <2>3, NullAssumption DEF TypeOK, InUse
  <2> QED
    BY <1>0, <2>1, <2>2, <2>4, LinkedSame
<1>7. CASE UNCHANGED vars
  <2>1. Heads' = Heads /\ Preds' = Preds
    BY <1>7 DEF vars, memVars, Heads, Preds
  <2>2. \A x : AtHead(x)' = AtHead(x) /\ AtNode(x)' = AtNode(x)
    BY <1>7 DEF vars, AtHead, AtNode, minor
  <2> QED
    BY <1>7, <2>1, <2>2 DEF vars, memVars, RaceInv, Linked, LinksUsed, LinkedOnce, LinksFilled, Pending
<1> QED
  BY <1>1, <1>2, <1>3, <1>4, <1>5, <1>6, <1>7, LinkedExit, LinkedInitStep, Kinds DEF Next


-----------------------------------------------------------------------------
(***************************************************************************)
(* Theorems                                                                *)
(***************************************************************************)
LEMMA RaceInit == Init => RaceInv
<1> SUFFICES ASSUME Init PROVE RaceInv
  OBVIOUS
<1>1. TypeOK
  BY DEF Init, TypeOK, Closed, Pointer
<1>2. CallInv
  BY DEF Init, CallInv, CallOf, CallType, Idle
<1>3. FileInv
  BY DEF Init, FileInv, IsOpen
<1>4. Heads = {} /\ Preds = {}
  BY DEF Init, Heads, Preds
<1>5. Linked
  BY <1>4 DEF Linked, LinksUsed, LinkedOnce, LinksFilled
<1> QED
  BY <1>1, <1>2, <1>3, <1>5 DEF RaceInv

\* Whatever calls overlap, what holds of the calls, the files and the links
\* between NODEs stays true.
THEOREM RaceInvariance == Spec => []RaceInv
<1>1. RaceInv /\ [Next]_vars => RaceInv'
  BY TypeStep, CallStep, FileStep, LinkedStep DEF RaceInv
<1> QED
  BY <1>1, RaceInit, PTL DEF Spec

\* The driver's state has its type whatever calls overlap; stores stay within
\* the buffer of a NODE.
THEOREM SlotTypes == Spec => []TypeOK
<1>1. RaceInv => TypeOK
  BY DEF RaceInv
<1> QED
  BY <1>1, RaceInvariance, PTL

\* Whatever ioctls race, and wherever an uninitialised next has led them,
\* msgslot_exit() frees no NODE twice: a NODE is linked to once at most.
THEOREM ListsAreFreedOnce == Spec => []FreedOnce
<1>1. ASSUME RaceInv, loaded, NEW m \in Minor, NEW k \in Minor, NEW p \in InList(m)
      PROVE  /\ m # k => p \notin InList(k)
             /\ node[p] # Null /\ node[p].next \in NodeRef =>
                   /\ node[p].next # devices[k]
                   /\ \A q \in InList(k) \ {p} : node[q].next # node[p].next
  <2>1. Linked
    BY <1>1 DEF RaceInv
  <2>2. m # k => p \notin InList(k)
    BY <1>1, <2>1, ListsDisjoint
  <2>3. ASSUME node[p] # Null, node[p].next \in NodeRef
        PROVE  node[p].next # devices[k] /\ \A q \in InList(k) \ {p} : node[q].next # node[p].next
    <3>1. p \in Preds
      BY <2>3 DEF Preds, InList
    <3>2. devices[k] \in NodeRef => k \in Heads
      BY <1>1 DEF Heads
    <3>3. node[p].next # devices[k]
      BY <2>1, <2>3, <3>1, <3>2 DEF Linked, LinkedOnce
    <3>4. ASSUME NEW q \in InList(k) \ {p} PROVE node[q].next # node[p].next
      <4>1. q \in NodeRef /\ node[q] # Null
        BY <1>1, <2>1, ListUsed DEF InList
      <4> QED
        BY <2>1, <2>3, <3>1, <4>1 DEF Linked, LinkedOnce, Preds
    <3> QED
      BY <3>3, <3>4
  <2> QED
    BY <2>2, <2>3
<1>2. RaceInv => FreedOnce
  BY <1>1 DEF FreedOnce
<1> QED
  BY <1>2, RaceInvariance, PTL

\* When no ioctl runs, the lists hold no uninitialised id and no uninitialised
\* next, whatever races went before.
THEOREM ListsAreInitialized == Spec => []ListsInitialized
<1>1. ASSUME RaceInv, loaded, \A f \in File : call[f].op # "ioctl", NEW m \in Minor
      PROVE  \A n \in InList(m) : node[n] # Null /\ node[n].next # Garbage /\ node[n].channel_id # Garbage
  <2> DEFINE S == {n \in NodeRef : node[n] # Null /\ node[n].next # Garbage
                                   /\ node[n].channel_id # Garbage}
  <2>1. Linked
    BY <1>1 DEF RaceInv
  <2>2. \A k : AtHead(k) = {} /\ AtNode(k) = {}
    BY <1>1 DEF AtHead, AtNode
  <2>3. devices[m] \in NodeRef => devices[m] \in S
    BY <1>1, <2>1, <2>2 DEF Heads, Linked, LinksUsed, LinksFilled, Pending
  <2>4. \A p \in S : node[p] # Null /\ node[p].next \in NodeRef => node[p].next \in S
    BY <2>1, <2>2 DEF Preds, Linked, LinksUsed, LinksFilled, Pending
  <2> HIDE DEF S
  <2>5. S \in SUBSET NodeRef
    BY DEF S
  <2>6. InList(m) \subseteq S
    BY <2>3, <2>4, <2>5, ListLeast
  <2> QED
    BY <2>6 DEF S
<1>2. RaceInv => ListsInitialized
  BY <1>1 DEF ListsInitialized
<1> QED
  BY <1>2, RaceInvariance, PTL
=============================================================================
