---------------------------- MODULE SlotsProofs ----------------------------
(***************************************************************************)
(* Proofs about MessageSlot when ioctls exclude all other calls: no file   *)
(* uses a freed NODE, reads never return uninitialised memory, every       *)
(* channel has one NODE and the clients of SlotClients read what they were *)
(* promised; and when no calls overlap the driver implements Slots.        *)
(***************************************************************************)
EXTENDS MessageSlotProofs, SlotClients

Alone == \A f, g \in File : f # g /\ call[f].op = "ioctl" => call[g] = Idle

(***************************************************************************)
(* NODEs that have been filled in are the channels of a minor; what lies   *)
(* below their msg_len has been stored.                                    *)
(***************************************************************************)
Reach(m) == IF loaded THEN InList(m) ELSE {}
Filled(n) == node[n].msg_len # Garbage
Channels(m) == {n \in Reach(m) : Filled(n)}

Stored(n, k) == \A j \in 0 .. k - 1 : node[n].channel[j] # Garbage

Clean ==
    \A n \in NodeRef : node[n] # Null /\ Filled(n) =>
        node[n].channel_id # Garbage /\ node[n].next # Garbage /\ Stored(n, node[n].msg_len)

\* What an open file knows.
Uses(f) ==
    /\ Target(f) # Null => Target(f) \in Channels(minor(f))
    /\ At(f, "write") => Stored(Target(f), call[f].i)
    /\ call[f].op = "read" => \A j \in 1 .. Len(call[f].out) : call[f].out[j] # Garbage

\* The pointer behind which a NODE is put, and what is there while it is filled in.
Cell(f) == IF call[f].curr = Null THEN devices[minor(f)] ELSE node[call[f].curr].next
FillPc == {"check", "id", "clear", "len"}

Stage(f) ==
    /\ At(f, "head") => call[f].curr = Null
    /\ At(f, "first") => devices[minor(f)] # Null
    /\ call[f].pc \in {"next", "walk", "advance"} => call[f].curr \in Channels(minor(f))
    /\ At(f, "walk") => call[f].next = node[call[f].curr].next
    /\ At(f, "advance") => node[call[f].curr].next # Null
    /\ call[f].pc \in {"alloc", "take"} \cup FillPc /\ call[f].curr # Null
           => call[f].curr \in Channels(minor(f))
    /\ At(f, "alloc") => Cell(f) = Null
    /\ call[f].pc \in FillPc /\ Cell(f) # Null => Cell(f) \in NodeRef /\ ~Filled(Cell(f))
    /\ call[f].pc \in {"check", "id", "clear"} /\ Cell(f) # Null => node[Cell(f)].next = Garbage
    /\ call[f].pc \in {"id", "clear", "len", "take"} => Cell(f) \in NodeRef
    /\ call[f].pc \in {"clear", "len", "take"} => node[Cell(f)].channel_id = call[f].id % 2^Width
    /\ call[f].pc \in {"len", "take"} => node[Cell(f)].next = Null
    /\ At(f, "take") => node[Cell(f)].msg_len = 0

\* Only the NODE of an ioctl in progress is not filled in.
Complete ==
    \A m \in Minor : \A n \in Reach(m) :
        Filled(n) \/ \E f \in File : call[f].pc \in FillPc /\ Cell(f) = n

CleanInv ==
    /\ RaceInv /\ Alone /\ Clean /\ Complete
    /\ \A f \in File : Uses(f) /\ Stage(f)

-----------------------------------------------------------------------------
(***************************************************************************)
(* Ioctls exclude all calls                                                *)
(***************************************************************************)
\* A call starts only if no ioctl is in progress, and an ioctl only if no call is.
LEMMA Starts ==
    ASSUME CallInv, "ioctl" \notin Overlapping, NEW f \in File, NEW op, MayStart(f, op),
           NEW g \in File
    PROVE  /\ call[g].op # "ioctl"
           /\ op = "ioctl" => call[g] = Idle
<1>1. call[g] # Idle => op \in Overlapping /\ call[g].op \in Overlapping
  BY DEF MayStart
<1>2. Idle.op = "none"
  BY DEF Idle
<1> QED
  BY <1>1, <1>2

\* A step of one file leaves the others alone.
LEMMA StepOnly ==
    ASSUME TypeOK, CallInv, FileInv, NEW f \in File, Step(f)
    PROVE  OnlyFile(f) /\ loaded' = loaded
<1>1. CASE device_open(f)
  BY <1>1 DEF OnlyFile, device_open, memVars, histVars, TypeOK
<1>2. CASE device_release(f)
  BY <1>2 DEF OnlyFile, device_release, TypeOK
<1>3. CASE Quiet(f)
  <2>1. UNCHANGED <<loaded, file, asked>>
    BY <1>3, QuietSame
  <2>2. PICK c : call' = [call EXCEPT ![f] = c]
    <3>1. CASE Begins(f)
      BY <3>1 DEF Begins, Ioctl, Write, Read, Return
    <3>2. CASE Looks(f)
      BY <3>2, Zenon DEF Looks, ReadHead, First, LoadNext, Differs, Advance, Check, ReadExists, ReadFits,
           ReadByte, ReadEnd, Oops, Return, Continue
    <3> QED
      BY <1>3, <3>1, <3>2 DEF Quiet
  <2> QED
    BY <2>1, <2>2 DEF OnlyFile, CallInv
<1>4. CASE Settles(f)
  BY <1>4, Settled DEF SetTo, Return, OnlyFile, TypeOK, CallInv
<1>5. CASE Alloc(f)
  BY <1>5, Allocated DEF OnlyFile, CallInv
<1>6. CASE Fills(f)
  BY <1>6, NodeFilled DEF Fills, SetId, SetNext, SetLen, Continue, OnlyFile, CallInv
<1>7. CASE Stores(f)
  BY <1>7 DEF Stores, WriteByte, WriteEnd, Return, OnlyFile, CallInv
<1> QED
  BY <1>1, <1>2, <1>3, <1>4, <1>5, <1>6, <1>7, Kinds

\* What a call does once it has started.
LEMMA GoesOn ==
    ASSUME TypeOK, CallInv, FileInv, NEW f \in File, Step(f)
    PROVE  \/ call' = call /\ (device_open(f) \/ device_release(f))
           \/ Begins(f)
           \/ call[f] # Idle /\ (call'[f] = Idle \/ call'[f].op = call[f].op)
<1>1. CASE device_open(f) \/ device_release(f)
  BY <1>1 DEF device_open, device_release
<1>2. CASE Looks(f)
  <2>1. call[f].pc \in IoctlPc \cup ReadPc \cup {"write"}
    BY <1>2, LooksFrom
  <2>2. call[f] # Idle
    BY <2>1 DEF IoctlPc, ReadPc, Idle
  <2>3. CASE \E value : Return(f, value)
    BY <2>2, <2>3 DEF Return, CallInv
  <2>4. CASE ~ \E value : Return(f, value)
    <3>1. CASE call[f].pc \in IoctlPc
      BY <1>2, <2>2, <2>4, <3>1, Moves, Busy DEF CallInv, IoctlCall
    <3>2. CASE call[f].pc \in ReadPc
      <4>1. call[f] \in ReadCall
        BY <3>2, Calls
      <4>2. \/ \E to : call' = [call EXCEPT ![f].pc = to]
            \/ \E out : call' = [call EXCEPT ![f].out = out]
        BY <1>2, <2>4, <3>2 DEF Looks, ReadExists, ReadFits, ReadByte, ReadEnd, Oops,
           ReadHead, First, LoadNext, Differs, Advance, Check, At, ReadPc, Continue
      <4> QED
        BY <2>2, <4>1, <4>2 DEF CallInv, ReadCall
    <3>3. CASE call[f].pc = "write"
      BY <1>2, <2>4, <3>3 DEF Looks, ReadHead, First, LoadNext, Differs, Advance, Check, ReadExists,
         ReadFits, ReadByte, ReadEnd, Oops, At
    <3> QED
      BY <2>1, <3>1, <3>2, <3>3
  <2> QED
    BY <2>3, <2>4
<1>3. CASE Settles(f)
  BY <1>3, Settled, Calls DEF SetTo, Return, CallInv, Idle, IoctlPc
<1>4. CASE Alloc(f)
  BY <1>4, Allocated, Busy DEF CallInv, IoctlCall, Idle
<1>5. CASE Fills(f)
  BY <1>5, NodeFilled, Busy DEF Fills, SetId, SetNext, SetLen, Continue, CallInv, IoctlCall, Idle
<1>6. CASE Stores(f)
  <2>1. call[f] \in WriteCall /\ call[f] # Idle
    BY <1>6, Calls DEF Stores, WriteByte, WriteEnd, WriteCall, Idle
  <2>2. \/ \E value : Return(f, value)
        \/ call' = [call EXCEPT ![f].i = call[f].i + 1]
    BY <1>6 DEF Stores, WriteByte, WriteEnd
  <2> QED
    BY <2>1, <2>2 DEF Return, CallInv, WriteCall
<1> QED
  BY <1>1, <1>2, <1>3, <1>4, <1>5, <1>6, Kinds DEF Quiet

LEMMA AloneStep ==
    TypeOK /\ CallInv /\ FileInv /\ Alone /\ "ioctl" \notin Overlapping /\ [Next]_vars => Alone'
<1> SUFFICES ASSUME TypeOK, CallInv, FileInv, Alone, "ioctl" \notin Overlapping, [Next]_vars
             PROVE  Alone'
  OBVIOUS
<1>1. CASE msgslot_init \/ msgslot_exit \/ UNCHANGED vars
  BY <1>1 DEF msgslot_init, msgslot_exit, vars, Alone
<1>2. ASSUME NEW f \in File, Step(f) PROVE Alone'
  <2>1. OnlyFile(f)
    BY <1>2, StepOnly
  <2>2. Idle.op = "none"
    BY DEF Idle
  <2>3. CASE call' = call
    BY <2>3 DEF Alone
  <2>4. CASE call[f] # Idle /\ (call'[f] = Idle \/ call'[f].op = call[f].op)
    BY <2>1, <2>2, <2>4 DEF Alone, OnlyFile
  <2>5. CASE Begins(f)
    <3>1. PICK op : MayStart(f, op) /\ (call'[f] = Idle \/ call'[f].op = op)
      BY <2>5 DEF Begins, Ioctl, Write, Read, Return, CallInv
    <3>2. \A g \in File : call[g].op # "ioctl" /\ (op = "ioctl" => call[g] = Idle)
      BY <3>1, Starts
    <3> QED
      BY <2>1, <2>2, <3>1, <3>2 DEF Alone, OnlyFile
  <2> QED
    BY <1>2, <2>3, <2>4, <2>5, GoesOn
<1> QED
  BY <1>1, <1>2 DEF Next

\* While one file is in an ioctl, others only come and go.
LEMMA OthersStill ==
    ASSUME TypeOK, CallInv, FileInv, Alone, "ioctl" \notin Overlapping,
           NEW f \in File, Step(f), NEW g \in File \ {f}, call[g].op = "ioctl"
    PROVE  UNCHANGED <<loaded, devices, node, call, sent>> /\ file'[g] = file[g]
<1>1. call[f] = Idle
  BY DEF Alone
<1>2. ~Begins(f)
  <2>1. ASSUME NEW op, MayStart(f, op) PROVE FALSE
    BY <2>1, Starts
  <2> QED
    BY <2>1 DEF Begins, Ioctl, Write, Read
<1>3. device_open(f) \/ device_release(f)
  BY <1>1, <1>2, GoesOn
<1> QED
  BY <1>3 DEF device_open, device_release, memVars, histVars, TypeOK

-----------------------------------------------------------------------------
(***************************************************************************)
(* What a call works on                                                    *)
(***************************************************************************)
LEMMA ChannelUsed ==
    ASSUME TypeOK, Linked, NEW m \in Minor, NEW n \in Channels(m)
    PROVE  /\ loaded /\ n \in InList(m) /\ n \in NodeRef /\ node[n] # Null /\ InUse(n)
           /\ node[n] \in NodeType /\ Filled(n) /\ n # Null
<1>1. loaded /\ n \in InList(m) /\ Filled(n)
  BY DEF Channels, Reach
<1>2. n \in NodeRef /\ node[n] # Null
  BY <1>1, ListUsed
<1> QED
  BY <1>1, <1>2, SlotAssumption DEF InUse, TypeOK

LEMMA TargetNode ==
    ASSUME RaceInv, NEW f \in File, Uses(f), Target(f) # Null
    PROVE  /\ IsOpen(f) /\ loaded /\ minor(f) \in Minor /\ Target(f) \in Channels(minor(f))
           /\ Target(f) \in NodeRef /\ node[Target(f)] # Null /\ InUse(Target(f))
           /\ node[Target(f)] \in NodeType /\ Filled(Target(f))
<1>1. IsOpen(f)
  BY DEF IsOpen, Closed, Target
<1>2. minor(f) \in Minor /\ Target(f) \in Channels(minor(f))
  BY <1>1, OpenFile DEF RaceInv, Uses
<1> QED
  BY <1>1, <1>2, ChannelUsed DEF RaceInv

LEMMA CurrNode ==
    ASSUME RaceInv, NEW f \in File, Stage(f), call[f].pc \in IoctlPc \ {"head", "first"},
           call[f].curr # Null \/ call[f].pc \in {"next", "walk", "advance"}
    PROVE  /\ minor(f) \in Minor /\ call[f].curr \in Channels(minor(f))
           /\ call[f].curr \in InList(minor(f)) /\ call[f].curr \in NodeRef
           /\ node[call[f].curr] # Null /\ InUse(call[f].curr) /\ call[f].curr # Null
           /\ node[call[f].curr] \in NodeType /\ Filled(call[f].curr)
<1>1. minor(f) \in Minor
  BY Busy DEF RaceInv
<1>2. call[f].curr \in Channels(minor(f))
  BY DEF Stage, IoctlPc, FillPc
<1> QED
  BY <1>1, <1>2, ChannelUsed DEF RaceInv

LEMMA CellLoad ==
    ASSUME RaceInv, Clean, NEW f \in File, Stage(f),
           call[f].pc \in IoctlPc \ {"head", "first"}
    PROVE  /\ Shared(f) = {Cell(f)} /\ Cell(f) \in NodeRef \cup {Null}
           /\ Cell(f) \in NodeRef => /\ Cell(f) \in InList(minor(f)) /\ Cell(f) \in Reach(minor(f))
                                     /\ InUse(Cell(f)) /\ node[Cell(f)] \in NodeType
                                     /\ Cell(f) # Null /\ LinkTo(f, Cell(f))
<1>1. loaded /\ minor(f) \in Minor /\ call[f].op = "ioctl" /\ call[f].curr \in Pointer
  BY Busy DEF RaceInv
<1>2. CASE call[f].curr = Null
  <2>1. Shared(f) = {Cell(f)} /\ Cell(f) = devices[minor(f)] /\ Cell(f) \in NodeRef \cup {Null}
    BY <1>1, <1>2 DEF Shared, Cell, RaceInv, TypeOK
  <2>2. ASSUME Cell(f) \in NodeRef
        PROVE  Cell(f) \in InList(minor(f)) /\ LinkTo(f, Cell(f)) /\ Cell(f) # Null
    BY <1>1, <1>2, <2>1, <2>2, ListHead, SlotAssumption DEF LinkTo, Heads
  <2> QED
    BY <1>1, <2>1, <2>2, ListUsed DEF RaceInv, Reach, InUse, TypeOK
<1>3. CASE call[f].curr # Null
  <2>1. /\ call[f].curr \in InList(minor(f)) /\ call[f].curr \in NodeRef /\ InUse(call[f].curr)
        /\ node[call[f].curr] # Null /\ node[call[f].curr] \in NodeType /\ Filled(call[f].curr)
    BY <1>3, CurrNode
  <2>2. node[call[f].curr].next # Garbage /\ node[call[f].curr].next \in Pointer
    BY <2>1 DEF Clean, NodeType
  <2>3. Shared(f) = {Cell(f)} /\ Cell(f) = node[call[f].curr].next /\ Cell(f) \in NodeRef \cup {Null}
    BY <1>3, <2>1, <2>2 DEF Shared, Cell, NextOf, Pointer
  <2>4. ASSUME Cell(f) \in NodeRef
        PROVE  Cell(f) \in InList(minor(f)) /\ LinkTo(f, Cell(f)) /\ Cell(f) # Null
    BY <1>1, <2>1, <2>3, <2>4, ListNext, SlotAssumption DEF LinkTo, Preds
  <2> QED
    BY <1>1, <2>3, <2>4, ListUsed DEF RaceInv, Reach, InUse, TypeOK
<1> QED
  BY <1>2, <1>3

\* No pointer is followed that leads nowhere.
LEMMA NoOops ==
    ASSUME CleanInv, NEW f \in File
    PROVE  ~Oops(f)
<1> SUFFICES ASSUME NEW p \in Followed(f), ~InUse(p) PROVE FALSE
  BY DEF Oops
<1>0. RaceInv /\ Stage(f) /\ Uses(f) /\ CallInv /\ Clean
  BY DEF CleanInv, RaceInv
<1>1. CASE call[f].pc \in {"next", "walk", "advance"}
  <2>0. call[f].op = "ioctl"
    BY <1>0, <1>1, Calls DEF IoctlPc
  <2>1. p = call[f].curr
    BY <1>1, <2>0 DEF Followed
  <2> QED
    BY <1>0, <1>1, <2>1, CurrNode DEF IoctlPc
<1>2. CASE call[f].pc \in {"alloc", "check", "take"}
  <2>1. call[f].op = "ioctl"
    BY <1>0, <1>2, Calls DEF IoctlPc
  <2>2. p = call[f].curr /\ call[f].curr # Null
    BY <1>2, <2>1 DEF Followed
  <2> QED
    BY <1>0, <1>2, <2>2, CurrNode DEF IoctlPc
<1>3. CASE call[f].pc \in {"id", "clear", "len"}
  <2>1. call[f].op = "ioctl"
    BY <1>0, <1>3, Calls DEF IoctlPc
  <2>2. p \in Shared(f) \/ (p = call[f].curr /\ call[f].curr # Null)
    BY <1>3, <2>1 DEF Followed
  <2>3. Shared(f) = {Cell(f)} /\ InUse(Cell(f))
    BY <1>0, <1>3, CellLoad DEF IoctlPc, Stage
  <2> QED
    BY <1>0, <1>3, <2>2, <2>3, CurrNode DEF IoctlPc
<1>4. CASE call[f].pc \notin IoctlPc
  <2>1. call[f].op # "ioctl"
    BY <1>0, <1>4, Calls
  <2>2. call[f].op \in {"write", "read"} /\ p = Target(f)
    BY <1>4, <2>1 DEF Followed, IoctlPc
  <2>3. Target(f) # Null
    BY <1>0, <2>2 DEF CallInv, CallOf
  <2> QED
    BY <1>0, <2>2, <2>3, TargetNode
<1>5. CASE call[f].pc \in {"head", "first"}
  <2>1. call[f].op = "ioctl"
    BY <1>0, <1>5, Calls DEF IoctlPc
  <2> QED
    BY <1>5, <2>1 DEF Followed
<1> QED
  BY <1>1, <1>2, <1>3, <1>4, <1>5 DEF IoctlPc

-----------------------------------------------------------------------------
(***************************************************************************)
(* How lists grow                                                          *)
(***************************************************************************)
LEMMA ListLater ==
    ASSUME NEW m, NEW S \in SUBSET NodeRef, devices'[m] \in NodeRef => devices'[m] \in S,
           \A p \in S : node'[p] # Null /\ node'[p].next \in NodeRef => node'[p].next \in S
    PROVE  InList(m)' \subseteq S
BY DEF InList

LEMMA ListGrows ==
    ASSUME NEW m, devices[m] \in NodeRef => devices'[m] = devices[m],
           \A p \in NodeRef : node[p] # Null /\ node[p].next \in NodeRef =>
               node'[p] # Null /\ node'[p].next = node[p].next
    PROVE  InList(m) \subseteq InList(m)'
<1> SUFFICES ASSUME NEW n \in InList(m), NEW S \in SUBSET NodeRef,
                    devices'[m] \in NodeRef => devices'[m] \in S,
                    \A p \in S : node'[p] # Null /\ node'[p].next \in NodeRef => node'[p].next \in S
             PROVE  n \in S
  BY DEF InList
<1>1. devices[m] \in NodeRef => devices[m] \in S
  OBVIOUS
<1>2. \A p \in S : node[p] # Null /\ node[p].next \in NodeRef => node[p].next \in S
  OBVIOUS
<1> QED
  BY <1>1, <1>2, ListLeast

LEMMA ListSame ==
    ASSUME NEW m, devices' = devices,
           \A p \in NodeRef : /\ node'[p] = Null <=> node[p] = Null
                              /\ node[p] # Null => \/ node'[p].next = node[p].next
                                                   \/ {node'[p].next, node[p].next} \cap NodeRef = {}
    PROVE  InList(m)' = InList(m)
<1>1. InList(m) \subseteq InList(m)'
  BY ListGrows
<1>2. InList(m) \in SUBSET NodeRef /\ (devices[m] \in NodeRef => devices[m] \in InList(m))
  BY ListHead DEF InList
<1>3. ASSUME NEW p \in InList(m), node'[p] # Null, node'[p].next \in NodeRef
      PROVE  node'[p].next \in InList(m)
  BY <1>2, <1>3, ListNext
<1>4. InList(m)' \subseteq InList(m)
  BY <1>2, <1>3, ListLater
<1> QED
  BY <1>1, <1>4

\* A NODE that is allocated joins the end of the list.
LEMMA ListAlloc ==
    ASSUME CleanInv, NEW f \in File, Alloc(f)
    PROVE  /\ Cell(f) = Null /\ loaded /\ minor(f) \in Minor
           /\ \A n \in NodeRef : node[n] # Null =>
                 /\ node'[n] # Null /\ node'[n].channel_id = node[n].channel_id
                 /\ node'[n].next = Garbage => node[n].next = Garbage
                 /\ node'[n].msg_len = node[n].msg_len /\ node'[n].channel = node[n].channel
           /\ \E p \in NodeRef \cup {Null} :
                 /\ p = Cell(f)'
                 /\ \A m \in Minor : /\ InList(m) \subseteq InList(m)'
                                     /\ InList(m)' \subseteq InList(m) \cup {p}
                 /\ p \in NodeRef => node[p] = Null /\ node'[p] # Null /\ node'[p].msg_len = Garbage
                                                    /\ node'[p].next = Garbage
                 /\ \A n \in NodeRef : node'[n] # Null => node[n] # Null \/ n = p
<1>0. /\ RaceInv /\ Stage(f) /\ TypeOK /\ Clean /\ Linked /\ At(f, "alloc")
      /\ call[f].pc \in IoctlPc /\ CallInv /\ FileInv
  BY Allocated DEF CleanInv, RaceInv
<1>1. /\ Cell(f) = Null /\ loaded /\ minor(f) \in Minor /\ loaded' = loaded
      /\ call[f] \in IoctlCall /\ call[f].curr \in Pointer
      /\ call'[f] = [call[f] EXCEPT !.pc = "check"] /\ minor(f)' = minor(f)
  BY <1>0, Allocated, Busy DEF Stage, minor, CallInv
<1>2. PICK p \in NodeRef \cup {Null}, nd \in [NodeRef -> NodeType \cup {Null}] : AllocatedIn(f, p, nd)
  BY <1>0, Allocated
<1>3. /\ p \in NodeRef => node[p] = Null /\ nd[p] = Fresh
      /\ \A n \in NodeRef : n # p => nd[n] = node[n]
      /\ \A n \in NodeRef : node[n] # Null => n # p /\ nd[n] = node[n]
      /\ p \notin NodeRef => p = Null
  BY <1>0, <1>2, SlotAssumption DEF AllocatedIn, Unallocated, TypeOK
<1>4. Fresh # Null /\ Fresh.channel_id = Garbage /\ Fresh.next = Garbage /\ Fresh.msg_len = Garbage
  BY FreshType
<1>5. call'[f].curr = call[f].curr
  BY <1>1 DEF IoctlCall
<1>6. CASE call[f].curr = Null
  <2>1. devices' = [devices EXCEPT ![minor(f)] = p] /\ node' = nd /\ devices[minor(f)] = Null
    BY <1>1, <1>2, <1>6, SlotAssumption DEF AllocatedIn, Cell
  <2>2. p = Cell(f)' /\ devices'[minor(f)] = p /\ \A m \in Minor \ {minor(f)} : devices'[m] = devices[m]
    BY <1>0, <1>1, <1>5, <1>6, <2>1 DEF Cell, TypeOK
  <2>3. ASSUME NEW m \in Minor
        PROVE  InList(m) \subseteq InList(m)' /\ InList(m)' \subseteq InList(m) \cup {p}
    <3>1. InList(m) \subseteq InList(m)'
      BY <1>3, <2>1, <2>2, ListGrows, SlotAssumption
    <3> DEFINE S == InList(m) \cup ({p} \cap NodeRef)
    <3>2. S \in SUBSET NodeRef /\ (devices'[m] \in NodeRef => devices'[m] \in S)
      BY <2>2, ListHead DEF InList
    <3>3. ASSUME NEW q \in S, node'[q] # Null, node'[q].next \in NodeRef PROVE node'[q].next \in S
      BY <1>3, <1>4, <2>1, <3>2, <3>3, ListNext, SlotAssumption
    <3> HIDE DEF S
    <3>4. InList(m)' \subseteq S
      BY <3>2, <3>3, ListLater
    <3> QED
      BY <3>1, <3>4 DEF S
  <2> QED
    BY <1>1, <1>3, <1>4, <2>1, <2>2, <2>3
<1>7. CASE call[f].curr # Null
  <2>1. PICK c \in NodeRef : /\ c = call[f].curr /\ node[c] # Null /\ node[c] \in NodeType
                             /\ node[c].next = Null /\ c \in InList(minor(f))
    BY <1>0, <1>1, <1>7, CurrNode DEF Cell, At, IoctlPc
  <2>2. nd[c] = node[c] /\ devices' = devices
    BY <1>2, <1>3, <1>7, <2>1 DEF AllocatedIn
  <2>3. PICK r \in NodeType : r = [node[c] EXCEPT !.next = p] /\ node' = [nd EXCEPT ![c] = r]
    BY <1>2, <1>7, <2>1, <2>2 DEF AllocatedIn
  <2>4. /\ r.next = p /\ r.channel_id = node[c].channel_id /\ r.msg_len = node[c].msg_len
        /\ r.channel = node[c].channel /\ r # Null
    BY <2>1, <2>3, NullAssumption DEF NodeType
  <2>5. node'[c] = r /\ \A n \in NodeRef : n # c => node'[n] = nd[n]
    BY <2>3
  <2>6. p = Cell(f)'
    BY <1>5, <1>7, <2>1, <2>4, <2>5 DEF Cell
  <2>7. ASSUME NEW m \in Minor
        PROVE  InList(m) \subseteq InList(m)' /\ InList(m)' \subseteq InList(m) \cup {p}
    <3>1. \A q \in NodeRef : node[q] # Null /\ node[q].next \in NodeRef =>
               node'[q] # Null /\ node'[q].next = node[q].next
      BY <1>3, <2>1, <2>5, SlotAssumption
    <3>2. InList(m) \subseteq InList(m)'
      BY <2>2, <3>1, ListGrows
    <3> DEFINE S == InList(m) \cup ({p} \cap NodeRef)
    <3>3. S \in SUBSET NodeRef /\ (devices'[m] \in NodeRef => devices'[m] \in S)
      BY <2>2, ListHead DEF InList
    <3>4. ASSUME NEW q \in S, node'[q] # Null, node'[q].next \in NodeRef PROVE node'[q].next \in S
      <4>1. CASE q = c
        BY <2>4, <2>5, <3>4, <4>1
      <4>2. CASE q # c /\ q = p
        <5>1. q \in NodeRef
          BY <3>3, <3>4
        <5> QED
          BY <1>3, <1>4, <2>5, <3>4, <4>2, <5>1, SlotAssumption
      <4>3. CASE q # c /\ q # p
        <5>1. q \in InList(m) /\ q \in NodeRef /\ node'[q] = node[q]
          BY <1>3, <2>5, <3>3, <4>3
        <5> QED
          BY <3>4, <5>1, ListNext
      <4> QED
        BY <4>1, <4>2, <4>3
    <3> HIDE DEF S
    <3>5. InList(m)' \subseteq S
      BY <3>3, <3>4, ListLater
    <3> QED
      BY <3>2, <3>5 DEF S
  <2>8. ASSUME NEW n \in NodeRef, node[n] # Null
        PROVE  /\ node'[n] # Null /\ node'[n].channel_id = node[n].channel_id
               /\ node'[n].next = Garbage => node[n].next = Garbage
               /\ node'[n].msg_len = node[n].msg_len /\ node'[n].channel = node[n].channel
    BY <1>3, <2>4, <2>5, <2>8, SlotAssumption
  <2>9. \A n \in NodeRef : node'[n] # Null => node[n] # Null \/ n = p
    BY <1>3, <2>1, <2>5
  <2>10. p \in NodeRef => node[p] = Null /\ node'[p] # Null /\ node'[p].msg_len = Garbage
                          /\ node'[p].next = Garbage
    BY <1>3, <1>4, <2>1, <2>5
  <2> QED
    BY <1>1, <2>6, <2>7, <2>8, <2>9, <2>10
<1> QED
  BY <1>6, <1>7

-----------------------------------------------------------------------------
(***************************************************************************)
(* What a step does to the channels                                        *)
(***************************************************************************)
Keeps(n) ==
    /\ node'[n] # Null /\ node'[n].msg_len # Garbage
    /\ node'[n].channel_id = node[n].channel_id
    /\ node[n].next # Garbage => node'[n].next # Garbage
    /\ \A j \in 0 .. BUF_LEN - 1 : node[n].channel[j] # Garbage => node'[n].channel[j] # Garbage
SameData(n) == node'[n].msg_len = node[n].msg_len /\ node'[n].channel = node[n].channel

\* NODEs that are filled in keep their channel, and one that is being filled in joins
\* them; only writes change messages.
Effect(f) ==
    /\ \A n \in NodeRef : node[n] # Null /\ Filled(n) => Keeps(n)
    /\ \A m \in Minor : Channels(m) \subseteq Channels(m)'
    /\ \A m \in Minor : \A n \in Channels(m)' :
           n \in Channels(m) \/ (SetLen(f) /\ m = minor(f) /\ n = Cell(f))
    /\ Stores(f) \/ \A n \in NodeRef : node[n] # Null /\ Filled(n) => SameData(n)
    /\ Clean'

LEMMA EffectSame ==
    ASSUME CleanInv, NEW f \in File, UNCHANGED <<loaded, devices, node>>
    PROVE  Effect(f)
<1>1. \A m \in Minor : InList(m)' = InList(m)
  BY ListSame
<1>2. \A m \in Minor : Channels(m)' = Channels(m)
  BY <1>1 DEF Channels, Reach, Filled
<1>3. Clean'
  BY DEF CleanInv, Clean, Filled, Stored
<1> QED
  BY <1>2, <1>3 DEF Effect, Keeps, SameData, Filled

LEMMA EffectAlloc ==
    ASSUME CleanInv, NEW f \in File, Alloc(f)
    PROVE  Effect(f)
<1>0. loaded /\ loaded' /\ Linked /\ Clean
  BY ListAlloc DEF CleanInv, RaceInv, Alloc
<1>1. \A n \in NodeRef : node[n] # Null =>
                 /\ node'[n] # Null /\ node'[n].channel_id = node[n].channel_id
                 /\ node'[n].next = Garbage => node[n].next = Garbage
                 /\ node'[n].msg_len = node[n].msg_len /\ node'[n].channel = node[n].channel
  BY ListAlloc
<1>2. PICK p \in NodeRef \cup {Null} :
                 /\ \A m \in Minor : /\ InList(m) \subseteq InList(m)'
                                     /\ InList(m)' \subseteq InList(m) \cup {p}
                 /\ p \in NodeRef => node[p] = Null /\ node'[p] # Null /\ node'[p].msg_len = Garbage
                 /\ \A n \in NodeRef : node'[n] # Null => node[n] # Null \/ n = p
  BY ListAlloc
<1>3. \A m \in Minor : InList(m) \subseteq {n \in NodeRef : node[n] # Null} /\ InList(m)' \subseteq NodeRef
  BY <1>0, ListUsed DEF InList
<1>4. \A m \in Minor : Channels(m)' = Channels(m)
  BY <1>0, <1>1, <1>2, <1>3 DEF Channels, Reach, Filled
<1>5. Clean'
  BY <1>0, <1>1, <1>2 DEF Clean, Filled, Stored
<1> QED
  BY <1>1, <1>4, <1>5 DEF Effect, Keeps, SameData, Filled

\* The NODE that is filled in.
LEMMA FillsCell ==
    ASSUME CleanInv, NEW f \in File, Fills(f)
    PROVE  /\ loaded /\ minor(f) \in Minor
           /\ \E n \in NodeRef, r \in NodeType :
                 /\ n = Cell(f) /\ n = Cell(f)' /\ n \in InList(minor(f))
                 /\ node[n] \in NodeType /\ node[n] # Null /\ ~Filled(n)
                 /\ node' = [node EXCEPT ![n] = r] /\ r # Null /\ FilledBy(f, n, r)
           /\ \A m \in Minor : InList(m)' = InList(m)
<1>0. RaceInv /\ Stage(f) /\ Clean /\ TypeOK /\ CallInv /\ FileInv
  BY DEF CleanInv, RaceInv
<1>1. /\ UNCHANGED <<loaded, devices, file>> /\ call[f].pc \in {"id", "clear", "len"}
      /\ call[f].pc \in IoctlPc
  BY <1>0, NodeFilled
<1>2. /\ Shared(f) = {Cell(f)} /\ Cell(f) \in InList(minor(f)) /\ InUse(Cell(f))
      /\ node[Cell(f)] \in NodeType /\ loaded /\ minor(f) \in Minor
      /\ ~Filled(Cell(f)) /\ Cell(f) \in NodeRef /\ call[f] \in IoctlCall
  BY <1>0, <1>1, CellLoad, Busy, SlotAssumption DEF Stage, IoctlPc, FillPc
<1>3. PICK n \in NodeRef, r \in NodeType :
          n = Cell(f) /\ node' = [node EXCEPT ![n] = r] /\ FilledBy(f, n, r)
  BY <1>0, <1>2, NodeFilled
<1>4. node'[n] = r /\ \A p \in NodeRef \ {n} : node'[p] = node[p]
  BY <1>0, <1>3 DEF TypeOK
<1>5. r # Null /\ node[n] # Null
  BY <1>2, <1>3, NullAssumption DEF InUse
<1>6. \E c \in IoctlCall : call' = [call EXCEPT ![f] = c] /\ c.curr = call[f].curr
  <2>1. PICK to \in IoctlPc : Continue(f, to)
    BY DEF Fills, SetId, SetNext, SetLen, IoctlPc
  <2>2. [call[f] EXCEPT !.pc = to] \in IoctlCall /\ [call[f] EXCEPT !.pc = to].curr = call[f].curr
    BY <1>2 DEF IoctlCall
  <2> QED
    BY <2>1, <2>2 DEF Continue
<1>7. call'[f].curr = call[f].curr
  BY <1>0, <1>6 DEF CallInv
<1>8. n = Cell(f)'
  <2>1. CASE call[f].curr = Null
    BY <1>1, <1>3, <1>7, <2>1 DEF Cell, minor
  <2>2. CASE call[f].curr # Null
    <3>1. call[f].curr \in NodeRef /\ Filled(call[f].curr)
      BY <1>0, <1>1, <2>2, CurrNode DEF IoctlPc
    <3> QED
      BY <1>2, <1>3, <1>4, <1>7, <2>2, <3>1 DEF Cell
  <2> QED
    BY <2>1, <2>2
<1>9. r.next = node[n].next \/ (node[n].next = Garbage /\ r.next = Null)
      \/ {r.next, node[n].next} \cap NodeRef = {}
  <2>1. CASE SetNext(f)
    <3>1. LinksFilled /\ LinkTo(f, n) /\ At(f, "clear")
      BY <1>0, <1>1, <1>3, <2>1, CellLoad, <1>2 DEF RaceInv, Linked, SetNext, IoctlPc
    <3>2. r.next = Null
      BY <1>2, <1>3, <1>1, <2>1, <3>1 DEF FilledBy, SetId, SetLen, At, NodeType
    <3>3. node[n].next \notin NodeRef
      BY <1>0, <1>2, <1>3, <3>1, SlotAssumption DEF Stage, At
    <3> QED
      BY <3>2, <3>3, SlotAssumption
  <2>2. CASE SetId(f) \/ SetLen(f)
    BY <1>2, <1>3, <2>2 DEF FilledBy, SetId, SetLen, SetNext, At, NodeType
  <2> QED
    BY <2>1, <2>2 DEF Fills
<1>10. \A m \in Minor : InList(m)' = InList(m)
  BY <1>1, <1>4, <1>5, <1>9, ListSame, SlotAssumption
<1> QED
  BY <1>2, <1>3, <1>5, <1>8, <1>10

LEMMA EffectFills ==
    ASSUME CleanInv, NEW f \in File, Fills(f)
    PROVE  Effect(f)
<1>0. RaceInv /\ Stage(f) /\ Clean /\ TypeOK /\ CallInv /\ FileInv /\ Linked
  BY DEF CleanInv, RaceInv
<1>1. PICK n \in NodeRef, r \in NodeType :
                 /\ n = Cell(f) /\ n \in InList(minor(f))
                 /\ node[n] \in NodeType /\ node[n] # Null /\ ~Filled(n)
                 /\ node' = [node EXCEPT ![n] = r] /\ r # Null /\ FilledBy(f, n, r)
  BY FillsCell
<1>2. loaded /\ loaded' /\ minor(f) \in Minor /\ \A m \in Minor : InList(m)' = InList(m)
  BY <1>0, FillsCell, NodeFilled
<1>3. node'[n] = r /\ \A p \in NodeRef \ {n} : node'[p] = node[p]
  BY <1>0, <1>1 DEF TypeOK
<1>4. \A m \in Minor : InList(m) \subseteq NodeRef /\ (m # minor(f) => n \notin InList(m))
  BY <1>0, <1>1, <1>2, ListsDisjoint DEF InList
<1>5. \A p \in NodeRef : node[p] # Null /\ Filled(p) => Keeps(p) /\ SameData(p)
  BY <1>1, <1>3 DEF Keeps, SameData, Filled
<1>6. r.msg_len = Garbage \/ SetLen(f)
  BY <1>1 DEF FilledBy, Filled, NodeType
<1>7. \A m \in Minor : Channels(m) \subseteq Channels(m)'
  BY <1>1, <1>2, <1>3, <1>4 DEF Channels, Reach, Filled
<1>8. \A m \in Minor : \A p \in Channels(m)' :
           p \in Channels(m) \/ (SetLen(f) /\ m = minor(f) /\ p = Cell(f))
  BY <1>1, <1>2, <1>3, <1>4, <1>6 DEF Channels, Reach, Filled
<1>9. Clean'
  <2>1. ASSUME r.msg_len # Garbage
        PROVE  r.channel_id # Garbage /\ r.next # Garbage /\ \A j \in 0 .. r.msg_len - 1 : FALSE
    <3>1. SetLen(f) /\ At(f, "len")
      BY <1>6, <2>1 DEF SetLen
    <3>2. r = [node[n] EXCEPT !.msg_len = 0]
      BY <1>1, <3>1 DEF FilledBy, SetId, SetNext, At
    <3>3. r.msg_len = 0 /\ r.channel_id = node[n].channel_id /\ r.next = node[n].next
      BY <1>1, <3>2 DEF NodeType
    <3>4. node[n].channel_id = call[f].id % 2^Width /\ node[n].next = Null
      BY <1>0, <1>1, <3>1 DEF Stage, At
    <3>5. call[f].id % 2^Width \in Nat
      BY <1>0, <3>1, Busy, IdType DEF At, IoctlPc
    <3> QED
      BY <3>3, <3>4, <3>5, SlotAssumption
  <2>2. \A p \in NodeRef : node'[p] # Null /\ node'[p].msg_len # Garbage =>
            /\ node'[p].channel_id # Garbage /\ node'[p].next # Garbage
            /\ \A j \in 0 .. node'[p].msg_len - 1 : node'[p].channel[j] # Garbage
    BY <1>0, <1>3, <2>1 DEF Clean, Filled, Stored
  <2> QED
    BY <2>2 DEF Clean, Filled, Stored
<1> QED
  BY <1>5, <1>7, <1>8, <1>9 DEF Effect

LEMMA EffectStores ==
    ASSUME CleanInv, NEW f \in File, Stores(f)
    PROVE  Effect(f) /\ \A m \in Minor : InList(m)' = InList(m)
<1>0. RaceInv /\ Uses(f) /\ Clean /\ TypeOK /\ CallInv
  BY DEF CleanInv, RaceInv
<1>1. loaded' = loaded /\ devices' = devices /\ At(f, "write")
  BY DEF Stores, WriteByte, WriteEnd
<1>2. PICK n \in NodeRef : /\ n = Target(f) /\ node[n] \in NodeType /\ node[n] # Null /\ InUse(n)
                           /\ Filled(n)
  BY <1>0, <1>1, TargetNode, WriteFacts
<1>3. call[f].i \in 0 .. BUF_LEN /\ Stored(n, call[f].i) /\ BUF_LEN \in Nat
  BY <1>0, <1>1, <1>2, WriteFacts DEF Uses
<1>4. PICK r \in NodeType :
          /\ node' = [node EXCEPT ![n] = r] /\ r.next = node[n].next
          /\ r.channel_id = node[n].channel_id
          /\ \A j \in 0 .. BUF_LEN - 1 : node[n].channel[j] # Garbage => r.channel[j] # Garbage
          /\ \/ r.msg_len = node[n].msg_len
             \/ r.msg_len = call[f].i /\ r.channel = node[n].channel
  <2>1. CASE WriteByte(f)
    <3>0. \E r \in NodeType : \E v \in Byte \cup {Zero} :
                    /\ node' = [node EXCEPT ![Target(f)] = r]
                    /\ r.next = node[Target(f)].next /\ r.channel_id = node[Target(f)].channel_id
                    /\ r.msg_len = node[Target(f)].msg_len
                    /\ r.channel = [node[Target(f)].channel EXCEPT ![call[f].i] = v]
      BY <1>0, <1>2, <2>1, ByteStored
    <3>1. PICK r \in NodeType, v \in Byte \cup {Zero} :
              /\ node' = [node EXCEPT ![n] = r] /\ r.next = node[n].next
              /\ r.channel_id = node[n].channel_id /\ r.msg_len = node[n].msg_len
              /\ r.channel = [node[n].channel EXCEPT ![call[f].i] = v]
      BY <1>2, <3>0
    <3>2. node[n].channel \in [0 .. BUF_LEN - 1 -> Byte \cup {Zero, Garbage}]
      BY <1>2 DEF NodeType
    <3>3. \A j \in 0 .. BUF_LEN - 1 : node[n].channel[j] # Garbage => r.channel[j] # Garbage
      BY <3>1, <3>2, SlotAssumption
    <3> QED
      BY <3>1, <3>3
  <2>2. CASE WriteEnd(f)
    BY <1>0, <1>2, <2>2, LengthStored
  <2> QED
    BY <2>1, <2>2 DEF Stores
<1>5. node'[n] = r /\ r # Null /\ \A p \in NodeRef \ {n} : node'[p] = node[p]
  BY <1>0, <1>2, <1>4, NullAssumption DEF TypeOK
<1>6. \A m \in Minor : InList(m)' = InList(m)
  BY <1>1, <1>2, <1>4, <1>5, ListSame
<1>7. r.msg_len # Garbage
  BY <1>2, <1>3, <1>4, SlotAssumption DEF Filled
<1>8. \A p \in NodeRef : node[p] # Null /\ Filled(p) => Keeps(p)
  BY <1>2, <1>4, <1>5, <1>7 DEF Keeps, Filled
<1>9. \A m \in Minor : InList(m) \subseteq NodeRef
  BY DEF InList
<1>10. \A m \in Minor : Channels(m)' = Channels(m)
  BY <1>1, <1>2, <1>5, <1>6, <1>7, <1>9 DEF Channels, Reach, Filled
<1>11. Clean'
  <2>1. node[n].msg_len \in 0 .. BUF_LEN /\ Stored(n, node[n].msg_len)
        /\ node[n].channel_id # Garbage /\ node[n].next # Garbage
    BY <1>0, <1>2 DEF Clean, Filled, NodeType
  <2>2. \A j \in 0 .. r.msg_len - 1 : r.channel[j] # Garbage
    BY <1>3, <1>4, <2>1 DEF Stored
  <2>3. \A p \in NodeRef : node'[p] # Null /\ node'[p].msg_len # Garbage =>
            /\ node'[p].channel_id # Garbage /\ node'[p].next # Garbage
            /\ \A j \in 0 .. node'[p].msg_len - 1 : node'[p].channel[j] # Garbage
    BY <1>0, <1>4, <1>5, <2>1, <2>2 DEF Clean, Filled, Stored
  <2> QED
    BY <2>3 DEF Clean, Filled, Stored
<1> QED
  BY <1>6, <1>8, <1>10, <1>11 DEF Effect

LEMMA EffectStep ==
    ASSUME CleanInv, NEW f \in File, Step(f)
    PROVE  Effect(f)
<1>0. TypeOK /\ CallInv /\ FileInv
  BY DEF CleanInv, RaceInv
<1>1. CASE device_open(f) \/ device_release(f)
  BY <1>1, EffectSame DEF device_open, device_release, memVars
<1>2. CASE Quiet(f)
  BY <1>2, QuietSame, EffectSame
<1>3. CASE Settles(f)
  BY <1>0, <1>3, Settled, EffectSame
<1> QED
  BY <1>1, <1>2, <1>3, EffectAlloc, EffectFills, EffectStores, Kinds

-----------------------------------------------------------------------------
(***************************************************************************)
(* What the calls know stays true                                          *)
(***************************************************************************)
\* An ioctl goes on at the same place in the list.
LEMMA IoctlHere ==
    ASSUME CallInv, NEW f \in File, call[f].pc \in IoctlPc, NEW to \in IoctlPc, Continue(f, to)
    PROVE  /\ call'[f].pc = to /\ call'[f].op = "ioctl" /\ call'[f].curr = call[f].curr
           /\ call'[f].id = call[f].id /\ call'[f].next = call[f].next
BY Calls DEF Continue, CallInv, IoctlCall

LEMMA CompleteStep ==
    ASSUME CleanInv, "ioctl" \notin Overlapping, NEW f \in File, Step(f)
    PROVE  Complete'
<1>0. /\ TypeOK /\ CallInv /\ FileInv /\ Alone /\ Complete /\ RaceInv /\ Clean /\ Stage(f)
      /\ OnlyFile(f) /\ loaded' = loaded
  BY StepOnly DEF CleanInv, RaceInv
<1>1. ASSUME NEW g \in File \ {f}, call[g].pc \in FillPc
      PROVE  /\ call'[g] = call[g] /\ Cell(g)' = Cell(g)
             /\ UNCHANGED <<devices, node>> /\ call[f] = Idle
  <2>1. call[g].op = "ioctl"
    BY <1>0, <1>1, Calls DEF FillPc, IoctlPc
  <2>2. UNCHANGED <<loaded, devices, node, call>> /\ file'[g] = file[g]
    BY <1>0, <2>1, OthersStill
  <2> QED
    BY <1>0, <2>1, <2>2 DEF Cell, minor, Alone
<1>2. ASSUME UNCHANGED <<devices, node>>,
             call[f].pc \in FillPc /\ Cell(f) # Null => call'[f].pc \in FillPc /\ Cell(f)' = Cell(f)
      PROVE  Complete'
  <2>1. \A m \in Minor : Reach(m)' = Reach(m)
    BY <1>0, <1>2, ListSame DEF Reach
  <2> SUFFICES ASSUME NEW m \in Minor, NEW n \in Reach(m), ~Filled(n)
               PROVE  \E g \in File : call'[g].pc \in FillPc /\ Cell(g)' = n
    BY <1>2, <2>1 DEF Complete, Filled
  <2>2. PICK g \in File : call[g].pc \in FillPc /\ Cell(g) = n
    BY <1>0 DEF Complete
  <2>3. n # Null
    BY SlotAssumption DEF Reach, InList
  <2> QED
    BY <1>1, <1>2, <2>2, <2>3
<1>3. CASE device_open(f) \/ device_release(f)
  <2>1. call[f].pc = "idle"
    BY <1>0, <1>3, Calls DEF device_open, device_release, Ready, Idle
  <2> QED
    BY <1>2, <1>3, <2>1 DEF device_open, device_release, memVars, FillPc
<1>4. CASE Quiet(f)
  <2>1. UNCHANGED <<devices, node, file>>
    BY <1>4, QuietSame
  <2>2. ASSUME call[f].pc \in FillPc, Cell(f) # Null
        PROVE  call'[f].pc \in FillPc /\ Cell(f)' = Cell(f)
    <3>1. Check(f)
      <4>1. ~Begins(f)
        BY <2>2 DEF Begins, Ioctl, Write, Read, MayStart, Ready, Idle, FillPc
      <4> QED
        BY <1>4, <2>2, <4>1, NoOops DEF Quiet, Looks, ReadHead, First, LoadNext, Differs, Advance,
           ReadExists, ReadFits, ReadByte, ReadEnd, At, FillPc
    <3>2. At(f, "check") /\ Shared(f) = {Cell(f)}
      BY <1>0, <3>1, CellLoad DEF Check, At, IoctlPc
    <3>3. Continue(f, "id")
      BY <2>2, <3>1, <3>2 DEF Check
    <3>4. call'[f].pc = "id" /\ call'[f].curr = call[f].curr
      BY <1>0, <3>2, <3>3, IoctlHere DEF At, IoctlPc
    <3> QED
      BY <2>1, <3>4 DEF FillPc, Cell, minor
  <2> QED
    BY <1>2, <2>1, <2>2
<1>5. CASE Settles(f)
  <2>1. UNCHANGED <<devices, node>> /\ call[f].pc \in {"walk", "take"}
    BY <1>0, <1>5, Settled
  <2> QED
    BY <1>2, <2>1 DEF FillPc
<1>6. CASE Alloc(f)
  <2>1. At(f, "alloc") /\ call'[f].pc = "check" /\ loaded /\ Linked
    BY <1>0, <1>6, ListAlloc, IoctlHere DEF Alloc, At, IoctlPc, RaceInv
  <2>2. PICK p \in NodeRef \cup {Null} :
                 /\ p = Cell(f)'
                 /\ \A m \in Minor : InList(m)' \subseteq InList(m) \cup {p}
    BY <1>6, ListAlloc
  <2>3. \A n \in NodeRef : node[n] # Null => node'[n].msg_len = node[n].msg_len
    BY <1>6, ListAlloc
  <2> SUFFICES ASSUME NEW m \in Minor, NEW n \in Reach(m)'
               PROVE  node'[n].msg_len # Garbage \/ \E g \in File : call'[g].pc \in FillPc /\ Cell(g)' = n
    BY DEF Complete, Filled
  <2>4. CASE n = p
    BY <2>1, <2>2, <2>4 DEF FillPc
  <2>5. CASE n \in InList(m)
    <3>1. n \in Reach(m) /\ n \in NodeRef /\ node[n] # Null
      BY <1>0, <2>1, <2>5, ListUsed DEF Reach
    <3>2. ASSUME ~Filled(n) PROVE FALSE
      <4>1. PICK g \in File : call[g].pc \in FillPc
        BY <1>0, <3>1, <3>2 DEF Complete
      <4> QED
        BY <1>1, <2>1, <4>1 DEF FillPc, At, Idle
    <3> QED
      BY <2>3, <3>1, <3>2 DEF Filled
  <2> QED
    BY <2>1, <2>2, <2>4, <2>5, <1>0 DEF Reach
<1>7. CASE Fills(f)
  <2>1. PICK c \in NodeRef, r \in NodeType :
                 /\ c = Cell(f) /\ c = Cell(f)' /\ node' = [node EXCEPT ![c] = r]
                 /\ FilledBy(f, c, r)
    BY <1>7, FillsCell
  <2>2. \A m \in Minor : InList(m)' = InList(m)
    BY <1>7, FillsCell
  <2>3. node'[c] = r /\ \A p \in NodeRef \ {c} : node'[p] = node[p]
    BY <1>0, <2>1 DEF TypeOK
  <2>4. call[f].pc \in IoctlPc /\ node[c] \in NodeType
    BY <1>0, <1>7, <2>1, NodeFilled, FillsCell
  <2> SUFFICES ASSUME NEW m \in Minor, NEW n \in Reach(m), node'[n].msg_len = Garbage
               PROVE  \E g \in File : call'[g].pc \in FillPc /\ Cell(g)' = n
    BY <1>0, <2>2 DEF Complete, Filled, Reach
  <2>5. CASE n = c
    <3>1. ~SetLen(f)
      <4>1. SUFFICES ASSUME SetLen(f) PROVE FALSE
        OBVIOUS
      <4>2. r = [node[c] EXCEPT !.msg_len = 0]
        BY <2>1, <4>1 DEF FilledBy, SetLen, SetId, SetNext, At
      <4>3. r.msg_len = 0
        BY <2>4, <4>2 DEF NodeType
      <4> QED
        BY <2>3, <2>5, <4>3, SlotAssumption
    <3>2. Continue(f, "clear") \/ Continue(f, "len")
      BY <1>7, <3>1 DEF Fills, SetId, SetNext
    <3>3. call'[f].pc \in FillPc
      BY <1>0, <2>4, <3>2, IoctlHere DEF IoctlPc, FillPc
    <3> QED
      BY <2>1, <2>5, <3>3
  <2>6. CASE n # c
    <3>1. n \in NodeRef /\ ~Filled(n)
      BY <2>3, <2>6 DEF Reach, InList, Filled
    <3>2. PICK g \in File : call[g].pc \in FillPc /\ Cell(g) = n
      BY <1>0, <3>1 DEF Complete
    <3>3. g # f
      BY <2>1, <2>6, <3>2
    <3> QED
      BY <1>1, <3>2, <3>3
  <2> QED
    BY <2>5, <2>6
<1>8. CASE Stores(f)
  <2>1. Effect(f) /\ \A m \in Minor : Reach(m)' = Reach(m)
    BY <1>0, <1>8, EffectStores DEF Reach
  <2>2. At(f, "write")
    BY <1>8 DEF Stores, WriteByte, WriteEnd
  <2> SUFFICES ASSUME NEW m \in Minor, NEW n \in Reach(m), node'[n].msg_len = Garbage
               PROVE  \E g \in File : call'[g].pc \in FillPc /\ Cell(g)' = n
    BY <2>1 DEF Complete, Filled
  <2>3. n \in NodeRef /\ node[n] # Null
    BY <1>0, ListUsed DEF Reach, RaceInv
  <2>4. ~Filled(n)
    BY <2>1, <2>3 DEF Effect, Keeps
  <2>5. PICK g \in File : call[g].pc \in FillPc /\ Cell(g) = n
    BY <1>0, <2>4 DEF Complete
  <2> QED
    BY <1>1, <2>2, <2>5 DEF At, FillPc
<1> QED
  BY <1>3, <1>4, <1>5, <1>6, <1>7, <1>8, Kinds

\* The files that are left alone.
LEMMA UsesOthers ==
    ASSUME CleanInv, NEW f \in File, OnlyFile(f), Effect(f), NEW g \in File \ {f}
    PROVE  Uses(g)'
<1>0. RaceInv /\ Uses(g) /\ CallInv
  BY DEF CleanInv, RaceInv
<1>1. Target(g)' = Target(g) /\ minor(g)' = minor(g) /\ call'[g] = call[g]
  BY DEF OnlyFile, Target, minor
<1>2. Target(g) # Null => Target(g) \in Channels(minor(g))'
  BY <1>0, <1>1, TargetNode DEF Effect
<1>3. ASSUME At(g, "write") PROVE \A j \in 0 .. call[g].i - 1 : node'[Target(g)].channel[j] # Garbage
  <2>1. Keeps(Target(g)) /\ Stored(Target(g), call[g].i) /\ call[g].i \in 0 .. BUF_LEN /\ BUF_LEN \in Nat
    BY <1>0, <1>3, WriteFacts, TargetNode DEF Effect, Uses
  <2> QED
    BY <2>1 DEF Keeps, Stored
<1> QED
  BY <1>0, <1>1, <1>2, <1>3 DEF Uses, At, Stored

\* A file that keeps its NODE while its call neither reads nor writes.
LEMMA UsesKept ==
    ASSUME CleanInv, NEW f \in File, Effect(f), file' = file,
           call'[f].op \notin {"read", "write"}, call'[f].pc # "write"
    PROVE  Uses(f)'
<1>0. RaceInv /\ Uses(f)
  BY DEF CleanInv
<1>1. Target(f)' = Target(f) /\ minor(f)' = minor(f)
  BY DEF Target, minor
<1>2. Target(f) # Null => Target(f) \in Channels(minor(f))'
  BY <1>0, <1>1, TargetNode DEF Effect
<1> QED
  BY <1>1, <1>2 DEF Uses, At

LEMMA UsesReturned ==
    ASSUME CleanInv, NEW f \in File, Effect(f), file' = file, NEW value, Return(f, value)
    PROVE  Uses(f)'
<1>1. call'[f] = Idle
  BY DEF Return, CleanInv, RaceInv, CallInv
<1> QED
  BY <1>1, UsesKept DEF Idle

LEMMA UsesLooks ==
    ASSUME CleanInv, NEW f \in File, Effect(f), Looks(f)
    PROVE  Uses(f)'
<1>0. RaceInv /\ Uses(f) /\ TypeOK /\ CallInv /\ FileInv /\ Clean /\ UNCHANGED <<node, file>>
  BY QuietSame DEF CleanInv, RaceInv, Quiet
<1>1. CASE \E value : Return(f, value)
  BY <1>0, <1>1, UsesReturned
<1>2. CASE call[f].pc \in IoctlPc /\ ~ \E value : Return(f, value)
  <2>1. call'[f] \in IoctlCall
    BY <1>0, <1>2, Moves DEF CallInv
  <2> QED
    BY <1>0, <2>1, UsesKept DEF IoctlCall, IoctlPc
<1>3. CASE call[f].pc \in ReadPc /\ ~ \E value : Return(f, value)
  <2>1. call[f] \in ReadCall /\ call[f].op = "read" /\ call[f].out \in Seq(AnyByte) /\ Target(f) # Null
    BY <1>0, <1>3, ReadFacts DEF ReadCall
  <2>2. \A j \in 1 .. Len(call[f].out) : call[f].out[j] # Garbage
    BY <1>0, <2>1 DEF Uses
  <2>3. Target(f)' = Target(f) /\ minor(f)' = minor(f) /\ Target(f) \in Channels(minor(f))'
    BY <1>0, <2>1, TargetNode DEF Effect, Target, minor
  <2>4. CASE ReadByte(f)
    <3>1. PICK len \in LenOf(Target(f)) : MoreToRead(f, len)
      BY <2>4 DEF ReadByte
    <3>2. /\ InUse(Target(f)) /\ node[Target(f)] \in NodeType /\ Filled(Target(f))
          /\ node[Target(f)] # Null /\ Target(f) \in NodeRef
      BY <1>0, <2>1, TargetNode
    <3>3. len = node[Target(f)].msg_len /\ len \in Nat
      BY <3>1, <3>2 DEF LenOf, Filled, NodeType
    <3>4. Stored(Target(f), len)
      BY <1>0, <3>2, <3>3 DEF Clean
    <3>5. Len(call[f].out) \in Nat /\ Len(call[f].out) < len
      BY <2>1, <3>1 DEF MoreToRead
    <3>6. node[Target(f)].channel[Len(call[f].out)] # Garbage
      BY <3>3, <3>4, <3>5 DEF Stored
    <3>7. PICK byte : byte = ByteOf(Target(f), Len(call[f].out)) /\ byte # Garbage
      BY <3>2, <3>6 DEF ByteOf
    <3>8. call' = [call EXCEPT ![f].out = Append(@, byte)]
      BY <1>3, <2>4, <3>7 DEF ReadByte
    <3>9. call'[f].op = "read" /\ call'[f].pc = call[f].pc /\ call'[f].out = Append(call[f].out, byte)
      BY <1>0, <2>1, <3>8 DEF CallInv, ReadCall
    <3>10. byte \in AnyByte
      BY <1>0, <1>3, <2>1, <3>1, <3>5, <3>7, ReadFacts DEF MoreToRead
    <3>11. \A j \in 1 .. Len(Append(call[f].out, byte)) : Append(call[f].out, byte)[j] # Garbage
      BY <2>1, <2>2, <3>5, <3>7, <3>10
    <3> QED
      BY <1>3, <2>3, <3>9, <3>11 DEF Uses, At, ReadPc
  <2>5. CASE \E to \in ReadPc : Continue(f, to)
    <3>1. call'[f].op = "read" /\ call'[f].pc \in ReadPc /\ call'[f].out = call[f].out
      BY <1>0, <2>1, <2>5 DEF Continue, CallInv, ReadCall
    <3> QED
      BY <2>2, <2>3, <3>1 DEF Uses, At, ReadPc
  <2> QED
    BY <1>3, <2>4, <2>5 DEF Looks, ReadExists, ReadFits, ReadEnd, Oops,
       ReadHead, First, LoadNext, Differs, Advance, Check, At, ReadPc
<1>4. CASE call[f].pc = "write" /\ ~ \E value : Return(f, value)
  BY <1>4 DEF Looks, ReadHead, First, LoadNext, Differs, Advance, Check, ReadExists,
     ReadFits, ReadByte, ReadEnd, Oops, At
<1> QED
  BY <1>0, <1>1, <1>2, <1>3, <1>4, LooksFrom

LEMMA UsesBegins ==
    ASSUME CleanInv, NEW f \in File, Effect(f), Begins(f)
    PROVE  Uses(f)'
<1>0. RaceInv /\ Uses(f) /\ CallInv /\ file' = file
  BY QuietSame DEF CleanInv, RaceInv, Quiet
<1>1. Target(f)' = Target(f) /\ minor(f)' = minor(f)
  BY <1>0 DEF Target, minor
<1>2. Target(f) # Null => Target(f) \in Channels(minor(f))'
  BY <1>0, <1>1, TargetNode DEF Effect
<1>3. CASE \E value : Return(f, value)
  BY <1>0, <1>3, UsesReturned
<1>4. CASE ~ \E value : Return(f, value)
  <2>1. \/ call'[f].op = "ioctl" /\ call'[f].pc = "head"
        \/ call'[f].op = "write" /\ call'[f].i = 0
        \/ call'[f].op = "read" /\ call'[f].out = <<>> /\ call'[f].pc = "exists"
    BY <1>0, <1>4 DEF Begins, Ioctl, Write, Read, CallInv
  <2>2. call'[f].op = "read" => call'[f].out = <<>>
    BY <2>1
  <2>3. call'[f].pc = "write" => call'[f].i = 0
    BY <1>0, <1>4 DEF Begins, Ioctl, Write, Read, CallInv
  <2> QED
    BY <1>1, <1>2, <2>2, <2>3 DEF Uses, At, Stored
<1> QED
  BY <1>3, <1>4

LEMMA UsesStep ==
    ASSUME CleanInv, NEW f \in File, Step(f), Effect(f)
    PROVE  Uses(f)'
<1>0. RaceInv /\ Uses(f) /\ Stage(f) /\ TypeOK /\ CallInv /\ FileInv /\ Clean
  BY DEF CleanInv, RaceInv
<1>1. CASE device_open(f)
  <2>1. Target(f)' = Null /\ call'[f] = Idle
    BY <1>0, <1>1, Calls DEF device_open, Target, TypeOK
  <2> QED
    BY <2>1 DEF Uses, At, Idle
<1>2. CASE device_release(f)
  <2>1. Target(f)' = Null /\ call'[f] = Idle
    BY <1>0, <1>2 DEF device_release, Ready, Target, TypeOK, Closed
  <2> QED
    BY <2>1 DEF Uses, At, Idle
<1>3. CASE Quiet(f)
  BY <1>3, UsesBegins, UsesLooks DEF Quiet
<1>4. CASE Settles(f)
  <2>1. /\ UNCHANGED <<loaded, devices, node>> /\ call[f].pc \in {"walk", "take"}
        /\ call[f].pc \in IoctlPc
    BY <1>0, <1>4, Settled
  <2>2. PICK p \in Pointer : SetTo(f, p) /\ p \in (IF At(f, "walk") THEN {call[f].curr} ELSE Shared(f))
    BY <1>0, <1>4, Settled
  <2>3. Target(f)' = p /\ minor(f)' = minor(f) /\ call'[f] = Idle /\ minor(f) \in Minor
    BY <1>0, <2>1, <2>2, Busy DEF SetTo, Return, Target, minor, TypeOK, CallInv
  <2>4. p \in Channels(minor(f))
    <3>1. CASE At(f, "walk")
      BY <1>0, <2>2, <3>1 DEF Stage, At
    <3>2. CASE At(f, "take")
      <4>1. p = Cell(f) /\ Cell(f) \in NodeRef /\ Cell(f) \in Reach(minor(f)) /\ node[Cell(f)].msg_len = 0
        BY <1>0, <2>1, <2>2, <3>2, CellLoad DEF Stage, At, IoctlPc
      <4> QED
        BY <4>1, SlotAssumption DEF Channels, Filled
    <3> QED
      BY <2>1, <3>1, <3>2 DEF At
  <2> QED
    BY <2>3, <2>4 DEF Uses, At, Idle, Effect
<1>5. CASE Alloc(f)
  <2>1. call'[f].op = "ioctl" /\ call'[f].pc = "check" /\ file' = file
    BY <1>0, <1>5, Allocated, IoctlHere DEF Alloc, At, IoctlPc
  <2> QED
    BY <2>1, UsesKept
<1>6. CASE Fills(f)
  <2>1. PICK to \in IoctlPc : Continue(f, to)
    BY <1>6 DEF Fills, SetId, SetNext, SetLen, IoctlPc
  <2>2. call'[f].op = "ioctl" /\ call'[f].pc \in IoctlPc /\ file' = file
    BY <1>0, <1>6, <2>1, NodeFilled, IoctlHere
  <2> QED
    BY <2>2, UsesKept DEF IoctlPc
<1>7. CASE Stores(f)
  <2>1. file' = file /\ At(f, "write")
    BY <1>7 DEF Stores, WriteByte, WriteEnd
  <2>2. CASE \E value : Return(f, value)
    BY <2>1, <2>2, UsesReturned
  <2>3. CASE WriteByte(f) /\ ~ \E value : Return(f, value)
    <3>1. /\ call[f] \in WriteCall /\ Target(f) # Null /\ call[f].i \in 0 .. BUF_LEN - 1
          /\ call[f].buffer.bytes[call[f].i + 1] \in Byte
          /\ Stored(Target(f), call[f].i)
      BY <1>0, <2>1, <2>3, WriteFacts DEF WriteByte, Uses
    <3>2. /\ node[Target(f)] \in NodeType /\ InUse(Target(f)) /\ Target(f) \in NodeRef
      BY <1>0, <3>1, TargetNode
    <3>3. /\ call' = [call EXCEPT ![f].i = call[f].i + 1]
          /\ call[f].i < call[f].buffer.mapped
      BY <2>3 DEF WriteByte
    <3>4. call'[f].i = call[f].i + 1 /\ call'[f].pc = "write" /\ call'[f].op = "write"
      BY <1>0, <3>1, <3>3 DEF CallInv, WriteCall
    <3>5. Store(Target(f), [node[Target(f)] EXCEPT !.channel[call[f].i] =
                                   call[f].buffer.bytes[call[f].i + 1]])
      BY <2>3, <3>3, <3>4 DEF WriteByte, Return
    <3>6. node'[Target(f)].channel =
             [node[Target(f)].channel EXCEPT ![call[f].i] = call[f].buffer.bytes[call[f].i + 1]]
      BY <1>0, <3>2, <3>5 DEF Store, TypeOK, NodeType
    <3>7. node[Target(f)].channel \in [0 .. BUF_LEN - 1 -> Byte \cup {Zero, Garbage}]
      BY <3>2 DEF NodeType
    <3>8. \A j \in 0 .. call[f].i : node'[Target(f)].channel[j] # Garbage
      BY <3>1, <3>6, <3>7, SlotAssumption DEF Stored
    <3>9. Target(f)' = Target(f) /\ minor(f)' = minor(f)
      BY <2>1 DEF Target, minor
    <3>10. Target(f) \in Channels(minor(f))'
      BY <1>0, <3>1, <3>9, TargetNode DEF Effect
    <3> QED
      BY <3>1, <3>4, <3>8, <3>9, <3>10 DEF Uses, At, Stored
  <2> QED
    BY <1>7, <2>2, <2>3 DEF Stores, WriteEnd
<1> QED
  BY <1>1, <1>2, <1>3, <1>4, <1>5, <1>6, <1>7, Kinds

-----------------------------------------------------------------------------
\* While an ioctl walks, every NODE that it may find is filled in.
LEMMA NobodyFills ==
    ASSUME CleanInv, NEW f \in File, call[f].pc \in IoctlPc \ FillPc,
           NEW m \in Minor, NEW n \in Reach(m)
    PROVE  n \in Channels(m)
<1>1. call[f].op = "ioctl"
  BY Calls DEF CleanInv, RaceInv
<1>2. \A g \in File : call[g].pc \notin FillPc
  BY <1>1 DEF CleanInv, Alone, Idle, FillPc
<1> QED
  BY <1>2 DEF CleanInv, Complete, Channels

LEMMA StageOff ==
    ASSUME NEW f \in File, call'[f].pc \notin IoctlPc
    PROVE  Stage(f)'
BY DEF Stage, At, IoctlPc, FillPc

LEMMA ReachSame ==
    ASSUME UNCHANGED <<loaded, devices, node>>, NEW m
    PROVE  Reach(m)' = Reach(m) /\ Channels(m)' = Channels(m)
<1>1. InList(m)' = InList(m)
  BY ListSame
<1> QED
  BY <1>1 DEF Reach, Channels, Filled

LEMMA StageOthers ==
    ASSUME CleanInv, "ioctl" \notin Overlapping, NEW f \in File, Step(f), NEW g \in File \ {f}
    PROVE  Stage(g)'
<1>0. TypeOK /\ CallInv /\ FileInv /\ Alone /\ Stage(g) /\ OnlyFile(f)
  BY StepOnly DEF CleanInv, RaceInv
<1>1. CASE call[g].op = "ioctl"
  <2>1. UNCHANGED <<loaded, devices, node, call>> /\ file'[g] = file[g]
    BY <1>0, <1>1, OthersStill
  <2>2. minor(g)' = minor(g) /\ Cell(g)' = Cell(g) /\ At(g, "head")' = At(g, "head")
    BY <2>1 DEF minor, Cell, At
  <2>3. Channels(minor(g))' = Channels(minor(g))
    <3>1. PICK m : m = minor(g) /\ m = minor(g)'
      BY <2>2
    <3>2. Channels(m)' = Channels(m)
      BY <2>1, ReachSame
    <3>3. Channels(minor(g))' = Channels(m)'
      BY <3>1 DEF Channels, Reach, InList
    <3> QED
      BY <3>1, <3>2, <3>3
  <2> QED
    BY <1>0, <2>1, <2>2, <2>3 DEF Stage, At, Filled
<1>2. CASE call[g].op # "ioctl"
  <2>1. call[g].pc \notin IoctlPc /\ call'[g] = call[g]
    BY <1>0, <1>2, Calls DEF OnlyFile
  <2> QED
    BY <2>1, StageOff
<1> QED
  BY <1>1, <1>2

LEMMA StageLooks ==
    ASSUME CleanInv, NEW f \in File, Looks(f), call[f].pc \in IoctlPc
    PROVE  Stage(f)'
<1>0. /\ RaceInv /\ TypeOK /\ CallInv /\ FileInv /\ Linked /\ Clean /\ Stage(f) /\ minor(f)' = minor(f)
      /\ UNCHANGED <<loaded, devices, node, file>>
  BY QuietSame DEF CleanInv, RaceInv, Quiet, minor
<1>1. PICK m \in Minor : m = minor(f) /\ m = minor(f)' /\ loaded /\ call[f] \in IoctlCall
  BY <1>0, Busy
<1>2. Channels(m)' = Channels(m) /\ Channels(minor(f))' = Channels(m)' /\ Reach(m) = InList(m)
  <2>1. Channels(m)' = Channels(m)
    BY <1>0, ReachSame
  <2>2. Channels(minor(f))' = Channels(m)'
    BY <1>1 DEF Channels, Reach, InList
  <2> QED
    BY <1>1, <2>1, <2>2 DEF Reach
<1>3. CASE ReadHead(f)
  <2>1. At(f, "head") /\ call[f].curr = Null
    BY <1>0, <1>3 DEF ReadHead, Stage
  <2>2. CASE devices[m] = Null
    <3>1. Continue(f, "alloc")
      BY <1>1, <1>3, <2>2 DEF ReadHead
    <3>2. call'[f].pc = "alloc" /\ call'[f].curr = Null
      BY <1>0, <2>1, <3>1, IoctlHere DEF IoctlPc
    <3>3. Cell(f)' = Null
      BY <1>0, <1>1, <2>2, <3>2 DEF Cell
    <3> QED
      BY <3>2, <3>3 DEF Stage, At, FillPc
  <2>3. CASE devices[m] # Null
    <3>1. Continue(f, "first")
      BY <1>1, <1>3, <2>3 DEF ReadHead
    <3>2. call'[f].pc = "first"
      BY <1>0, <3>1, IoctlHere DEF IoctlPc
    <3> QED
      BY <1>0, <1>1, <2>3, <3>2 DEF Stage, At, FillPc
  <2> QED
    BY <2>2, <2>3
<1>4. CASE First(f)
  <2>1. At(f, "first") /\ devices[m] # Null /\ call'[f].curr = devices[m] /\ call'[f].pc = "next"
    BY <1>0, <1>1, <1>4 DEF First, Stage, CallInv, IoctlCall
  <2>2. devices[m] \in InList(m)
    BY <1>0, <2>1, ListHead DEF TypeOK
  <2>3. devices[m] \in Channels(m)
    BY <1>1, <1>2, <2>1, <2>2, NobodyFills DEF At, IoctlPc, FillPc
  <2> QED
    BY <1>2, <2>1, <2>3 DEF Stage, At, FillPc
<1>5. CASE LoadNext(f)
  <2>1. PICK p \in NextOf(call[f].curr) : call' = [call EXCEPT ![f].next = p, ![f].pc = "walk"]
    BY <1>5 DEF LoadNext
  <2>2. call[f].curr \in Channels(m) /\ InUse(call[f].curr) /\ node[call[f].curr].next # Garbage
    BY <1>0, <1>1, <1>5, CurrNode DEF LoadNext, At, IoctlPc, Clean
  <2>3. p = node[call[f].curr].next
    BY <2>1, <2>2 DEF NextOf
  <2>4. call'[f].pc = "walk" /\ call'[f].curr = call[f].curr /\ call'[f].next = p
    BY <1>0, <1>1, <2>1 DEF CallInv, IoctlCall
  <2> QED
    BY <1>0, <1>2, <2>2, <2>3, <2>4 DEF Stage, At, FillPc
<1>6. CASE Differs(f)
  <2>1. /\ At(f, "walk") /\ call[f].curr \in Channels(m) /\ call[f].next = node[call[f].curr].next
        /\ call[f].curr # Null
    BY <1>0, <1>1, <1>6, CurrNode DEF Differs, Stage, At, IoctlPc
  <2>2. /\ call'[f].pc = (IF call[f].next = Null THEN "alloc" ELSE "advance")
        /\ call'[f].curr = call[f].curr
    BY <1>0, <1>1, <1>6 DEF Differs, CallInv, IoctlCall
  <2>3. CASE call[f].next = Null
    <3>1. Cell(f)' = Null
      BY <1>0, <2>1, <2>2, <2>3 DEF Cell
    <3> QED
      BY <1>2, <2>1, <2>2, <2>3, <3>1 DEF Stage, At, FillPc
  <2>4. CASE call[f].next # Null
    BY <1>0, <1>2, <2>1, <2>2, <2>4 DEF Stage, At, FillPc
  <2> QED
    BY <2>3, <2>4
<1>7. CASE Advance(f)
  <2>1. PICK p \in NextOf(call[f].curr) : call' = [call EXCEPT ![f].curr = p, ![f].pc = "next"]
    BY <1>7 DEF Advance
  <2>2. /\ call[f].curr \in InList(m) /\ InUse(call[f].curr) /\ node[call[f].curr].next # Garbage
        /\ node[call[f].curr] \in NodeType /\ node[call[f].curr] # Null
    BY <1>0, <1>1, <1>7, CurrNode DEF Advance, At, IoctlPc, Clean
  <2>3. p = node[call[f].curr].next /\ p # Null /\ p \in NodeRef
    BY <1>0, <1>7, <2>1, <2>2 DEF NextOf, Advance, Stage, NodeType, Pointer
  <2>4. call'[f].pc = "next" /\ call'[f].curr = p
    BY <1>0, <1>1, <2>1 DEF CallInv, IoctlCall
  <2>5. p \in InList(m)
    BY <2>2, <2>3, ListNext
  <2>6. p \in Channels(m)
    BY <1>1, <1>2, <1>7, <2>5, NobodyFills DEF Advance, At, IoctlPc, FillPc
  <2> QED
    BY <1>2, <2>4, <2>6 DEF Stage, At, FillPc
<1>8. CASE Check(f)
  <2>1. At(f, "check") /\ Shared(f) = {Cell(f)} /\ Cell(f) \in NodeRef \cup {Null}
    BY <1>0, <1>8, CellLoad DEF Check, At, IoctlPc
  <2>2. CASE Cell(f) = Null
    <3>1. Return(f, <<"ENOMEM">>)
      BY <1>8, <2>1, <2>2 DEF Check
    <3>2. call'[f] = Idle
      BY <1>0, <3>1 DEF Return, CallInv
    <3> QED
      BY <3>2, StageOff DEF Idle, IoctlPc
  <2>3. CASE Cell(f) # Null
    <3>1. Continue(f, "id")
      BY <1>8, <2>1, <2>3 DEF Check
    <3>2. call'[f].pc = "id" /\ call'[f].curr = call[f].curr /\ call'[f].id = call[f].id
      BY <1>0, <2>1, <3>1, IoctlHere DEF IoctlPc
    <3>3. Cell(f)' = Cell(f)
      BY <1>0, <3>2 DEF Cell
    <3> QED
      BY <1>0, <1>1, <1>2, <2>1, <2>3, <3>2, <3>3 DEF Stage, At, FillPc, Filled
  <2> QED
    BY <2>2, <2>3
<1>9. CASE Oops(f)
  BY <1>9, NoOops
<1> QED
  BY <1>3, <1>4, <1>5, <1>6, <1>7, <1>8, <1>9 DEF Looks, ReadExists, ReadFits, ReadByte, ReadEnd,
     At, IoctlPc

LEMMA StageAlloc ==
    ASSUME CleanInv, NEW f \in File, Alloc(f), Effect(f)
    PROVE  Stage(f)'
<1>0. RaceInv /\ CallInv /\ Stage(f) /\ At(f, "alloc") /\ file' = file
  BY DEF Alloc, CleanInv, RaceInv
<1>1. call'[f].pc = "check" /\ call'[f].curr = call[f].curr
  BY <1>0, IoctlHere DEF Alloc, At, IoctlPc
<1>2. PICK p \in NodeRef \cup {Null} :
                 /\ p = Cell(f)'
                 /\ p \in NodeRef => node'[p].msg_len = Garbage /\ node'[p].next = Garbage
  BY ListAlloc
<1>3. minor(f)' = minor(f) /\ minor(f) \in Minor
  BY <1>0, ListAlloc DEF minor
<1>4. call[f].curr # Null => call[f].curr \in Channels(minor(f))'
  BY <1>0, <1>3 DEF Stage, Effect, At
<1> QED
  BY <1>1, <1>2, <1>3, <1>4, SlotAssumption DEF Stage, At, FillPc, Filled

LEMMA StageFills ==
    ASSUME CleanInv, NEW f \in File, Fills(f), Effect(f)
    PROVE  Stage(f)'
<1>0. RaceInv /\ CallInv /\ Stage(f) /\ TypeOK /\ FileInv
  BY DEF CleanInv, RaceInv
<1>1. PICK n \in NodeRef, r \in NodeType :
                 /\ n = Cell(f) /\ n = Cell(f)'
                 /\ node[n] \in NodeType /\ node[n] # Null /\ ~Filled(n)
                 /\ node' = [node EXCEPT ![n] = r] /\ FilledBy(f, n, r)
  BY FillsCell
<1>2. node'[n] = r
  BY <1>0, <1>1 DEF TypeOK
<1>3. minor(f)' = minor(f) /\ minor(f) \in Minor
  BY <1>0, FillsCell, NodeFilled DEF minor
<1>4. n # Null
  BY SlotAssumption
<1>5. call[f].pc \in {"id", "clear", "len"} /\ call[f].pc \in IoctlPc
  BY <1>0, NodeFilled
<1>6. call[f].curr # Null => call[f].curr \in Channels(minor(f))'
  BY <1>0, <1>3, <1>5 DEF Stage, Effect, FillPc
<1>7. CASE SetId(f)
  <2>1. call'[f].pc = "clear" /\ call'[f].curr = call[f].curr /\ call'[f].id = call[f].id
    BY <1>0, <1>5, <1>7, IoctlHere DEF SetId, IoctlPc
  <2>2. r = [node[n] EXCEPT !.channel_id = call[f].id % 2^Width] /\ At(f, "id")
    BY <1>1, <1>7 DEF FilledBy, SetId, SetNext, SetLen, At
  <2>3. PICK c : c = call[f].id % 2^Width
    OBVIOUS
  <2>4. r.channel_id = c /\ r.msg_len = Garbage /\ r.next = Garbage
    BY <1>0, <1>1, <1>4, <2>2, <2>3 DEF NodeType, Filled, Stage, At
  <2> QED
    BY <1>1, <1>2, <1>4, <1>6, <2>1, <2>3, <2>4 DEF Stage, At, FillPc, Filled
<1>8. CASE SetNext(f)
  <2>1. call'[f].pc = "len" /\ call'[f].curr = call[f].curr /\ call'[f].id = call[f].id
    BY <1>0, <1>5, <1>8, IoctlHere DEF SetNext, IoctlPc
  <2>2. r = [node[n] EXCEPT !.next = Null] /\ At(f, "clear")
    BY <1>1, <1>8 DEF FilledBy, SetId, SetNext, SetLen, At
  <2>3. r.channel_id = call[f].id % 2^Width /\ r.msg_len = Garbage /\ r.next = Null
    BY <1>0, <1>1, <1>4, <2>2 DEF NodeType, Filled, Stage, At
  <2> QED
    BY <1>1, <1>2, <1>4, <1>6, <2>1, <2>3 DEF Stage, At, FillPc, Filled
<1>9. CASE SetLen(f)
  <2>1. call'[f].pc = "take" /\ call'[f].curr = call[f].curr /\ call'[f].id = call[f].id
    BY <1>0, <1>5, <1>9, IoctlHere DEF SetLen, IoctlPc
  <2>2. r = [node[n] EXCEPT !.msg_len = 0] /\ At(f, "len")
    BY <1>1, <1>9 DEF FilledBy, SetId, SetNext, SetLen, At
  <2>3. r.channel_id = call[f].id % 2^Width /\ r.msg_len = 0 /\ r.next = Null
    BY <1>0, <1>1, <1>4, <2>2 DEF NodeType, Filled, Stage, At
  <2> QED
    BY <1>1, <1>2, <1>4, <1>6, <2>1, <2>3 DEF Stage, At, FillPc, Filled
<1> QED
  BY <1>7, <1>8, <1>9 DEF Fills

LEMMA StageStep ==
    ASSUME CleanInv, NEW f \in File, Step(f), Effect(f)
    PROVE  Stage(f)'
<1>0. RaceInv /\ TypeOK /\ CallInv /\ FileInv
  BY DEF CleanInv, RaceInv
<1>1. CASE device_open(f) \/ device_release(f)
  <2>1. call'[f] = Idle
    BY <1>0, <1>1, Calls DEF device_open, device_release, Ready
  <2> QED
    BY <2>1, StageOff DEF Idle, IoctlPc
<1>2. CASE Begins(f)
  <2>1. (call'[f].pc = "head" /\ call'[f].curr = Null) \/ call'[f].pc \notin IoctlPc
    BY <1>0, <1>2 DEF Begins, Ioctl, Write, Read, Return, CallInv, Idle, IoctlPc
  <2> QED
    BY <2>1, StageOff DEF Stage, At, FillPc
<1>3. CASE Looks(f)
  <2>1. CASE call[f].pc \notin IoctlPc
    <3>1. call[f] # Idle /\ call[f].op # "ioctl"
      BY <1>0, <1>3, <2>1, LooksFrom, Calls DEF Idle, IoctlPc, ReadPc
    <3>2. call'[f].op # "ioctl"
      <4>1. CASE Begins(f)
        BY <3>1, <4>1 DEF Begins, Ioctl, Write, Read, MayStart, Ready
      <4>2. CASE device_open(f) \/ device_release(f)
        BY <1>0, <3>1, <4>2, Calls DEF device_open, device_release, Ready
      <4> QED
        BY <1>0, <3>1, <4>1, <4>2, GoesOn DEF Idle
    <3>3. CallInv'
      BY <1>0, CallStep DEF Next
    <3>4. call'[f].pc \notin IoctlPc
      BY <3>2, <3>3 DEF CallInv, CallType, IoctlCall, WriteCall, ReadCall, Idle, IoctlPc, ReadPc
    <3> QED
      BY <3>4, StageOff
  <2> QED
    BY <1>3, <2>1, StageLooks
<1>4. CASE Settles(f)
  <2>1. call'[f] = Idle
    BY <1>0, <1>4, Settled DEF SetTo, Return, CallInv
  <2> QED
    BY <2>1, StageOff DEF Idle, IoctlPc
<1>5. CASE Stores(f)
  <2>1. call'[f] = Idle \/ call'[f].pc = "write"
    <3>1. call[f] \in WriteCall
      BY <1>0, <1>5, Calls DEF Stores, WriteByte, WriteEnd
    <3> QED
      BY <1>0, <1>5, <3>1 DEF Stores, WriteByte, WriteEnd, Return, CallInv, WriteCall
  <2> QED
    BY <2>1, StageOff DEF Idle, IoctlPc
<1> QED
  BY <1>1, <1>2, <1>3, <1>4, <1>5, StageAlloc, StageFills, Kinds DEF Quiet

-----------------------------------------------------------------------------
(***************************************************************************)
(* The invariant                                                           *)
(***************************************************************************)
LEMMA NothingListed ==
    ASSUME msgslot_init \/ msgslot_exit, NEW m \in Minor
    PROVE  Reach(m)' = {}
<1>1. CASE msgslot_exit
  BY <1>1 DEF msgslot_exit, Reach
<1>2. CASE msgslot_init
  <2>1. PICK S \in SUBSET NodeRef : S = {}
    OBVIOUS
  <2>2. devices'[m] \notin NodeRef
    BY <1>2, SlotAssumption DEF msgslot_init
  <2>3. InList(m)' \subseteq S
    BY <2>1, <2>2, ListLater
  <2> QED
    BY <2>1, <2>3 DEF Reach
<1> QED
  BY <1>1, <1>2

LEMMA CleanStep ==
    CleanInv /\ RaceInv' /\ "ioctl" \notin Overlapping /\ [Next]_vars => CleanInv'
<1> SUFFICES ASSUME CleanInv, RaceInv', "ioctl" \notin Overlapping, [Next]_vars PROVE CleanInv'
  OBVIOUS
<1>0. RaceInv /\ TypeOK /\ CallInv /\ FileInv /\ Linked
  BY DEF CleanInv, RaceInv
<1>1. Alone'
  BY <1>0, AloneStep DEF CleanInv
<1>2. ASSUME NEW f \in File, Step(f) PROVE CleanInv'
  <2>1. Effect(f) /\ OnlyFile(f)
    BY <1>0, <1>2, EffectStep, StepOnly
  <2>2. \A g \in File : Uses(g)'
    BY <1>2, <2>1, UsesStep, UsesOthers
  <2>3. \A g \in File : Stage(g)'
    BY <1>2, <2>1, StageStep, StageOthers
  <2>4. Complete' /\ Clean'
    BY <1>2, <2>1, CompleteStep DEF Effect
  <2> QED
    BY <1>1, <2>2, <2>3, <2>4 DEF CleanInv
<1>3. ASSUME \A f \in File : ~IsOpen(f), UNCHANGED <<file, call>>,
             \A n \in NodeRef : node'[n] = node[n] \/ node'[n] = Null,
             \A m \in Minor : Reach(m)' = {}
      PROVE  CleanInv'
  <2>1. \A f \in File : Target(f) = Null /\ call[f] = Idle
    BY <1>0, <1>3, Calls DEF IsOpen, Closed, Target
  <2>2. \A f \in File : Uses(f)' /\ Stage(f)'
    BY <1>3, <2>1 DEF Uses, Stage, Target, At, Idle, FillPc
  <2>3. Complete'
    BY <1>3 DEF Complete
  <2>4. Clean'
    BY <1>3 DEF CleanInv, Clean, Filled, Stored
  <2> QED
    BY <1>1, <2>2, <2>3, <2>4 DEF CleanInv
<1>4. CASE msgslot_init
  <2>1. \A f \in File : ~IsOpen(f)
    BY <1>0, <1>4 DEF msgslot_init, FileInv
  <2>2. \A m \in Minor : Reach(m)' = {}
    BY <1>4, NothingListed
  <2> QED
    BY <1>3, <1>4, <2>1, <2>2 DEF msgslot_init
<1>5. CASE msgslot_exit
  <2>1. \A n \in NodeRef : node'[n] = node[n] \/ node'[n] = Null
    BY <1>5 DEF msgslot_exit
  <2>2. \A m \in Minor : Reach(m)' = {}
    BY <1>5, NothingListed
  <2> QED
    BY <1>3, <1>5, <2>1, <2>2 DEF msgslot_exit, Unused
<1>6. CASE UNCHANGED vars
  <2>1. UNCHANGED <<loaded, devices, node, file, call>>
    BY <1>6 DEF vars, memVars
  <2>2. \A m : Reach(m)' = Reach(m) /\ Channels(m)' = Channels(m)
    BY <2>1, ReachSame
  <2>3. \A f \in File : minor(f)' = minor(f) /\ Target(f)' = Target(f) /\ Cell(f)' = Cell(f)
    BY <2>1 DEF minor, Target, Cell
  <2>4. \A f \in File : Channels(minor(f))' = Channels(minor(f))
    BY <2>1 DEF Channels, Reach, InList, Filled, minor
  <2>5. Clean' /\ Complete'
    BY <2>1, <2>2, <2>3 DEF CleanInv, Clean, Complete, Filled, Stored
  <2>6. \A f \in File : Uses(f)'
    BY <2>1, <2>3, <2>4 DEF CleanInv, Uses, At, Stored
  <2>7. \A f \in File : Stage(f)'
    BY <2>1, <2>3, <2>4 DEF CleanInv, Stage, At, Filled
  <2> QED
    BY <1>1, <2>5, <2>6, <2>7 DEF CleanInv
<1> QED
  BY <1>2, <1>4, <1>5, <1>6 DEF Next

LEMMA CleanInit == Init => CleanInv
<1> SUFFICES ASSUME Init PROVE CleanInv
  OBVIOUS
<1>1. \A f \in File : call[f] = Idle /\ Target(f) = Null
  BY DEF Init, Target, Closed
<1>2. Alone /\ \A f \in File : Uses(f) /\ Stage(f)
  BY <1>1 DEF Alone, Uses, Stage, At, Idle, FillPc
<1>3. Clean /\ Complete
  BY DEF Init, Clean, Complete, Reach
<1> QED
  BY <1>2, <1>3, RaceInit DEF CleanInv

LEMMA CleanInvariance == ASSUME "ioctl" \notin Overlapping PROVE Spec => []CleanInv
<1>1. CleanInv /\ RaceInv' /\ [Next]_vars => CleanInv'
  BY CleanStep
<1> QED
  BY <1>1, CleanInit, RaceInvariance, PTL DEF Spec

\* If ioctls exclude other calls, no file uses a NODE that has been freed, though
\* msgslot_exit() does not look at private_data: the module is not unloaded while
\* a file is open (lines 163, 189-199).
THEOREM NeverFreedInUse ==
    ASSUME "ioctl" \notin Overlapping
    PROVE  Spec => []NoUseAfterFree
<1>1. ASSUME CleanInv, NEW f \in File, IsOpen(f)
      PROVE  loaded /\ (Target(f) # Null => node[Target(f)] # Null)
  BY <1>1, TargetNode, OpenFile DEF CleanInv, RaceInv
<1>2. CleanInv => NoUseAfterFree
  BY <1>1 DEF NoUseAfterFree
<1> QED
  BY <1>2, CleanInvariance, PTL

\* If ioctls exclude other calls, reads and writes may overlap as they like: no read
\* ever returns a byte that no write stored.  msg_len is 0 until a message is complete
\* and is stored after its bytes (lines 66-74, 94-103, 124-129).
THEOREM ReadsReturnStored ==
    ASSUME "ioctl" \notin Overlapping
    PROVE  Spec => []NoGarbageRead
<1>1. ASSUME CleanInv, NEW f \in File, At(f, "read")
      PROVE  \A j \in 1 .. Len(call[f].out) : call[f].out[j] # Garbage
  <2>1. call[f].op = "read"
    BY <1>1, Calls DEF CleanInv, RaceInv, At, ReadPc, ReadCall
  <2> QED
    BY <1>1, <2>1 DEF CleanInv, Uses
<1>2. CleanInv => NoGarbageRead
  BY <1>1 DEF NoGarbageRead
<1> QED
  BY <1>2, CleanInvariance, PTL

-----------------------------------------------------------------------------
(***************************************************************************)
(* Every channel has one NODE                                              *)
(***************************************************************************)
Narrow == ChannelId \subseteq 0 .. 2^Width - 1

Unique ==
    \A m \in Minor : \A n, p \in Channels(m) :
        node[n].channel_id = node[p].channel_id => n = p

\* What a file asked for is what it got.
Got(f) ==
    \/ asked[f] = Null /\ Target(f) = Null
    \/ /\ asked[f] # Null /\ Target(f) # Null
       /\ asked[f] = <<minor(f), node[Target(f)].channel_id>>

\* A search: S are the NODEs before curr, and at the end the channel is nowhere.
Before(f, S) ==
    /\ devices[minor(f)] \in S \cup {call[f].curr}
    /\ \A n \in S : /\ node[n].next \in S \cup {call[f].curr}
                    /\ node[n].channel_id # call[f].id
Missing(f) == \A n \in Channels(minor(f)) : node[n].channel_id # call[f].id

Searching(f) ==
    /\ call[f].pc \in {"next", "walk", "advance"} => \E S \in SUBSET NodeRef : Before(f, S)
    /\ At(f, "advance") => node[call[f].curr].channel_id # call[f].id
    /\ call[f].pc \in {"alloc"} \cup FillPc => Missing(f)

ListInv == Unique /\ \A f \in File : Got(f) /\ Searching(f)

LEMMA NarrowId ==
    ASSUME Narrow, NEW id \in ChannelId
    PROVE  id % 2^Width = id /\ id \in Nat /\ id # Garbage
<1>1. \A a \in Nat, b \in Nat \ {0} : a < b => a % b = a
  OBVIOUS
<1>2. PICK k \in Nat \ {0} : k = 2^Width
  BY PowerAssumption
<1>3. id \in Nat /\ id < k
  BY <1>2, SlotAssumption DEF Narrow
<1>4. id % k = id
  BY <1>1, <1>3
<1> QED
  BY <1>2, <1>3, <1>4, SlotAssumption

\* The NODE that joins the channels.
LEMMA Joined ==
    ASSUME CleanInv, Narrow, NEW f \in File, SetLen(f)
    PROVE  /\ At(f, "len") /\ minor(f) \in Minor /\ sent' = sent
           /\ call[f].id \in ChannelId
           /\ Cell(f) \in NodeRef /\ ~Filled(Cell(f)) /\ Cell(f) \in InList(minor(f))
           /\ node'[Cell(f)].channel_id = call[f].id /\ node'[Cell(f)].msg_len = 0
<1>0. TypeOK /\ CallInv /\ FileInv /\ Stage(f) /\ At(f, "len") /\ Fills(f) /\ RaceInv
  BY DEF CleanInv, RaceInv, SetLen, Fills
<1>1. PICK n \in NodeRef, r \in NodeType :
                 /\ n = Cell(f) /\ n \in InList(minor(f)) /\ node[n] \in NodeType /\ ~Filled(n)
                 /\ node' = [node EXCEPT ![n] = r] /\ FilledBy(f, n, r)
  BY <1>0, FillsCell
<1>2. r = [node[n] EXCEPT !.msg_len = 0]
  BY <1>0, <1>1 DEF FilledBy, SetId, SetNext, At
<1>3. node'[n].channel_id = node[n].channel_id /\ node'[n].msg_len = 0
  BY <1>0, <1>1, <1>2 DEF TypeOK, NodeType
<1>4. node[n].channel_id = call[f].id % 2^Width
  BY <1>0, <1>1 DEF Stage, At
<1>5. call[f].id \in ChannelId /\ minor(f) \in Minor
  BY <1>0, Busy DEF At, IoctlPc
<1> QED
  BY <1>0, <1>1, <1>3, <1>4, <1>5, NarrowId DEF SetLen

LEMMA UniqueStep ==
    ASSUME CleanInv, Unique, Narrow, NEW f \in File, Effect(f), Searching(f)
    PROVE  Unique'
<1>0. TypeOK /\ Linked
  BY DEF CleanInv, RaceInv
<1> SUFFICES ASSUME NEW m \in Minor, NEW n \in Channels(m)', NEW p \in Channels(m)',
                    node'[n].channel_id = node'[p].channel_id
             PROVE  n = p
  BY DEF Unique
<1>1. ASSUME NEW q \in Channels(m) PROVE node'[q].channel_id = node[q].channel_id
  BY <1>0, <1>1, ChannelUsed DEF Effect, Keeps
<1>2. CASE n \in Channels(m) /\ p \in Channels(m)
  BY <1>1, <1>2 DEF Unique
<1>3. CASE SetLen(f) /\ m = minor(f)
  <2>1. node'[Cell(f)].channel_id = call[f].id /\ Missing(f)
    BY <1>3, Joined DEF Searching, FillPc, SetLen, At
  <2>2. \A q \in Channels(m) : node'[q].channel_id # call[f].id
    BY <1>1, <1>3, <2>1 DEF Missing
  <2> QED
    BY <1>2, <1>3, <2>1, <2>2 DEF Effect
<1> QED
  BY <1>2, <1>3 DEF Effect

-----------------------------------------------------------------------------
(***************************************************************************)
(* Files have what they asked for                                          *)
(***************************************************************************)
LEMMA GotKept ==
    ASSUME CleanInv, NEW f \in File, Effect(f), NEW g \in File, Got(g),
           file'[g] = file[g], asked'[g] = asked[g]
    PROVE  Got(g)'
<1>0. RaceInv /\ Uses(g)
  BY DEF CleanInv
<1>1. Target(g)' = Target(g) /\ minor(g)' = minor(g)
  BY DEF Target, minor
<1>2. Target(g) # Null => node'[Target(g)].channel_id = node[Target(g)].channel_id
  BY <1>0, TargetNode DEF Effect, Keeps
<1> QED
  BY <1>1, <1>2 DEF Got

LEMMA GotStep ==
    ASSUME CleanInv, Narrow, NEW f \in File, Got(f), Effect(f), Step(f)
    PROVE  Got(f)'
<1>0. TypeOK /\ CallInv /\ FileInv /\ Stage(f) /\ RaceInv /\ Clean
  BY DEF CleanInv, RaceInv
<1>1. CASE device_open(f)
  <2>1. asked' = asked /\ Target(f)' = Null /\ Target(f) = Null
    BY <1>0, <1>1 DEF device_open, TypeOK, IsOpen, Closed, Target, histVars
  <2> QED
    BY <2>1 DEF Got
<1>2. CASE device_release(f)
  <2>1. Target(f)' = Null /\ asked'[f] = Null
    BY <1>0, <1>2 DEF device_release, TypeOK, Closed, Target
  <2> QED
    BY <2>1 DEF Got
<1>3. CASE Settles(f)
  <2>1. UNCHANGED <<devices, node>> /\ call[f].pc \in {"walk", "take"} /\ call[f].pc \in IoctlPc
    BY <1>0, <1>3, Settled
  <2>2. PICK p \in Pointer : SetTo(f, p) /\ p \in (IF At(f, "walk") THEN {call[f].curr} ELSE Shared(f))
    BY <1>0, <1>3, Settled
  <2>3. /\ Target(f)' = p /\ minor(f)' = minor(f) /\ asked'[f] = <<minor(f), call[f].id>>
        /\ call[f].id \in ChannelId /\ minor(f) \in Minor
    BY <1>0, <2>1, <2>2, Busy DEF SetTo, Target, minor, TypeOK
  <2>4. p # Null /\ node[p].channel_id = call[f].id
    <3>1. CASE At(f, "walk")
      <4>1. /\ p = call[f].curr /\ p # Null /\ InUse(p) /\ p \in NodeRef /\ node[p] # Null
            /\ Filled(p)
        BY <1>0, <2>1, <2>2, <3>1, CurrNode DEF At, IoctlPc
      <4>2. node[p].channel_id # Garbage
        BY <1>0, <4>1 DEF Clean
      <4>3. CouldBe(p, call[f].id)
        BY <1>3, <3>1, <4>1 DEF Settles, Found, Take, At
      <4> QED
        BY <4>1, <4>2, <4>3 DEF CouldBe
    <3>2. CASE At(f, "take")
      <4>1. p = Cell(f) /\ Cell(f) \in NodeRef /\ node[Cell(f)].channel_id = call[f].id % 2^Width
        BY <1>0, <2>1, <2>2, <3>2, CellLoad DEF Stage, At, IoctlPc
      <4> QED
        BY <2>3, <4>1, NarrowId, SlotAssumption
    <3> QED
      BY <2>1, <3>1, <3>2 DEF At
  <2>5. asked'[f] # Null
    BY <2>3, NullAssumption DEF Channel
  <2> QED
    BY <2>1, <2>3, <2>4, <2>5 DEF Got
<1>4. CASE Quiet(f)
  BY <1>4, QuietSame, GotKept
<1>5. CASE Alloc(f)
  BY <1>0, <1>5, Allocated, GotKept
<1>6. CASE Fills(f)
  BY <1>0, <1>6, NodeFilled, GotKept
<1>7. CASE Stores(f)
  BY <1>7, GotKept DEF Stores, WriteByte, WriteEnd
<1> QED
  BY <1>1, <1>2, <1>3, <1>4, <1>5, <1>6, <1>7, Kinds

-----------------------------------------------------------------------------
(***************************************************************************)
(* Searches                                                                *)
(***************************************************************************)
LEMMA SearchOthers ==
    ASSUME CleanInv, "ioctl" \notin Overlapping, NEW f \in File, Step(f), NEW g \in File \ {f},
           Searching(g)
    PROVE  Searching(g)'
<1>0. TypeOK /\ CallInv /\ FileInv /\ Alone /\ OnlyFile(f)
  BY StepOnly DEF CleanInv, RaceInv
<1>1. CASE call[g].op = "ioctl"
  <2>1. UNCHANGED <<loaded, devices, node, call>> /\ file'[g] = file[g]
    BY <1>0, <1>1, OthersStill
  <2>2. minor(g)' = minor(g)
    BY <2>1 DEF minor
  <2>3. Channels(minor(g))' = Channels(minor(g))
    BY <2>1, <2>2 DEF Channels, Reach, InList, Filled
  <2>4. \A S \in SUBSET NodeRef : Before(g, S)' <=> Before(g, S)
    BY <2>1, <2>2 DEF Before
  <2> QED
    BY <2>1, <2>3, <2>4 DEF Searching, Missing, At
<1>2. CASE call[g].op # "ioctl"
  <2>1. call[g].pc \notin IoctlPc /\ call'[g] = call[g]
    BY <1>0, <1>2, Calls DEF OnlyFile
  <2> QED
    BY <2>1 DEF Searching, At, IoctlPc, FillPc
<1> QED
  BY <1>1, <1>2

LEMMA MissingKept ==
    ASSUME CleanInv, NEW f \in File, Effect(f), Missing(f), ~SetLen(f),
           minor(f)' = minor(f), minor(f) \in Minor, call'[f].id = call[f].id
    PROVE  Missing(f)'
<1>0. TypeOK /\ Linked
  BY DEF CleanInv, RaceInv
<1> SUFFICES ASSUME NEW n \in Channels(minor(f))' PROVE node'[n].channel_id # call[f].id
  BY DEF Missing
<1>1. PICK m \in Minor : m = minor(f) /\ m = minor(f)'
  OBVIOUS
<1>2. n \in Channels(m)'
  BY <1>1 DEF Channels, Reach, InList
<1>3. n \in Channels(m)
  BY <1>2 DEF Effect
<1>4. node'[n].channel_id = node[n].channel_id
  BY <1>0, <1>3, ChannelUsed DEF Effect, Keeps
<1> QED
  BY <1>1, <1>3, <1>4 DEF Missing

\* Nothing of the list is left to search.
LEMMA SearchEnds ==
    ASSUME CleanInv, NEW f \in File, minor(f) \in Minor, loaded, NEW S \in SUBSET NodeRef,
           devices[minor(f)] \in NodeRef => devices[minor(f)] \in S,
           \A n \in S : /\ node[n].next \in NodeRef => node[n].next \in S
                        /\ node[n].channel_id # call[f].id
    PROVE  Missing(f)
<1>1. InList(minor(f)) \subseteq S
  BY ListLeast
<1> QED
  BY <1>1 DEF Missing, Channels, Reach

LEMMA SearchLooks ==
    ASSUME CleanInv, NEW f \in File, Looks(f), Searching(f), Effect(f), call[f].pc \in IoctlPc
    PROVE  Searching(f)'
<1>0. /\ RaceInv /\ TypeOK /\ CallInv /\ FileInv /\ Linked /\ Clean /\ Stage(f) /\ minor(f)' = minor(f)
      /\ UNCHANGED <<loaded, devices, node, file>>
  BY QuietSame DEF CleanInv, RaceInv, Quiet, minor
<1>1. minor(f) \in Minor /\ loaded /\ call[f] \in IoctlCall
  BY <1>0, Busy
<1>2. ASSUME Missing(f), call'[f].id = call[f].id PROVE Missing(f)'
  <2>1. Channels(minor(f))' = Channels(minor(f))
    BY <1>0 DEF Channels, Reach, InList, Filled
  <2> QED
    BY <1>0, <1>2, <2>1 DEF Missing
<1>3. CASE ReadHead(f)
  <2>1. At(f, "head") /\ call[f].curr = Null
    BY <1>0, <1>3 DEF ReadHead, Stage
  <2>2. CASE devices[minor(f)] = Null
    <3>1. Continue(f, "alloc")
      BY <1>3, <2>2 DEF ReadHead
    <3>2. call'[f].pc = "alloc" /\ call'[f].id = call[f].id
      BY <1>0, <3>1, IoctlHere DEF IoctlPc
    <3>3. PICK S \in SUBSET NodeRef : S = {}
      OBVIOUS
    <3>4. Missing(f)
      BY <1>1, <2>2, <3>3, SearchEnds, SlotAssumption
    <3> QED
      BY <1>2, <3>2, <3>4 DEF Searching, At, FillPc
  <2>3. CASE devices[minor(f)] # Null
    <3>1. Continue(f, "first")
      BY <1>3, <2>3 DEF ReadHead
    <3>2. call'[f].pc = "first"
      BY <1>0, <3>1, IoctlHere DEF IoctlPc
    <3> QED
      BY <3>2 DEF Searching, At, FillPc
  <2> QED
    BY <2>2, <2>3
<1>4. CASE First(f)
  <2>1. call'[f].curr = devices[minor(f)] /\ call'[f].pc = "next"
    BY <1>0, <1>1, <1>4 DEF First, CallInv, IoctlCall
  <2>2. PICK S \in SUBSET NodeRef : S = {}
    OBVIOUS
  <2>3. Before(f, S)'
    BY <1>0, <2>1, <2>2 DEF Before
  <2> QED
    BY <2>1, <2>3 DEF Searching, At, FillPc
<1>5. CASE LoadNext(f)
  <2>1. PICK p : call' = [call EXCEPT ![f].next = p, ![f].pc = "walk"]
    BY <1>5 DEF LoadNext
  <2>2. call'[f].pc = "walk" /\ call'[f].curr = call[f].curr /\ call'[f].id = call[f].id
    BY <1>0, <1>1, <2>1 DEF CallInv, IoctlCall
  <2>3. PICK S \in SUBSET NodeRef : Before(f, S)
    BY <1>5 DEF LoadNext, At, Searching
  <2>4. Before(f, S)'
    BY <1>0, <2>2, <2>3 DEF Before
  <2> QED
    BY <2>2, <2>4 DEF Searching, At, FillPc
<1>6. CASE Differs(f)
  <2>1. /\ At(f, "walk") /\ call[f].next = node[call[f].curr].next /\ CouldDiffer(call[f].curr, call[f].id)
        /\ call[f].curr # Null /\ InUse(call[f].curr) /\ call[f].curr \in NodeRef
    BY <1>0, <1>6, CurrNode DEF Differs, Stage, At, IoctlPc
  <2>2. /\ call'[f].pc = (IF call[f].next = Null THEN "alloc" ELSE "advance")
        /\ call'[f].curr = call[f].curr /\ call'[f].id = call[f].id
    BY <1>0, <1>1, <1>6 DEF Differs, CallInv, IoctlCall
  <2>3. node[call[f].curr].channel_id # call[f].id
    BY <2>1 DEF CouldDiffer
  <2>4. PICK S \in SUBSET NodeRef : Before(f, S)
    BY <2>1 DEF At, Searching
  <2>5. CASE call[f].next = Null
    <3>1. PICK T \in SUBSET NodeRef : T = S \cup {call[f].curr}
      BY <2>1
    <3>2. Missing(f)
      BY <1>1, <2>1, <2>3, <2>4, <2>5, <3>1, SearchEnds, SlotAssumption DEF Before
    <3> QED
      BY <1>2, <2>2, <2>5, <3>2 DEF Searching, At, FillPc
  <2>6. CASE call[f].next # Null
    <3>1. Before(f, S)'
      BY <1>0, <2>2, <2>4 DEF Before
    <3> QED
      BY <1>0, <2>2, <2>3, <2>6, <3>1 DEF Searching, At, FillPc
  <2> QED
    BY <2>5, <2>6
<1>7. CASE Advance(f)
  <2>1. PICK p \in NextOf(call[f].curr) : call' = [call EXCEPT ![f].curr = p, ![f].pc = "next"]
    BY <1>7 DEF Advance
  <2>2. /\ InUse(call[f].curr) /\ node[call[f].curr].next # Garbage /\ call[f].curr \in NodeRef
    BY <1>0, <1>1, <1>7, CurrNode DEF Advance, At, IoctlPc, Clean
  <2>3. p = node[call[f].curr].next
    BY <2>1, <2>2 DEF NextOf
  <2>4. call'[f].pc = "next" /\ call'[f].curr = p /\ call'[f].id = call[f].id
    BY <1>0, <1>1, <2>1 DEF CallInv, IoctlCall
  <2>5. PICK S \in SUBSET NodeRef : Before(f, S)
    BY <1>7 DEF Advance, At, Searching
  <2>6. node[call[f].curr].channel_id # call[f].id
    BY <1>7 DEF Advance, Searching
  <2>7. PICK T \in SUBSET NodeRef : T = S \cup {call[f].curr}
    BY <2>2
  <2>8. Before(f, T)'
    BY <1>0, <2>3, <2>4, <2>5, <2>6, <2>7 DEF Before
  <2> QED
    BY <2>4, <2>8 DEF Searching, At, FillPc
<1>8. CASE Check(f)
  <2>1. At(f, "check") /\ Missing(f)
    BY <1>8 DEF Check, At, Searching, FillPc
  <2>2. CASE call'[f] = Idle
    BY <2>2 DEF Searching, At, Idle, FillPc
  <2>3. CASE Continue(f, "id")
    <3>1. call'[f].pc = "id" /\ call'[f].id = call[f].id
      BY <1>0, <2>1, <2>3, IoctlHere DEF At, IoctlPc
    <3> QED
      BY <1>2, <2>1, <3>1 DEF Searching, At, FillPc
  <2> QED
    BY <1>0, <1>8, <2>2, <2>3 DEF Check, Return, CallInv
<1>9. CASE Oops(f)
  BY <1>9, NoOops
<1> QED
  BY <1>3, <1>4, <1>5, <1>6, <1>7, <1>8, <1>9 DEF Looks, ReadExists, ReadFits, ReadByte, ReadEnd,
     At, IoctlPc

LEMMA SearchStep ==
    ASSUME CleanInv, NEW f \in File, Step(f), Searching(f), Effect(f)
    PROVE  Searching(f)'
<1>0. RaceInv /\ TypeOK /\ CallInv /\ FileInv
  BY DEF CleanInv, RaceInv
<1>1. CASE Looks(f) /\ call[f].pc \in IoctlPc
  BY <1>1, SearchLooks
<1>2. CASE Alloc(f)
  <2>1. call[f].pc = "alloc" /\ call[f].pc \in IoctlPc
    BY <1>2 DEF Alloc, At, IoctlPc
  <2>2. call'[f].pc = "check" /\ call'[f].id = call[f].id
    BY <1>0, <1>2, <2>1, IoctlHere DEF Alloc, IoctlPc
  <2>3. minor(f)' = minor(f) /\ minor(f) \in Minor /\ ~SetLen(f) /\ Missing(f)
    BY <1>0, <1>2, <2>1, Busy DEF Alloc, minor, SetLen, At, Searching
  <2>4. Missing(f)'
    BY <2>2, <2>3, MissingKept
  <2> QED
    BY <2>2, <2>4 DEF Searching, At, FillPc
<1>3. CASE Fills(f)
  <2>1. call[f].pc \in IoctlPc /\ call[f].pc \in FillPc
    BY <1>0, <1>3, NodeFilled DEF FillPc
  <2>2. CASE SetLen(f)
    <3>1. call'[f].pc = "take"
      BY <1>0, <2>1, <2>2, IoctlHere DEF SetLen, IoctlPc
    <3> QED
      BY <3>1 DEF Searching, At, FillPc
  <2>3. CASE ~SetLen(f)
    <3>1. PICK to \in {"clear", "len"} : Continue(f, to)
      BY <1>3, <2>3 DEF Fills, SetId, SetNext
    <3>2. call'[f].pc = to /\ call'[f].id = call[f].id
      BY <1>0, <2>1, <3>1, IoctlHere DEF IoctlPc
    <3>3. minor(f)' = minor(f) /\ minor(f) \in Minor /\ Missing(f)
      BY <1>0, <1>3, <2>1, Busy, NodeFilled DEF minor, Searching
    <3>4. Missing(f)'
      BY <2>3, <3>2, <3>3, MissingKept
    <3> QED
      BY <3>2, <3>4 DEF Searching, At, FillPc
  <2> QED
    BY <2>2, <2>3
<1>4. ASSUME call'[f].pc \notin IoctlPc \/ call'[f].pc = "head" PROVE Searching(f)'
  BY <1>4 DEF Searching, At, IoctlPc, FillPc
<1>5. CASE device_open(f) \/ device_release(f)
  <2>1. call'[f] = Idle
    BY <1>0, <1>5, Calls DEF device_open, device_release, Ready
  <2> QED
    BY <1>4, <2>1 DEF Idle, IoctlPc
<1>6. CASE Begins(f)
  BY <1>0, <1>4, <1>6 DEF Begins, Ioctl, Write, Read, Return, CallInv, Idle, IoctlPc
<1>7. CASE Looks(f) /\ call[f].pc \notin IoctlPc
  <2>1. call[f] # Idle /\ call[f].op # "ioctl"
    BY <1>0, <1>7, LooksFrom, Calls DEF Idle, IoctlPc, ReadPc
  <2>2. call'[f].op # "ioctl"
    <3>1. CASE Begins(f)
      BY <2>1, <3>1 DEF Begins, Ioctl, Write, Read, MayStart, Ready
    <3>2. CASE device_open(f) \/ device_release(f)
      BY <1>0, <2>1, <3>2, Calls DEF device_open, device_release, Ready
    <3> QED
      BY <1>0, <2>1, <3>1, <3>2, GoesOn DEF Idle
  <2>3. CallInv'
    BY <1>0, CallStep DEF Next
  <2>4. call'[f].pc \notin IoctlPc
    BY <2>2, <2>3 DEF CallInv, CallType, IoctlCall, WriteCall, ReadCall, Idle, IoctlPc, ReadPc
  <2> QED
    BY <1>4, <2>4
<1>8. CASE Settles(f)
  <2>1. call'[f] = Idle
    BY <1>0, <1>8, Settled DEF SetTo, Return, CallInv
  <2> QED
    BY <1>4, <2>1 DEF Idle, IoctlPc
<1>9. CASE Stores(f)
  <2>1. call'[f] = Idle \/ call'[f].pc = "write"
    <3>1. call[f] \in WriteCall
      BY <1>0, <1>9, Calls DEF Stores, WriteByte, WriteEnd
    <3> QED
      BY <1>0, <1>9, <3>1 DEF Stores, WriteByte, WriteEnd, Return, CallInv, WriteCall
  <2> QED
    BY <1>4, <2>1 DEF Idle, IoctlPc
<1> QED
  BY <1>1, <1>2, <1>3, <1>5, <1>6, <1>7, <1>8, <1>9, Kinds DEF Quiet

LEMMA ListStep ==
    CleanInv /\ ListInv /\ "ioctl" \notin Overlapping /\ Narrow /\ [Next]_vars => ListInv'
<1> SUFFICES ASSUME CleanInv, ListInv, "ioctl" \notin Overlapping, Narrow, [Next]_vars PROVE ListInv'
  OBVIOUS
<1>0. RaceInv /\ TypeOK /\ CallInv /\ FileInv /\ Linked
  BY DEF CleanInv, RaceInv
<1>1. ASSUME NEW f \in File, Step(f) PROVE ListInv'
  <2>1. Effect(f) /\ OnlyFile(f)
    BY <1>0, <1>1, EffectStep, StepOnly
  <2>2. Unique'
    BY <2>1, UniqueStep DEF ListInv
  <2>3. \A g \in File : Got(g)'
    BY <1>1, <2>1, GotStep, GotKept DEF ListInv, OnlyFile
  <2>4. \A g \in File : Searching(g)'
    BY <1>1, <2>1, SearchStep, SearchOthers DEF ListInv
  <2> QED
    BY <2>2, <2>3, <2>4 DEF ListInv
<1>2. ASSUME \A f \in File : ~IsOpen(f), UNCHANGED <<file, call, asked>>,
             \A m \in Minor : Reach(m)' = {}
      PROVE  ListInv'
  <2>1. \A f \in File : Target(f) = Null /\ call[f] = Idle
    BY <1>0, <1>2, Calls DEF IsOpen, Closed, Target
  <2>2. \A f \in File : Got(f)' /\ Searching(f)'
    BY <1>2, <2>1 DEF ListInv, Got, Searching, Target, At, Idle, FillPc
  <2> QED
    BY <1>2, <2>2 DEF ListInv, Unique, Channels
<1>3. CASE msgslot_init \/ msgslot_exit
  <2>1. (\A f \in File : ~IsOpen(f)) /\ UNCHANGED <<file, call, asked>>
    BY <1>0, <1>3 DEF msgslot_init, msgslot_exit, Unused, FileInv, histVars
  <2>2. \A m \in Minor : Reach(m)' = {}
    BY <1>3, NothingListed
  <2> QED
    BY <1>2, <2>1, <2>2
<1>4. CASE UNCHANGED vars
  <2>1. UNCHANGED <<loaded, devices, node, file, call, asked>>
    BY <1>4 DEF vars, memVars, histVars
  <2>2. \A m : Channels(m)' = Channels(m)
    BY <2>1, ReachSame
  <2>3. \A f \in File : minor(f)' = minor(f) /\ Target(f)' = Target(f)
    BY <2>1 DEF minor, Target
  <2>4. \A f \in File : Channels(minor(f))' = Channels(minor(f))
    BY <2>1 DEF Channels, Reach, InList, Filled, minor
  <2>5. \A f \in File : Got(f)' <=> Got(f)
    BY <2>1, <2>3 DEF Got
  <2>6. \A f \in File : Searching(f)' <=> Searching(f)
    BY <2>1, <2>3, <2>4 DEF Searching, Before, Missing, At
  <2>7. Unique'
    BY <2>1, <2>2 DEF ListInv, Unique
  <2> QED
    BY <2>5, <2>6, <2>7 DEF ListInv
<1> QED
  BY <1>1, <1>3, <1>4 DEF Next

LEMMA ListInit == Init => ListInv
<1> SUFFICES ASSUME Init PROVE ListInv
  OBVIOUS
<1>1. \A f \in File : call[f] = Idle /\ Target(f) = Null /\ asked[f] = Null
  BY DEF Init, Target, Closed
<1> QED
  BY <1>1 DEF Init, ListInv, Unique, Channels, Reach, Got, Searching, At, Idle, FillPc

LEMMA ListInvariance ==
    ASSUME "ioctl" \notin Overlapping, Narrow
    PROVE  Spec => [](CleanInv /\ ListInv)
<1>1. CleanInv /\ ListInv /\ [Next]_vars => ListInv'
  BY ListStep
<1> QED
  BY <1>1, ListInit, CleanInvariance, PTL DEF Spec

\* When ioctls exclude other calls and channel identifiers fit into NODE.channel_id,
\* two files use the same NODE exactly if they asked for the same channel (lines
\* 119-156).  Without the first, ioctls that race append two NODEs; without the
\* second the NODE of a channel is not found again.
THEOREM ChannelsHaveOneNode ==
    ASSUME "ioctl" \notin Overlapping, Narrow
    PROVE  Spec => []OneNodePerChannel
<1>1. ASSUME CleanInv, ListInv, NEW f \in File, NEW g \in File, asked[f] # Null, asked[g] # Null
      PROVE  Target(f) = Target(g) <=> asked[f] = asked[g]
  <2>0. RaceInv /\ Linked /\ Uses(f) /\ Uses(g)
    BY <1>1 DEF CleanInv, RaceInv
  <2>1. /\ Target(f) # Null /\ asked[f] = <<minor(f), node[Target(f)].channel_id>>
        /\ Target(g) # Null /\ asked[g] = <<minor(g), node[Target(g)].channel_id>>
    BY <1>1 DEF ListInv, Got
  <2>2. /\ minor(f) \in Minor /\ Target(f) \in Channels(minor(f)) /\ loaded
        /\ minor(g) \in Minor /\ Target(g) \in Channels(minor(g))
    BY <2>0, <2>1, TargetNode
  <2>3. ASSUME Target(f) = Target(g) PROVE asked[f] = asked[g]
    <3>1. minor(f) = minor(g)
      BY <2>0, <2>2, <2>3, ListsDisjoint DEF Channels, Reach
    <3> QED
      BY <2>1, <2>3, <3>1
  <2>4. ASSUME asked[f] = asked[g] PROVE Target(f) = Target(g)
    BY <1>1, <2>1, <2>2, <2>4 DEF ListInv, Unique
  <2> QED
    BY <2>3, <2>4
<1>2. CleanInv /\ ListInv => OneNodePerChannel
  BY <1>1 DEF OneNodePerChannel
<1> QED
  BY <1>2, ListInvariance, PTL

-----------------------------------------------------------------------------
(***************************************************************************)
(* Calls one after the other                                               *)
(***************************************************************************)
Sequential == \A f, g \in File : f # g => call[f] = Idle \/ call[g] = Idle

\* While a call is in progress, other files only come and go.
LEMMA OthersWait ==
    ASSUME TypeOK, CallInv, FileInv, Sequential, Overlapping = {},
           NEW f \in File, Step(f), NEW g \in File \ {f}, call[g] # Idle
    PROVE  UNCHANGED <<loaded, devices, node, call, sent>> /\ file'[g] = file[g]
<1>1. call[f] = Idle
  BY DEF Sequential
<1>2. ASSUME NEW op, MayStart(f, op) PROVE FALSE
  BY <1>2 DEF MayStart
<1>3. ~Begins(f)
  BY <1>2 DEF Begins, Ioctl, Write, Read
<1>4. device_open(f) \/ device_release(f)
  BY <1>1, <1>3, GoesOn
<1> QED
  BY <1>4 DEF device_open, device_release, memVars, histVars, TypeOK

LEMMA SequentialStep ==
    ASSUME TypeOK, CallInv, FileInv, Sequential, Overlapping = {}, NEW f \in File, Step(f)
    PROVE  Sequential'
<1>1. OnlyFile(f)
  BY StepOnly
<1>2. CASE \E g \in File \ {f} : call[g] # Idle
  BY <1>2, OthersWait DEF Sequential
<1>3. CASE \A g \in File \ {f} : call[g] = Idle
  BY <1>1, <1>3 DEF Sequential, OnlyFile
<1> QED
  BY <1>2, <1>3

-----------------------------------------------------------------------------
(***************************************************************************)
(* A NODE holds the message of its channel                                 *)
(***************************************************************************)
Mapped == \A b \in Buffer : b.mapped = Len(b.bytes)

Shows(n, s) ==
    IF node[n].msg_len = 0 THEN s = Null
    ELSE s # Null /\ s = [i \in 1 .. node[n].msg_len |-> node[n].channel[i - 1]]

Written(n) == \E f \in File : At(f, "write") /\ Target(f) = n

\* A channel without a NODE has no message, one with a NODE that nobody writes has
\* what is in it.
SentInv ==
    \A m \in Minor :
        /\ \A n \in Channels(m) : ~Written(n) => Shows(n, sent[<<m, node[n].channel_id>>])
        /\ \A id \in ChannelId :
               (\A n \in Channels(m) : node[n].channel_id # id) => sent[<<m, id>>] = Null

Writing(f) ==
    At(f, "write") => \A j \in 1 .. call[f].i :
        node[Target(f)].channel[j - 1] = call[f].buffer.bytes[j]
Reading(f) ==
    /\ call[f].pc \in {"exists", "fits"} => call[f].out = <<>>
    /\ call[f].pc \in {"fits", "read"} => node[Target(f)].msg_len # 0
    /\ At(f, "read") =>
          /\ Len(call[f].out) <= node[Target(f)].msg_len
          /\ \A j \in 1 .. Len(call[f].out) : call[f].out[j] = node[Target(f)].channel[j - 1]

CopyInv == \A f \in File : Writing(f) /\ Reading(f)

SlotInv == Sequential /\ SentInv /\ CopyInv

LEMMA NoFault ==
    ASSUME CallInv, Mapped, NEW f \in File, WriteByte(f)
    PROVE  /\ call' = [call EXCEPT ![f].i = call[f].i + 1] /\ ret' = ret
           /\ call[f].i < call[f].buffer.mapped
<1>1. /\ call[f].i < Len(call[f].buffer.bytes) /\ call[f].buffer \in Buffer
      /\ call[f].i \in Nat /\ Len(call[f].buffer.bytes) \in Nat
  BY WriteFacts DEF WriteByte
<1>2. ~(call[f].i >= call[f].buffer.mapped) /\ call[f].i < call[f].buffer.mapped
  BY <1>1 DEF Mapped
<1> QED
  BY <1>2 DEF WriteByte

\* A write is left only by its own steps.
LEMMA WritesOn ==
    ASSUME CleanInv, NEW f \in File, Step(f), At(f, "write")
    PROVE  Stores(f)
<1>0. TypeOK /\ CallInv /\ FileInv
  BY DEF CleanInv, RaceInv
<1>1. call[f] # Idle /\ IsOpen(f) /\ call[f].pc \notin IoctlPc \cup ReadPc
  BY <1>0, Calls DEF At, Idle, IoctlPc, ReadPc
<1>2. ~device_open(f) /\ ~device_release(f) /\ ~Begins(f)
  BY <1>1 DEF device_open, device_release, Ready, Begins, Ioctl, Write, Read, MayStart
<1>3. ~Looks(f)
  BY <1>1, NoOops DEF Looks, ReadHead, First, LoadNext, Differs, Advance, Check,
     ReadExists, ReadFits, ReadByte, ReadEnd, At, IoctlPc, ReadPc
<1>4. ~Settles(f)
  BY <1>0, <1>1, Settled
<1>5. ~Alloc(f)
  BY <1>1 DEF Alloc, At, IoctlPc
<1>6. ~Fills(f)
  BY <1>1 DEF Fills, SetId, SetNext, SetLen, At, IoctlPc
<1> QED
  BY <1>2, <1>3, <1>4, <1>5, <1>6, Kinds DEF Quiet

\* Only the end of a write sends.
LEMMA SentSame ==
    ASSUME TypeOK, CallInv, FileInv, NEW f \in File, Step(f), ~WriteEnd(f)
    PROVE  sent' = sent
<1>1. CASE device_open(f) \/ device_release(f)
  BY <1>1 DEF device_open, device_release, histVars
<1>2. CASE Quiet(f)
  BY <1>2, QuietSame
<1>3. CASE Settles(f)
  BY <1>3, Settled
<1>4. CASE Alloc(f)
  BY <1>4, Allocated
<1>5. CASE Fills(f)
  BY <1>5, NodeFilled
<1>6. CASE WriteByte(f)
  BY <1>6 DEF WriteByte
<1> QED
  BY <1>1, <1>2, <1>3, <1>4, <1>5, <1>6, Kinds DEF Stores

\* A channel without NODE had none before.
LEMMA StillNone ==
    ASSUME CleanInv, NEW f \in File, Effect(f), NEW m \in Minor, NEW id,
           \A n \in Channels(m)' : node'[n].channel_id # id
    PROVE  \A n \in Channels(m) : node[n].channel_id # id
<1>0. TypeOK /\ Linked
  BY DEF CleanInv, RaceInv
<1> TAKE n \in Channels(m)
<1>1. node'[n].channel_id = node[n].channel_id
  BY <1>0, ChannelUsed DEF Effect, Keeps
<1> QED
  BY <1>1 DEF Effect

LEMMA SentKept ==
    ASSUME CleanInv, ListInv, SentInv, Narrow, NEW f \in File, Step(f), Effect(f), ~Stores(f)
    PROVE  SentInv'
<1>0. TypeOK /\ CallInv /\ FileInv /\ Linked
  BY DEF CleanInv, RaceInv
<1>1. sent' = sent /\ ~At(f, "write") /\ OnlyFile(f)
  BY <1>0, SentSame, WritesOn, StepOnly DEF Stores
<1>2. ASSUME NEW n, Written(n) PROVE Written(n)'
  BY <1>1, <1>2 DEF Written, OnlyFile, At, Target
<1>3. ASSUME NEW m \in Minor, NEW n \in Channels(m)', ~Written(n)'
      PROVE  Shows(n, sent[<<m, node[n].channel_id>>])'
  <2>1. CASE n \in Channels(m)
    <3>1. node'[n].channel_id = node[n].channel_id /\ SameData(n)
      BY <1>0, <2>1, ChannelUsed DEF Effect, Keeps
    <3>2. Shows(n, sent[<<m, node[n].channel_id>>])
      BY <1>2, <1>3, <2>1 DEF SentInv
    <3> QED
      BY <1>1, <3>1, <3>2 DEF Shows, SameData
  <2>2. CASE SetLen(f) /\ m = minor(f) /\ n = Cell(f)
    <3>1. node'[n].channel_id = call[f].id /\ node'[n].msg_len = 0 /\ call[f].id \in ChannelId
      BY <2>2, Joined
    <3>2. Missing(f)
      BY <2>2 DEF ListInv, Searching, SetLen, At, FillPc
    <3>3. sent[<<m, call[f].id>>] = Null
      BY <2>2, <3>1, <3>2 DEF SentInv, Missing
    <3> QED
      BY <1>1, <3>1, <3>3 DEF Shows
  <2> QED
    BY <1>3, <2>1, <2>2 DEF Effect
<1>4. ASSUME NEW m \in Minor, NEW id \in ChannelId, \A n \in Channels(m)' : node'[n].channel_id # id
      PROVE  sent'[<<m, id>>] = Null
  BY <1>1, <1>4, StillNone DEF SentInv
<1> QED
  BY <1>3, <1>4 DEF SentInv

\* What a store leaves alone.
LEMMA StoresOne ==
    ASSUME CleanInv, Mapped, NEW f \in File, Stores(f)
    PROVE  /\ Target(f) \in NodeRef /\ node[Target(f)] \in NodeType /\ Filled(Target(f))
           /\ minor(f) \in Minor /\ Target(f) \in Channels(minor(f)) /\ At(f, "write")
           /\ \A n \in NodeRef : n # Target(f) => node'[n] = node[n]
           /\ \/ /\ WriteByte(f) /\ node'[Target(f)].msg_len = node[Target(f)].msg_len
                 /\ node'[Target(f)].channel = [node[Target(f)].channel EXCEPT
                        ![call[f].i] = call[f].buffer.bytes[call[f].i + 1]]
              \/ /\ WriteEnd(f) /\ node'[Target(f)].msg_len = call[f].i
                 /\ node'[Target(f)].channel = node[Target(f)].channel
<1>0. TypeOK /\ CallInv /\ FileInv /\ RaceInv /\ Uses(f) /\ At(f, "write")
  BY DEF CleanInv, RaceInv, Stores, WriteByte, WriteEnd
<1>1. /\ Target(f) \in NodeRef /\ node[Target(f)] \in NodeType /\ Filled(Target(f))
      /\ minor(f) \in Minor /\ Target(f) \in Channels(minor(f)) /\ InUse(Target(f))
  BY <1>0, TargetNode, WriteFacts
<1>2. ASSUME NEW r, node' = [node EXCEPT ![Target(f)] = r]
      PROVE  node'[Target(f)] = r /\ \A n \in NodeRef : n # Target(f) => node'[n] = node[n]
  BY <1>0, <1>1, <1>2 DEF TypeOK
<1>3. CASE WriteByte(f)
  <2>1. call[f].i < call[f].buffer.mapped
    BY <1>0, <1>3, NoFault
  <2>2. PICK r \in NodeType, v \in Byte \cup {Zero} :
                    /\ node' = [node EXCEPT ![Target(f)] = r]
                    /\ r.msg_len = node[Target(f)].msg_len
                    /\ r.channel = [node[Target(f)].channel EXCEPT ![call[f].i] = v]
                    /\ call[f].i < call[f].buffer.mapped => v = call[f].buffer.bytes[call[f].i + 1]
    BY <1>0, <1>1, <1>3, ByteStored
  <2> QED
    BY <1>0, <1>1, <1>2, <1>3, <2>1, <2>2
<1>4. CASE WriteEnd(f)
  BY <1>0, <1>1, <1>2, <1>4, LengthStored
<1> QED
  BY <1>3, <1>4 DEF Stores

\* The bytes of a message that has been copied.
LEMMA Copied ==
    ASSUME CallInv, NEW f \in File, Writing(f), WriteEnd(f)
    PROVE  /\ call[f].buffer.bytes \in Message /\ call[f].buffer.bytes # Null
           /\ call[f].i # 0 /\ call[f].i \in Nat
           /\ call[f].buffer.bytes = [j \in 1 .. call[f].i |-> node[Target(f)].channel[j - 1]]
<1>1. /\ call[f].buffer \in Buffer /\ Len(call[f].buffer.bytes) \in 1 .. BUF_LEN
      /\ call[f].i = Len(call[f].buffer.bytes) /\ At(f, "write")
  BY WriteFacts DEF WriteEnd
<1>2. call[f].buffer.bytes \in Message /\ call[f].buffer.bytes \in Seq(Byte)
  BY <1>1, SlotAssumption DEF Message
<1>3. call[f].buffer.bytes # Null
  BY <1>2, NullAssumption
<1> DEFINE b == call[f].buffer.bytes
<1>4. DOMAIN b = 1 .. Len(b) /\ b = [j \in DOMAIN b |-> b[j]]
  BY <1>2
<1>5. \A j \in 1 .. Len(b) : b[j] = node[Target(f)].channel[j - 1]
  BY <1>1 DEF Writing
<1>6. b = [j \in 1 .. Len(b) |-> node[Target(f)].channel[j - 1]]
  <2> HIDE DEF b
  <2> QED
    BY <1>4, <1>5
<1> QED
  BY <1>1, <1>2, <1>3, <1>6, SlotAssumption

LEMMA SentStored ==
    ASSUME CleanInv, ListInv, SlotInv, Mapped, NEW f \in File, Step(f), Effect(f), Stores(f)
    PROVE  SentInv'
<1>0. TypeOK /\ CallInv /\ FileInv /\ Linked /\ OnlyFile(f) /\ Sequential /\ SentInv /\ Writing(f)
  BY StepOnly DEF CleanInv, RaceInv, SlotInv, CopyInv
<1> DEFINE t == Target(f)
<1>1. /\ t \in NodeRef /\ node[t] \in NodeType /\ Filled(t) /\ At(f, "write")
      /\ minor(f) \in Minor /\ t \in Channels(minor(f))
      /\ \A n \in NodeRef : n # t => node'[n] = node[n]
  BY StoresOne
<1>2. \A m \in Minor : Channels(m)' = Channels(m)
  <2>1. ~SetLen(f)
    BY <1>1 DEF SetLen, At
  <2> QED
    BY <2>1 DEF Effect
<1>3. \A g \in File \ {f} : call[g] = Idle /\ call[g].pc = "idle"
  BY <1>0, <1>1 DEF Sequential, At, Idle
<1>4. \A n : Written(n) => n = t
  BY <1>3 DEF Written, At
<1>5. \A m \in Minor : \A n \in Channels(m) : n \in NodeRef /\ node'[n].channel_id = node[n].channel_id
  BY <1>0, ChannelUsed DEF Effect, Keeps
<1>6. asked[f] # Null /\ asked[f] = <<minor(f), node[t].channel_id>>
  <2>1. t # Null
    BY <1>1, SlotAssumption
  <2> QED
    BY <2>1 DEF ListInv, Got
<1>7. CASE WriteByte(f)
  <2>1. sent' = sent
    BY <1>7 DEF WriteByte
  <2>2. call' = [call EXCEPT ![f].i = call[f].i + 1] /\ file' = file
    BY <1>0, <1>7, NoFault DEF WriteByte
  <2>3. call[f] \in WriteCall
    BY <1>0, <1>1, WriteFacts
  <2>4. \A n : n = t => Written(n)'
    BY <1>0, <1>1, <2>2, <2>3 DEF Written, At, Target, WriteCall, CallInv
  <2>5. ASSUME NEW m \in Minor, NEW n \in Channels(m)', ~Written(n)'
        PROVE  Shows(n, sent[<<m, node[n].channel_id>>])'
    <3>1. n # t /\ n \in NodeRef /\ n \in Channels(m)
      BY <1>2, <1>5, <2>4, <2>5
    <3>2. ~Written(n) /\ node'[n] = node[n]
      BY <1>1, <1>4, <3>1
    <3>3. Shows(n, sent[<<m, node[n].channel_id>>])
      BY <1>0, <3>1, <3>2 DEF SentInv
    <3> QED
      BY <2>1, <3>2, <3>3 DEF Shows
  <2>6. ASSUME NEW m \in Minor, NEW id \in ChannelId, \A n \in Channels(m)' : node'[n].channel_id # id
        PROVE  sent'[<<m, id>>] = Null
    BY <1>0, <2>1, <2>6, StillNone DEF SentInv
  <2> QED
    BY <2>5, <2>6 DEF SentInv
<1>8. CASE WriteEnd(f)
  <2>1. /\ sent' = [sent EXCEPT ![asked[f]] = call[f].buffer.bytes]
        /\ asked[f] \in Channel /\ DOMAIN sent = Channel
    BY <1>0, <1>6, <1>8 DEF WriteEnd, TypeOK
  <2>2. node'[t].msg_len = call[f].i /\ node'[t].channel = node[t].channel
    <3>1. call[f].i \in Int /\ call[f].i = Len(call[f].buffer.bytes)
      BY <1>0, <1>1, <1>8, WriteFacts, SlotAssumption DEF WriteEnd
    <3>2. ~WriteByte(f)
      BY <3>1 DEF WriteByte
    <3> QED
      BY <3>2, StoresOne
  <2>3. /\ call[f].buffer.bytes # Null /\ call[f].i # 0
        /\ call[f].buffer.bytes = [j \in 1 .. call[f].i |-> node[t].channel[j - 1]]
    BY <1>0, <1>8, Copied
  <2>4. ASSUME NEW m \in Minor, NEW n \in Channels(m)', ~Written(n)'
        PROVE  Shows(n, sent[<<m, node[n].channel_id>>])'
    <3>1. n \in NodeRef /\ n \in Channels(m) /\ node'[n].channel_id = node[n].channel_id
      BY <1>2, <1>5, <2>4
    <3>2. CASE n = t
      <4>1. m = minor(f)
        BY <1>0, <1>1, <3>1, <3>2, ListsDisjoint DEF Channels, Reach
      <4>2. sent'[<<m, node[n].channel_id>>] = call[f].buffer.bytes
        BY <1>6, <2>1, <3>2, <4>1
      <4>3. (sent[<<m, node[n].channel_id>>])' = call[f].buffer.bytes
        BY <3>1, <4>2
      <4> QED
        BY <2>2, <2>3, <3>2, <4>3 DEF Shows
    <3>3. CASE n # t
      <4>1. ~Written(n) /\ node'[n] = node[n]
        BY <1>1, <1>4, <3>1, <3>3
      <4>2. Shows(n, sent[<<m, node[n].channel_id>>])
        BY <1>0, <3>1, <4>1 DEF SentInv
      <4>3. asked[f] # <<m, node[n].channel_id>>
        BY <1>1, <1>6, <3>1, <3>3 DEF ListInv, Unique
      <4>4. sent'[<<m, node[n].channel_id>>] = sent[<<m, node[n].channel_id>>]
        BY <2>1, <4>3
      <4> QED
        BY <4>1, <4>2, <4>4 DEF Shows
    <3> QED
      BY <3>2, <3>3
  <2>5. ASSUME NEW m \in Minor, NEW id \in ChannelId, \A n \in Channels(m)' : node'[n].channel_id # id
        PROVE  sent'[<<m, id>>] = Null
    <3>1. \A n \in Channels(m) : node[n].channel_id # id
      BY <2>5, StillNone
    <3>2. asked[f] # <<m, id>>
      BY <1>1, <1>6, <3>1
    <3> QED
      BY <1>0, <2>1, <3>1, <3>2 DEF SentInv
  <2> QED
    BY <2>4, <2>5 DEF SentInv
<1> QED
  BY <1>7, <1>8 DEF Stores

-----------------------------------------------------------------------------
(***************************************************************************)
(* What is copied                                                          *)
(***************************************************************************)
LEMMA CopyReturned ==
    ASSUME CallInv, NEW f \in File, call'[f] = Idle
    PROVE  Writing(f)' /\ Reading(f)'
BY DEF Writing, Reading, At, Idle

LEMMA CopyOthers ==
    ASSUME TypeOK, CallInv, FileInv, SlotInv, Overlapping = {}, NEW f \in File, Step(f),
           NEW g \in File \ {f}
    PROVE  Writing(g)' /\ Reading(g)'
<1>1. CASE call[g] = Idle
  <2>1. call'[g] = Idle
    BY <1>1, StepOnly DEF OnlyFile
  <2> QED
    BY <2>1, CopyReturned
<1>2. CASE call[g] # Idle
  <2>1. UNCHANGED <<node, call>> /\ file'[g] = file[g]
    BY <1>2, OthersWait DEF SlotInv
  <2>2. Target(g)' = Target(g)
    BY <2>1 DEF Target
  <2>3. Writing(g) /\ Reading(g)
    BY DEF SlotInv, CopyInv
  <2> QED
    BY <2>1, <2>2, <2>3 DEF Writing, Reading, At
<1> QED
  BY <1>1, <1>2

\* What a file finds in the NODE that it reads.
LEMMA ReadsLength ==
    ASSUME CleanInv, NEW f \in File, Target(f) # Null
    PROVE  /\ LenOf(Target(f)) = {node[Target(f)].msg_len}
           /\ node[Target(f)].msg_len \in 0 .. BUF_LEN
           /\ \A k : ByteOf(Target(f), k) = node[Target(f)].channel[k]
<1>1. /\ InUse(Target(f)) /\ node[Target(f)] \in NodeType /\ Filled(Target(f))
  BY TargetNode DEF CleanInv
<1> QED
  BY <1>1 DEF LenOf, ByteOf, Filled, NodeType

LEMMA CopyLooks ==
    ASSUME CleanInv, NEW f \in File, Writing(f), Reading(f), Looks(f)
    PROVE  Writing(f)' /\ Reading(f)'
<1>0. TypeOK /\ CallInv /\ FileInv
  BY DEF CleanInv, RaceInv
<1>1. UNCHANGED <<loaded, devices, node, file, asked, sent>> /\ Target(f)' = Target(f)
  BY QuietSame DEF Quiet, Target
<1>2. CASE \E value : Return(f, value)
  BY <1>0, <1>2, CopyReturned DEF Return, CallInv
<1>3. CASE call[f].pc \in IoctlPc /\ ~ \E value : Return(f, value)
  <2>1. PICK c \in IoctlCall : call' = [call EXCEPT ![f] = c]
    BY <1>0, <1>3, Moves
  <2>2. call'[f].pc \in IoctlPc
    BY <1>0, <2>1 DEF CallInv, IoctlCall
  <2> QED
    BY <2>2 DEF Writing, Reading, At, IoctlPc
<1>4. CASE call[f].pc \in ReadPc /\ ~ \E value : Return(f, value)
  <2>1. /\ call[f] \in ReadCall /\ Target(f) # Null
        /\ call[f].out \in Seq(AnyByte) /\ Len(call[f].out) \in Nat
    BY <1>0, <1>4, ReadFacts
  <2>2. /\ LenOf(Target(f)) = {node[Target(f)].msg_len}
        /\ node[Target(f)].msg_len \in 0 .. BUF_LEN
        /\ \A k : ByteOf(Target(f), k) = node[Target(f)].channel[k]
    BY <2>1, ReadsLength
  <2>3. ASSUME NEW to \in ReadPc, Continue(f, to)
        PROVE  call'[f].pc = to /\ call'[f].out = call[f].out
    BY <1>0, <2>1, <2>3 DEF Continue, CallInv, ReadCall
  <2>4. CASE ReadExists(f)
    <3>1. Continue(f, "fits") /\ node[Target(f)].msg_len # 0 /\ call[f].out = <<>>
      BY <1>4, <2>2, <2>4 DEF ReadExists, Reading, At
    <3> QED
      BY <1>1, <2>3, <3>1 DEF Writing, Reading, At, ReadPc
  <2>5. CASE ReadFits(f)
    <3>1. Continue(f, "read") /\ node[Target(f)].msg_len # 0 /\ call[f].out = <<>>
      BY <1>4, <2>2, <2>5 DEF ReadFits, Reading, At
    <3>2. call'[f].pc = "read" /\ call'[f].out = <<>>
      BY <2>3, <3>1 DEF ReadPc
    <3>3. 0 <= node[Target(f)].msg_len
      BY <2>2, SlotAssumption
    <3> QED
      BY <1>1, <3>1, <3>2, <3>3 DEF Writing, Reading, At
  <2>6. CASE ReadByte(f)
    <3> DEFINE o == call[f].out
               b == node[Target(f)].channel[Len(o)]
    <3>1. call' = [call EXCEPT ![f].out = Append(o, b)] /\ Len(o) < node[Target(f)].msg_len
          /\ At(f, "read")
      BY <1>4, <2>2, <2>6 DEF ReadByte, MoreToRead
    <3>2. call'[f].out = Append(o, b) /\ call'[f].pc = "read"
      BY <1>0, <2>1, <3>1 DEF CallInv, ReadCall, At
    <3>3. /\ Len(Append(o, b)) = Len(o) + 1 /\ Append(o, b)[Len(o) + 1] = b
          /\ \A j \in 1 .. Len(o) : Append(o, b)[j] = o[j]
      BY <2>1
    <3>4. \A j \in 1 .. Len(o) : o[j] = node[Target(f)].channel[j - 1]
      BY <3>1 DEF Reading
    <3>5. node[Target(f)].msg_len \in Int /\ Len(o) \in Nat
      BY <2>1, <2>2, SlotAssumption
    <3>6. node[Target(f)].channel[Len(o)] = b
      OBVIOUS
    <3> HIDE DEF o, b
    <3>7. PICK k \in Nat : k = Len(o)
      BY <3>5
    <3>8. \A j \in 1 .. k + 1 : Append(o, b)[j] = node[Target(f)].channel[j - 1]
      <4> TAKE j \in 1 .. k + 1
      <4>1. CASE j = k + 1
        <5>1. j - 1 = k
          BY <4>1
        <5> QED
          BY <3>3, <3>6, <3>7, <4>1, <5>1
      <4>2. CASE j # k + 1
        <5>1. j \in 1 .. k
          BY <4>2
        <5> QED
          BY <3>3, <3>4, <3>7, <5>1
      <4> QED
        BY <4>1, <4>2
    <3>9. Len(call'[f].out) = k + 1 /\ k + 1 <= node[Target(f)].msg_len
          /\ node[Target(f)].msg_len # 0
      BY <3>1, <3>2, <3>3, <3>5, <3>7
    <3>10. \A j \in 1 .. Len(call'[f].out) : call'[f].out[j] = node[Target(f)].channel[j - 1]
      BY <3>2, <3>8, <3>9
    <3> QED
      BY <1>1, <3>2, <3>9, <3>10 DEF Writing, Reading, At
  <2>7. ~ReadHead(f) /\ ~First(f) /\ ~LoadNext(f) /\ ~Differs(f) /\ ~Advance(f) /\ ~Check(f)
    BY <1>4 DEF ReadHead, First, LoadNext, Differs, Advance, Check, At, ReadPc
  <2> QED
    BY <1>4, <2>4, <2>5, <2>6, <2>7 DEF Looks, ReadEnd, Oops
<1>5. ~At(f, "write")
  <2>1. SUFFICES ASSUME At(f, "write") PROVE FALSE
    OBVIOUS
  <2> QED
    BY <2>1, NoOops DEF Looks, ReadHead, First, LoadNext, Differs, Advance, Check,
       ReadExists, ReadFits, ReadByte, ReadEnd, At
<1> QED
  BY <1>0, <1>2, <1>3, <1>4, <1>5, LooksFrom DEF At

LEMMA CopyStores ==
    ASSUME CleanInv, Mapped, NEW f \in File, Writing(f), Stores(f)
    PROVE  Writing(f)' /\ Reading(f)'
<1>0. TypeOK /\ CallInv /\ At(f, "write")
  BY DEF CleanInv, RaceInv, Stores, WriteByte, WriteEnd
<1>1. CASE WriteEnd(f)
  BY <1>0, <1>1, CopyReturned DEF WriteEnd, Return, CallInv
<1>2. CASE WriteByte(f)
  <2>1. /\ call' = [call EXCEPT ![f].i = call[f].i + 1] /\ file' = file
    BY <1>0, <1>2, NoFault DEF WriteByte
  <2>2. call[f] \in WriteCall /\ call[f].i \in Nat /\ call[f].i \in 0 .. BUF_LEN - 1
    BY <1>0, <1>2, WriteFacts, SlotAssumption DEF WriteByte
  <2>3. PICK k \in Nat : k = call[f].i
    BY <2>2
  <2>4. /\ call'[f].i = k + 1 /\ call'[f].buffer = call[f].buffer /\ call'[f].pc = "write"
        /\ Target(f)' = Target(f)
    BY <1>0, <2>1, <2>2, <2>3 DEF CallInv, WriteCall, At, Target
  <2>5. /\ node[Target(f)] \in NodeType
        /\ node'[Target(f)].channel =
               [node[Target(f)].channel EXCEPT ![k] = call[f].buffer.bytes[k + 1]]
    <3>1. ~WriteEnd(f)
      <4>1. Len(call[f].buffer.bytes) \in Int
        BY <1>0, WriteFacts
      <4> QED
        BY <1>2, <2>2, <4>1 DEF WriteByte, WriteEnd
    <3> QED
      BY <2>3, <3>1, StoresOne
  <2>6. \A j \in 1 .. k : node[Target(f)].channel[j - 1] = call[f].buffer.bytes[j]
    BY <1>0, <2>3 DEF Writing
  <2>7. node[Target(f)].channel \in [0 .. BUF_LEN - 1 -> AnyByte] /\ k \in 0 .. BUF_LEN - 1
    BY <2>2, <2>3, <2>5 DEF NodeType, AnyByte
  <2>8. \A j \in 1 .. k + 1 : node'[Target(f)].channel[j - 1] = call[f].buffer.bytes[j]
    <3> TAKE j \in 1 .. k + 1
    <3>1. CASE j = k + 1
      <4>1. j - 1 = k
        BY <3>1
      <4>2. node'[Target(f)].channel[k] = call[f].buffer.bytes[k + 1]
        BY <2>5, <2>7
      <4> QED
        BY <3>1, <4>1, <4>2
    <3>2. CASE j # k + 1
      <4>1. j \in 1 .. k /\ j - 1 # k
        BY <3>2
      <4> QED
        BY <2>5, <2>6, <2>7, <4>1
    <3> QED
      BY <3>1, <3>2
  <2> QED
    BY <2>4, <2>8 DEF Writing, Reading, At
<1> QED
  BY <1>1, <1>2 DEF Stores

LEMMA CopyStep ==
    ASSUME CleanInv, Mapped, NEW f \in File, Writing(f), Reading(f), Step(f)
    PROVE  Writing(f)' /\ Reading(f)'
<1>0. TypeOK /\ CallInv /\ FileInv
  BY DEF CleanInv, RaceInv
<1>1. CASE device_open(f) \/ device_release(f)
  BY <1>0, <1>1, CopyReturned, Calls DEF device_open, device_release, Ready
<1>2. CASE Begins(f)
  <2>1. CASE call'[f] = Idle
    BY <1>0, <2>1, CopyReturned
  <2>2. CASE call'[f] # Idle
    <3>1. \/ call'[f].pc = "head"
          \/ call'[f].pc = "write" /\ call'[f].i = 0
          \/ call'[f].pc = "exists" /\ call'[f].out = <<>>
      BY <1>0, <1>2, <2>2 DEF Begins, Ioctl, Write, Read, Return, CallInv
    <3>2. \A j \in 1 .. 0 : FALSE
      OBVIOUS
    <3> QED
      BY <3>1, <3>2 DEF Writing, Reading, At
  <2> QED
    BY <2>1, <2>2
<1>3. CASE Settles(f)
  BY <1>0, <1>3, Settled, CopyReturned DEF SetTo, Return, CallInv
<1>4. ASSUME NEW to \in IoctlPc, Continue(f, to), call[f].pc \in IoctlPc
      PROVE  Writing(f)' /\ Reading(f)'
  BY <1>0, <1>4, IoctlHere DEF Writing, Reading, At, IoctlPc
<1>5. CASE Alloc(f)
  BY <1>4, <1>5 DEF Alloc, At, IoctlPc
<1>6. CASE Fills(f)
  BY <1>4, <1>6 DEF Fills, SetId, SetNext, SetLen, At, IoctlPc
<1> QED
  BY <1>1, <1>2, <1>3, <1>5, <1>6, CopyLooks, CopyStores, Kinds DEF Quiet

LEMMA SlotInit == Init => SlotInv
<1> SUFFICES ASSUME Init PROVE SlotInv
  OBVIOUS
<1>1. \A f \in File : call[f] = Idle
  BY DEF Init
<1>2. SentInv
  BY DEF Init, SentInv, Channels, Reach, Channel
<1>3. CopyInv /\ Sequential
  BY <1>1 DEF CopyInv, Writing, Reading, At, Sequential, Idle
<1> QED
  BY <1>2, <1>3 DEF SlotInv

LEMMA SlotStep ==
    CleanInv /\ ListInv /\ SlotInv /\ Narrow /\ Mapped /\ Overlapping = {} /\ [Next]_vars => SlotInv'
<1> SUFFICES ASSUME CleanInv, ListInv, SlotInv, Narrow, Mapped, Overlapping = {}, [Next]_vars
             PROVE  SlotInv'
  OBVIOUS
<1>0. TypeOK /\ CallInv /\ FileInv /\ Linked /\ SentInv /\ CopyInv /\ Sequential
  BY DEF CleanInv, RaceInv, SlotInv
<1>1. ASSUME NEW f \in File, Step(f) PROVE SlotInv'
  <2>1. Sequential'
    BY <1>0, <1>1, SequentialStep
  <2>2. SentInv'
    BY <1>0, <1>1, EffectStep, SentKept, SentStored
  <2>3. CopyInv'
    BY <1>0, <1>1, CopyStep, CopyOthers DEF CopyInv
  <2> QED
    BY <2>1, <2>2, <2>3 DEF SlotInv
<1>2. ASSUME UNCHANGED <<file, call>>, \A m \in Minor : Reach(m)' = {},
             \A f \in File : ~IsOpen(f),
             \A m \in Minor, id \in ChannelId : sent'[<<m, id>>] = Null
      PROVE  SlotInv'
  <2>1. \A f \in File : call'[f] = Idle
    BY <1>0, <1>2, Calls
  <2>2. Sequential' /\ CopyInv'
    BY <2>1 DEF Sequential, CopyInv, Writing, Reading, At, Idle
  <2>3. SentInv'
    BY <1>2 DEF SentInv, Channels
  <2> QED
    BY <2>2, <2>3 DEF SlotInv
<1>3. CASE msgslot_init
  <2>1. (\A f \in File : ~IsOpen(f)) /\ UNCHANGED <<file, call, sent>> /\ ~loaded
    BY <1>0, <1>3 DEF msgslot_init, FileInv, histVars
  <2>2. \A m \in Minor : Reach(m)' = {}
    BY <1>3, NothingListed
  <2>3. \A m \in Minor, id \in ChannelId : sent[<<m, id>>] = Null
    BY <1>0, <2>1 DEF SentInv, Channels, Reach
  <2> QED
    BY <1>2, <2>1, <2>2, <2>3
<1>4. CASE msgslot_exit
  <2>1. /\ (\A f \in File : ~IsOpen(f)) /\ UNCHANGED <<file, call>>
        /\ \A m \in Minor, id \in ChannelId : sent'[<<m, id>>] = Null
    BY <1>4 DEF msgslot_exit, Unused, Channel
  <2>2. \A m \in Minor : Reach(m)' = {}
    BY <1>4, NothingListed
  <2> QED
    BY <1>2, <2>1, <2>2
<1>5. CASE UNCHANGED vars
  <2>1. UNCHANGED <<loaded, devices, node, file, call, sent>>
    BY <1>5 DEF vars, memVars, histVars
  <2>2. Sequential' /\ CopyInv'
    BY <1>0, <2>1 DEF Sequential, CopyInv, Writing, Reading, At, Target
  <2>3. SentInv'
    BY <1>0, <2>1, ReachSame DEF SentInv, Channels, Reach, InList, Filled, Written, At, Target, Shows
  <2> QED
    BY <2>2, <2>3 DEF SlotInv
<1> QED
  BY <1>1, <1>3, <1>4, <1>5 DEF Next

LEMMA SlotsInvariance ==
    ASSUME Overlapping = {}, Narrow, Mapped
    PROVE  Spec => [](CleanInv /\ ListInv /\ SlotInv)
<1>1. CleanInv /\ ListInv /\ SlotInv /\ [Next]_vars => SlotInv'
  BY SlotStep
<1>2. Spec => [](CleanInv /\ ListInv)
  <2>1. "ioctl" \notin Overlapping
    OBVIOUS
  <2> QED
    BY <2>1, ListInvariance
<1> QED
  BY <1>1, <1>2, SlotInit, PTL DEF Spec

-----------------------------------------------------------------------------
(***************************************************************************)
(* The driver implements Slots                                             *)
(***************************************************************************)
\* What a file may find in the NODE of its channel when nobody writes.
LEMMA ChannelMessage ==
    ASSUME CleanInv, ListInv, SentInv, NEW f \in File, Target(f) # Null, ~Written(Target(f))
    PROVE  asked[f] # Null /\ Shows(Target(f), sent[asked[f]])
<1>1. minor(f) \in Minor /\ Target(f) \in Channels(minor(f))
  BY TargetNode DEF CleanInv
<1>2. asked[f] # Null /\ asked[f] = <<minor(f), node[Target(f)].channel_id>>
  BY DEF ListInv, Got
<1> QED
  BY <1>1, <1>2 DEF SentInv

LEMMA Refused ==
    ASSUME NEW f \in File, NEW e \in {"EINVAL", "EMSGSIZE", "ENOMEM"}, Return(f, <<e>>),
           asked' = asked, sent' = sent
    PROVE  Abstract!Next
<1>1. Abstract!Refuse(f, e)
  BY DEF Abstract!Refuse, Return
<1>2. e \in Abstract!Error
  BY DEF Abstract!Error
<1> QED
  BY <1>1, <1>2 DEF Abstract!Next

\* The whole message is returned.
LEMMA ReadsWhole ==
    ASSUME CleanInv, ListInv, SlotInv, NEW f \in File, ReadEnd(f)
    PROVE  Abstract!Next
<1>0. TypeOK /\ CallInv /\ Sequential /\ SentInv /\ Reading(f)
  BY DEF CleanInv, RaceInv, SlotInv, CopyInv
<1>1. At(f, "read") /\ asked' = asked /\ sent' = sent /\ Return(f, <<"read", call[f].out>>)
  BY DEF ReadEnd
<1>2. /\ Target(f) # Null /\ Len(call[f].out) \in Nat /\ call[f].out \in Seq(AnyByte)
  BY <1>0, <1>1, ReadFacts DEF At, ReadPc
<1>3. ~Written(Target(f))
  BY <1>0, <1>1 DEF Sequential, Written, At, Idle
<1>4. asked[f] # Null /\ Shows(Target(f), sent[asked[f]])
  BY <1>0, <1>2, <1>3, ChannelMessage
<1>5. LenOf(Target(f)) = {node[Target(f)].msg_len} /\ node[Target(f)].msg_len \in 0 .. BUF_LEN
  BY <1>2, ReadsLength
<1>6. /\ node[Target(f)].msg_len # 0 /\ Len(call[f].out) <= node[Target(f)].msg_len
      /\ \A j \in 1 .. Len(call[f].out) : call[f].out[j] = node[Target(f)].channel[j - 1]
  BY <1>0, <1>1 DEF Reading, At
<1>7. ~(Len(call[f].out) < node[Target(f)].msg_len /\ Len(call[f].out) < BUF_LEN)
  BY <1>5 DEF ReadEnd, MoreToRead
<1>8. Len(call[f].out) = node[Target(f)].msg_len
  BY <1>2, <1>5, <1>6, <1>7, SlotAssumption
<1> DEFINE o == call[f].out
<1>9. DOMAIN o = 1 .. Len(o) /\ o = [i \in DOMAIN o |-> o[i]]
  BY <1>2
<1>10. sent[asked[f]] # Null /\ sent[asked[f]] = [i \in 1 .. Len(o) |-> node[Target(f)].channel[i - 1]]
  BY <1>4, <1>6, <1>8 DEF Shows
<1>11. o = sent[asked[f]]
  <2> HIDE DEF o
  <2>1. \A i \in DOMAIN o : o[i] = node[Target(f)].channel[i - 1]
    BY <1>6, <1>9 DEF o
  <2>2. o = [i \in 1 .. Len(o) |-> node[Target(f)].channel[i - 1]]
    BY <1>9, <2>1
  <2> QED
    BY <1>10, <2>2
<1>12. Abstract!Read(f)
  BY <1>1, <1>4, <1>10, <1>11 DEF Abstract!Read, Return
<1> QED
  BY <1>12 DEF Abstract!Next

\* Every step of a file is a step of the abstract slots, or changes nothing there.
LEMMA Simulation ==
    ASSUME CleanInv, ListInv, SlotInv, Narrow, Mapped, NEW f \in File, Step(f)
    PROVE  Abstract!Next \/ UNCHANGED Abstract!vars
<1>0. TypeOK /\ CallInv /\ FileInv /\ Sequential /\ SentInv /\ Reading(f)
  BY DEF CleanInv, RaceInv, SlotInv, CopyInv
<1>1. CASE device_open(f)
  BY <1>1 DEF device_open, histVars, Abstract!vars
<1>2. CASE device_release(f)
  BY <1>2 DEF device_release, Abstract!Next, Abstract!Close
<1>3. CASE Begins(f)
  <2>1. asked' = asked /\ sent' = sent
    BY <1>3, QuietSame DEF Quiet
  <2>2. ret' = ret \/ \E e \in {"EINVAL", "EMSGSIZE"} : Return(f, <<e>>)
    BY <1>3 DEF Begins, Ioctl, Write, Read
  <2> QED
    BY <2>1, <2>2, Refused DEF Abstract!vars
<1>4. CASE ReadExists(f) \/ ReadFits(f)
  <2>1. asked' = asked /\ sent' = sent /\ call[f].pc \in ReadPc /\ call[f].pc \in {"exists", "fits"}
    BY <1>4 DEF ReadExists, ReadFits, At, ReadPc
  <2>2. Target(f) # Null
    BY <1>0, <2>1, ReadFacts
  <2>3. ~Written(Target(f))
    BY <1>0, <2>1 DEF Sequential, Written, At, Idle
  <2>4. /\ asked[f] # Null /\ Shows(Target(f), sent[asked[f]])
        /\ LenOf(Target(f)) = {node[Target(f)].msg_len}
    BY <1>0, <2>2, <2>3, ChannelMessage, ReadsLength
  <2>5. CASE ReadExists(f) /\ ret' # ret
    <3>1. Return(f, <<"EWOULDBLOCK">>) /\ node[Target(f)].msg_len = 0
      BY <2>4, <2>5 DEF ReadExists, Continue
    <3>2. Abstract!Refuse(f, "EWOULDBLOCK") /\ "EWOULDBLOCK" \in Abstract!Error
      BY <2>1, <2>4, <3>1 DEF Abstract!Refuse, Abstract!Error, Return, Shows
    <3> QED
      BY <3>2 DEF Abstract!Next
  <2>6. CASE ReadFits(f) /\ ret' # ret
    <3>1. Return(f, <<"ENOSPC">>) /\ node[Target(f)].msg_len # 0
      BY <1>0, <2>4, <2>6 DEF ReadFits, Continue, Reading, At
    <3>2. Abstract!Refuse(f, "ENOSPC") /\ "ENOSPC" \in Abstract!Error
      BY <2>1, <2>4, <3>1 DEF Abstract!Refuse, Abstract!Error, Return, Shows
    <3> QED
      BY <3>2 DEF Abstract!Next
  <2> QED
    BY <1>4, <2>1, <2>5, <2>6 DEF Abstract!vars
<1>5. CASE Looks(f) /\ ~ReadExists(f) /\ ~ReadFits(f) /\ ~ReadEnd(f)
  <2>1. asked' = asked /\ sent' = sent
    BY <1>5, QuietSame DEF Quiet
  <2>2. ret' = ret \/ \E e \in {"EINVAL", "ENOMEM"} : Return(f, <<e>>)
    BY <1>5, NoOops DEF Looks, ReadHead, First, LoadNext, Differs, Advance, Check, ReadByte,
       Continue, histVars
  <2> QED
    BY <2>1, <2>2, Refused DEF Abstract!vars
<1>6. CASE Settles(f)
  <2>1. PICK p : SetTo(f, p)
    BY <1>0, <1>6, Settled
  <2>2. sent' = sent /\ minor(f) \in Minor /\ call[f].id \in ChannelId
    BY <1>0, <1>6, Settled, Busy
  <2>3. <<minor(f), call[f].id>> \in Channel
    BY <2>2 DEF Channel
  <2>4. Abstract!SetChannel(f, <<minor(f), call[f].id>>)
    BY <2>1, <2>2 DEF Abstract!SetChannel, SetTo, Return
  <2> QED
    BY <2>3, <2>4 DEF Abstract!Next
<1>7. CASE Alloc(f)
  BY <1>0, <1>7, Allocated DEF Abstract!vars
<1>8. CASE Fills(f)
  BY <1>0, <1>8, NodeFilled DEF Abstract!vars
<1>9. CASE WriteByte(f)
  BY <1>0, <1>9, NoFault DEF WriteByte, Abstract!vars
<1>10. CASE WriteEnd(f)
  <2>1. Target(f) # Null /\ call[f].buffer.bytes \in Message
    BY <1>0, <1>10, WriteFacts DEF WriteEnd, Message
  <2>2. asked[f] # Null
    BY <2>1 DEF ListInv, Got
  <2>3. Abstract!Write(f, call[f].buffer.bytes)
    BY <1>10, <2>2 DEF WriteEnd, Return, Abstract!Write
  <2> QED
    BY <2>1, <2>3 DEF Abstract!Next
<1> QED
  BY <1>1, <1>2, <1>3, <1>4, <1>5, <1>6, <1>7, <1>8, <1>9, <1>10, ReadsWhole, Kinds DEF Quiet, Stores

\* When calls do not overlap, channel identifiers fit into NODE.channel_id and user
\* buffers can be read, the driver implements the abstract slots: a read returns the
\* last message that was written to the channel the file asked for, whole, through
\* whatever file, and a refused call changes nothing (lines 43-158).
THEOREM DriverImplementsSlots ==
    ASSUME Overlapping = {}, Narrow, Mapped
    PROVE  Spec => SlotsSpec
<1> DEFINE Inv == CleanInv /\ ListInv /\ SlotInv
<1>1. Init => Abstract!Init
  BY DEF Init, Abstract!Init
<1>2. Inv /\ [Next]_vars => [Abstract!Next]_(Abstract!vars)
  <2> SUFFICES ASSUME Inv, [Next]_vars PROVE Abstract!Next \/ UNCHANGED Abstract!vars
    OBVIOUS
  <2>1. ASSUME NEW f \in File, Step(f) PROVE Abstract!Next \/ UNCHANGED Abstract!vars
    BY <2>1, Simulation
  <2>2. CASE msgslot_init
    BY <2>2 DEF msgslot_init, histVars, Abstract!vars
  <2>3. CASE msgslot_exit
    <3>1. \A f \in File : asked[f] = Null
      BY <2>3 DEF msgslot_exit, Unused, IsOpen, Closed, Target, ListInv, Got
    <3> QED
      BY <2>3, <3>1 DEF msgslot_exit, Abstract!Next, Abstract!Unload
  <2>4. CASE UNCHANGED vars
    BY <2>4 DEF vars, histVars, Abstract!vars
  <2> QED
    BY <2>1, <2>2, <2>3, <2>4 DEF Next
<1> HIDE DEF Inv
<1>3. Spec => []Inv
  BY SlotsInvariance DEF Inv
<1> QED
  BY <1>1, <1>2, <1>3, PTL DEF Spec, SlotsSpec, Abstract!Spec

-----------------------------------------------------------------------------
(***************************************************************************)
(* Messages outlive the calls of others                                    *)
(***************************************************************************)
\* A NODE with a message.  A channel that was written has one, and a read is made on one.
Full(n) == node[n] # Null /\ Filled(n) /\ node[n].msg_len # 0

MessageOf(f) ==
    /\ asked[f] # Null => asked[f][2] # 0
    /\ call[f].op = "ioctl" => call[f].id # 0
    /\ call[f].pc \in {"fits", "read"} => Full(Target(f))

MessageInv ==
    /\ \A m \in Minor, id \in ChannelId : sent[<<m, id>>] # Null =>
           id # 0 /\ \E n \in Channels(m) : Full(n) /\ node[n].channel_id = id
    /\ \A f \in File : MessageOf(f)
    /\ DOMAIN ret = File

\* The control of a reader: what it was promised is still there, and the call it
\* waits for is the one it made, or has failed for want of a message.
ReaderOf(f) ==
    /\ pc[f] = "start" => ~promised[f]
    /\ pc[f] \in {"opened", "set", "called"} =>
           /\ IsOpen(f) /\ channel_id[f] \in ChannelId
           /\ promised[f] => sent[<<minor(f), channel_id[f]>>] # Null
    /\ pc[f] = "set" =>
           \/ call[f].op = "ioctl" /\ call[f].id = channel_id[f]
           \/ call[f] = Idle /\ ret[f] = <<"ok">> /\ asked[f] = <<minor(f), channel_id[f]>>
           \/ call[f] = Idle /\ ~promised[f] /\ ~Succeeded(f)
    /\ pc[f] = "called" =>
           \/ /\ call[f].op = "read" /\ call[f].length = BUF_LEN
              /\ asked[f] = <<minor(f), channel_id[f]>>
           \/ call[f] = Idle /\ ret[f][1] = "read" /\ ret[f][2] # <<>>
           \/ call[f] = Idle /\ ~promised[f] /\ ~Succeeded(f)
    /\ pc[f] = "closed" => buf[f] # <<>>
    /\ pc[f] = "exited" => (promised[f] \/ exit_code[f] = EXIT_SUCCESS => buf[f] # <<>>)

ClientTypes ==
    /\ DOMAIN pc = Client /\ DOMAIN channel_id = Client /\ DOMAIN buf = Client
    /\ DOMAIN exit_code = Client /\ DOMAIN promised = Client
    /\ \A f \in Client : pc[f] = "opened" => channel_id[f] \in ChannelId

ClientInv == ClientTypes /\ \A f \in Reader : ReaderOf(f)

\* No write leaves a length of zero.
LEMMA LengthKept ==
    ASSUME CleanInv, NEW f \in File, Stores(f), NEW n \in NodeRef, node[n].msg_len # 0
    PROVE  node'[n].msg_len # 0
<1>0. TypeOK /\ CallInv /\ FileInv /\ At(f, "write")
  BY DEF CleanInv, RaceInv, Stores, WriteByte, WriteEnd
<1>1. Target(f) \in NodeRef
  BY <1>0, WriteFacts, TargetNode DEF CleanInv
<1>2. node' = node \/ \E r \in NodeType : /\ node' = [node EXCEPT ![Target(f)] = r]
                                          /\ r.msg_len \in {node[Target(f)].msg_len, call[f].i}
                                          /\ r.msg_len = node[Target(f)].msg_len \/ WriteEnd(f)
  BY <1>0, ByteStored, LengthStored DEF Stores
<1>3. ASSUME WriteEnd(f) PROVE call[f].i # 0
  <2>1. Len(call[f].buffer.bytes) \in 1 .. BUF_LEN /\ call[f].i = Len(call[f].buffer.bytes)
    BY <1>0, <1>3, WriteFacts DEF WriteEnd
  <2> QED
    BY <2>1, SlotAssumption
<1> QED
  BY <1>0, <1>1, <1>2, <1>3 DEF TypeOK

LEMMA FullStep ==
    ASSUME CleanInv, NEW f \in File, Step(f), NEW n \in NodeRef, Full(n)
    PROVE  Full(n)' /\ node'[n].channel_id = node[n].channel_id
<1>1. node[n] # Null /\ Filled(n) /\ node[n].msg_len # 0
  BY DEF Full
<1>2. Effect(f)
  BY EffectStep
<1>3. Keeps(n) /\ (Stores(f) \/ SameData(n))
  BY <1>1, <1>2 DEF Effect
<1>4. node'[n].msg_len # 0
  BY <1>1, <1>3, LengthKept DEF SameData
<1> QED
  BY <1>3, <1>4 DEF Full, Filled, Keeps

\* What else a step of one file does: the results of the others stay.
LEMMA ResultsKept ==
    ASSUME NEW f \in File, Step(f), DOMAIN ret = File
    PROVE  DOMAIN ret' = File /\ \A g \in File \ {f} : ret'[g] = ret[g]
<1>1. ASSUME NEW v, ret' = [ret EXCEPT ![f] = v]
      PROVE  DOMAIN ret' = File /\ \A g \in File \ {f} : ret'[g] = ret[g]
  BY <1>1
<1>2. CASE device_open(f) \/ device_release(f)
  BY <1>1, <1>2 DEF device_open, device_release, histVars
<1>3. CASE Begins(f)
  BY <1>1, <1>3 DEF Begins, Ioctl, Write, Read, Return
<1>4. CASE Looks(f)
  <2>1. ret' = ret \/ \E v : Return(f, v)
    BY <1>4 DEF Looks, ReadHead, First, LoadNext, Differs, Advance, Check, ReadExists, ReadFits,
       ReadByte, ReadEnd, Oops, Continue, histVars
  <2> QED
    BY <1>1, <2>1 DEF Return
<1>5. CASE Settles(f)
  BY <1>1, <1>5 DEF Settles, Found, Take, SetTo, Return
<1>6. CASE Alloc(f) \/ Fills(f)
  BY <1>6 DEF Alloc, Fills, SetId, SetNext, SetLen, Continue
<1>7. CASE Stores(f)
  BY <1>1, <1>7 DEF Stores, WriteByte, WriteEnd, Return
<1> QED
  BY <1>2, <1>3, <1>4, <1>5, <1>6, <1>7, Kinds DEF Quiet

LEMMA WrittenChannel ==
    ASSUME CleanInv, ListInv, NEW f \in File, WriteEnd(f)
    PROVE  /\ Target(f) \in NodeRef /\ Target(f) \in Channels(minor(f)) /\ minor(f) \in Minor
           /\ node'[Target(f)].msg_len # 0
           /\ asked[f] \in Channel /\ asked[f] # Null
           /\ asked[f] = <<minor(f), node[Target(f)].channel_id>>
           /\ sent' = [sent EXCEPT ![asked[f]] = call[f].buffer.bytes]
           /\ call[f].buffer.bytes # Null
<1>0. TypeOK /\ CallInv /\ At(f, "write")
  BY DEF CleanInv, RaceInv, WriteEnd
<1>1. /\ Target(f) # Null /\ Target(f) \in NodeRef /\ Target(f) \in Channels(minor(f))
      /\ minor(f) \in Minor /\ InUse(Target(f)) /\ call[f].buffer \in Buffer
  BY <1>0, WriteFacts, TargetNode DEF CleanInv
<1>2. node'[Target(f)].msg_len # 0
  <2>1. PICK r \in NodeType : node' = [node EXCEPT ![Target(f)] = r] /\ r.msg_len = call[f].i
    BY <1>0, <1>1, LengthStored
  <2>2. Len(call[f].buffer.bytes) \in 1 .. BUF_LEN /\ call[f].i = Len(call[f].buffer.bytes)
    BY <1>0, WriteFacts DEF WriteEnd
  <2>3. call[f].i # 0
    BY <2>2, SlotAssumption
  <2> QED
    BY <1>0, <1>1, <2>1, <2>3 DEF TypeOK
<1>3. asked[f] # Null /\ asked[f] = <<minor(f), node[Target(f)].channel_id>>
  BY <1>1 DEF ListInv, Got
<1>4. asked[f] \in Channel
  BY <1>0, <1>3 DEF TypeOK
<1>5. call[f].buffer.bytes # Null
  BY <1>1, NullAssumption DEF Message
<1> QED
  BY <1>1, <1>2, <1>3, <1>4, <1>5 DEF WriteEnd

LEMMA SentStays ==
    ASSUME CleanInv, ListInv, NEW f \in File, Step(f), NEW c \in Channel, sent[c] # Null
    PROVE  sent'[c] # Null
<1>0. TypeOK /\ CallInv /\ FileInv
  BY DEF CleanInv, RaceInv
<1>1. CASE ~WriteEnd(f)
  BY <1>0, <1>1, SentSame
<1>2. CASE WriteEnd(f)
  BY <1>0, <1>2, WrittenChannel DEF TypeOK
<1> QED
  BY <1>1, <1>2

LEMMA MessageFrame ==
    ASSUME CleanInv, MessageInv, NEW f \in File, Step(f), NEW g \in File \ {f}
    PROVE  MessageOf(g)'
<1>0. TypeOK /\ CallInv /\ FileInv /\ MessageOf(g)
  BY DEF CleanInv, RaceInv, MessageInv
<1>1. call'[g] = call[g] /\ asked'[g] = asked[g] /\ Target(g)' = Target(g)
  BY <1>0, StepOnly DEF OnlyFile, Target
<1>2. ASSUME call[g].pc \in {"fits", "read"} PROVE Full(Target(g))'
  <2>1. Target(g) \in NodeRef /\ Full(Target(g))
    BY <1>0, <1>2, ReadFacts, TargetNode DEF CleanInv, ReadPc, MessageOf
  <2>2. PICK t \in NodeRef : t = Target(g) /\ Full(t)
    BY <2>1
  <2>3. Full(t)'
    BY <2>2, FullStep
  <2> QED
    BY <1>1, <2>2, <2>3 DEF Full, Filled
<1> QED
  BY <1>0, <1>1, <1>2 DEF MessageOf

LEMMA MessageOwn ==
    ASSUME CleanInv, MessageInv, NEW f \in File, Step(f)
    PROVE  MessageOf(f)'
<1>0. TypeOK /\ CallInv /\ FileInv /\ MessageOf(f)
  BY DEF CleanInv, RaceInv, MessageInv
<1>1. ASSUME asked' = asked \/ asked'[f] = Null, call'[f] = Idle PROVE MessageOf(f)'
  BY <1>0, <1>1 DEF MessageOf, Idle
<1>2. ASSUME asked' = asked, call[f].op = "ioctl", call'[f].op = "ioctl", call'[f].pc \in IoctlPc,
             call'[f].id = call[f].id
      PROVE  MessageOf(f)'
  BY <1>0, <1>2 DEF MessageOf, IoctlPc
<1>3. CASE device_open(f) \/ device_release(f)
  BY <1>0, <1>1, <1>3, Calls DEF device_open, device_release, histVars, Ready, TypeOK
<1>4. CASE Begins(f)
  <2>1. asked' = asked
    BY <1>4, QuietSame DEF Quiet
  <2>2. \/ call'[f] = Idle
        \/ call'[f].op = "ioctl" /\ call'[f].id # 0 /\ call'[f].pc = "head"
        \/ call'[f].op = "write" /\ call'[f].pc = "write"
        \/ call'[f].op = "read" /\ call'[f].pc = "exists"
    BY <1>0, <1>4 DEF Begins, Ioctl, Write, Read, Return, CallInv
  <2> QED
    BY <1>0, <1>1, <2>1, <2>2 DEF MessageOf
<1>5. CASE Looks(f)
  <2>1. asked' = asked /\ node' = node /\ Target(f)' = Target(f)
    BY <1>5, QuietSame DEF Quiet, Target
  <2>2. CASE \E v : Return(f, v)
    BY <1>0, <1>1, <2>1, <2>2 DEF Return, CallInv
  <2>3. CASE call[f].pc \in IoctlPc /\ ~ \E v : Return(f, v)
    <3>1. PICK c \in IoctlCall : call' = [call EXCEPT ![f] = c] /\ c.id = call[f].id
      BY <1>0, <1>5, <2>3, Moves
    <3>2. call'[f] = c /\ call[f].op = "ioctl"
      BY <1>0, <2>3, <3>1, Calls DEF CallInv
    <3> QED
      BY <1>2, <2>1, <3>1, <3>2 DEF IoctlCall
  <2>4. CASE call[f].pc \in ReadPc /\ ~ \E v : Return(f, v)
    <3>1. call[f] \in ReadCall /\ Target(f) # Null
      BY <1>0, <2>4, ReadFacts
    <3>2. /\ Target(f) \in NodeRef /\ node[Target(f)] # Null /\ Filled(Target(f))
          /\ LenOf(Target(f)) = {node[Target(f)].msg_len}
      BY <3>1, TargetNode, ReadsLength DEF CleanInv
    <3>3. \/ ReadExists(f) /\ Continue(f, "fits") /\ node[Target(f)].msg_len # 0
          \/ ReadFits(f) /\ Continue(f, "read")
          \/ ReadByte(f) /\ \E out : call' = [call EXCEPT ![f].out = out]
      BY <1>5, <2>4, <3>2 DEF Looks, ReadHead, First, LoadNext, Differs, Advance, Check, ReadExists,
         ReadFits, ReadByte, ReadEnd, Oops, At, ReadPc
    <3>4. Full(Target(f))
      BY <1>0, <3>2, <3>3 DEF Full, MessageOf, ReadFits, ReadByte, At
    <3>5. Full(Target(f))'
      BY <2>1, <3>4 DEF Full, Filled
    <3>6. call'[f].op = "read"
      BY <1>0, <3>1, <3>3 DEF Continue, CallInv, ReadCall
    <3> QED
      BY <1>0, <2>1, <3>5, <3>6 DEF MessageOf
  <2>5. CASE At(f, "write")
    BY <1>5, <2>2, <2>5, NoOops DEF Looks, ReadHead, First, LoadNext, Differs, Advance, Check,
       ReadExists, ReadFits, ReadByte, ReadEnd, At
  <2> QED
    BY <1>0, <1>5, <2>2, <2>3, <2>4, <2>5, LooksFrom DEF At
<1>6. CASE Settles(f)
  <2>1. PICK p : SetTo(f, p)
    BY <1>0, <1>6, Settled
  <2>2. call[f].op = "ioctl"
    BY <1>0, <1>6, Settled, Busy
  <2>3. call'[f] = Idle /\ asked'[f] = <<minor(f), call[f].id>>
    BY <1>0, <2>1 DEF SetTo, Return, CallInv, TypeOK
  <2> QED
    BY <1>0, <2>2, <2>3 DEF MessageOf, Idle
<1>7. CASE Alloc(f)
  <2>1. asked' = asked /\ call[f].pc \in IoctlPc
    BY <1>0, <1>7, Allocated
  <2> QED
    BY <1>0, <1>2, <1>7, <2>1, IoctlHere, Calls DEF Alloc, IoctlPc
<1>8. CASE Fills(f)
  <2>1. asked' = asked /\ call[f].pc \in IoctlPc
    BY <1>0, <1>8, NodeFilled
  <2> QED
    BY <1>0, <1>2, <1>8, <2>1, IoctlHere, Calls DEF Fills, SetId, SetNext, SetLen, IoctlPc
<1>9. CASE Stores(f)
  <2>1. asked' = asked /\ call[f] \in WriteCall
    BY <1>0, <1>9, Calls DEF Stores, WriteByte, WriteEnd
  <2>2. call'[f] = Idle \/ (call'[f].op = "write" /\ call'[f].pc = "write")
    BY <1>0, <1>9, <2>1 DEF Stores, WriteByte, WriteEnd, Return, CallInv, WriteCall
  <2> QED
    BY <1>0, <1>1, <2>1, <2>2 DEF MessageOf
<1> QED
  BY <1>3, <1>4, <1>5, <1>6, <1>7, <1>8, <1>9, Kinds DEF Quiet

LEMMA MessageFileStep ==
    ASSUME CleanInv, ListInv, MessageInv, NEW f \in File, Step(f)
    PROVE  MessageInv'
<1>0. TypeOK /\ CallInv /\ FileInv /\ Linked
  BY DEF CleanInv, RaceInv
<1>1. \A g \in File : MessageOf(g)'
  BY MessageFrame, MessageOwn
<1>2. DOMAIN ret' = File
  BY ResultsKept DEF MessageInv
<1>3. Effect(f)
  BY EffectStep
<1>4. ASSUME NEW m \in Minor, NEW id \in ChannelId, sent'[<<m, id>>] # Null
      PROVE  id # 0 /\ \E n \in Channels(m)' : Full(n)' /\ node'[n].channel_id = id
  <2>0. <<m, id>> \in Channel
    BY DEF Channel
  <2>1. CASE sent[<<m, id>>] # Null
    <3>1. PICK n \in Channels(m) : Full(n) /\ node[n].channel_id = id
      BY <2>1 DEF MessageInv
    <3>2. n \in NodeRef /\ n \in Channels(m)' /\ id # 0
      BY <1>0, <1>3, <2>1, ChannelUsed DEF MessageInv, Effect
    <3> QED
      BY <3>1, <3>2, FullStep
  <2>2. CASE sent[<<m, id>>] = Null
    <3>1. WriteEnd(f)
      BY <1>0, <1>4, <2>2, SentSame
    <3>2. asked[f] = <<m, id>>
      BY <1>0, <1>4, <2>0, <2>2, <3>1, WrittenChannel DEF TypeOK
    <3>3. /\ minor(f) = m /\ node[Target(f)].channel_id = id /\ Target(f) \in Channels(m)
          /\ node'[Target(f)].msg_len # 0
      BY <3>1, <3>2, WrittenChannel
    <3>4. id # 0
      BY <3>1, <3>2, WrittenChannel DEF MessageInv, MessageOf
    <3>5. PICK t \in Channels(m)' : t = Target(f) /\ t \in NodeRef /\ t \in Channels(m)
      BY <1>3, <3>1, <3>3, WrittenChannel DEF Effect
    <3>6. Keeps(t)
      BY <1>0, <1>3, <3>5, ChannelUsed DEF Effect
    <3>7. Full(t)' /\ node'[t].channel_id = id
      BY <3>3, <3>5, <3>6 DEF Full, Filled, Keeps
    <3> QED
      BY <3>4, <3>5, <3>7
  <2> QED
    BY <2>1, <2>2
<1> QED
  BY <1>1, <1>2, <1>4 DEF MessageInv

LEMMA MessageStep == CleanInv /\ ListInv /\ MessageInv /\ [Next]_vars => MessageInv'
<1> SUFFICES ASSUME CleanInv, ListInv, MessageInv, [Next]_vars PROVE MessageInv'
  OBVIOUS
<1>0. TypeOK /\ CallInv /\ FileInv /\ Linked
  BY DEF CleanInv, RaceInv
<1>1. ASSUME NEW f \in File, Step(f) PROVE MessageInv'
  BY <1>1, MessageFileStep
<1>2. ASSUME UNCHANGED <<call, asked, ret>>, \A f \in File : ~IsOpen(f),
             \A m \in Minor, id \in ChannelId : sent'[<<m, id>>] = Null
      PROVE  MessageInv'
  BY <1>0, <1>2, Calls DEF MessageInv, MessageOf, Idle
<1>3. CASE msgslot_init
  <2>1. (\A f \in File : ~IsOpen(f)) /\ UNCHANGED <<call, asked, ret, sent>> /\ ~loaded
    BY <1>0, <1>3 DEF msgslot_init, FileInv, histVars
  <2>2. \A m \in Minor, id \in ChannelId : sent[<<m, id>>] = Null
    BY <2>1 DEF MessageInv, Channels, Reach
  <2> QED
    BY <1>2, <2>1, <2>2
<1>4. CASE msgslot_exit
  <2>1. \A m \in Minor, id \in ChannelId : sent'[<<m, id>>] = Null
    BY <1>4 DEF msgslot_exit, Channel
  <2> QED
    BY <1>2, <1>4, <2>1 DEF msgslot_exit, Unused
<1>5. CASE UNCHANGED vars
  <2>0. UNCHANGED <<loaded, devices, node, file, call, asked, sent, ret>>
    BY <1>5 DEF vars, memVars, histVars
  <2>1. \A m : Channels(m)' = Channels(m)
    BY <2>0, ReachSame
  <2>2. \A n : Full(n)' <=> Full(n)
    BY <2>0 DEF Full, Filled
  <2>3. \A m \in Minor, id \in ChannelId : sent'[<<m, id>>] # Null =>
           id # 0 /\ \E n \in Channels(m)' : Full(n)' /\ node'[n].channel_id = id
    BY <2>0, <2>1, <2>2 DEF MessageInv
  <2>4. \A f \in File : MessageOf(f)'
    BY <2>0 DEF MessageInv, MessageOf, Full, Filled, Target
  <2> QED
    BY <2>0, <2>3, <2>4 DEF MessageInv
<1> QED
  BY <1>1, <1>3, <1>4, <1>5 DEF Next

-----------------------------------------------------------------------------
(***************************************************************************)
(* The calls of a reader                                                   *)
(***************************************************************************)
LEMMA InsideBusy ==
    ASSUME CallInv, NEW f \in File, Inside(f)
    PROVE  call[f] # Idle /\ Step(f)
           /\ (Looks(f) \/ Settles(f) \/ Alloc(f) \/ Fills(f) \/ Stores(f))
<1>1. Looks(f) \/ Settles(f) \/ Alloc(f) \/ Fills(f) \/ Stores(f)
  BY DEF Inside, Looks, Settles, Fills, Stores
<1>2. ASSUME call[f] = Idle PROVE FALSE
  <2>1. call[f].pc = "idle"
    BY <1>2 DEF Idle
  <2>2. ~Looks(f)
    BY <2>1, LooksFrom DEF IoctlPc, ReadPc
  <2> QED
    BY <1>1, <2>1, <2>2 DEF Settles, Found, Take, Alloc, Fills, SetId, SetNext, SetLen, Stores,
       WriteByte, WriteEnd, At
<1> QED
  BY <1>1, <1>2 DEF Step

LEMMA StaysOpen ==
    ASSUME TypeOK, CallInv, FileInv, NEW f \in File, Inside(f)
    PROVE  IsOpen(f)' /\ minor(f)' = minor(f)
<1>1. call[f] # Idle /\ (Looks(f) \/ Settles(f) \/ Alloc(f) \/ Fills(f) \/ Stores(f))
  BY InsideBusy
<1>2. minor(f) \in Minor
  BY <1>1, Calls, OpenFile
<1>3. file' = file \/ \E n : file' = [file EXCEPT ![f].private_data = n]
  BY <1>1, QuietSame, Settled, Allocated, NodeFilled DEF Quiet, SetTo, Stores, WriteByte, WriteEnd
<1>4. minor(f)' = minor(f)
  BY <1>3 DEF minor, TypeOK
<1> QED
  BY <1>2, <1>4, NullAssumption DEF IsOpen, Closed, minor

\* An ioctl goes on, or finds the channel, or fails because it is not there.
LEMMA IoctlOutcome ==
    ASSUME CleanInv, ListInv, NEW f \in File, Inside(f), call[f].op = "ioctl", DOMAIN ret = File
    PROVE  \/ call'[f].op = "ioctl" /\ call'[f].id = call[f].id
           \/ /\ call'[f] = Idle /\ ret'[f] = <<"ok">>
              /\ asked'[f] = <<minor(f), call[f].id>>
           \/ call'[f] = Idle /\ ret'[f] = <<"ENOMEM">> /\ Missing(f)
<1>0. /\ TypeOK /\ CallInv /\ FileInv
      /\ (Looks(f) \/ Settles(f) \/ Alloc(f) \/ Fills(f) \/ Stores(f))
  BY InsideBusy DEF CleanInv, RaceInv
<1>1. call[f].pc \in IoctlPc /\ call[f] \in IoctlCall
  BY <1>0, Calls
<1>2. CASE Looks(f)
  <2>1. CASE Check(f) /\ Return(f, <<"ENOMEM">>)
    <3>1. Missing(f)
      BY <2>1 DEF ListInv, Searching, Check, At, FillPc
    <3> QED
      BY <1>0, <2>1, <3>1 DEF Return, CallInv
  <2>2. ASSUME NEW c \in IoctlCall, call' = [call EXCEPT ![f] = c], c.id = call[f].id
        PROVE  call'[f].op = "ioctl" /\ call'[f].id = call[f].id
    BY <1>0, <2>2 DEF CallInv, IoctlCall
  <2> QED
    BY <1>0, <1>1, <1>2, <2>1, <2>2, Moves, NoOops
<1>3. CASE Settles(f)
  <2>1. PICK p : SetTo(f, p)
    BY <1>0, <1>3, Settled
  <2> QED
    BY <1>0, <2>1 DEF SetTo, Return, CallInv, TypeOK
<1>4. CASE Alloc(f)
  BY <1>0, <1>1, <1>4, IoctlHere DEF Alloc, IoctlPc
<1>5. CASE Fills(f)
  BY <1>0, <1>1, <1>5, IoctlHere DEF Fills, SetId, SetNext, SetLen, IoctlPc
<1>6. ~Stores(f)
  BY <1>1 DEF Stores, WriteByte, WriteEnd, At, IoctlPc
<1> QED
  BY <1>0, <1>2, <1>3, <1>4, <1>5, <1>6

\* A read goes on, or has copied something, or there was no message, or it was too long.
LEMMA ReadOutcome ==
    ASSUME CleanInv, MessageInv, ~BadRead, NEW f \in File, Inside(f), call[f].op = "read"
    PROVE  /\ asked' = asked
           /\ \/ call'[f].op = "read" /\ call'[f].length = call[f].length
              \/ call'[f] = Idle /\ ret'[f][1] = "read" /\ ret'[f][2] # <<>>
              \/ call'[f] = Idle /\ ret'[f] = <<"EWOULDBLOCK">> /\ ~Full(Target(f))
              \/ /\ call'[f] = Idle /\ ret'[f] = <<"ENOSPC">>
                 /\ \E k \in 0 .. BUF_LEN : call[f].length < k
<1>0. /\ TypeOK /\ CallInv /\ FileInv /\ DOMAIN ret = File /\ DOMAIN call = File
      /\ (Looks(f) \/ Settles(f) \/ Alloc(f) \/ Fills(f) \/ Stores(f))
  BY InsideBusy DEF CleanInv, RaceInv, MessageInv, CallInv
<1>1. call[f] \in ReadCall /\ call[f].pc \in ReadPc
  BY <1>0, Calls DEF Idle, IoctlCall, WriteCall, ReadCall
<1>2. Looks(f)
  <2>1. ~Settles(f)
    BY <1>0, <1>1, Settled DEF ReadPc
  <2> QED
    BY <1>0, <1>1, <2>1 DEF Alloc, Fills, SetId, SetNext, SetLen, Stores, WriteByte, WriteEnd, At, ReadPc
<1>3. asked' = asked
  BY <1>2, QuietSame DEF Quiet
<1>4. /\ LenOf(Target(f)) = {node[Target(f)].msg_len} /\ node[Target(f)].msg_len \in 0 .. BUF_LEN
      /\ Len(call[f].out) \in Nat
  BY <1>0, <1>1, ReadFacts, ReadsLength
<1>5. ReadExists(f) \/ ReadFits(f) \/ ReadByte(f) \/ ReadEnd(f)
  BY <1>1, <1>2, NoOops DEF Looks, ReadHead, First, LoadNext, Differs, Advance, Check, At, ReadPc
<1>6. ASSUME NEW to, Continue(f, to) PROVE call'[f].op = "read" /\ call'[f].length = call[f].length
  BY <1>0, <1>1, <1>6 DEF Continue, ReadCall
<1>7. ASSUME NEW v, Return(f, v) PROVE call'[f] = Idle /\ ret'[f] = v
  BY <1>0, <1>7 DEF Return
<1>8. CASE ReadExists(f)
  <2>1. \/ node[Target(f)].msg_len = 0 /\ Return(f, <<"EWOULDBLOCK">>)
        \/ Continue(f, "fits")
    BY <1>4, <1>8 DEF ReadExists
  <2> QED
    BY <1>3, <1>6, <1>7, <2>1 DEF Full
<1>9. CASE ReadFits(f)
  <2>1. \/ call[f].length < node[Target(f)].msg_len /\ Return(f, <<"ENOSPC">>)
        \/ Continue(f, "read")
    BY <1>4, <1>9 DEF ReadFits
  <2> QED
    BY <1>3, <1>4, <1>6, <1>7, <2>1
<1>10. CASE ReadByte(f)
  BY <1>0, <1>1, <1>3, <1>10 DEF ReadByte, ReadCall
<1>11. CASE ReadEnd(f)
  <2>1. Full(Target(f))
    BY <1>11 DEF MessageInv, MessageOf, ReadEnd, At
  <2>2. PICK k \in 1 .. BUF_LEN : k = node[Target(f)].msg_len
    BY <1>4, <2>1, SlotAssumption DEF Full
  <2>3. ~(Len(call[f].out) < k /\ Len(call[f].out) < BUF_LEN)
    BY <1>4, <1>11, <2>2 DEF ReadEnd, MoreToRead
  <2>4. call[f].out # <<>>
    BY <2>2, <2>3, SlotAssumption
  <2>5. call'[f] = Idle /\ ret'[f] = <<"read", call[f].out>>
    BY <1>7, <1>11 DEF ReadEnd
  <2> QED
    BY <1>3, <2>4, <2>5
<1> QED
  BY <1>5, <1>8, <1>9, <1>10, <1>11

\* Whoever has set the channel of a message finds it.
LEMMA FindsMessage ==
    ASSUME CleanInv, ListInv, MessageInv, NEW f \in File, IsOpen(f), NEW id \in ChannelId,
           sent[<<minor(f), id>>] # Null
    PROVE  /\ id # 0 /\ ~(call[f].id = id /\ Missing(f))
           /\ asked[f] = <<minor(f), id>> => Target(f) # Null /\ Full(Target(f))
<1>1. minor(f) \in Minor
  BY OpenFile DEF CleanInv, RaceInv
<1>2. PICK n \in Channels(minor(f)) : Full(n) /\ node[n].channel_id = id /\ id # 0
  BY <1>1 DEF MessageInv
<1>3. ASSUME asked[f] = <<minor(f), id>> PROVE Target(f) # Null /\ Full(Target(f))
  <2>1. asked[f] # Null
    BY <1>1, <1>3, NullAssumption DEF Channel
  <2>2. Target(f) # Null /\ asked[f] = <<minor(f), node[Target(f)].channel_id>>
    BY <2>1 DEF ListInv, Got
  <2>3. Target(f) \in Channels(minor(f)) /\ node[Target(f)].channel_id = id
    BY <1>3, <2>2, TargetNode DEF CleanInv
  <2>4. n = Target(f)
    BY <1>1, <1>2, <2>3 DEF ListInv, Unique
  <2> QED
    BY <1>2, <2>2, <2>4
<1> QED
  BY <1>2, <1>3 DEF Missing

-----------------------------------------------------------------------------
(***************************************************************************)
(* The reader's control                                                    *)
(***************************************************************************)
SameControl(f) ==
    /\ pc'[f] = pc[f] /\ channel_id'[f] = channel_id[f] /\ buf'[f] = buf[f]
    /\ exit_code'[f] = exit_code[f] /\ promised'[f] = promised[f]

LEMMA ReaderFrame ==
    ASSUME FileInv, NEW f \in File, ReaderOf(f), SameControl(f), file'[f] = file[f],
           call'[f] = call[f], ret'[f] = ret[f], asked'[f] = asked[f],
           ~IsOpen(f) \/ \A c \in Channel : sent[c] # Null => sent'[c] # Null
    PROVE  ReaderOf(f)'
<1>1. (IsOpen(f)' <=> IsOpen(f)) /\ minor(f)' = minor(f) /\ (Succeeded(f)' <=> Succeeded(f))
  BY DEF IsOpen, minor, Succeeded
<1>2. ASSUME IsOpen(f), channel_id[f] \in ChannelId
      PROVE  sent[<<minor(f), channel_id[f]>>] # Null => sent'[<<minor(f), channel_id[f]>>] # Null
  BY <1>2, OpenFile DEF Channel
<1> QED
  BY <1>1, <1>2 DEF ReaderOf, SameControl

LEMMA ReaderInside ==
    ASSUME CleanInv, ListInv, MessageInv, ~BadRead, NEW f \in File, ReaderOf(f),
           Inside(f), UNCHANGED clientVars
    PROVE  ReaderOf(f)'
<1>0. TypeOK /\ CallInv /\ FileInv
  BY DEF CleanInv, RaceInv
<1>1. SameControl(f)
  BY DEF SameControl, clientVars
<1>2. IsOpen(f)' /\ minor(f)' = minor(f) /\ Step(f)
  BY <1>0, StaysOpen DEF Step
<1>3. call[f] # Idle
  BY <1>0, InsideBusy
<1>4. IsOpen(f) /\ minor(f) \in Minor
  BY <1>0, <1>3, Calls, OpenFile
<1>5. ASSUME pc[f] \in {"opened", "set", "called"}
      PROVE  /\ channel_id[f] \in ChannelId
             /\ promised[f] => sent[<<minor(f), channel_id[f]>>] # Null
             /\ promised[f] => sent'[<<minor(f), channel_id[f]>>] # Null
  <2>1. channel_id[f] \in ChannelId /\ (promised[f] => sent[<<minor(f), channel_id[f]>>] # Null)
    BY <1>5 DEF ReaderOf
  <2>2. <<minor(f), channel_id[f]>> \in Channel
    BY <1>4, <2>1 DEF Channel
  <2> QED
    BY <1>2, <2>1, <2>2, SentStays
<1>6. ASSUME pc[f] = "set"
      PROVE  \/ call'[f].op = "ioctl" /\ call'[f].id = channel_id[f]
             \/ call'[f] = Idle /\ ret'[f] = <<"ok">> /\ asked'[f] = <<minor(f), channel_id[f]>>
             \/ call'[f] = Idle /\ ~promised[f] /\ ~Succeeded(f)'
  <2>1. call[f].op = "ioctl" /\ call[f].id = channel_id[f]
    BY <1>3, <1>6 DEF ReaderOf
  <2>2. ASSUME call'[f] = Idle, ret'[f] = <<"ENOMEM">>, Missing(f)
        PROVE  ~promised[f] /\ ~Succeeded(f)'
    BY <1>4, <1>5, <1>6, <2>1, <2>2, FindsMessage DEF Succeeded
  <2> QED
    BY <2>1, <2>2, IoctlOutcome DEF MessageInv
<1>7. ASSUME pc[f] = "called"
      PROVE  \/ /\ call'[f].op = "read" /\ call'[f].length = BUF_LEN
                /\ asked'[f] = <<minor(f), channel_id[f]>>
             \/ call'[f] = Idle /\ ret'[f][1] = "read" /\ ret'[f][2] # <<>>
             \/ call'[f] = Idle /\ ~promised[f] /\ ~Succeeded(f)'
  <2>1. /\ call[f].op = "read" /\ call[f].length = BUF_LEN
        /\ asked[f] = <<minor(f), channel_id[f]>>
    BY <1>3, <1>7 DEF ReaderOf
  <2>2. ~ \E k \in 0 .. BUF_LEN : call[f].length < k
    BY <2>1, SlotAssumption
  <2>3. promised[f] => Full(Target(f))
    BY <1>4, <1>5, <1>7, <2>1, FindsMessage
  <2>4. ret'[f] = <<"EWOULDBLOCK">> => ~Succeeded(f)'
    BY DEF Succeeded
  <2> QED
    BY <2>1, <2>2, <2>3, <2>4, ReadOutcome
<1> QED
  BY <1>1, <1>2, <1>5, <1>6, <1>7 DEF ReaderOf, SameControl

\* A reader's ioctl on channel 0 fails, and nobody was promised a message there.
LEMMA ReaderSets ==
    ASSUME CleanInv, ListInv, MessageInv, ClientInv, NEW f \in Reader, f \in File,
           ReaderOf(f), SetChannel(f)
    PROVE  ReaderOf(f)'
<1>1. /\ pc[f] = "opened" /\ pc'[f] = "set" /\ channel_id' = channel_id /\ promised' = promised
      /\ f \in DOMAIN call /\ f \in DOMAIN ret
  BY DEF SetChannel, Goto, ClientInv, ClientTypes, Client, CleanInv, RaceInv, CallInv, MessageInv
<1>2. /\ IsOpen(f) /\ channel_id[f] \in ChannelId
      /\ promised[f] => sent[<<minor(f), channel_id[f]>>] # Null
  BY <1>1 DEF ReaderOf
<1>3. IsOpen(f)' /\ minor(f)' = minor(f) /\ sent' = sent
  BY <1>2 DEF SetChannel, Ioctl, IsOpen, minor
<1>4. CASE channel_id[f] = 0
  <2>1. call'[f] = Idle /\ ret'[f] = <<"EINVAL">>
    BY <1>1, <1>4 DEF SetChannel, Ioctl, Return
  <2>2. ~promised[f] /\ ~Succeeded(f)'
    BY <1>2, <1>4, <2>1, FindsMessage DEF Succeeded
  <2> QED
    BY <1>1, <1>2, <1>3, <2>1, <2>2 DEF ReaderOf
<1>5. CASE channel_id[f] # 0
  <2>1. call'[f].op = "ioctl" /\ call'[f].id = channel_id[f]
    BY <1>1, <1>5 DEF SetChannel, Ioctl
  <2> QED
    BY <1>1, <1>2, <1>3, <2>1 DEF ReaderOf
<1> QED
  BY <1>4, <1>5

LEMMA ReaderReads ==
    ASSUME CleanInv, ListInv, MessageInv, ClientInv, NEW f \in Reader, f \in File,
           ReaderOf(f), Call(f)
    PROVE  ReaderOf(f)'
<1>1. /\ pc[f] = "set" /\ pc'[f] = "called" /\ channel_id' = channel_id /\ promised' = promised
      /\ f \in DOMAIN call /\ f \in DOMAIN ret /\ call[f] = Idle /\ Succeeded(f)
  BY DEF Call, Returned, Ready, Goto, ClientInv, ClientTypes, Client, CleanInv, RaceInv, CallInv, MessageInv
<1>2. f \notin Sender /\ BUF_LEN \in ReadLen
  BY ClientAssumption
<1>3. Read(f, BUF_LEN)
  BY <1>2 DEF Call, BufferLen
<1>4. /\ IsOpen(f) /\ channel_id[f] \in ChannelId /\ asked[f] = <<minor(f), channel_id[f]>>
      /\ promised[f] => sent[<<minor(f), channel_id[f]>>] # Null
  BY <1>1 DEF ReaderOf, Idle
<1>5. IsOpen(f)' /\ minor(f)' = minor(f) /\ sent' = sent
  BY <1>3, <1>4 DEF Read, IsOpen, minor
<1>6. minor(f) \in Minor
  BY <1>4, OpenFile DEF CleanInv, RaceInv
<1>7. Target(f) # Null
  BY <1>4, <1>6, NullAssumption DEF ListInv, Got, Channel
<1>8. call' = [call EXCEPT ![f] = [op |-> "read", pc |-> "exists", length |-> BUF_LEN,
                                   out |-> <<>>]]
  BY <1>3, <1>7 DEF Read
<1>9. call'[f].op = "read" /\ call'[f].length = BUF_LEN /\ asked' = asked
  BY <1>1, <1>3, <1>8 DEF Read
<1> QED
  BY <1>1, <1>4, <1>5, <1>9 DEF ReaderOf

LEMMA ReaderStep ==
    ASSUME CleanInv, ListInv, MessageInv, ClientInv, ~BadRead,
           NEW f \in Reader, f \in File, ClientStep(f)
    PROVE  ReaderOf(f)'
<1>0. /\ ReaderOf(f) /\ f \in DOMAIN pc /\ f \in DOMAIN channel_id /\ f \in DOMAIN buf
      /\ f \in DOMAIN exit_code /\ f \in DOMAIN promised /\ f \notin Sender
  BY ClientAssumption DEF ClientInv, ClientTypes, Client
<1>1. CASE BadArguments(f)
  <2>1. ~promised[f] /\ promised' = promised /\ pc'[f] = "exited" /\ exit_code'[f] # EXIT_SUCCESS
    BY <1>0, <1>1 DEF BadArguments, exit, Goto, ReaderOf, EXIT_FAILURE, Signalled, EXIT_SUCCESS
  <2> QED
    BY <2>1 DEF ReaderOf
<1>2. CASE Open(f)
  <2>1. PICK m \in Minor : file' = [file EXCEPT ![f] = [minor |-> m, private_data |-> Null]]
    BY <1>2 DEF Open, device_open
  <2>2. file'[f] = [minor |-> m, private_data |-> Null] /\ sent' = sent
    BY <1>2, <2>1 DEF Open, device_open, histVars, CleanInv, RaceInv, TypeOK
  <2>3. IsOpen(f)' /\ minor(f)' = m
    BY <2>2, NullAssumption DEF IsOpen, Closed, minor
  <2>4. PICK id \in ChannelId :
             /\ channel_id' = [channel_id EXCEPT ![f] = id]
             /\ promised' = [promised EXCEPT ![f] = sent[<<file'[f].minor, id>>] # Null]
    BY <1>2 DEF Open
  <2>5. pc'[f] = "opened" /\ channel_id'[f] = id
    BY <1>0, <1>2, <2>4 DEF Open, Goto
  <2>6. file'[f].minor = m
    BY <2>2
  <2>7. promised'[f] => sent[<<m, id>>] # Null
    BY <1>0, <2>4, <2>6
  <2> QED
    BY <2>2, <2>3, <2>5, <2>7 DEF ReaderOf
<1>3. CASE OpenFails(f)
  <2>1. ~promised[f] /\ promised' = promised /\ pc'[f] = "exited" /\ exit_code'[f] # EXIT_SUCCESS
    BY <1>0, <1>3 DEF OpenFails, exit, Goto, ReaderOf, EXIT_FAILURE, EXIT_SUCCESS
  <2> QED
    BY <2>1 DEF ReaderOf
<1>4. CASE SetChannel(f)
  BY <1>0, <1>4, ReaderSets
<1>5. CASE Call(f)
  BY <1>0, <1>5, ReaderReads
<1>6. CASE CallFailed(f)
  <2>1. /\ pc[f] \in {"set", "called"} /\ call[f] = Idle /\ ~Succeeded(f)
        /\ promised' = promised /\ pc'[f] = "exited" /\ exit_code'[f] # EXIT_SUCCESS
    BY <1>0, <1>6 DEF CallFailed, Returned, Ready, exit, Goto, EXIT_FAILURE, Signalled, EXIT_SUCCESS
  <2>2. ~promised[f]
    BY <1>0, <2>1 DEF ReaderOf, Succeeded, Idle
  <2> QED
    BY <2>1, <2>2 DEF ReaderOf
<1>7. CASE Close(f)
  <2>1. /\ pc[f] = "called" /\ call[f] = Idle /\ Succeeded(f)
        /\ pc'[f] = "closed" /\ buf'[f] = ret[f][2]
    BY <1>0, <1>7 DEF Close, Returned, Ready, Goto
  <2>2. ret[f][2] # <<>>
    BY <1>0, <2>1 DEF ReaderOf, Idle
  <2> QED
    BY <2>1, <2>2 DEF ReaderOf
<1>8. CASE WriteOut(f)
  <2>1. pc[f] = "closed" /\ pc'[f] = "exited" /\ buf' = buf
    BY <1>0, <1>8 DEF WriteOut, exit, Goto
  <2> QED
    BY <1>0, <2>1 DEF ReaderOf
<1>9. CASE Inside(f) /\ UNCHANGED clientVars
  BY <1>0, <1>9, ReaderInside
<1> QED
  BY <1>1, <1>2, <1>3, <1>4, <1>5, <1>6, <1>7, <1>8, <1>9 DEF ClientStep

-----------------------------------------------------------------------------
(***************************************************************************)
(* Clients and the driver                                                  *)
(***************************************************************************)
LEMMA ClientCalls ==
    ASSUME ClientTypes, NEW f \in Client, ClientStep(f)
    PROVE  Step(f) \/ UNCHANGED vars
BY ClientAssumption
DEF ClientStep, BadArguments, Open, OpenFails, SetChannel, Call, CallFailed, Close, WriteOut,
    Argument, BufferLen, ClientTypes, Step

LEMMA ClientSteps ==
    ClientTypes /\ [ClientNext]_allVars => [Next]_vars
<1>1. ASSUME ClientTypes, NEW f \in Client, ClientStep(f) PROVE [Next]_vars
  BY <1>1, ClientCalls, ClientAssumption DEF Next
<1> QED
  BY <1>1 DEF ClientNext, Next, allVars

\* What a client does to the others.
LEMMA ClientOnly ==
    ASSUME ClientTypes, NEW f \in Client, ClientStep(f)
    PROVE  /\ DOMAIN pc' = Client /\ DOMAIN channel_id' = Client /\ DOMAIN buf' = Client
           /\ DOMAIN exit_code' = Client /\ DOMAIN promised' = Client
           /\ \A g \in Client \ {f} : SameControl(g)
           /\ pc'[f] = "opened" => channel_id'[f] \in ChannelId
<1> USE DEF ClientTypes, SameControl
<1>1. CASE BadArguments(f) \/ OpenFails(f) \/ WriteOut(f)
  BY <1>1 DEF BadArguments, OpenFails, WriteOut, exit, Goto
<1>2. CASE Open(f)
  BY <1>2 DEF Open, Goto
<1>3. CASE SetChannel(f) \/ Call(f)
  BY <1>3 DEF SetChannel, Call, Goto
<1>4. CASE CallFailed(f)
  BY <1>4 DEF CallFailed, exit, Goto
<1>5. CASE Close(f)
  BY <1>5 DEF Close, exit, Goto
<1>6. CASE UNCHANGED clientVars
  BY <1>6 DEF clientVars
<1> QED
  BY <1>1, <1>2, <1>3, <1>4, <1>5, <1>6 DEF ClientStep

LEMMA ReaderOthers ==
    ASSUME CleanInv, ListInv, MessageInv, ClientInv, NEW f \in Reader,
           SameControl(f), NEW g \in File \ {f}, Step(g) \/ UNCHANGED vars
    PROVE  ReaderOf(f)'
<1>0. f \in File /\ ReaderOf(f) /\ TypeOK /\ CallInv /\ FileInv
  BY ClientAssumption DEF Client, ClientInv, ClientTypes, CleanInv, RaceInv
<1>1. CASE UNCHANGED vars
  BY <1>0, <1>1, ReaderFrame DEF vars, memVars, histVars
<1>2. CASE Step(g)
  <2>1. file'[f] = file[f] /\ call'[f] = call[f]
    BY <1>0, <1>2, StepOnly DEF OnlyFile
  <2>2. ret'[f] = ret[f] /\ asked'[f] = asked[f]
    BY <1>0, <1>2, ResultsKept, StepOnly DEF MessageInv, OnlyFile
  <2> QED
    BY <1>0, <1>2, <2>1, <2>2, SentStays, ReaderFrame
<1> QED
  BY <1>1, <1>2

LEMMA ClientInvStep ==
    /\ CleanInv /\ ListInv /\ MessageInv /\ ClientInv /\ ~BadRead
    /\ [ClientNext]_allVars
    => ClientInv'
<1> SUFFICES ASSUME CleanInv, ListInv, MessageInv, ClientInv, ~BadRead,
                    [ClientNext]_allVars
             PROVE  ClientInv'
  OBVIOUS
<1>0. Client \subseteq File /\ Reader \subseteq Client /\ FileInv
  BY ClientAssumption DEF Client, CleanInv, RaceInv
<1>1. ASSUME NEW g \in Client, ClientStep(g) PROVE ClientInv'
  <2>1. \A f \in Reader : ReaderOf(f)'
    <3> TAKE f \in Reader
    <3>1. CASE f = g
      BY <1>0, <1>1, <3>1, ReaderStep
    <3>2. CASE f # g
      BY <1>0, <1>1, <3>2, ClientOnly, ClientCalls, ReaderOthers DEF ClientInv
    <3> QED
      BY <3>1, <3>2
  <2>2. \A f \in Client : pc'[f] = "opened" => channel_id'[f] \in ChannelId
    BY <1>1, ClientOnly DEF ClientInv, ClientTypes, SameControl
  <2> QED
    BY <1>1, <2>1, <2>2, ClientOnly DEF ClientInv, ClientTypes
<1>2. ASSUME UNCHANGED clientVars, \A f \in Reader : ReaderOf(f)' PROVE ClientInv'
  BY <1>2 DEF ClientInv, ClientTypes, clientVars
<1>3. UNCHANGED clientVars => \A f \in Reader : SameControl(f)
  BY DEF SameControl, clientVars
<1>4. ASSUME NEW g \in File \ Client, Step(g), UNCHANGED clientVars PROVE ClientInv'
  BY <1>0, <1>2, <1>3, <1>4, ReaderOthers
<1>5. ASSUME msgslot_init \/ msgslot_exit, UNCHANGED clientVars PROVE ClientInv'
  <2>1. \A f \in File : ~IsOpen(f)
    BY <1>0, <1>5 DEF msgslot_init, msgslot_exit, Unused, FileInv
  <2>2. UNCHANGED <<file, call, ret, asked>>
    BY <1>5 DEF msgslot_init, msgslot_exit, histVars
  <2>3. \A f \in Reader : ReaderOf(f)'
    BY <1>0, <1>3, <1>5, <2>1, <2>2, ReaderFrame DEF ClientInv, ClientTypes
  <2> QED
    BY <1>2, <1>5, <2>3
<1>6. CASE UNCHANGED allVars
  <2>1. \A f \in Reader : ReaderOf(f)'
    BY <1>0, <1>3, <1>6, ReaderFrame DEF ClientInv, ClientTypes, allVars, vars, histVars
  <2> QED
    BY <1>2, <1>6, <2>1 DEF allVars
<1> QED
  BY <1>1, <1>4, <1>5, <1>6 DEF ClientNext

LEMMA ClientTypesStep == ClientTypes /\ [ClientNext]_allVars => ClientTypes'
<1>1. ASSUME ClientTypes, NEW f \in Client, ClientStep(f) PROVE ClientTypes'
  <2>1. \A g \in Client : pc'[g] = "opened" => channel_id'[g] \in ChannelId
    BY <1>1, ClientOnly DEF ClientTypes, SameControl
  <2> QED
    BY <1>1, <2>1, ClientOnly DEF ClientTypes
<1>2. ASSUME ClientTypes, UNCHANGED clientVars PROVE ClientTypes'
  BY <1>2 DEF ClientTypes, clientVars
<1> QED
  BY <1>1, <1>2 DEF ClientNext, allVars

\* What the two programs and the others do is a behaviour of the driver, so that every
\* theorem about the driver holds among them (message_sender.c and message_reader.c,
\* which reach message_slot.c by open, ioctl, read, write and exit only).
THEOREM ClientsUseDriver == ClientSpec => Spec
<1>1. ClientInit => Init /\ ClientTypes
  BY DEF ClientInit, ClientTypes
<1> QED
  BY <1>1, ClientTypesStep, ClientSteps, PTL DEF ClientSpec, Spec

\* A reader that finds a message on its channel when it opens the device is never turned
\* away and exits with something read, however many senders, readers and other programs
\* use the device meanwhile: msg_len never returns to 0, the ioctl finds the NODE that
\* was written and the buffer of the reader holds any message (message_reader.c lines
\* 24-56, message_slot.c lines 43-157).  As before ioctls exclude other calls and the
\* channels fit into NODE.channel_id; put_user does not fault on a process's own array.
THEOREM MessagesAreDelivered ==
    ASSUME "ioctl" \notin Overlapping, Narrow, ~BadRead
    PROVE  ClientSpec => []Delivered
<1>1. ClientInit => MessageInv /\ ClientInv
  <2> SUFFICES ASSUME ClientInit PROVE MessageInv /\ ClientInv
    OBVIOUS
  <2>1. MessageInv
    BY DEF ClientInit, Init, MessageInv, MessageOf, Channel, Idle
  <2>2. ClientInv
    BY DEF ClientInit, ClientInv, ClientTypes, ReaderOf, Client
  <2> QED
    BY <2>1, <2>2
<1>2. CleanInv /\ ListInv /\ MessageInv /\ ClientInv /\ [ClientNext]_allVars
          => MessageInv' /\ ClientInv'
  BY ClientSteps, MessageStep, ClientInvStep DEF ClientInv
<1>3. ClientInv => Delivered
  BY DEF ClientInv, ClientTypes, ReaderOf, Delivered
<1> QED
  BY <1>1, <1>2, <1>3, ListInvariance, ClientsUseDriver, PTL DEF ClientSpec
=============================================================================
