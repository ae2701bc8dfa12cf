----------------------------- MODULE CharDevice -----------------------------
(***************************************************************************)
(* The character devices of rec06-devices and their user program.          *)
(* CHARDEV2 is CHARDEV1 with an ioctl and a shift of every byte by one;    *)
(* the behaviours of CHARDEV1 are those in which nobody calls ioctl, so    *)
(* one module models both.  Processes interleave between any two accesses  *)
(* to the device's variables; the file of a process is shared with the     *)
(* children it forks, and released by the last of them that closes it.     *)
(***************************************************************************)
EXTENDS Integers, Sequences, FiniteSets

CONSTANTS
    User,       \* processes that run user_chardev again and again
    Other,      \* processes that use the device in any order, and fork
    BUF_LEN,
    CharSize,   \* the number of values of a char
    Hello,      \* what user_chardev writes
    Buffers,    \* what the others write
    Flags,      \* what the others set the encryption flag to
    None

Proc == User \cup Other
\* What an ioctl sets the encryption flag to, or None when its command is another.
Param == {0, 1} \cup Flags \cup {None}
Char == 0 .. CharSize - 1

ASSUME CharDeviceAssumption ==
    /\ User \cap Other = {} /\ IsFiniteSet(Proc) /\ None \notin Proc \cup Int
    /\ Flags \subseteq Int
    /\ BUF_LEN \in Nat \ {0} /\ CharSize \in Nat \ {0, 1}
    /\ Buffers \subseteq Seq(Char)
    /\ Hello \in Seq(Char) /\ Len(Hello) <= BUF_LEN

VARIABLES
    loaded,           \* is the module in the kernel?
    lock,             \* the owner of device_info.lock
    dev_open_flag, encryption_flag, the_message,
    fd,               \* the open file of each process, named after its opener
    pc, call,         \* control inside the driver, and the call being served
    i, reg,           \* device_write's index; a value between load and store
    line              \* the next call of user_chardev
devVars == <<lock, dev_open_flag, encryption_flag, the_message>>
vars == <<loaded, devVars, fd, pc, call, i, reg, line>>

Call(op, buffer, param) == [op |-> op, buffer |-> buffer, param |-> param]

\* The calls of user_chardev's main().
UserProgram ==
    << Call("open", <<>>, 0),
       Call("ioctl", <<>>, 0), Call("write", Hello, 0), Call("read", <<>>, 0),
       Call("ioctl", <<>>, 1), Call("write", Hello, 0), Call("read", <<>>, 0),
       Call("close", <<>>, 0) >>

OtherCall ==
    {Call(op, <<>>, 0) : op \in {"open", "read", "close"}}
    \cup {Call("write", b, 0) : b \in Buffers}
    \cup {Call("ioctl", <<>>, n) : n \in Param}

Pc == {"idle", "open", "open_locked", "open_inc", "release", "release_locked",
       "read", "write", "encrypt", "add", "ioctl"}

\* the_message of a module that has just been loaded.
Zeros == [k \in 1 .. BUF_LEN |-> 0]

Init ==
    /\ loaded = FALSE /\ lock = None
    /\ dev_open_flag = 0 /\ encryption_flag = 0 /\ the_message = Zeros
    /\ fd = [p \in Proc |-> None] /\ pc = [p \in Proc |-> "idle"]
    /\ call = [p \in Proc |-> UserProgram[1]]
    /\ i = [p \in Proc |-> 0] /\ reg = [p \in Proc |-> 0]
    /\ line = [p \in User |-> 1]

Goto(p, label) == pc' = [pc EXCEPT ![p] = label]

\* The call returns and its locals are gone.
Return(p) ==
    /\ Goto(p, "idle") /\ call' = [call EXCEPT ![p] = UserProgram[1]]
    /\ i' = [i EXCEPT ![p] = 0] /\ reg' = [reg EXCEPT ![p] = 0]

-----------------------------------------------------------------------------
(***************************************************************************)
(* The module                                                              *)
(***************************************************************************)
\* When register_chrdev fails the module is not loaded and nothing changes.
simple_init ==
    /\ ~loaded /\ loaded' = TRUE /\ lock' = None
    /\ dev_open_flag' = 0 /\ encryption_flag' = 0 /\ the_message' = Zeros
    /\ UNCHANGED <<fd, pc, call, i, reg, line>>

\* .owner: the kernel counts the files and the calls to device_open in progress.
InUse == \E p \in Proc : fd[p] # None \/ pc[p] # "idle"

simple_cleanup ==
    /\ loaded /\ ~InUse /\ loaded' = FALSE
    /\ UNCHANGED <<devVars, fd, pc, call, i, reg, line>>

-----------------------------------------------------------------------------
(***************************************************************************)
(* Processes                                                               *)
(***************************************************************************)
NextLine(p) == line' = IF p \in User THEN [line EXCEPT ![p] = (@ % Len(UserProgram)) + 1]
                                     ELSE line

\* A process enters the kernel.  An open without a module fails at once, and
\* user_chardev then exits.
Enter(p, c) ==
    /\ pc[p] = "idle" /\ loaded /\ c.op # "close"
    /\ c.op = "open" <=> fd[p] = None
    /\ call' = [call EXCEPT ![p] = c] /\ Goto(p, c.op) /\ NextLine(p)
    /\ UNCHANGED <<loaded, devVars, fd, i, reg>>

\* close(), also at the exit of a process: the last one to hold the file calls
\* device_release.
Close(p, c) ==
    /\ pc[p] = "idle" /\ c.op = "close" /\ fd[p] # None
    /\ fd' = [fd EXCEPT ![p] = None]
    /\ Goto(p, IF \E q \in Proc \ {p} : fd[q] = fd[p] THEN "idle" ELSE "release")
    /\ NextLine(p)
    /\ UNCHANGED <<loaded, devVars, call, i, reg>>

UserCall(p) == \E c \in {UserProgram[line[p]]} : Enter(p, c) \/ Close(p, c)
OtherStep(p) == \E c \in OtherCall : Enter(p, c) \/ Close(p, c)

\* fork() duplicates the descriptor.
Fork(p, child) ==
    /\ pc[p] = "idle" /\ fd[p] # None /\ pc[child] = "idle" /\ fd[child] = None
    /\ fd' = [fd EXCEPT ![child] = fd[p]]
    /\ UNCHANGED <<loaded, devVars, pc, call, i, reg, line>>

-----------------------------------------------------------------------------
(***************************************************************************)
(* device_open and device_release                                          *)
(***************************************************************************)
\* Mutant: the lock is not taken.
OpenLockNot(p) ==
    /\ pc[p] = "open" /\ Goto(p, "open_locked")
    /\ UNCHANGED <<loaded, devVars, fd, call, i, reg, line>>

OpenLock(p) ==
    /\ pc[p] = "open" /\ lock = None
    /\ lock' = p /\ Goto(p, "open_locked")
    /\ UNCHANGED <<loaded, dev_open_flag, encryption_flag, the_message, fd, call, i,
                   reg, line>>

\* Mutant: this early return keeps the lock.
OpenBusyLocked(p) ==
    /\ pc[p] = "open_locked" /\ dev_open_flag = 1
    /\ Return(p) /\ line' = IF p \in User THEN [line EXCEPT ![p] = 1] ELSE line
    /\ UNCHANGED <<loaded, devVars, fd>>

\* -EBUSY; user_chardev exits.
OpenBusy(p) ==
    /\ pc[p] = "open_locked" /\ dev_open_flag = 1
    /\ lock' = None
    /\ Return(p) /\ line' = IF p \in User THEN [line EXCEPT ![p] = 1] ELSE line
    /\ UNCHANGED <<loaded, dev_open_flag, encryption_flag, the_message, fd>>

\* Mutant: a device that is open is opened again.
OpenFreeAlways(p) ==
    /\ pc[p] = "open_locked"
    /\ reg' = [reg EXCEPT ![p] = dev_open_flag] /\ Goto(p, "open_inc")
    /\ UNCHANGED <<loaded, devVars, fd, call, i, line>>

\* ++dev_open_flag is a load and a store.
OpenFree(p) ==
    /\ pc[p] = "open_locked" /\ dev_open_flag # 1
    /\ reg' = [reg EXCEPT ![p] = dev_open_flag] /\ Goto(p, "open_inc")
    /\ UNCHANGED <<loaded, devVars, fd, call, i, line>>

OpenInc(p) ==
    /\ pc[p] = "open_inc"
    /\ dev_open_flag' = reg[p] + 1 /\ lock' = None
    /\ fd' = [fd EXCEPT ![p] = p] /\ Return(p)
    /\ UNCHANGED <<loaded, encryption_flag, the_message, line>>

ReleaseLock(p) ==
    /\ pc[p] = "release" /\ lock = None
    /\ lock' = p /\ reg' = [reg EXCEPT ![p] = dev_open_flag] /\ Goto(p, "release_locked")
    /\ UNCHANGED <<loaded, dev_open_flag, encryption_flag, the_message, fd, call, i, line>>

ReleaseDec(p) ==
    /\ pc[p] = "release_locked"
    /\ dev_open_flag' = reg[p] - 1 /\ lock' = None /\ Return(p)
    /\ UNCHANGED <<loaded, encryption_flag, the_message, fd, line>>

device_open(p) == OpenBusy(p) \/ OpenFree(p) \/ OpenInc(p)

device_release(p) == ReleaseDec(p)

-----------------------------------------------------------------------------
(***************************************************************************)
(* device_read, device_write and device_ioctl take no lock                 *)
(***************************************************************************)
\* It logs the_message and returns -EINVAL.
device_read(p) ==
    /\ pc[p] = "read" /\ Return(p)
    /\ UNCHANGED <<loaded, devVars, fd, line>>

\* Mutant: one byte more than the buffer has.
MoreToWriteLate(p) == i[p] < Len(call[p].buffer) /\ i[p] <= BUF_LEN

MoreToWrite(p) == i[p] < Len(call[p].buffer) /\ i[p] < BUF_LEN

\* get_user, whose result is ignored: from a page that is not mapped it gives 0.
\* The buffer of user_chardev is a string constant.
WriteByte(p) ==
    /\ pc[p] = "write" /\ MoreToWrite(p)
    /\ \E byte \in {call[p].buffer[i[p] + 1]} \cup (IF p \in User THEN {} ELSE {0}) :
           the_message' = [the_message EXCEPT ![i[p] + 1] = byte]
    /\ Goto(p, "encrypt")
    /\ UNCHANGED <<loaded, lock, dev_open_flag, encryption_flag, fd, call, i, reg, line>>

\* The flag is read for every byte; += 1 is a load and a store.
Encrypt(p) ==
    /\ pc[p] = "encrypt"
    /\ IF encryption_flag = 1
       THEN /\ reg' = [reg EXCEPT ![p] = the_message[i[p] + 1]]
            /\ Goto(p, "add") /\ UNCHANGED i
       ELSE /\ i' = [i EXCEPT ![p] = @ + 1]
            /\ Goto(p, "write") /\ UNCHANGED reg
    /\ UNCHANGED <<loaded, devVars, fd, call, line>>

Shift(byte) == (byte + 1) % CharSize

AddOne(p) ==
    /\ pc[p] = "add"
    /\ the_message' = [the_message EXCEPT ![i[p] + 1] = Shift(reg[p])]
    /\ i' = [i EXCEPT ![p] = @ + 1] /\ reg' = [reg EXCEPT ![p] = 0] /\ Goto(p, "write")
    /\ UNCHANGED <<loaded, lock, dev_open_flag, encryption_flag, fd, call, line>>

WriteEnd(p) ==
    /\ pc[p] = "write" /\ ~MoreToWrite(p)
    /\ Return(p)
    /\ UNCHANGED <<loaded, devVars, fd, line>>

device_write(p) == WriteByte(p) \/ Encrypt(p) \/ AddOne(p) \/ WriteEnd(p)

device_ioctl(p) ==
    /\ pc[p] = "ioctl"
    /\ encryption_flag' = IF call[p].param = None THEN encryption_flag ELSE call[p].param
    /\ Return(p)
    /\ UNCHANGED <<loaded, lock, dev_open_flag, the_message, fd, line>>

Lock(p) == OpenLock(p) \/ ReleaseLock(p)

Fops(p) ==
    device_read(p) \/ device_write(p) \/ device_open(p) \/ device_ioctl(p) \/ device_release(p)

Next ==
    \/ simple_init \/ simple_cleanup
    \/ \E p \in Proc : Lock(p) \/ Fops(p)
    \/ \E p \in User : UserCall(p)
    \/ \E p \in Other : OtherStep(p)
    \/ \E p, child \in Other : Fork(p, child)

Spec == Init /\ [][Next]_vars

\* The kernel runs every call to its end, and its spin locks are granted in the
\* order in which they are asked for.  Nothing is assumed of the processes.
FairSpec ==
    /\ Spec
    /\ \A p \in Proc : WF_vars(Fops(p)) /\ SF_vars(Lock(p))

-----------------------------------------------------------------------------
(***************************************************************************)
(* Properties                                                              *)
(***************************************************************************)
TypeOK ==
    /\ loaded \in BOOLEAN /\ lock \in Proc \cup {None}
    /\ dev_open_flag \in Nat /\ encryption_flag \in Int
    /\ the_message \in [1 .. BUF_LEN -> Char]
    /\ fd \in [Proc -> Proc \cup {None}] /\ pc \in [Proc -> Pc]
    /\ i \in [Proc -> 0 .. BUF_LEN] /\ reg \in [Proc -> Nat]
    /\ line \in [User -> 1 .. Len(UserProgram)]

\* The files that are open: held by a process, or being released.
Files == {fd[p] : p \in {q \in Proc : fd[q] # None}}
         \cup {p \in Proc : pc[p] \in {"release", "release_locked"}}

\* "We don't want to talk to two processes at the same time" (chardev.c:45): at most
\* one file is open, and between the critical sections dev_open_flag counts it,
\* whatever the order of opens, refusals, forks, closes and reloads.
ExclusiveOpen ==
    /\ Cardinality(Files) <= 1
    /\ lock = None => dev_open_flag = Cardinality(Files)

\* What user_chardev's two reads log begins with "Hello", as it is the first time
\* and shifted the second time: nobody else writes or sets the flag while it has
\* the device open, whatever earlier users left behind (user_chardev.c:22-27).
UserUndisturbed ==
    \A u \in User : pc[u] = "read" =>
        \A k \in 1 .. Len(Hello) :
            the_message[k] = IF line[u] <= 5 THEN Hello[k] ELSE Shift(Hello[k])

\* Every call returns; an open that meets an open device is refused, it does not
\* wait (chardev.c:46-55).
CallsReturn == \A p \in Proc : pc[p] # "idle" ~> pc[p] = "idle"
=============================================================================
