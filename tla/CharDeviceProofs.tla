-------------------------- MODULE CharDeviceProofs --------------------------
(***************************************************************************)
(* Proofs about CharDevice, for any number of processes, any size of the   *)
(* buffer and of a char, and any messages.                                 *)
(***************************************************************************)
EXTENDS CharDevice, FiniteSetTheorems, TLAPS

CallType == [op : {"open", "read", "write", "ioctl", "close"},
             buffer : Seq(Char), param : Param]

Opening == {"open", "open_locked", "open_inc"}
Releasing == {"release", "release_locked"}
Writing == {"write", "encrypt", "add"}
Critical == {"open_locked", "open_inc", "release_locked"}

Typed == TypeOK /\ call \in [Proc -> CallType] /\ dev_open_flag \in {0, 1}

\* The lock is held by the process inside device_open or device_release.
LockInv == \A p \in Proc : pc[p] \in Critical <=> lock = p

\* A process has a file during the calls on a file and none during the others; only
\* device_write has an index, which is in the buffer while a byte is being written.
CallInv ==
    \A p \in Proc :
        /\ pc[p] \in Opening \cup Releasing => fd[p] = None
        /\ pc[p] \in Writing \cup {"read", "ioctl"} => fd[p] # None
        /\ pc[p] \notin Writing => i[p] = 0
        /\ pc[p] \in {"encrypt", "add"} => i[p] < BUF_LEN /\ i[p] < Len(call[p].buffer)

\* A module that is not loaded has no files and no calls.
LoadInv == ~loaded => \A p \in Proc : fd[p] = None /\ pc[p] = "idle"

\* One file at a time, and dev_open_flag says whether there is one.
FileInv ==
    /\ \A p, q \in Proc : fd[p] # None /\ fd[q] # None => fd[p] = fd[q]
    /\ \A p, q \in Proc : pc[p] \in Releasing => fd[q] = None /\ (pc[q] \in Releasing => q = p)
    /\ dev_open_flag = 1 <=> \E p \in Proc : fd[p] # None \/ pc[p] \in Releasing

\* The value between the load and the store of dev_open_flag is the current one.
RegInv ==
    /\ \A p \in Proc : pc[p] = "open_inc" => reg[p] = 0 /\ dev_open_flag = 0
    /\ \A p \in Proc : pc[p] = "release_locked" => reg[p] = 1 /\ dev_open_flag = 1

\* user_chardev shares its file with nobody.
OwnInv ==
    /\ \A u \in User : fd[u] \in {u, None}
    /\ \A p \in Other : fd[p] \in Other \cup {None}

\* Where user_chardev is in its program.
LineOf(u) ==
    /\ pc[u] = "idle" => (fd[u] = None <=> line[u] = 1)
    /\ pc[u] \in Opening => line[u] = 2
    /\ pc[u] \in Releasing => line[u] = 1
    /\ pc[u] = "ioctl" => line[u] \in {3, 6} /\ call[u].param = IF line[u] = 3 THEN 0 ELSE 1
    /\ pc[u] \in Writing => line[u] \in {4, 7} /\ call[u].buffer = Hello
    /\ pc[u] = "read" => line[u] \in {5, 8}

LineInv == \A u \in User : LineOf(u)

\* What user_chardev has done to the device so far.
Second(u) == line[u] > 5
Logged(u, k) == the_message[k] = IF Second(u) THEN Shift(Hello[k]) ELSE Hello[k]
FlagSet(u) == pc[u] \in Writing \/ (pc[u] = "idle" /\ line[u] \in {3, 6})
AllWritten(u) == pc[u] = "read" \/ (pc[u] = "idle" /\ line[u] \in {4, 7})

UserData(u) ==
    /\ FlagSet(u) => encryption_flag = IF Second(u) THEN 1 ELSE 0
    /\ AllWritten(u) => \A k \in 1 .. Len(Hello) : Logged(u, k)
    /\ pc[u] \in Writing => \A k \in 1 .. Len(Hello) : k <= i[u] => Logged(u, k)
    /\ pc[u] \in {"encrypt", "add"} => the_message[i[u] + 1] = Hello[i[u] + 1]
    /\ pc[u] = "add" => Second(u) /\ reg[u] = Hello[i[u] + 1]

DataInv == \A u \in User : UserData(u)

DeviceInv == Typed /\ LockInv /\ CallInv /\ LoadInv /\ FileInv /\ RegInv

IInv == DeviceInv /\ OwnInv /\ LineInv /\ DataInv

-----------------------------------------------------------------------------
(***************************************************************************)
(* The calls                                                               *)
(***************************************************************************)
LEMMA Program ==
    /\ Len(UserProgram) = 8
    /\ \A k \in 1 .. 8 : UserProgram[k] \in CallType
    /\ UserProgram[1].op = "open" /\ UserProgram[8].op = "close"
    /\ \A k \in {2, 5} : UserProgram[k].op = "ioctl"
    /\ \A k \in {3, 6} : UserProgram[k].op = "write" /\ UserProgram[k].buffer = Hello
    /\ \A k \in {4, 7} : UserProgram[k].op = "read"
    /\ UserProgram[2].param = 0 /\ UserProgram[5].param = 1
<1>1. /\ UserProgram[1] = Call("open", <<>>, 0) /\ UserProgram[2] = Call("ioctl", <<>>, 0)
      /\ UserProgram[3] = Call("write", Hello, 0) /\ UserProgram[4] = Call("read", <<>>, 0)
      /\ UserProgram[5] = Call("ioctl", <<>>, 1) /\ UserProgram[6] = Call("write", Hello, 0)
      /\ UserProgram[7] = Call("read", <<>>, 0) /\ UserProgram[8] = Call("close", <<>>, 0)
      /\ Len(UserProgram) = 8
  BY DEF UserProgram
<1>2. <<>> \in Seq(Char) /\ Hello \in Seq(Char)
  BY CharDeviceAssumption
<1>3. \A k \in 1 .. 8 : k = 1 \/ k = 2 \/ k = 3 \/ k = 4 \/ k = 5 \/ k = 6 \/ k = 7 \/ k = 8
  OBVIOUS
<1>4. \A op \in {"open", "read", "write", "ioctl", "close"}, b \in {<<>>, Hello}, n \in {0, 1} :
          Call(op, b, n) \in CallType
  <2>1. {0, 1} \subseteq Param
    BY DEF Param
  <2> QED
    BY <1>2, <2>1 DEF Call, CallType
<1>5. \A k \in 1 .. 8 : UserProgram[k] \in CallType
  BY <1>1, <1>3, <1>4
<1> QED
  BY <1>1, <1>5 DEF Call

\* The calls a process may make next.
CallOf(p, c) == IF p \in User THEN c = UserProgram[line[p]] ELSE c \in OtherCall

LEMMA CallTyped ==
    ASSUME TypeOK, NEW p \in Proc, NEW c, CallOf(p, c)
    PROVE  c \in CallType
<1>1. CASE p \in User
  <2>1. line[p] \in 1 .. 8
    BY <1>1, Program DEF TypeOK
  <2> QED
    BY <1>1, <2>1, Program DEF CallOf
<1>2. CASE p \notin User
  <2>1. c \in OtherCall
    BY <1>2 DEF CallOf
  <2>2. <<>> \in Seq(Char) /\ Buffers \subseteq Seq(Char)
    BY CharDeviceAssumption
  <2>3. \A op \in {"open", "read", "write", "ioctl", "close"}, b \in Buffers \cup {<<>>},
           n \in Param : Call(op, b, n) \in CallType
    BY <2>2 DEF Call, CallType
  <2>4. 0 \in Param
    BY DEF Param
  <2>5. CASE c \in {Call(op, <<>>, 0) : op \in {"open", "read", "close"}}
    BY <2>3, <2>4, <2>5
  <2>6. CASE c \in {Call("write", b, 0) : b \in Buffers}
    BY <2>3, <2>4, <2>6
  <2>7. CASE c \in {Call("ioctl", <<>>, n) : n \in Param}
    BY <2>3, <2>7
  <2> QED
    BY <2>1, <2>5, <2>6, <2>7 DEF OtherCall
<1> QED
  BY <1>1, <1>2

\* The actions of Next, one by one.
LEMMA NextCases ==
    ASSUME [Next]_vars
    PROVE  \/ simple_init \/ simple_cleanup
           \/ \E p \in Proc : \/ OpenLock(p) \/ ReleaseLock(p) \/ device_read(p)
                              \/ WriteByte(p) \/ Encrypt(p) \/ AddOne(p) \/ WriteEnd(p)
                              \/ OpenBusy(p) \/ OpenFree(p) \/ OpenInc(p)
                              \/ device_ioctl(p) \/ ReleaseDec(p)
           \/ \E p \in Proc : \E c : (Enter(p, c) \/ Close(p, c)) /\ CallOf(p, c)
           \/ \E p, child \in Other : Fork(p, child)
           \/ UNCHANGED vars
<1>1. ASSUME NEW p \in User, UserCall(p)
      PROVE  \E c : (Enter(p, c) \/ Close(p, c)) /\ CallOf(p, c)
  BY <1>1, Zenon DEF UserCall, CallOf
<1>2. ASSUME NEW p \in Other, OtherStep(p)
      PROVE  \E c : (Enter(p, c) \/ Close(p, c)) /\ CallOf(p, c)
  <2>1. p \notin User
    BY <1>2, CharDeviceAssumption
  <2> QED
    BY <1>2, <2>1, Zenon DEF OtherStep, CallOf
<1>3. ASSUME NEW p \in Proc, Lock(p) \/ Fops(p)
      PROVE  \/ OpenLock(p) \/ ReleaseLock(p) \/ device_read(p)
             \/ WriteByte(p) \/ Encrypt(p) \/ AddOne(p) \/ WriteEnd(p)
             \/ OpenBusy(p) \/ OpenFree(p) \/ OpenInc(p)
             \/ device_ioctl(p) \/ ReleaseDec(p)
  BY <1>3, Zenon DEF Lock, Fops, device_write, device_open, device_release
<1>4. User \subseteq Proc /\ Other \subseteq Proc
  BY DEF Proc
<1> QED
  BY <1>1, <1>2, <1>3, <1>4, Zenon DEF Next

-----------------------------------------------------------------------------
(***************************************************************************)
(* The device                                                              *)
(***************************************************************************)
LEMMA InitDevice == Init => DeviceInv
<1> SUFFICES ASSUME Init PROVE DeviceInv
  OBVIOUS
<1> USE CharDeviceAssumption DEF Init
<1>a. the_message \in [1 .. BUF_LEN -> Char]
  BY DEF Char, Zeros
<1>b. UserProgram[1] \in CallType /\ 1 \in 1 .. Len(UserProgram)
  BY Program
<1>c. call \in [Proc -> CallType] /\ line \in [User -> 1 .. Len(UserProgram)]
  BY <1>b
<1>d. i \in [Proc -> 0 .. BUF_LEN] /\ reg \in [Proc -> Nat] /\ pc \in [Proc -> Pc]
  BY DEF Pc
<1>e. fd \in [Proc -> Proc \cup {None}]
  OBVIOUS
<1>f. encryption_flag \in Int /\ dev_open_flag \in {0, 1} /\ dev_open_flag \in Nat
  OBVIOUS
<1>g. loaded \in BOOLEAN /\ lock \in Proc \cup {None}
  OBVIOUS
<1>1. Typed
  BY ONLY <1>a, <1>c, <1>d, <1>e, <1>f, <1>g DEF Typed, TypeOK
<1>2. LockInv /\ CallInv /\ LoadInv /\ FileInv /\ RegInv
  BY DEF LockInv, CallInv, LoadInv, FileInv, RegInv, Critical, Opening, Releasing, Writing
<1> QED
  BY <1>1, <1>2 DEF DeviceInv

LEMMA TypedStep == DeviceInv /\ [Next]_vars => Typed'
<1> SUFFICES ASSUME DeviceInv, [Next]_vars PROVE Typed'
  OBVIOUS
<1>0. Len(UserProgram) = 8 /\ UserProgram[1] \in CallType
  BY Program
<1>l. line \in [User -> 1 .. 8] /\ \A n \in 1 .. 8 : (n % 8) + 1 \in 1 .. 8
  BY <1>0 DEF DeviceInv, Typed, TypeOK
<1> USE CharDeviceAssumption, <1>0 DEF DeviceInv, Typed, TypeOK, Pc, Char
<1>1. CASE simple_init
  BY <1>1 DEF simple_init, Zeros
<1>2. CASE simple_cleanup
  BY <1>2 DEF simple_cleanup, devVars, InUse
<1>3. ASSUME NEW p \in Proc, OpenLock(p) PROVE Typed'
  BY <1>3 DEF OpenLock, devVars, Goto
<1>4. ASSUME NEW p \in Proc, ReleaseLock(p) PROVE Typed'
  BY <1>4 DEF ReleaseLock, devVars, Goto
<1>5. ASSUME NEW p \in Proc, device_read(p) PROVE Typed'
  BY <1>5 DEF device_read, devVars, Return, Goto
<1>6. ASSUME NEW p \in Proc, WriteByte(p) PROVE Typed'
  <2>1. i[p] + 1 \in 1 .. Len(call[p].buffer) /\ i[p] + 1 \in 1 .. BUF_LEN
    BY <1>6 DEF WriteByte, MoreToWrite, CallType
  <2>2. call[p].buffer[i[p] + 1] \in 0 .. CharSize - 1
    <3>1. call[p].buffer \in Seq(0 .. CharSize - 1)
      BY DEF CallType
    <3> QED
      BY <2>1, <3>1
  <2>3. the_message' \in [1 .. BUF_LEN -> 0 .. CharSize - 1]
    BY <1>6, <2>1, <2>2 DEF WriteByte
  <2> QED
    BY <1>6, <2>3 DEF WriteByte, Goto
<1>7. ASSUME NEW p \in Proc, Encrypt(p) PROVE Typed'
  <2>1. i[p] + 1 \in 0 .. BUF_LEN /\ i[p] + 1 \in 1 .. BUF_LEN
    BY <1>7 DEF Encrypt, CallInv
  <2>2. the_message[i[p] + 1] \in Nat
    BY <2>1
  <2>3. i' \in [Proc -> 0 .. BUF_LEN] /\ reg' \in [Proc -> Nat] /\ pc' \in [Proc -> Pc]
    <3>1. CASE encryption_flag = 1
      BY <1>7, <2>2, <3>1 DEF Encrypt, Goto
    <3>2. CASE encryption_flag # 1
      <4>1. i' = [i EXCEPT ![p] = @ + 1] /\ pc' = [pc EXCEPT ![p] = "write"] /\ reg' = reg
        BY <1>7, <3>2, Zenon DEF Encrypt, Goto
      <4> QED
        BY <2>1, <4>1
    <3> QED
      BY <3>1, <3>2
  <2> QED
    BY <1>7, <2>3 DEF Encrypt, devVars
<1>8. ASSUME NEW p \in Proc, AddOne(p) PROVE Typed'
  <2>1. Shift(reg[p]) \in 0 .. CharSize - 1
    BY DEF Shift
  <2>2. i[p] + 1 \in 0 .. BUF_LEN
    BY <1>8 DEF AddOne, CallInv
  <2>3. the_message' \in [1 .. BUF_LEN -> 0 .. CharSize - 1]
    BY <1>8, <2>1 DEF AddOne
  <2>4. i' \in [Proc -> 0 .. BUF_LEN] /\ reg' \in [Proc -> Nat] /\ pc' \in [Proc -> Pc]
    BY <1>8, <2>2 DEF AddOne, Goto
  <2> QED
    BY <1>8, <2>3, <2>4 DEF AddOne
<1>9. ASSUME NEW p \in Proc, WriteEnd(p) PROVE Typed'
  BY <1>9 DEF WriteEnd, devVars, Return, Goto, MoreToWrite
<1>10. ASSUME NEW p \in Proc, OpenBusy(p) PROVE Typed'
  BY <1>10 DEF OpenBusy, devVars, Return, Goto
<1>11. ASSUME NEW p \in Proc, OpenFree(p) PROVE Typed'
  BY <1>11 DEF OpenFree, devVars, Goto
<1>12. ASSUME NEW p \in Proc, OpenInc(p) PROVE Typed'
  BY <1>12 DEF OpenInc, Return, Goto, RegInv
<1>13. ASSUME NEW p \in Proc, device_ioctl(p) PROVE Typed'
  <2>1. call[p] \in CallType
    OBVIOUS
  <2>2. \A n \in Param : n \in Int \/ n = None
    <3>1. Flags \subseteq Int
      BY ONLY CharDeviceAssumption, Zenon
    <3>2. 0 \in Int /\ 1 \in Int
      OBVIOUS
    <3> QED
      BY ONLY <3>1, <3>2, Zenon DEF Param
  <2>3. call[p].param \in Int \/ call[p].param = None
    BY <2>1, <2>2 DEF CallType
  <2>4. encryption_flag' \in Int
    BY <1>13, <2>3 DEF device_ioctl
  <2> QED
    BY <1>13, <2>4 DEF device_ioctl, Return, Goto
<1>14. ASSUME NEW p \in Proc, ReleaseDec(p) PROVE Typed'
  BY <1>14 DEF ReleaseDec, Return, Goto, RegInv
<1>15. ASSUME NEW p \in Proc, NEW c, Enter(p, c), CallOf(p, c) PROVE Typed'
  <2>1. c \in CallType
    BY <1>15, CallTyped
  <2>2. c.op \in Pc
    BY <1>15, <2>1 DEF Enter, CallType
  <2>3. call' \in [Proc -> CallType] /\ pc' \in [Proc -> Pc]
    BY <1>15, <2>1, <2>2 DEF Enter, Goto
  <2>4. line' \in [User -> 1 .. 8]
    BY <1>15, <1>l DEF Enter, NextLine
  <2> QED
    BY <1>15, <2>3, <2>4 DEF Enter, devVars
<1>16. ASSUME NEW p \in Proc, NEW c, Close(p, c), CallOf(p, c) PROVE Typed'
  <2>1. pc' \in [Proc -> Pc] /\ fd' \in [Proc -> Proc \cup {None}]
    BY <1>16 DEF Close, Goto
  <2>2. line' \in [User -> 1 .. 8]
    BY <1>16, <1>l DEF Close, NextLine
  <2> QED
    BY <1>16, <2>1, <2>2 DEF Close, devVars
<1>17. ASSUME NEW p \in Other, NEW child \in Other, Fork(p, child) PROVE Typed'
  <2>1. p \in Proc /\ child \in Proc
    BY <1>17 DEF Proc
  <2> QED
    BY <1>17, <2>1 DEF Fork, devVars
<1>18. CASE UNCHANGED vars
  BY <1>18 DEF vars, devVars
<1> QED
  BY <1>1, <1>2, <1>3, <1>4, <1>5, <1>6, <1>7, <1>8, <1>9, <1>10, <1>11, <1>12,
     <1>13, <1>14, <1>15, <1>16, <1>17, <1>18, NextCases

\* Only the process that got the lock leaves the critical section.
LEMMA LockStep == DeviceInv /\ [Next]_vars => LockInv'
<1> SUFFICES ASSUME DeviceInv, [Next]_vars PROVE LockInv'
  OBVIOUS
<1> USE CharDeviceAssumption DEF DeviceInv, Typed, TypeOK, LockInv, Critical
<1>1. CASE simple_init
  BY <1>1 DEF simple_init, LoadInv
<1>2. CASE simple_cleanup
  BY <1>2 DEF simple_cleanup, devVars, InUse
<1>3. ASSUME NEW p \in Proc, OpenLock(p) PROVE LockInv'
  BY <1>3 DEF OpenLock, devVars, Goto
<1>4. ASSUME NEW p \in Proc, ReleaseLock(p) PROVE LockInv'
  BY <1>4 DEF ReleaseLock, devVars, Goto
<1>5. ASSUME NEW p \in Proc, device_read(p) PROVE LockInv'
  BY <1>5 DEF device_read, devVars, Return, Goto
<1>6. ASSUME NEW p \in Proc, WriteByte(p) PROVE LockInv'
  BY <1>6 DEF WriteByte, devVars, Goto, MoreToWrite
<1>7. ASSUME NEW p \in Proc, Encrypt(p) PROVE LockInv'
  BY <1>7 DEF Encrypt, devVars, Goto
<1>8. ASSUME NEW p \in Proc, AddOne(p) PROVE LockInv'
  BY <1>8 DEF AddOne, devVars, Goto
<1>9. ASSUME NEW p \in Proc, WriteEnd(p) PROVE LockInv'
  BY <1>9 DEF WriteEnd, devVars, Return, Goto, MoreToWrite
<1>10. ASSUME NEW p \in Proc, OpenBusy(p) PROVE LockInv'
  BY <1>10 DEF OpenBusy, devVars, Return, Goto
<1>11. ASSUME NEW p \in Proc, OpenFree(p) PROVE LockInv'
  BY <1>11 DEF OpenFree, devVars, Goto
<1>12. ASSUME NEW p \in Proc, OpenInc(p) PROVE LockInv'
  BY <1>12 DEF OpenInc, devVars, Return, Goto
<1>13. ASSUME NEW p \in Proc, device_ioctl(p) PROVE LockInv'
  BY <1>13 DEF device_ioctl, devVars, Return, Goto
<1>14. ASSUME NEW p \in Proc, ReleaseDec(p) PROVE LockInv'
  BY <1>14 DEF ReleaseDec, devVars, Return, Goto
<1>15. ASSUME NEW p \in Proc, NEW c, Enter(p, c), CallOf(p, c) PROVE LockInv'
  <2>1. c.op \in {"open", "read", "write", "ioctl"}
    BY <1>15, CallTyped DEF Enter, CallType
  <2> QED
    BY <1>15, <2>1 DEF Enter, Goto, devVars
<1>16. ASSUME NEW p \in Proc, NEW c, Close(p, c), CallOf(p, c) PROVE LockInv'
  BY <1>16 DEF Close, Goto, devVars
<1>17. ASSUME NEW p \in Other, NEW child \in Other, Fork(p, child) PROVE LockInv'
  <2>1. p \in Proc /\ child \in Proc
    BY <1>17 DEF Proc
  <2> QED
    BY <1>17, <2>1 DEF Fork, devVars
<1>18. CASE UNCHANGED vars
  BY <1>18 DEF vars, devVars
<1> QED
  BY <1>1, <1>2, <1>3, <1>4, <1>5, <1>6, <1>7, <1>8, <1>9, <1>10, <1>11, <1>12,
     <1>13, <1>14, <1>15, <1>16, <1>17, <1>18, NextCases

LEMMA CallStep == DeviceInv /\ [Next]_vars => CallInv'
<1> SUFFICES ASSUME DeviceInv, [Next]_vars PROVE CallInv'
  OBVIOUS
<1> USE CharDeviceAssumption DEF DeviceInv, Typed, TypeOK, CallInv, Opening, Releasing, Writing
<1>1. CASE simple_init
  BY <1>1 DEF simple_init, devVars
<1>2. CASE simple_cleanup
  BY <1>2 DEF simple_cleanup, devVars, InUse
<1>3. ASSUME NEW p \in Proc, OpenLock(p) PROVE CallInv'
  BY <1>3 DEF OpenLock, devVars, Goto
<1>4. ASSUME NEW p \in Proc, ReleaseLock(p) PROVE CallInv'
  BY <1>4 DEF ReleaseLock, devVars, Goto
<1>5. ASSUME NEW p \in Proc, device_read(p) PROVE CallInv'
  BY <1>5 DEF device_read, devVars, Return, Goto
<1>6. ASSUME NEW p \in Proc, WriteByte(p) PROVE CallInv'
  <2>1. Len(call[p].buffer) \in Nat
    BY DEF CallType
  <2> QED
    BY <1>6, <2>1 DEF WriteByte, Goto, MoreToWrite
<1>7. ASSUME NEW p \in Proc, Encrypt(p) PROVE CallInv'
  BY <1>7 DEF Encrypt, devVars, Goto
<1>8. ASSUME NEW p \in Proc, AddOne(p) PROVE CallInv'
  BY <1>8 DEF AddOne, devVars, Goto
<1>9. ASSUME NEW p \in Proc, WriteEnd(p) PROVE CallInv'
  BY <1>9 DEF WriteEnd, devVars, Return, Goto, MoreToWrite
<1>10. ASSUME NEW p \in Proc, OpenBusy(p) PROVE CallInv'
  BY <1>10 DEF OpenBusy, devVars, Return, Goto
<1>11. ASSUME NEW p \in Proc, OpenFree(p) PROVE CallInv'
  BY <1>11 DEF OpenFree, devVars, Goto
<1>12. ASSUME NEW p \in Proc, OpenInc(p) PROVE CallInv'
  BY <1>12 DEF OpenInc, devVars, Return, Goto
<1>13. ASSUME NEW p \in Proc, device_ioctl(p) PROVE CallInv'
  BY <1>13 DEF device_ioctl, devVars, Return, Goto
<1>14. ASSUME NEW p \in Proc, ReleaseDec(p) PROVE CallInv'
  BY <1>14 DEF ReleaseDec, devVars, Return, Goto
<1>15. ASSUME NEW p \in Proc, NEW c, Enter(p, c), CallOf(p, c) PROVE CallInv'
  <2>1. c.op \in {"open", "read", "write", "ioctl"}
    BY <1>15, CallTyped DEF Enter, CallType
  <2> QED
    BY <1>15, <2>1 DEF Enter, Goto, devVars
<1>16. ASSUME NEW p \in Proc, NEW c, Close(p, c), CallOf(p, c) PROVE CallInv'
  BY <1>16 DEF Close, Goto, devVars
<1>17. ASSUME NEW p \in Other, NEW child \in Other, Fork(p, child) PROVE CallInv'
  <2>1. p \in Proc /\ child \in Proc
    BY <1>17 DEF Proc
  <2> QED
    BY <1>17, <2>1 DEF Fork, devVars
<1>18. CASE UNCHANGED vars
  BY <1>18 DEF vars, devVars
<1> QED
  BY <1>1, <1>2, <1>3, <1>4, <1>5, <1>6, <1>7, <1>8, <1>9, <1>10, <1>11, <1>12,
     <1>13, <1>14, <1>15, <1>16, <1>17, <1>18, NextCases

LEMMA LoadStep == DeviceInv /\ [Next]_vars => LoadInv'
<1> SUFFICES ASSUME DeviceInv, [Next]_vars PROVE LoadInv'
  OBVIOUS
<1> USE CharDeviceAssumption DEF DeviceInv, Typed, TypeOK, LoadInv
<1>1. CASE simple_init
  BY <1>1 DEF simple_init, devVars
<1>2. CASE simple_cleanup
  BY <1>2 DEF simple_cleanup, devVars, InUse
<1>3. ASSUME NEW p \in Proc, OpenLock(p) PROVE LoadInv'
  BY <1>3 DEF OpenLock, devVars, Goto
<1>4. ASSUME NEW p \in Proc, ReleaseLock(p) PROVE LoadInv'
  BY <1>4 DEF ReleaseLock, devVars, Goto
<1>5. ASSUME NEW p \in Proc, device_read(p) PROVE LoadInv'
  BY <1>5 DEF device_read, devVars, Return, Goto
<1>6. ASSUME NEW p \in Proc, WriteByte(p) PROVE LoadInv'
  BY <1>6 DEF WriteByte, devVars, Goto, MoreToWrite
<1>7. ASSUME NEW p \in Proc, Encrypt(p) PROVE LoadInv'
  BY <1>7 DEF Encrypt, devVars, Goto
<1>8. ASSUME NEW p \in Proc, AddOne(p) PROVE LoadInv'
  BY <1>8 DEF AddOne, devVars, Goto
<1>9. ASSUME NEW p \in Proc, WriteEnd(p) PROVE LoadInv'
  BY <1>9 DEF WriteEnd, devVars, Return, Goto, MoreToWrite
<1>10. ASSUME NEW p \in Proc, OpenBusy(p) PROVE LoadInv'
  BY <1>10 DEF OpenBusy, devVars, Return, Goto
<1>11. ASSUME NEW p \in Proc, OpenFree(p) PROVE LoadInv'
  BY <1>11 DEF OpenFree, devVars, Goto
<1>12. ASSUME NEW p \in Proc, OpenInc(p) PROVE LoadInv'
  BY <1>12 DEF OpenInc, devVars, Return, Goto
<1>13. ASSUME NEW p \in Proc, device_ioctl(p) PROVE LoadInv'
  BY <1>13 DEF device_ioctl, devVars, Return, Goto
<1>14. ASSUME NEW p \in Proc, ReleaseDec(p) PROVE LoadInv'
  BY <1>14 DEF ReleaseDec, devVars, Return, Goto
<1>15. ASSUME NEW p \in Proc, NEW c, Enter(p, c), CallOf(p, c) PROVE LoadInv'
  BY <1>15 DEF Enter, devVars, Goto, NextLine
<1>16. ASSUME NEW p \in Proc, NEW c, Close(p, c), CallOf(p, c) PROVE LoadInv'
  BY <1>16 DEF Close, devVars, Goto, NextLine
<1>17. ASSUME NEW p \in Other, NEW child \in Other, Fork(p, child) PROVE LoadInv'
  <2>1. p \in Proc /\ child \in Proc
    BY <1>17 DEF Proc
  <2> QED
    BY <1>17, <2>1 DEF Fork, devVars
<1>18. CASE UNCHANGED vars
  BY <1>18 DEF vars, devVars
<1> QED
  BY <1>1, <1>2, <1>3, <1>4, <1>5, <1>6, <1>7, <1>8, <1>9, <1>10, <1>11, <1>12,
     <1>13, <1>14, <1>15, <1>16, <1>17, <1>18, NextCases

\* The flag is raised by the process that makes the only file, and lowered by the
\* one that releases it.
LEMMA FileStep == DeviceInv /\ [Next]_vars => FileInv'
<1> SUFFICES ASSUME DeviceInv, [Next]_vars PROVE FileInv'
  OBVIOUS
<1> USE CharDeviceAssumption DEF DeviceInv, Typed, TypeOK, FileInv, Releasing, CallInv, Opening, Writing
<1>1. CASE simple_init
  BY <1>1 DEF simple_init, LoadInv
<1>2. CASE simple_cleanup
  BY <1>2 DEF simple_cleanup, devVars, InUse
<1>3. ASSUME NEW p \in Proc, OpenLock(p) PROVE FileInv'
  BY <1>3 DEF OpenLock, devVars, Goto
<1>4. ASSUME NEW p \in Proc, ReleaseLock(p) PROVE FileInv'
  BY <1>4 DEF ReleaseLock, devVars, Goto
<1>5. ASSUME NEW p \in Proc, device_read(p) PROVE FileInv'
  BY <1>5 DEF device_read, devVars, Return, Goto
<1>6. ASSUME NEW p \in Proc, WriteByte(p) PROVE FileInv'
  BY <1>6 DEF WriteByte, devVars, Goto, MoreToWrite
<1>7. ASSUME NEW p \in Proc, Encrypt(p) PROVE FileInv'
  BY <1>7 DEF Encrypt, devVars, Goto
<1>8. ASSUME NEW p \in Proc, AddOne(p) PROVE FileInv'
  BY <1>8 DEF AddOne, devVars, Goto
<1>9. ASSUME NEW p \in Proc, WriteEnd(p) PROVE FileInv'
  BY <1>9 DEF WriteEnd, devVars, Return, Goto, MoreToWrite
<1>10. ASSUME NEW p \in Proc, OpenBusy(p) PROVE FileInv'
  BY <1>10 DEF OpenBusy, devVars, Return, Goto
<1>11. ASSUME NEW p \in Proc, OpenFree(p) PROVE FileInv'
  BY <1>11 DEF OpenFree, devVars, Goto
<1>12. ASSUME NEW p \in Proc, OpenInc(p) PROVE FileInv'
  BY <1>12 DEF OpenInc, Return, Goto, RegInv
<1>13. ASSUME NEW p \in Proc, device_ioctl(p) PROVE FileInv'
  BY <1>13 DEF device_ioctl, devVars, Return, Goto
<1>14. ASSUME NEW p \in Proc, ReleaseDec(p) PROVE FileInv'
  BY <1>14 DEF ReleaseDec, Return, Goto, RegInv
<1>15. ASSUME NEW p \in Proc, NEW c, Enter(p, c), CallOf(p, c) PROVE FileInv'
  <2>1. c.op \in {"open", "read", "write", "ioctl"}
    BY <1>15, CallTyped DEF Enter, CallType
  <2> QED
    BY <1>15, <2>1 DEF Enter, Goto, devVars
<1>16. ASSUME NEW p \in Proc, NEW c, Close(p, c), CallOf(p, c) PROVE FileInv'
  <2>1. CASE \E q \in Proc \ {p} : fd[q] = fd[p]
    <3>1. pc' = [pc EXCEPT ![p] = "idle"]
      BY <1>16, <2>1 DEF Close, Goto
    <3> QED
      BY <1>16, <2>1, <3>1 DEF Close, devVars
  <2>2. CASE ~ \E q \in Proc \ {p} : fd[q] = fd[p]
    <3>1. pc' = [pc EXCEPT ![p] = "release"]
      BY <1>16, <2>2 DEF Close, Goto
    <3>2. \A q \in Proc : fd'[q] = None
      BY <1>16, <2>2 DEF Close
    <3>3. \A q \in Proc : pc[q] \notin Releasing
      BY <1>16 DEF Close
    <3> QED
      BY <1>16, <3>1, <3>2, <3>3 DEF Close, devVars
  <2> QED
    BY <2>1, <2>2
<1>17. ASSUME NEW p \in Other, NEW child \in Other, Fork(p, child) PROVE FileInv'
  <2>1. p \in Proc /\ child \in Proc
    BY <1>17 DEF Proc
  <2> QED
    BY <1>17, <2>1 DEF Fork, devVars
<1>18. CASE UNCHANGED vars
  BY <1>18 DEF vars, devVars
<1> QED
  BY <1>1, <1>2, <1>3, <1>4, <1>5, <1>6, <1>7, <1>8, <1>9, <1>10, <1>11, <1>12,
     <1>13, <1>14, <1>15, <1>16, <1>17, <1>18, NextCases

LEMMA RegStep == DeviceInv /\ [Next]_vars => RegInv'
<1> SUFFICES ASSUME DeviceInv, [Next]_vars PROVE RegInv'
  OBVIOUS
<1> USE CharDeviceAssumption DEF DeviceInv, Typed, TypeOK, RegInv, LockInv, Critical
<1>1. CASE simple_init
  BY <1>1 DEF simple_init, LoadInv
<1>2. CASE simple_cleanup
  BY <1>2 DEF simple_cleanup, devVars, InUse
<1>3. ASSUME NEW p \in Proc, OpenLock(p) PROVE RegInv'
  BY <1>3 DEF OpenLock, devVars, Goto
<1>4. ASSUME NEW p \in Proc, ReleaseLock(p) PROVE RegInv'
  <2>1. dev_open_flag = 1
    BY <1>4 DEF ReleaseLock, FileInv, Releasing
  <2> QED
    BY <1>4, <2>1 DEF ReleaseLock, Goto
<1>5. ASSUME NEW p \in Proc, device_read(p) PROVE RegInv'
  BY <1>5 DEF device_read, devVars, Return, Goto
<1>6. ASSUME NEW p \in Proc, WriteByte(p) PROVE RegInv'
  BY <1>6 DEF WriteByte, devVars, Goto, MoreToWrite
<1>7. ASSUME NEW p \in Proc, Encrypt(p) PROVE RegInv'
  BY <1>7 DEF Encrypt, devVars, Goto
<1>8. ASSUME NEW p \in Proc, AddOne(p) PROVE RegInv'
  BY <1>8 DEF AddOne, Goto
<1>9. ASSUME NEW p \in Proc, WriteEnd(p) PROVE RegInv'
  BY <1>9 DEF WriteEnd, devVars, Return, Goto, MoreToWrite
<1>10. ASSUME NEW p \in Proc, OpenBusy(p) PROVE RegInv'
  BY <1>10 DEF OpenBusy, devVars, Return, Goto
<1>11. ASSUME NEW p \in Proc, OpenFree(p) PROVE RegInv'
  BY <1>11 DEF OpenFree, devVars, Goto
<1>12. ASSUME NEW p \in Proc, OpenInc(p) PROVE RegInv'
  BY <1>12 DEF OpenInc, devVars, Return, Goto
<1>13. ASSUME NEW p \in Proc, device_ioctl(p) PROVE RegInv'
  BY <1>13 DEF device_ioctl, devVars, Return, Goto
<1>14. ASSUME NEW p \in Proc, ReleaseDec(p) PROVE RegInv'
  BY <1>14 DEF ReleaseDec, devVars, Return, Goto
<1>15. ASSUME NEW p \in Proc, NEW c, Enter(p, c), CallOf(p, c) PROVE RegInv'
  <2>1. c.op \in {"open", "read", "write", "ioctl"}
    BY <1>15, CallTyped DEF Enter, CallType
  <2> QED
    BY <1>15, <2>1 DEF Enter, Goto, devVars
<1>16. ASSUME NEW p \in Proc, NEW c, Close(p, c), CallOf(p, c) PROVE RegInv'
  BY <1>16 DEF Close, Goto, devVars
<1>17. ASSUME NEW p \in Other, NEW child \in Other, Fork(p, child) PROVE RegInv'
  <2>1. p \in Proc /\ child \in Proc
    BY <1>17 DEF Proc
  <2> QED
    BY <1>17, <2>1 DEF Fork, devVars
<1>18. CASE UNCHANGED vars
  BY <1>18 DEF vars, devVars
<1> QED
  BY <1>1, <1>2, <1>3, <1>4, <1>5, <1>6, <1>7, <1>8, <1>9, <1>10, <1>11, <1>12,
     <1>13, <1>14, <1>15, <1>16, <1>17, <1>18, NextCases

LEMMA DeviceInvariance == Spec => []DeviceInv
<1>1. DeviceInv /\ [Next]_vars => DeviceInv'
  BY TypedStep, LockStep, CallStep, LoadStep, FileStep, RegStep DEF DeviceInv
<1> QED
  BY InitDevice, <1>1, PTL DEF Spec

-----------------------------------------------------------------------------
(***************************************************************************)
(* user_chardev                                                            *)
(***************************************************************************)
LEMMA InitUser == Init => OwnInv /\ LineInv /\ DataInv
<1> SUFFICES ASSUME Init PROVE OwnInv /\ LineInv /\ DataInv
  OBVIOUS
<1>1. \A u \in User : u \in Proc /\ pc[u] = "idle" /\ fd[u] = None /\ line[u] = 1
  BY DEF Init, Proc
<1>2. OwnInv
  BY DEF Init, Proc, OwnInv
<1>3. LineInv
  BY <1>1 DEF LineInv, LineOf, Opening, Releasing, Writing
<1>4. DataInv
  BY <1>1 DEF DataInv, UserData, FlagSet, AllWritten, Writing
<1> QED
  BY <1>2, <1>3, <1>4

LEMMA OwnStep == DeviceInv /\ OwnInv /\ [Next]_vars => OwnInv'
<1> SUFFICES ASSUME DeviceInv, OwnInv, [Next]_vars PROVE OwnInv'
  OBVIOUS
<1> USE CharDeviceAssumption DEF DeviceInv, Typed, TypeOK, OwnInv, Proc
<1>1. CASE simple_init
  BY <1>1 DEF simple_init, devVars
<1>2. CASE simple_cleanup
  BY <1>2 DEF simple_cleanup, devVars, InUse
<1>3. ASSUME NEW p \in Proc, OpenLock(p) PROVE OwnInv'
  BY <1>3 DEF OpenLock, devVars, Goto
<1>4. ASSUME NEW p \in Proc, ReleaseLock(p) PROVE OwnInv'
  BY <1>4 DEF ReleaseLock, devVars, Goto
<1>5. ASSUME NEW p \in Proc, device_read(p) PROVE OwnInv'
  BY <1>5 DEF device_read, devVars, Return, Goto
<1>6. ASSUME NEW p \in Proc, WriteByte(p) PROVE OwnInv'
  BY <1>6 DEF WriteByte, devVars, Goto, MoreToWrite
<1>7. ASSUME NEW p \in Proc, Encrypt(p) PROVE OwnInv'
  BY <1>7 DEF Encrypt, devVars, Goto
<1>8. ASSUME NEW p \in Proc, AddOne(p) PROVE OwnInv'
  BY <1>8 DEF AddOne, devVars, Goto
<1>9. ASSUME NEW p \in Proc, WriteEnd(p) PROVE OwnInv'
  BY <1>9 DEF WriteEnd, devVars, Return, Goto, MoreToWrite
<1>10. ASSUME NEW p \in Proc, OpenBusy(p) PROVE OwnInv'
  BY <1>10 DEF OpenBusy, devVars, Return, Goto
<1>11. ASSUME NEW p \in Proc, OpenFree(p) PROVE OwnInv'
  BY <1>11 DEF OpenFree, devVars, Goto
<1>12. ASSUME NEW p \in Proc, OpenInc(p) PROVE OwnInv'
  BY <1>12 DEF OpenInc, devVars, Return, Goto
<1>13. ASSUME NEW p \in Proc, device_ioctl(p) PROVE OwnInv'
  BY <1>13 DEF device_ioctl, devVars, Return, Goto
<1>14. ASSUME NEW p \in Proc, ReleaseDec(p) PROVE OwnInv'
  BY <1>14 DEF ReleaseDec, devVars, Return, Goto
<1>15. ASSUME NEW p \in Proc, NEW c, Enter(p, c), CallOf(p, c) PROVE OwnInv'
  BY <1>15 DEF Enter, devVars, Goto, NextLine
<1>16. ASSUME NEW p \in Proc, NEW c, Close(p, c), CallOf(p, c) PROVE OwnInv'
  BY <1>16 DEF Close
<1>17. ASSUME NEW p \in Other, NEW child \in Other, Fork(p, child) PROVE OwnInv'
  BY <1>17 DEF Fork, devVars
<1>18. CASE UNCHANGED vars
  BY <1>18 DEF vars, devVars
<1> QED
  BY <1>1, <1>2, <1>3, <1>4, <1>5, <1>6, <1>7, <1>8, <1>9, <1>10, <1>11, <1>12,
     <1>13, <1>14, <1>15, <1>16, <1>17, <1>18, NextCases

\* While user_chardev has the device open nobody else has it.
LEMMA Alone ==
    ASSUME DeviceInv, OwnInv, NEW u \in User, fd[u] # None, NEW p \in Proc, p # u
    PROVE  fd[p] = None /\ pc[p] \notin Releasing \cup Writing \cup {"read", "ioctl"}
<1>1. u \in Proc /\ fd[u] = u
  BY DEF OwnInv, Proc
<1>2. fd[p] = None
  BY <1>1, CharDeviceAssumption DEF DeviceInv, FileInv, OwnInv, Proc
<1> QED
  BY <1>1, <1>2 DEF DeviceInv, FileInv, CallInv

\* The next line of user_chardev and the call that it makes.
LEMMA UserLine ==
    ASSUME IInv, NEW u \in User, NEW c, CallOf(u, c), NextLine(u)
    PROVE  /\ c = UserProgram[line[u]] /\ line[u] \in 1 .. 8
           /\ \A v \in User \ {u} : line'[v] = line[v]
           /\ line'[u] = IF line[u] = 8 THEN 1 ELSE line[u] + 1
           /\ c.op = CASE line[u] = 1 -> "open" [] line[u] \in {2, 5} -> "ioctl"
                       [] line[u] \in {3, 6} -> "write" [] line[u] \in {4, 7} -> "read"
                       [] line[u] = 8 -> "close"
           /\ line[u] = 2 => c.param = 0
           /\ line[u] = 5 => c.param = 1
           /\ line[u] \in {3, 6} => c.buffer = Hello
<1>1. line \in [User -> 1 .. 8]
  BY Program DEF IInv, DeviceInv, Typed, TypeOK
<1>2. c = UserProgram[line[u]] /\ line' = [line EXCEPT ![u] = (line[u] % 8) + 1]
  BY Program DEF CallOf, NextLine
<1>3. line'[u] = IF line[u] = 8 THEN 1 ELSE line[u] + 1
  BY <1>1, <1>2
<1>4. \/ line[u] = 1 \/ line[u] = 2 \/ line[u] = 3 \/ line[u] = 4
      \/ line[u] = 5 \/ line[u] = 6 \/ line[u] = 7 \/ line[u] = 8
  BY <1>1
<1>5. \A v \in User \ {u} : line'[v] = line[v]
  BY <1>1, <1>2
<1> QED
  BY <1>1, <1>2, <1>3, <1>4, <1>5, Program

LEMMA LineFrame ==
    ASSUME IInv, NEW u \in User,
           pc'[u] = pc[u], line'[u] = line[u], fd'[u] = fd[u], call'[u] = call[u]
    PROVE  LineOf(u)'
BY DEF IInv, LineInv, LineOf

\* Every call of user_chardev leads to the next one, and a refused open to the first.
LEMMA LineStep == IInv /\ [Next]_vars => LineInv'
<1> SUFFICES ASSUME IInv, [Next]_vars, NEW u \in User PROVE LineOf(u)'
  BY DEF LineInv
<1>0. u \in Proc /\ LineOf(u)
  BY DEF Proc, IInv, LineInv
<1> USE CharDeviceAssumption, <1>0
    DEF IInv, DeviceInv, Typed, TypeOK, CallInv, Opening, Releasing, Writing
<1>1. CASE simple_init
  BY <1>1, LineFrame DEF simple_init
<1>2. CASE simple_cleanup
  BY <1>2, LineFrame DEF simple_cleanup
<1>3. ASSUME NEW p \in Proc, OpenLock(p) PROVE LineOf(u)'
  <2>1. CASE p # u
    BY <1>3, <2>1, LineFrame DEF OpenLock, Goto, devVars
  <2>2. CASE p = u
    BY <1>3, <2>2 DEF OpenLock, Goto, devVars, LineOf
  <2> QED
    BY <2>1, <2>2
<1>4. ASSUME NEW p \in Proc, ReleaseLock(p) PROVE LineOf(u)'
  <2>1. CASE p # u
    BY <1>4, <2>1, LineFrame DEF ReleaseLock, Goto, devVars
  <2>2. CASE p = u
    BY <1>4, <2>2 DEF ReleaseLock, Goto, devVars, LineOf
  <2> QED
    BY <2>1, <2>2
<1>5. ASSUME NEW p \in Proc, device_read(p) PROVE LineOf(u)'
  <2>1. CASE p # u
    BY <1>5, <2>1, LineFrame DEF device_read, Return, Goto, devVars
  <2>2. CASE p = u
    BY <1>5, <2>2 DEF device_read, Return, Goto, devVars, LineOf
  <2> QED
    BY <2>1, <2>2
<1>6. ASSUME NEW p \in Proc, WriteByte(p) PROVE LineOf(u)'
  <2>1. CASE p # u
    BY <1>6, <2>1, LineFrame DEF WriteByte, Goto, MoreToWrite, devVars
  <2>2. CASE p = u
    BY <1>6, <2>2 DEF WriteByte, Goto, MoreToWrite, devVars, LineOf
  <2> QED
    BY <2>1, <2>2
<1>7. ASSUME NEW p \in Proc, Encrypt(p) PROVE LineOf(u)'
  <2>1. CASE p # u
    BY <1>7, <2>1, LineFrame DEF Encrypt, Goto, devVars
  <2>2. CASE p = u
    BY <1>7, <2>2 DEF Encrypt, Goto, devVars, LineOf
  <2> QED
    BY <2>1, <2>2
<1>8. ASSUME NEW p \in Proc, AddOne(p) PROVE LineOf(u)'
  <2>1. CASE p # u
    BY <1>8, <2>1, LineFrame DEF AddOne, Goto, devVars
  <2>2. CASE p = u
    BY <1>8, <2>2 DEF AddOne, Goto, devVars, LineOf
  <2> QED
    BY <2>1, <2>2
<1>9. ASSUME NEW p \in Proc, WriteEnd(p) PROVE LineOf(u)'
  <2>1. CASE p # u
    BY <1>9, <2>1, LineFrame DEF WriteEnd, Return, Goto, MoreToWrite, devVars
  <2>2. CASE p = u
    BY <1>9, <2>2 DEF WriteEnd, Return, Goto, MoreToWrite, devVars, LineOf
  <2> QED
    BY <2>1, <2>2
<1>10. ASSUME NEW p \in Proc, OpenBusy(p) PROVE LineOf(u)'
  <2>1. CASE p # u
    BY <1>10, <2>1, LineFrame DEF OpenBusy, Return, Goto, devVars
  <2>2. CASE p = u
    BY <1>10, <2>2 DEF OpenBusy, Return, Goto, devVars, LineOf
  <2> QED
    BY <2>1, <2>2
<1>11. ASSUME NEW p \in Proc, OpenFree(p) PROVE LineOf(u)'
  <2>1. CASE p # u
    BY <1>11, <2>1, LineFrame DEF OpenFree, Goto, devVars
  <2>2. CASE p = u
    BY <1>11, <2>2 DEF OpenFree, Goto, devVars, LineOf
  <2> QED
    BY <2>1, <2>2
<1>12. ASSUME NEW p \in Proc, OpenInc(p) PROVE LineOf(u)'
  <2>1. CASE p # u
    BY <1>12, <2>1, LineFrame DEF OpenInc, Return, Goto, devVars
  <2>2. CASE p = u
    BY <1>12, <2>2 DEF OpenInc, Return, Goto, devVars, LineOf
  <2> QED
    BY <2>1, <2>2
<1>13. ASSUME NEW p \in Proc, device_ioctl(p) PROVE LineOf(u)'
  <2>1. CASE p # u
    BY <1>13, <2>1, LineFrame DEF device_ioctl, Return, Goto, devVars
  <2>2. CASE p = u
    BY <1>13, <2>2 DEF device_ioctl, Return, Goto, devVars, LineOf
  <2> QED
    BY <2>1, <2>2
<1>14. ASSUME NEW p \in Proc, ReleaseDec(p) PROVE LineOf(u)'
  <2>1. CASE p # u
    BY <1>14, <2>1, LineFrame DEF ReleaseDec, Return, Goto, devVars
  <2>2. CASE p = u
    BY <1>14, <2>2 DEF ReleaseDec, Return, Goto, devVars, LineOf
  <2> QED
    BY <2>1, <2>2
<1>15. ASSUME NEW p \in Proc, NEW c, Enter(p, c), CallOf(p, c) PROVE LineOf(u)'
  <2>0. c.op \in {"open", "read", "write", "ioctl"}
    BY <1>15, CallTyped DEF Enter, CallType
  <2>1. CASE p # u
    <3>1. line'[u] = line[u]
      BY <1>15, <2>1 DEF Enter, NextLine
    <3> QED
      BY <1>15, <2>1, <3>1, LineFrame DEF Enter, Goto
  <2>2. CASE p = u
    <3> HIDE DEF IInv
    <3>1. line'[u] = line[u] + 1 /\ line[u] \in 1 .. 7
      BY <1>15, <2>0, <2>2, UserLine DEF Enter
    <3>2. /\ c.op = CASE line[u] = 1 -> "open" [] line[u] \in {2, 5} -> "ioctl"
                      [] line[u] \in {3, 6} -> "write" [] line[u] \in {4, 7} -> "read"
          /\ line[u] = 2 => c.param = 0
          /\ line[u] = 5 => c.param = 1
          /\ line[u] \in {3, 6} => c.buffer = Hello
      BY <1>15, <2>0, <2>2, <3>1, UserLine DEF Enter
    <3>3. pc'[u] = c.op /\ call'[u] = c
      BY <1>15, <2>2 DEF Enter, Goto, IInv
    <3> QED
      BY <3>1, <3>2, <3>3 DEF LineOf
  <2> QED
    BY <2>1, <2>2
<1>16. ASSUME NEW p \in Proc, NEW c, Close(p, c), CallOf(p, c) PROVE LineOf(u)'
  <2>1. CASE p # u
    <3>1. line'[u] = line[u] /\ pc'[u] = pc[u]
      BY <1>16, <2>1 DEF Close, NextLine, Goto
    <3> QED
      BY <1>16, <2>1, <3>1, LineFrame DEF Close
  <2>2. CASE p = u
    <3> HIDE DEF IInv
    <3>1. line'[u] = 1
      BY <1>16, <2>2, UserLine DEF Close
    <3>2. pc'[u] \in {"idle", "release"} /\ fd'[u] = None
      BY <1>16, <2>2 DEF Close, Goto, IInv
    <3> QED
      BY <3>1, <3>2 DEF LineOf
  <2> QED
    BY <2>1, <2>2
<1>17. ASSUME NEW p \in Other, NEW child \in Other, Fork(p, child) PROVE LineOf(u)'
  <2>1. child \in Proc /\ child # u
    BY DEF Proc
  <2> QED
    BY <1>17, <2>1, LineFrame DEF Fork
<1>18. CASE UNCHANGED vars
  BY <1>18, LineFrame DEF vars
<1> QED
  BY <1>1, <1>2, <1>3, <1>4, <1>5, <1>6, <1>7, <1>8, <1>9, <1>10, <1>11, <1>12,
     <1>13, <1>14, <1>15, <1>16, <1>17, <1>18, NextCases

\* The part of the invariant about one user depends on its own state, the flag and
\* the buffer only.
LEMMA DataFrame ==
    ASSUME IInv, NEW u \in User,
           pc'[u] = pc[u], line'[u] = line[u], i'[u] = i[u], reg'[u] = reg[u],
           encryption_flag' = encryption_flag, the_message' = the_message
    PROVE  UserData(u)'
BY DEF IInv, DataInv, UserData, FlagSet, AllWritten, Second, Logged

\* Nothing is claimed of a user that does not have the device open.
LEMMA DataVacuous ==
    ASSUME IInv, NEW u \in User, fd[u] = None,
           pc'[u] = pc[u], line'[u] = line[u]
    PROVE  UserData(u)'
<1>1. pc[u] \notin Writing \cup {"read"} /\ (pc[u] = "idle" => line[u] = 1)
  BY DEF IInv, DeviceInv, CallInv, LineInv, LineOf, Proc
<1> QED
  BY <1>1 DEF UserData, FlagSet, AllWritten, Writing

\* A byte that user_chardev is in the middle of writing is one of Hello.
LEMMA MidByte ==
    ASSUME IInv, NEW u \in User, pc[u] \in {"encrypt", "add"}
    PROVE  /\ i[u] \in Nat /\ i[u] + 1 \in 1 .. Len(Hello) /\ i[u] + 1 \in 1 .. BUF_LEN
           /\ line[u] \in {4, 7}
<1>1. u \in Proc /\ i \in [Proc -> 0 .. BUF_LEN] /\ BUF_LEN \in Nat /\ Len(Hello) \in Nat
  BY CharDeviceAssumption DEF Proc, IInv, DeviceInv, Typed, TypeOK
<1>2. i[u] < BUF_LEN /\ i[u] < Len(call[u].buffer)
  BY <1>1 DEF IInv, DeviceInv, CallInv
<1>3. call[u].buffer = Hello /\ line[u] \in {4, 7}
  BY DEF IInv, LineInv, LineOf, Writing
<1> QED
  BY <1>1, <1>2, <1>3

\* The bytes that user_chardev wrote and the flag that it set stay as they are until
\* it closes the device.
LEMMA DataStep == IInv /\ [Next]_vars => DataInv'
<1> SUFFICES ASSUME IInv, [Next]_vars, NEW u \in User PROVE UserData(u)'
  BY DEF DataInv
<1>0. u \in Proc
  BY DEF Proc
<1> USE CharDeviceAssumption, <1>0
    DEF IInv, DeviceInv, Typed, TypeOK, LineInv, LineOf, CallInv, DataInv, UserData,
        FlagSet, AllWritten, Second, Logged, Opening, Releasing, Writing
<1>1. CASE simple_init
  <2>1. fd[u] = None
    BY <1>1 DEF simple_init, LoadInv
  <2> QED
    BY <1>1, <2>1, DataVacuous DEF simple_init
<1>2. CASE simple_cleanup
  BY <1>2, DataFrame DEF simple_cleanup, devVars
<1>3. ASSUME NEW p \in Proc, OpenLock(p) PROVE UserData(u)'
  <2>1. CASE p # u
    BY <1>3, <2>1, DataFrame DEF OpenLock, Goto, devVars
  <2>2. CASE p = u
    BY <1>3, <2>2 DEF OpenLock, Goto, devVars
  <2> QED
    BY <2>1, <2>2
<1>4. ASSUME NEW p \in Proc, ReleaseLock(p) PROVE UserData(u)'
  <2>1. CASE p # u
    BY <1>4, <2>1, DataFrame DEF ReleaseLock, Goto, devVars
  <2>2. CASE p = u
    BY <1>4, <2>2 DEF ReleaseLock, Goto, devVars
  <2> QED
    BY <2>1, <2>2
<1>5. ASSUME NEW p \in Proc, device_read(p) PROVE UserData(u)'
  <2>1. CASE p # u
    BY <1>5, <2>1, DataFrame DEF device_read, Return, Goto, devVars
  <2>2. CASE p = u
    <3>1. pc'[u] = "idle" /\ line'[u] \in {5, 8}
      BY <1>5, <2>2 DEF device_read, Return, Goto
    <3> HIDE DEF IInv
    <3> QED
      BY <3>1
  <2> QED
    BY <2>1, <2>2
<1>6. ASSUME NEW p \in Proc, WriteByte(p) PROVE UserData(u)'
  <2>1. CASE p # u
    <3>1. fd[p] # None
      BY <1>6 DEF WriteByte, IInv, DeviceInv, CallInv, Writing
    <3>2. fd[u] = None
      BY <3>1, <2>1, Alone DEF IInv
    <3> QED
      BY <1>6, <2>1, <3>2, DataVacuous DEF WriteByte, Goto, MoreToWrite
  <2>2. CASE p = u
    <3>1. i[u] \in Nat /\ i[u] + 1 \in 1 .. Len(Hello) /\ i[u] + 1 \in 1 .. BUF_LEN
      BY <1>6, <2>2 DEF WriteByte, MoreToWrite
    <3>2. the_message' = [the_message EXCEPT ![i[u] + 1] = Hello[i[u] + 1]]
      BY <1>6, <2>2 DEF WriteByte
    <3>3. \A k \in 1 .. Len(Hello) : k <= i[u] => the_message'[k] = the_message[k]
      BY <3>1, <3>2
    <3>4. the_message'[i[u] + 1] = Hello[i[u] + 1]
      BY <3>1, <3>2
    <3> QED
      BY <1>6, <2>2, <3>1, <3>3, <3>4 DEF WriteByte, Goto
  <2> QED
    BY <2>1, <2>2
<1>7. ASSUME NEW p \in Proc, Encrypt(p) PROVE UserData(u)'
  <2>1. CASE p # u
    <3>1. pc'[u] = pc[u] /\ i'[u] = i[u] /\ reg'[u] = reg[u]
      BY <1>7, <2>1 DEF Encrypt, Goto
    <3> QED
      BY <1>7, <3>1, DataFrame DEF Encrypt, devVars
  <2>2. CASE p = u
    <3>1. i[u] \in Nat /\ i[u] + 1 \in 1 .. Len(Hello) /\ line[u] \in {4, 7}
      BY <1>7, <2>2, MidByte DEF Encrypt
    <3>2. CASE encryption_flag = 1
      BY <1>7, <2>2, <3>1, <3>2 DEF Encrypt, Goto, devVars
    <3>3. CASE encryption_flag # 1
      <4>0. i' = [i EXCEPT ![u] = @ + 1] /\ pc' = [pc EXCEPT ![u] = "write"]
            /\ the_message' = the_message
        BY <1>7, <2>2, <3>3, Zenon DEF Encrypt, Goto, devVars
      <4>1. i'[u] = i[u] + 1 /\ pc'[u] = "write" /\ the_message' = the_message
        BY <4>0
      <4>2. ~Second(u) /\ the_message[i[u] + 1] = Hello[i[u] + 1]
        BY <1>7, <2>2, <3>3 DEF Encrypt
      <4>3. \A k \in 1 .. Len(Hello) : k <= i[u] => Logged(u, k)
        BY <1>7, <2>2, Zenon DEF Encrypt, Writing
      <4>4. Logged(u, i[u] + 1)
        BY <4>2, Zenon DEF Logged
      <4>5. \A k \in 1 .. Len(Hello) : k <= i[u] + 1 => k <= i[u] \/ k = i[u] + 1
        BY <3>1
      <4>6. \A k \in 1 .. Len(Hello) : k <= i[u] + 1 => Logged(u, k)
        BY <4>3, <4>4, <4>5, Zenon
      <4> QED
        BY <1>7, <2>2, <3>1, <4>1, <4>2, <4>6 DEF Encrypt, devVars
    <3> QED
      BY <3>2, <3>3
  <2> QED
    BY <2>1, <2>2
<1>8. ASSUME NEW p \in Proc, AddOne(p) PROVE UserData(u)'
  <2>1. CASE p # u
    <3>1. fd[p] # None
      BY <1>8 DEF AddOne, IInv, DeviceInv, CallInv, Writing
    <3>2. fd[u] = None
      BY <3>1, <2>1, Alone DEF IInv
    <3> QED
      BY <1>8, <2>1, <3>2, DataVacuous DEF AddOne, Goto
  <2>2. CASE p = u
    <3>1. i[u] \in Nat /\ i[u] + 1 \in 1 .. Len(Hello) /\ i[u] + 1 \in 1 .. BUF_LEN
      BY <1>8, <2>2, MidByte DEF AddOne
    <3>2. the_message' = [the_message EXCEPT ![i[u] + 1] = Shift(Hello[i[u] + 1])] /\ Second(u)
      BY <1>8, <2>2 DEF AddOne
    <3>3. \A k \in 1 .. Len(Hello) : k <= i[u] + 1 => the_message'[k] = Shift(Hello[k])
      BY <1>8, <2>2, <3>1, <3>2 DEF AddOne
    <3> QED
      BY <1>8, <2>2, <3>1, <3>2, <3>3 DEF AddOne, Goto
  <2> QED
    BY <2>1, <2>2
<1>9. ASSUME NEW p \in Proc, WriteEnd(p) PROVE UserData(u)'
  <2>1. CASE p # u
    BY <1>9, <2>1, DataFrame DEF WriteEnd, Return, Goto, MoreToWrite, devVars
  <2>2. CASE p = u
    <3>1. i[u] \in Nat /\ Len(Hello) \in Nat /\ Len(Hello) <= i[u] /\ line[u] \in {4, 7}
      BY <1>9, <2>2 DEF WriteEnd, MoreToWrite
    <3>2. \A k \in 1 .. Len(Hello) : Logged(u, k)
      BY <1>9, <2>2, <3>1 DEF WriteEnd
    <3> QED
      BY <1>9, <2>2, <3>1, <3>2 DEF WriteEnd, Return, Goto, devVars
  <2> QED
    BY <2>1, <2>2
<1>10. ASSUME NEW p \in Proc, OpenBusy(p) PROVE UserData(u)'
  <2>1. CASE p # u
    <3>1. pc'[u] = pc[u] /\ line'[u] = line[u] /\ i'[u] = i[u] /\ reg'[u] = reg[u]
      BY <1>10, <2>1 DEF OpenBusy, Return, Goto
    <3> QED
      BY <1>10, <3>1, DataFrame DEF OpenBusy
  <2>2. CASE p = u
    BY <1>10, <2>2 DEF OpenBusy, Return, Goto
  <2> QED
    BY <2>1, <2>2
<1>11. ASSUME NEW p \in Proc, OpenFree(p) PROVE UserData(u)'
  <2>1. CASE p # u
    BY <1>11, <2>1, DataFrame DEF OpenFree, Goto, devVars
  <2>2. CASE p = u
    BY <1>11, <2>2 DEF OpenFree, Goto, devVars
  <2> QED
    BY <2>1, <2>2
<1>12. ASSUME NEW p \in Proc, OpenInc(p) PROVE UserData(u)'
  <2>1. CASE p # u
    BY <1>12, <2>1, DataFrame DEF OpenInc, Return, Goto, devVars
  <2>2. CASE p = u
    BY <1>12, <2>2 DEF OpenInc, Return, Goto
  <2> QED
    BY <2>1, <2>2
<1>13. ASSUME NEW p \in Proc, device_ioctl(p) PROVE UserData(u)'
  <2>1. CASE p # u
    <3>1. fd[p] # None
      BY <1>13 DEF device_ioctl, IInv, DeviceInv, CallInv, Writing
    <3>2. fd[u] = None
      BY <3>1, <2>1, Alone DEF IInv
    <3> QED
      BY <1>13, <2>1, <3>2, DataVacuous DEF device_ioctl, Return, Goto
  <2>2. CASE p = u
    <3>1. /\ encryption_flag' = IF line[u] = 3 THEN 0 ELSE 1
          /\ pc'[u] = "idle" /\ line'[u] = line[u] /\ line[u] \in {3, 6}
      BY <1>13, <2>2 DEF device_ioctl, Return, Goto
    <3> QED
      BY <3>1
  <2> QED
    BY <2>1, <2>2
<1>14. ASSUME NEW p \in Proc, ReleaseDec(p) PROVE UserData(u)'
  <2>1. CASE p # u
    BY <1>14, <2>1, DataFrame DEF ReleaseDec, Return, Goto, devVars
  <2>2. CASE p = u
    BY <1>14, <2>2 DEF ReleaseDec, Return, Goto
  <2> QED
    BY <2>1, <2>2
<1>15. ASSUME NEW p \in Proc, NEW c, Enter(p, c), CallOf(p, c) PROVE UserData(u)'
  <2>0. c.op \in {"open", "read", "write", "ioctl"}
    BY <1>15, CallTyped DEF Enter, CallType
  <2>1. CASE p # u
    <3>1. line'[u] = line[u]
      BY <1>15, <2>1 DEF Enter, NextLine
    <3> QED
      BY <1>15, <2>1, <3>1, DataFrame DEF Enter, Goto, devVars
  <2>2. CASE p = u
    <3> HIDE DEF IInv, UserData
    <3>1. line'[u] = line[u] + 1 /\ line[u] \in 1 .. 7
      BY <1>15, <2>0, <2>2, UserLine DEF Enter
    <3>2. c.op = CASE line[u] = 1 -> "open" [] line[u] \in {2, 5} -> "ioctl"
                   [] line[u] \in {3, 6} -> "write" [] line[u] \in {4, 7} -> "read"
      BY <1>15, <2>0, <2>2, <3>1, UserLine DEF Enter
    <3>3. pc[u] = "idle" /\ pc'[u] = c.op /\ i'[u] = 0
      BY <1>15, <2>2 DEF Enter, Goto, IInv
    <3>4. encryption_flag' = encryption_flag /\ the_message' = the_message
      BY <1>15 DEF Enter, devVars
    <3> QED
      BY <3>1, <3>2, <3>3, <3>4 DEF IInv, UserData
  <2> QED
    BY <2>1, <2>2
<1>16. ASSUME NEW p \in Proc, NEW c, Close(p, c), CallOf(p, c) PROVE UserData(u)'
  <2>1. CASE p # u
    <3>1. line'[u] = line[u] /\ pc'[u] = pc[u]
      BY <1>16, <2>1 DEF Close, NextLine, Goto
    <3> QED
      BY <1>16, <3>1, DataFrame DEF Close, devVars
  <2>2. CASE p = u
    <3> HIDE DEF IInv, UserData
    <3>1. line'[u] = 1
      BY <1>16, <2>2, UserLine DEF Close
    <3>2. pc'[u] \in {"idle", "release"}
      BY <1>16, <2>2 DEF Close, Goto, IInv
    <3> QED
      BY <3>1, <3>2 DEF UserData
  <2> QED
    BY <2>1, <2>2
<1>17. ASSUME NEW p \in Other, NEW child \in Other, Fork(p, child) PROVE UserData(u)'
  BY <1>17, DataFrame DEF Fork, devVars
<1>18. CASE UNCHANGED vars
  BY <1>18, DataFrame DEF vars, devVars
<1> QED
  BY <1>1, <1>2, <1>3, <1>4, <1>5, <1>6, <1>7, <1>8, <1>9, <1>10, <1>11, <1>12,
     <1>13, <1>14, <1>15, <1>16, <1>17, <1>18, NextCases

LEMMA UserInvariance == Spec => []IInv
<1>1. IInv /\ [Next]_vars => IInv'
  BY TypedStep, LockStep, CallStep, LoadStep, FileStep, RegStep, OwnStep, LineStep, DataStep
  DEF IInv, DeviceInv
<1>2. Init => IInv
  BY InitDevice, InitUser DEF IInv
<1> QED
  BY <1>1, <1>2, PTL DEF Spec

-----------------------------------------------------------------------------
(***************************************************************************)
(* Theorems                                                                *)
(***************************************************************************)
\* The variables of the drivers keep their types: device_write stays inside
\* the_message, and dev_open_flag never goes below zero (chardev.c:45-151).
THEOREM DeviceTypes == Spec => []TypeOK
<1>1. DeviceInv => TypeOK
  BY DEF DeviceInv, Typed
<1> QED
  BY <1>1, DeviceInvariance, PTL

\* One process, with its children, has the device open at a time, and the flag says
\* so whenever the lock is free, for any number of processes (chardev.c:45-55, 66-73).
THEOREM OneOpenFile == Spec => []ExclusiveOpen
<1>1. DeviceInv => ExclusiveOpen
  <2> SUFFICES ASSUME DeviceInv PROVE ExclusiveOpen
    OBVIOUS
  <2> USE CharDeviceAssumption DEF DeviceInv, Typed, TypeOK, FileInv, Releasing
  <2>1. CASE \E p \in Proc : fd[p] # None
    <3>1. PICK p \in Proc : fd[p] # None
      BY <2>1
    <3>2. \A q \in Proc : pc[q] \notin {"release", "release_locked"}
      BY <3>1
    <3>3. Files = {fd[p]}
      BY <3>1, <3>2 DEF Files
    <3>4. Cardinality(Files) = 1
      BY <3>3, FS_Singleton
    <3> QED
      BY <3>1, <3>4 DEF ExclusiveOpen
  <2>2. CASE \E p \in Proc : pc[p] \in Releasing
    <3>1. PICK p \in Proc : pc[p] \in Releasing
      BY <2>2
    <3>2. Files = {p}
      BY <3>1 DEF Files
    <3>3. Cardinality(Files) = 1
      BY <3>2, FS_Singleton
    <3> QED
      BY <3>1, <3>3 DEF ExclusiveOpen
  <2>3. CASE \A p \in Proc : fd[p] = None /\ pc[p] \notin Releasing
    <3>1. Files = {} /\ dev_open_flag = 0
      BY <2>3 DEF Files
    <3> QED
      BY <3>1, FS_EmptySet DEF ExclusiveOpen
  <2> QED
    BY <2>1, <2>2, <2>3
<1> QED
  BY <1>1, DeviceInvariance, PTL

\* user_chardev reads back what it wrote, shifted the second time, whatever the
\* other processes do and whatever they left in the device (user_chardev.c:22-27).
THEOREM UserReadsItsOwn == Spec => []UserUndisturbed
<1>1. IInv => UserUndisturbed
  <2> SUFFICES ASSUME IInv, NEW u \in User, pc[u] = "read", NEW k \in 1 .. Len(Hello)
               PROVE  the_message[k] = IF line[u] <= 5 THEN Hello[k] ELSE Shift(Hello[k])
    BY DEF UserUndisturbed
  <2>1. line[u] \in {5, 8} /\ Logged(u, k)
    BY DEF IInv, LineInv, LineOf, DataInv, UserData, AllWritten
  <2> QED
    BY <2>1 DEF Logged, Second
<1> QED
  BY <1>1, UserInvariance, PTL
=============================================================================
