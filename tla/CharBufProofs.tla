---------------------------- MODULE CharBufProofs ----------------------------
(* Proofs about CharBuf for any buffer size, strings and processes.        *)
EXTENDS CharBuf, TLAPS

\* What is stored fits the string, and for a file also the buffer.
LEMMA RoomFits ==
  ASSUME TypeOK, NEW p \in Proc
  PROVE  /\ Room(p) \in Nat /\ Room(p) <= Len(msg[p]) /\ Len(msg[p]) \in Nat
         /\ msg[p] \in Seq(Byte \ {NUL})
         /\ File => start[p] + Room(p) <= MAXBUFF
<1>1. MAXBUFF \in Nat \ {0} /\ Len(Target) \in Nat
  BY CharBufAssumption
<1>2. msg[p] \in Seq(Byte \ {NUL}) /\ Len(msg[p]) \in Nat /\ start[p] \in 0..MAXBUFF
  <2>1. msg[p] \in Chunk \cup {<<>>} /\ start[p] \in 0..MAXBUFF
    BY DEF TypeOK
  <2>2. Chunk \subseteq Seq(Byte \ {NUL})
    BY CharBufAssumption
  <2>3. <<>> \in Seq(Byte \ {NUL})
    OBVIOUS
  <2>4. msg[p] \in Seq(Byte \ {NUL})
    BY <2>1, <2>2, <2>3
  <2> QED BY <2>1, <2>4
<1>3. CASE File
  BY <1>1, <1>2, <1>3 DEF Room, MinOf, File
<1>4. CASE ~File
  BY <1>1, <1>2, <1>4 DEF Room, MinOf
<1> QED BY <1>3, <1>4

\* The types hold at the start.
LEMMA InitType == Init => TypeOK
<1> SUFFICES ASSUME Init PROVE TypeOK
  OBVIOUS
<1>1. alone \in [Proc -> BOOLEAN] /\ stray \in BOOLEAN
  BY Zenon DEF Init
<1>2. \A p \in Proc : copied[p] <= Room(p)
  <2>1. /\ MAXBUFF \in Nat \ {0} /\ Len(<<>>) = 0
        /\ \A p \in Proc : msg[p] = <<>> /\ start[p] = 0 /\ copied[p] = 0
    BY CharBufAssumption DEF Init
  <2>2. ASSUME NEW p \in Proc PROVE copied[p] <= Room(p)
    <3>1. Len(msg[p]) = 0 /\ start[p] = 0
      BY <2>1
    <3>2. ASSUME File PROVE Room(p) \in Nat
      BY <2>1, <3>1, <3>2 DEF Room, MinOf, File
    <3>3. ASSUME ~File PROVE Room(p) \in Nat
      BY <2>1, <3>1, <3>3 DEF Room, MinOf
    <3>4. Room(p) \in Nat /\ copied[p] = 0
      BY <2>1, <3>2, <3>3
    <3> QED BY <3>4
  <2> QED BY <2>2
<1>3. kern_buff \in [0..(MAXBUFF - 1) -> Byte]
  BY CharBufAssumption DEF Init
<1> QED BY <1>1, <1>2, <1>3, CharBufAssumption DEF Init, TypeOK

\* One step of one process.
Step(p) ==
  \/ reopen(p)
  \/ \E n \in Count : my_read(p, n)
  \/ \E m \in Chunk : my_write(p, m)
  \/ simple_write_byte(p) \/ simple_write_to_buffer(p)
  \/ my_write_terminate(p) \/ my_write_compare(p)

\* Every step of a process keeps them.
LEMMA StepType == ASSUME TypeOK, NEW p \in Proc, Step(p) PROVE TypeOK'
<1> USE CharBufAssumption
<1>1. /\ Room(p) \in Nat /\ Room(p) <= Len(msg[p]) /\ Len(msg[p]) \in Nat
      /\ msg[p] \in Seq(Byte \ {NUL})
      /\ File => start[p] + Room(p) <= MAXBUFF
  BY RoomFits
<1>2. MAXBUFF \in Nat \ {0}
  OBVIOUS
<1>3. CASE reopen(p)
  BY <1>2, <1>3 DEF reopen, TypeOK, Room, MinOf, File
<1>4. ASSUME NEW n \in Count, my_read(p, n) PROVE TypeOK'
  <2>1. /\ pos' = [pos EXCEPT ![p] = pos[p] + MinOf(n, IdLen - pos[p])]
        /\ pos[p] < IdLen
    BY <1>4 DEF my_read
  <2>2. pos \in [Proc -> 0..MAXBUFF] /\ n \in Nat /\ IdLen \in Nat /\ IdLen <= MAXBUFF
    BY DEF TypeOK
  <2>3. pos[p] + MinOf(n, IdLen - pos[p]) \in 0..MAXBUFF
    BY <1>2, <2>1, <2>2 DEF MinOf
  <2>4. pos' \in [Proc -> 0..MAXBUFF]
    BY <2>1, <2>2, <2>3
  <2>5. \A q \in Proc : Room(q)' = Room(q)
    BY <1>4 DEF my_read, Room, File
  <2>6. UNCHANGED <<driver, kern_buff, my_rwlock, pc, msg, start, copied, ret, alone, last,
                    writes, stray>>
    BY <1>4 DEF my_read
  <2> HIDE CharBufAssumption
  <2>7. \A q \in Proc : copied'[q] <= Room(q)'
    BY <2>5, <2>6, Zenon DEF TypeOK
  <2> QED BY <2>4, <2>6, <2>7, Zenon DEF TypeOK
<1>5. ASSUME NEW m \in Chunk, my_write(p, m) PROVE TypeOK'
  <2>1. alone' \in [Proc -> BOOLEAN]
    <3>1. \A q \in Proc : alone[q] \in BOOLEAN
      BY Zenon DEF TypeOK
    <3>2. alone' = [q \in Proc |-> IF q = p THEN \A r \in Proc \ {p} : pc[r] = "idle"
                                      ELSE alone[q] /\ pc[q] = "idle"]
      BY <1>5, Zenon DEF my_write
    <3> QED BY <3>1, <3>2, Zenon
  <2>2. m \in Seq(Byte \ {NUL}) /\ Len(m) \in Nat
    OBVIOUS
  <2>3. ASSUME NEW q \in Proc PROVE copied'[q] <= Room(q)'
    <3>1. CASE q = p
      BY <1>2, <1>5, <2>2, <3>1 DEF my_write, TypeOK, Room, MinOf, File
    <3>2. CASE q # p
      <4>1. Room(q)' = Room(q) /\ copied'[q] = copied[q]
        BY <1>5, <3>2 DEF my_write, TypeOK, Room, MinOf, File
      <4> QED BY <4>1 DEF TypeOK
    <3> QED BY <3>1, <3>2
  <2>4. /\ my_rwlock' \in Proc \cup {None} /\ last' \in Proc \cup {None}
        /\ writes' \in 0..MaxWrites
    BY <1>5 DEF my_write, TypeOK
  <2> QED BY <1>5, <2>1, <2>3, <2>4 DEF my_write, TypeOK, Goto
<1>6. CASE simple_write_byte(p)
  <2>1. kern_buff' \in [0..(MAXBUFF - 1) -> Byte] /\ stray' \in BOOLEAN
    <3>1. msg[p][copied[p] + 1] \in Byte
      BY <1>1, <1>6 DEF simple_write_byte, TypeOK
    <3>2. \/ kern_buff' = [kern_buff EXCEPT ![start[p] + copied[p]] = msg[p][copied[p] + 1]]
          \/ kern_buff' = kern_buff
      BY <1>6 DEF simple_write_byte
    <3>3. kern_buff' \in [0..(MAXBUFF - 1) -> Byte]
      BY <3>1, <3>2 DEF TypeOK
    <3>4. stray' = TRUE \/ stray' = stray
      BY <1>6 DEF simple_write_byte
    <3> QED BY <3>3, <3>4, Zenon DEF TypeOK
  <2>2. copied' \in [Proc -> Nat] /\ \A q \in Proc : copied'[q] <= Room(q)'
    <3>1. \A q \in Proc : Room(q)' = Room(q)
      BY <1>6 DEF simple_write_byte, Room, File
    <3>2. copied[p] \in Nat /\ copied[p] < Room(p) /\ copied' = [copied EXCEPT ![p] = @ + 1]
      BY <1>6 DEF simple_write_byte, TypeOK
    <3>3. copied \in [Proc -> Nat] /\ \A q \in Proc : copied[q] <= Room(q)
      BY DEF TypeOK
    <3>4. copied' \in [Proc -> Nat]
      BY <3>2, <3>3
    <3>5. ASSUME NEW q \in Proc PROVE copied'[q] <= Room(q)'
      BY <1>1, <3>1, <3>2, <3>3
    <3> QED BY <3>4, <3>5
  <2> QED BY <1>6, <2>1, <2>2 DEF simple_write_byte, TypeOK
<1>7. CASE simple_write_to_buffer(p)
  <2>1. kern_buff' \in [0..(MAXBUFF - 1) -> Byte]
    BY <1>7 DEF simple_write_to_buffer, TypeOK
  <2>2. /\ pos' \in [Proc -> 0..MAXBUFF]
        /\ ret' \in [Proc -> Nat \cup {EFAULT, EINVAL}]
    <3>1. copied[p] \in Nat /\ start[p] \in 0..MAXBUFF /\ copied[p] <= Room(p)
      BY DEF TypeOK
    <3>2. /\ pos' = pos \/ (File /\ pos' = [pos EXCEPT ![p] = start[p] + copied[p]])
          /\ ret' = [ret EXCEPT ![p] = EFAULT] \/ ret' = [ret EXCEPT ![p] = copied[p]]
      BY <1>7 DEF simple_write_to_buffer
    <3>3. File => start[p] + copied[p] \in 0..MAXBUFF
      BY <1>1, <1>2, <3>1
    <3>4. pos \in [Proc -> 0..MAXBUFF] /\ ret \in [Proc -> Nat \cup {EFAULT, EINVAL}]
      BY DEF TypeOK
    <3>5. pos' \in [Proc -> 0..MAXBUFF]
      BY <3>2, <3>3, <3>4
    <3> QED BY <3>1, <3>2, <3>4, <3>5
  <2>3. \A q \in Proc : Room(q)' = Room(q)
    BY <1>7 DEF simple_write_to_buffer, Room, File
  <2>4. pc' \in [Proc -> {"idle", "copy", "term", "cmp"}]
    BY <1>7 DEF simple_write_to_buffer, TypeOK, Goto
  <2> QED BY <1>7, <2>1, <2>2, <2>3, <2>4, Zenon DEF simple_write_to_buffer, TypeOK
<1>8. CASE my_write_terminate(p)
  <2>1. kern_buff' \in [0..(MAXBUFF - 1) -> Byte]
    BY <1>8 DEF my_write_terminate, TypeOK
  <2>2. stray' \in BOOLEAN
    <3>1. stray' = stray \/ stray' = (stray \/ Terminated)
      BY <1>8 DEF my_write_terminate
    <3> QED BY <3>1, Zenon DEF TypeOK
  <2>3. \A q \in Proc : Room(q)' = Room(q)
    BY <1>8 DEF my_write_terminate, Room, File
  <2>4. pc' \in [Proc -> {"idle", "copy", "term", "cmp"}]
    BY <1>8 DEF my_write_terminate, TypeOK, Goto
  <2> QED BY <1>8, <2>1, <2>2, <2>3, <2>4, Zenon DEF my_write_terminate, TypeOK
<1>9. CASE my_write_compare(p)
  <2>1. ret' \in [Proc -> Nat \cup {EFAULT, EINVAL}]
    BY <1>9 DEF my_write_compare, TypeOK
  <2>2. \A q \in Proc : Room(q)' = Room(q)
    BY <1>9 DEF my_write_compare, Room, File
  <2>3. pc' \in [Proc -> {"idle", "copy", "term", "cmp"}]
    BY <1>9 DEF my_write_compare, TypeOK, Goto
  <2>4. UNCHANGED <<driver, kern_buff, my_rwlock, pos, msg, start, copied, alone, last,
                    writes, stray>>
    BY <1>9 DEF my_write_compare
  <2> HIDE CharBufAssumption
  <2>5. \A q \in Proc : copied'[q] <= Room(q)'
    BY <2>2, <2>4, Zenon DEF TypeOK
  <2> QED BY <2>1, <2>3, <2>4, <2>5, Zenon DEF TypeOK
<1> QED BY <1>3, <1>4, <1>5, <1>6, <1>7, <1>8, <1>9 DEF Step

\* A step of the system is one of a process.
LEMMA NextIsStep == Next => \E p \in Proc : Step(p)
BY DEF Next, Step

\* Offsets and bounded copies stay in the buffer, whatever is written.
THEOREM TypeCorrect == Spec => []TypeOK
<1>1. TypeOK /\ [Next]_vars => TypeOK'
  <2>1. ASSUME TypeOK, UNCHANGED vars PROVE TypeOK'
    BY <2>1 DEF TypeOK, vars, Room, File
  <2> QED BY <2>1, NextIsStep, StepType
<1> QED BY <1>1, InitType, PTL DEF Spec
-----------------------------------------------------------------------------
(* Terminated strings.                                                     *)

\* Every step keeps the string terminated.
LEMMA StepEnds ==
  ASSUME TypeOK, StringEnds, NEW p \in Proc, Step(p) PROVE StringEnds'
<1>1. CASE my_write_terminate(p)
  BY <1>1 DEF my_write_terminate, StringEnds, TypeOK, Terminated
<1>2. CASE simple_write_byte(p) \/ simple_write_to_buffer(p) \/ \E m \in Chunk : my_write(p, m)
  BY <1>2 DEF simple_write_byte, simple_write_to_buffer, my_write, StringEnds, TypeOK, Goto
<1>3. CASE reopen(p) \/ (\E n \in Count : my_read(p, n)) \/ my_write_compare(p)
  BY <1>3 DEF reopen, my_read, my_write_compare, StringEnds, TypeOK, Goto, Terminated
<1> QED BY <1>1, <1>2, <1>3 DEF Step

\* Between writes to a file that terminates its strings the buffer holds a
\* terminated string, unless a byte went outside, for any number of writers
\* that overlap in any way.
THEOREM StringsEnd == Spec => []StringEnds
<1>1. Init => StringEnds
  <2> SUFFICES ASSUME Init, driver # "sysfs_foo" PROVE kern_buff[0] = NUL /\ 0 \in DOMAIN kern_buff
    BY DEF StringEnds, Terminated
  <2>1. 0 \in 0..(MAXBUFF - 1)
    BY CharBufAssumption
  <2> QED BY <2>1 DEF Init
<1>2. TypeOK /\ StringEnds /\ [Next]_vars => StringEnds'
  <2>1. ASSUME StringEnds, UNCHANGED vars PROVE StringEnds'
    BY <2>1 DEF StringEnds, vars, Terminated
  <2> QED BY <2>1, NextIsStep, StepEnds
<1> QED BY <1>1, <1>2, TypeCorrect, PTL DEF Spec

-----------------------------------------------------------------------------
(* Writes that no other disturbs.                                          *)

Writing(p) == pc[p] \in {"copy", "term"}
\* Nobody else writes while p does.
Own(p) == alone[p] \/ Locked
Whole(p) ==
  msg[p] # <<>> /\ start[p] = 0 /\ copied[p] = Len(msg[p]) /\ Len(msg[p]) < MAXBUFF

\* The lock is held while writing; a write that is still alone, or holds the
\* lock, is the last one begun; and the last one, if it has the buffer to
\* itself, is the only one that may be writing.
LockInv == \A p \in Proc : Locked /\ Writing(p) => my_rwlock = p
ActiveInv ==
  \A p \in Proc : (alone[p] /\ pc[p] # "idle") \/ (Locked /\ Writing(p)) => last = p
LastInv == \A p, q \in Proc : last = p /\ Own(p) /\ q # p => ~Writing(q)

\* What it has copied is in the buffer; its length is what it returns; and
\* when it is done the whole string is there, terminated.
CopyInv ==
  \A p \in Proc : last = p /\ Own(p) /\ Writing(p) =>
    \A i \in 1..copied[p] :
      start[p] + i - 1 < MAXBUFF => kern_buff[start[p] + i - 1] = msg[p][i]
RetInv ==
  \A p \in Proc : pc[p] \in {"term", "cmp"} /\ copied[p] > 0 => ret[p] = copied[p]
ShownInv ==
  \A p \in Proc : last = p /\ Own(p) /\ ~Writing(p) /\ Whole(p) =>
    Begins(msg[p]) /\ (Terminated => kern_buff[Len(msg[p])] = NUL)

OwnInv == LockInv /\ ActiveInv /\ LastInv
DataInv == CopyInv /\ RetInv /\ ShownInv /\ VerdictWhenAlone

\* Every step keeps who may be writing.
LEMMA StepOwn == ASSUME TypeOK, OwnInv, NEW p \in Proc, Step(p) PROVE OwnInv'
<1>1. ASSUME NEW m \in Chunk, my_write(p, m) PROVE OwnInv'
  <2>1. /\ pc[p] = "idle" /\ pc' = [pc EXCEPT ![p] = "copy"] /\ last' = p
        /\ (Locked <=> Locked') /\ (Locked => my_rwlock = None /\ my_rwlock' = p)
        /\ alone'[p] = (\A r \in Proc \ {p} : pc[r] = "idle")
        /\ \A q \in Proc \ {p} : alone'[q] => alone[q] /\ pc[q] = "idle"
    BY <1>1 DEF my_write, Goto, Locked, TypeOK
  <2>2. \A q \in Proc \ {p} : (Writing(q) <=> Writing(q)') /\ pc'[q] = pc[q]
    BY <2>1 DEF Writing, TypeOK
  <2>3. Locked => \A q \in Proc : ~Writing(q)
    BY <2>1, CharBufAssumption DEF OwnInv, LockInv
  <2>4. LockInv' /\ ActiveInv'
    BY <2>1, <2>2, <2>3 DEF LockInv, ActiveInv
  <2>5. LastInv'
    BY <2>1, <2>2, <2>3 DEF LastInv, Own, Writing
  <2> QED BY <2>4, <2>5 DEF OwnInv
<1>2. CASE ~(\E m \in Chunk : my_write(p, m))
  <2>1. /\ UNCHANGED <<driver, alone, last>>
        /\ \A q \in Proc \ {p} : pc'[q] = pc[q]
        /\ pc'[p] # "idle" => pc[p] # "idle"
        /\ pc'[p] \in {"copy", "term"} => pc[p] \in {"copy", "term"} /\ my_rwlock' = my_rwlock
        /\ my_rwlock' = my_rwlock \/ pc[p] = "term"
    BY <1>2 DEF Step, reopen, my_read, simple_write_byte, simple_write_to_buffer,
       my_write_terminate, my_write_compare, Goto, TypeOK
  <2>2. LockInv'
    BY <2>1 DEF OwnInv, LockInv, Locked, Writing
  <2>3. ActiveInv' /\ LastInv'
    BY <2>1 DEF OwnInv, ActiveInv, LastInv, Locked, Writing, Own
  <2> QED BY <2>2, <2>3 DEF OwnInv
<1> QED BY <1>1, <1>2

\* strcmp on the terminated string in the buffer compares the whole string.
LEMMA CompareWhole ==
  ASSUME TypeOK, NEW p \in Proc, Whole(p), Begins(msg[p]),
         kern_buff[Len(msg[p])] = NUL
  PROVE  HoldsTarget <=> msg[p] = Target
<1> DEFINE m == msg[p]
<1>1. m \in Seq(Byte \ {NUL}) /\ Len(m) \in Nat
  BY RoomFits
<1>2. Target \in Seq(Byte \ {NUL}) /\ Len(Target) \in Nat
  BY CharBufAssumption
<1>3. \A i \in 1..Len(m) : kern_buff[i - 1] = m[i] /\ m[i] # NUL
  BY <1>1 DEF Begins
<1>4. \A i \in 1..Len(Target) : Target[i] # NUL
  BY <1>2
<1>5. kern_buff[Len(m)] = NUL
  OBVIOUS
<1> HIDE DEF m
<1>6. ASSUME HoldsTarget PROVE m = Target
  <2>1. Len(m) = Len(Target)
    <3>1. ~(Len(m) < Len(Target))
      <4> SUFFICES ASSUME Len(m) < Len(Target) PROVE FALSE
        OBVIOUS
      <4>1. Len(m) + 1 \in 1..Len(Target) /\ (Len(m) + 1) - 1 = Len(m)
        BY <1>1, <1>2
      <4>2. kern_buff[(Len(m) + 1) - 1] = Target[Len(m) + 1]
        BY <1>6, <4>1 DEF HoldsTarget
      <4> QED BY <1>4, <1>5, <4>1, <4>2
    <3>2. ~(Len(Target) < Len(m))
      <4> SUFFICES ASSUME Len(Target) < Len(m) PROVE FALSE
        OBVIOUS
      <4>1. Len(Target) + 1 \in 1..Len(m) /\ (Len(Target) + 1) - 1 = Len(Target)
        BY <1>1, <1>2
      <4>2. kern_buff[(Len(Target) + 1) - 1] # NUL
        BY <1>3, <4>1
      <4> QED BY <1>6, <4>1, <4>2 DEF HoldsTarget
    <3> QED BY <1>1, <1>2, <3>1, <3>2
  <2>2. \A i \in 1..Len(m) : m[i] = Target[i]
    BY <1>3, <1>6, <2>1 DEF HoldsTarget
  <2> QED BY <1>1, <1>2, <2>1, <2>2
<1>7. ASSUME m = Target PROVE HoldsTarget
  BY <1>3, <1>5, <1>7 DEF HoldsTarget
<1> QED BY <1>6, <1>7 DEF m

\* A step that begins, or changes only an offset.
LEMMA BeginData ==
  ASSUME TypeOK, DataInv, NEW p \in Proc,
         reopen(p) \/ (\E n \in Count : my_read(p, n)) \/ \E m \in Chunk : my_write(p, m)
  PROVE  DataInv'
<1>1. ASSUME NEW m \in Chunk, my_write(p, m) PROVE DataInv'
  <2>1. /\ UNCHANGED <<driver, kern_buff, ret>> /\ last' = p
        /\ pc' = [pc EXCEPT ![p] = "copy"] /\ copied' = [copied EXCEPT ![p] = 0]
        /\ msg' = [msg EXCEPT ![p] = m] /\ start' = [start EXCEPT ![p] = pos[p]]
        /\ \A q \in Proc \ {p} : alone'[q] => alone[q]
    BY <1>1 DEF my_write, Goto, TypeOK
  <2>2. CopyInv' /\ ShownInv'
    BY <2>1 DEF CopyInv, ShownInv, Writing, TypeOK
  <2>3. RetInv'
    BY <2>1 DEF DataInv, RetInv, TypeOK
  <2>4. VerdictWhenAlone'
    BY <2>1 DEF DataInv, VerdictWhenAlone, Returned, Verdict, Compared, TypeOK
  <2> QED BY <2>2, <2>3, <2>4 DEF DataInv
<1>2. CASE reopen(p) \/ \E n \in Count : my_read(p, n)
  BY <1>2 DEF reopen, my_read, DataInv, CopyInv, RetInv, ShownInv, VerdictWhenAlone,
     Returned, Verdict, Compared, Own, Locked, Terminated, Writing, Whole, Begins
<1> QED BY <1>1, <1>2

\* Bytes are stored, and the copy ends.
LEMMA CopyData ==
  ASSUME TypeOK, OwnInv, DataInv, NEW p \in Proc,
         simple_write_byte(p) \/ simple_write_to_buffer(p)
  PROVE  DataInv'
<1>1. /\ UNCHANGED <<driver, msg, start, alone, last>> /\ pc[p] = "copy"
      /\ pc'[p] \in {"copy", "term"} /\ \A q \in Proc \ {p} : pc'[q] = pc[q]
      /\ \A q \in Proc \ {p} : copied'[q] = copied[q] /\ ret'[q] = ret[q]
  BY DEF simple_write_byte, simple_write_to_buffer, Goto, TypeOK
<1>2. \A q \in Proc \ {p} : ~(last = q /\ Own(q))
  BY <1>1 DEF OwnInv, LastInv, Writing
<1>3. CopyInv'
  <2> SUFFICES ASSUME last = p, Own(p), NEW i \in 1..copied'[p], start[p] + i - 1 < MAXBUFF
               PROVE  kern_buff'[start[p] + i - 1] = msg[p][i]
    BY <1>1, <1>2 DEF CopyInv, Own, Locked
  <2>1. \A j \in 1..copied[p] :
          start[p] + j - 1 < MAXBUFF => kern_buff[start[p] + j - 1] = msg[p][j]
    BY <1>1 DEF DataInv, CopyInv, Writing
  <2>2. /\ start[p] \in Nat /\ copied[p] \in Nat /\ Room(p) \in Nat /\ MAXBUFF \in Nat
        /\ kern_buff \in [0..(MAXBUFF - 1) -> Byte]
    <3>1. Room(p) \in Nat
      BY RoomFits
    <3>2. MAXBUFF \in Nat
      BY CharBufAssumption
    <3>3. start[p] \in Nat /\ copied[p] \in Nat /\ kern_buff \in [0..(MAXBUFF - 1) -> Byte]
      BY <3>2 DEF TypeOK
    <3> QED BY <3>1, <3>2, <3>3
  <2>3. CASE simple_write_byte(p)
    <3>1. copied'[p] = copied[p] + 1
      BY <2>3 DEF simple_write_byte, TypeOK
    <3>2. CASE i = copied[p] + 1
      BY <2>2, <2>3, <3>2 DEF simple_write_byte
    <3>3. CASE i # copied[p] + 1
      <4>1. i \in 1..copied[p] /\ start[p] + i - 1 # start[p] + copied[p]
            /\ start[p] + i - 1 \in 0..(MAXBUFF - 1)
        BY <2>2, <3>1, <3>3
      <4>2. kern_buff'[start[p] + i - 1] = kern_buff[start[p] + i - 1]
        BY <2>2, <2>3, <4>1 DEF simple_write_byte
      <4> QED BY <2>1, <4>1, <4>2
    <3> QED BY <3>2, <3>3
  <2>4. CASE simple_write_to_buffer(p)
    <3>0. copied' = copied
      BY <2>4 DEF simple_write_to_buffer
    <3>1. i \in 1..copied[p] /\ start[p] + i - 1 \in 0..(MAXBUFF - 1)
          /\ start[p] + i - 1 \notin (start[p] + copied[p])..(start[p] + Room(p) - 1)
      BY <2>2, <3>0
    <3>2. kern_buff'[start[p] + i - 1] = kern_buff[start[p] + i - 1]
      BY <2>2, <2>4, <3>1 DEF simple_write_to_buffer
    <3> QED BY <2>1, <3>1, <3>2
  <2> QED BY <2>3, <2>4
<1>4. ShownInv'
  BY <1>1, <1>2 DEF ShownInv, Own, Locked, Writing
<1>5. RetInv'
  <2>1. ASSUME pc'[p] = "term", copied'[p] > 0 PROVE ret'[p] = copied'[p]
    BY <1>1, <2>1 DEF simple_write_byte, simple_write_to_buffer, TypeOK
  <2> QED BY <1>1, <2>1 DEF DataInv, RetInv, TypeOK
<1>6. VerdictWhenAlone'
  <2> SUFFICES ASSUME NEW q \in Proc, Compared', Returned(q)', alone'[q]
               PROVE  ret'[q] = Verdict(q)'
    BY DEF VerdictWhenAlone
  <2>1. q # p
    BY <1>1 DEF Returned
  <2>2. Compared /\ Returned(q) /\ alone[q] /\ ret'[q] = ret[q] /\ Verdict(q)' = Verdict(q)
    BY <1>1, <2>1 DEF Compared, Returned, Verdict
  <2> QED BY <2>2 DEF DataInv, VerdictWhenAlone
<1> QED BY <1>3, <1>4, <1>5, <1>6 DEF DataInv

\* The terminator, and the end of the write.
LEMMA EndData ==
  ASSUME TypeOK, OwnInv, DataInv, NEW p \in Proc,
         my_write_terminate(p) \/ my_write_compare(p)
  PROVE  DataInv'
<1>1. /\ UNCHANGED <<driver, msg, start, copied, alone, last>>
      /\ \A q \in Proc \ {p} : pc'[q] = pc[q] /\ ret'[q] = ret[q]
  BY DEF my_write_terminate, my_write_compare, Goto, TypeOK
<1>2. CASE my_write_terminate(p)
  <2>1. /\ pc[p] = "term" /\ pc'[p] = "cmp" /\ ret' = ret
    BY <1>2 DEF my_write_terminate, Goto, TypeOK
  <2>2. \A q \in Proc \ {p} : ~(last = q /\ Own(q))
    BY <2>1 DEF OwnInv, LastInv, Writing
  <2>3. CopyInv'
    BY <1>1, <2>1, <2>2 DEF CopyInv, Own, Locked, Writing
  <2>4. RetInv' /\ VerdictWhenAlone'
    BY <1>1, <2>1 DEF DataInv, RetInv, VerdictWhenAlone, Returned, Verdict, Compared
  <2>5. ShownInv'
    <3> SUFFICES ASSUME last = p, Own(p), Whole(p)
                 PROVE  /\ \A i \in 1..Len(msg[p]) : kern_buff'[i - 1] = msg[p][i]
                        /\ Terminated => kern_buff'[Len(msg[p])] = NUL
      BY <1>1, <2>2 DEF ShownInv, Own, Locked, Whole, Begins, Terminated
    <3>1. /\ Len(msg[p]) \in Nat /\ Len(msg[p]) < MAXBUFF /\ MAXBUFF \in Nat
          /\ kern_buff \in [0..(MAXBUFF - 1) -> Byte]
          /\ start[p] = 0 /\ copied[p] = Len(msg[p]) /\ msg[p] # <<>>
          /\ msg[p] \in Seq(Byte \ {NUL})
      BY RoomFits, CharBufAssumption DEF Whole, TypeOK
    <3>2. ret[p] = Len(msg[p])
      <4>1. Len(msg[p]) > 0
        BY <3>1
      <4> QED BY <2>1, <3>1, <4>1 DEF DataInv, RetInv
    <3>3. \A i \in 1..Len(msg[p]) : kern_buff[i - 1] = msg[p][i]
      <4> SUFFICES ASSUME NEW i \in 1..Len(msg[p]) PROVE kern_buff[i - 1] = msg[p][i]
        OBVIOUS
      <4>1. start[p] + i - 1 < MAXBUFF => kern_buff[start[p] + i - 1] = msg[p][i]
        BY <2>1, <3>1 DEF DataInv, CopyInv, Writing
      <4>2. start[p] + i - 1 = i - 1 /\ i - 1 < MAXBUFF
        BY <3>1
      <4> QED BY <4>1, <4>2
    <3>4. \/ ~Terminated /\ kern_buff' = kern_buff
          \/ kern_buff' = [kern_buff EXCEPT ![Len(msg[p])] = NUL]
      <4>1. Len(msg[p]) \in DOMAIN kern_buff
        BY <3>1
      <4> QED BY <1>2, <3>2, <4>1 DEF my_write_terminate
    <3>5. ASSUME NEW i \in 1..Len(msg[p]) PROVE kern_buff'[i - 1] = msg[p][i]
      <4>1. i - 1 # Len(msg[p]) /\ i - 1 \in 0..(MAXBUFF - 1)
        BY <3>1
      <4>2. kern_buff'[i - 1] = kern_buff[i - 1]
        BY <3>1, <3>4, <4>1
      <4> QED BY <3>3, <4>2
    <3>6. Terminated => kern_buff'[Len(msg[p])] = NUL
      BY <3>1, <3>4
    <3> QED BY <3>5, <3>6
  <2> QED BY <2>3, <2>4, <2>5 DEF DataInv
<1>3. CASE my_write_compare(p)
  <2>1. pc[p] = "cmp" /\ pc'[p] = "idle" /\ kern_buff' = kern_buff
    BY <1>3 DEF my_write_compare, Goto, TypeOK
  <2>2. CopyInv' /\ RetInv' /\ ShownInv'
    BY <1>1, <2>1 DEF DataInv, CopyInv, RetInv, ShownInv, Own, Locked, Writing, Whole,
       Begins, Terminated
  <2>3. ASSUME Compared, Whole(p), alone[p] PROVE ret'[p] = Verdict(p)
    <3>1. Begins(msg[p]) /\ kern_buff[Len(msg[p])] = NUL
      BY <2>1, <2>3 DEF OwnInv, ActiveInv, DataInv, ShownInv, Own, Writing, Compared,
         Terminated
    <3>2. HoldsTarget <=> msg[p] = Target
      BY <2>3, <3>1, CompareWhole
    <3>3. ret[p] = Len(msg[p])
      <4>1. Len(msg[p]) \in Nat /\ msg[p] \in Seq(Byte \ {NUL}) /\ msg[p] # <<>>
        BY <2>3, RoomFits DEF Whole
      <4>2. Len(msg[p]) > 0
        BY <4>1
      <4> QED BY <2>1, <2>3, <4>2 DEF DataInv, RetInv, Whole
    <3> QED BY <1>3, <2>3, <3>2, <3>3 DEF my_write_compare, Verdict, TypeOK
  <2>4. VerdictWhenAlone'
    BY <1>1, <2>1, <2>3 DEF DataInv, VerdictWhenAlone, Returned, Whole, Verdict, Compared
  <2> QED BY <2>2, <2>4 DEF DataInv
<1> QED BY <1>2, <1>3

\* Every step keeps what is in the buffer.
LEMMA StepData ==
  TypeOK /\ OwnInv /\ DataInv /\ [Next]_vars => DataInv'
<1> SUFFICES ASSUME TypeOK, OwnInv, DataInv, [Next]_vars PROVE DataInv'
  OBVIOUS
<1>1. ASSUME NEW p \in Proc, Step(p) PROVE DataInv'
  BY <1>1, BeginData, CopyData, EndData DEF Step
<1>2. CASE UNCHANGED vars
  BY <1>2 DEF vars, DataInv, CopyInv, RetInv, ShownInv, VerdictWhenAlone, Returned,
     Verdict, Compared, Own, Locked, Terminated, Writing, Whole, Begins
<1> QED BY <1>1, <1>2, NextIsStep

\* What the two theorems below rest on, as one invariant.
Inv == OwnInv /\ DataInv

\* The invariant holds at the start,
LEMMA InitInv == Init => Inv
<1> SUFFICES ASSUME Init PROVE Inv
  OBVIOUS
<1>1. OwnInv
  BY DEF Init, OwnInv, LockInv, ActiveInv, LastInv, Writing, Own, Locked
<1>2. /\ None \notin Proc
      /\ \A p \in Proc : last # p /\ pc[p] = "idle" /\ msg[p] = <<>>
  BY CharBufAssumption DEF Init
<1>3. DataInv
  BY <1>2 DEF DataInv, CopyInv, RetInv, ShownInv, VerdictWhenAlone, Returned
<1> QED BY <1>1, <1>3 DEF Inv

\* and throughout: who may be writing, and what the writers have left in the buffer.
THEOREM InvHolds == Spec => []Inv
<1>1. TypeOK /\ OwnInv /\ [Next]_vars => OwnInv'
  <2> SUFFICES ASSUME TypeOK, OwnInv, [Next]_vars PROVE OwnInv'
    OBVIOUS
  <2>1. CASE UNCHANGED vars
    BY <2>1 DEF vars, OwnInv, LockInv, ActiveInv, LastInv, Writing, Own, Locked
  <2> QED BY <2>1, StepOwn, NextIsStep
<1>2. TypeOK /\ Inv /\ [Next]_vars => Inv'
  BY <1>1, StepData DEF Inv
<1> QED BY <1>2, InitInv, TypeCorrect, PTL DEF Spec

\* However many processes use the file, a write that nobody overlapped and that
\* was stored whole returns the verdict on its own string (my_write, misc_char_dev.c
\* 24-37 and procfs.c): its length for the target, -EINVAL otherwise.
THEOREM VerdictsRight == Spec => []VerdictWhenAlone
<1>1. Inv => VerdictWhenAlone
  BY DEF Inv, DataInv
<1> QED BY <1>1, InvHolds, PTL

\* However many processes use the file, once the latest store under the lock has
\* ended a reader is shown its bytes (foo_store and foo_show, sysfs_example.c
\* 46-64; foo_store of kobjects.c, when no other store overlaps it).
THEOREM LastStoresShown == Spec => []LastStoreShown
<1>1. Inv => LastStoreShown
  <2> SUFFICES ASSUME Inv, NEW p \in Proc, last = p, Returned(p)
               PROVE  /\ driver = "sysfs_foo" => Begins(msg[p])
                      /\ driver = "kobjects_foo" /\ alone[p] =>
                           Begins(msg[p]) /\ kern_buff[Len(msg[p])] = NUL
    BY DEF LastStoreShown
  <2>1. ~Writing(p) /\ Whole(p)
    BY DEF Writing, Whole, Returned
  <2>2. Own(p) => Begins(msg[p]) /\ (Terminated => kern_buff[Len(msg[p])] = NUL)
    BY <2>1 DEF Inv, DataInv, ShownInv
  <2> QED BY <2>2 DEF Own, Locked, Terminated
<1> QED BY <1>1, InvHolds, PTL
==============================================================================
