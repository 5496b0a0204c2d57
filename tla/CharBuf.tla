------------------------------- MODULE CharBuf -------------------------------
(***************************************************************************)
(* Strings written to the kernel.  /dev/ritsz of misc_char_dev.c and, the  *)
(* same without a lock, /proc/example/first of procfs.c copy a string from *)
(* user memory, which may fault anywhere, and advance the file's offset.   *)
(* The sysfs files id and foo of sysfs_example.c and foo of kobjects.c     *)
(* parse or copy a page the kernel has made.  The first three compare the  *)
(* buffer with a string.  Bytes are written one by one.                    *)
(***************************************************************************)
EXTENDS Integers, Sequences

CONSTANTS
  Proc,      \* processes, each with its own open file
  Byte,      \* what a byte of the buffer holds, NUL included
  MAXBUFF,   \* the size of kern_buff (my_page_buffer, foo)
  IdLen,     \* the length of the string my_read returns
  Target,    \* "linux", or "ritsz", as a sequence of characters
  Chunk,     \* the strings passed to write(2)
  Count,     \* the lengths passed to read(2)
  MaxWrites, \* bound: writes
  None

NUL == 0

ASSUME CharBufAssumption ==
  /\ {MAXBUFF, IdLen, MaxWrites} \subseteq Nat
  /\ NUL \in Byte /\ Target \in Chunk /\ 0 < Len(Target) /\ Len(Target) < MAXBUFF
  /\ Chunk \subseteq Seq(Byte \ {NUL}) /\ Count \subseteq Nat
  /\ IdLen <= MAXBUFF /\ None \notin Proc

VARIABLES
  driver,    \* which of the files this is
  kern_buff, \* the bytes of the buffer
  my_rwlock, \* the writer that holds the lock, or None
  pos,       \* per process: the file offset
  pc,        \* per process: where my_write is
  msg, start,\* per process: the string being written, and where
  copied,    \* per process: bytes copied so far
  ret,       \* per process: result of simple_write_to_buffer, then of write
  alone,     \* per process: no other write overlapped its last one
  last,      \* the process that began to write last, or None
  writes,    \* writes so far
  stray      \* a byte has been stored outside kern_buff

vars == <<driver, kern_buff, my_rwlock, pos, pc, msg, start, copied, ret, alone,
          last, writes, stray>>

File == driver \in {"misc_char_dev", "procfs"}        \* with an offset and user memory
Locked == driver \in {"misc_char_dev", "sysfs_foo"}   \* takes my_rwlock
Terminated == driver # "sysfs_foo"                    \* ends the string with NUL
Compared == driver \in {"misc_char_dev", "procfs", "sysfs_id"}

EFAULT == -14
EINVAL == -22

MinOf(a, b) == IF a < b THEN a ELSE b

Init ==
  /\ driver \in {"misc_char_dev", "procfs", "sysfs_id", "sysfs_foo", "kobjects_foo"}
  /\ kern_buff \in [0..(MAXBUFF - 1) -> Byte]
  /\ driver # "sysfs_foo" => kern_buff = [i \in 0..(MAXBUFF - 1) |-> NUL]
  /\ my_rwlock = None
  /\ pos = [p \in Proc |-> 0] /\ pc = [p \in Proc |-> "idle"]
  /\ msg = [p \in Proc |-> <<>>] /\ start = [p \in Proc |-> 0]
  /\ copied = [p \in Proc |-> 0] /\ ret = [p \in Proc |-> 0]
  /\ alone = [p \in Proc |-> FALSE] /\ last = None
  /\ writes = 0 /\ stray = FALSE

Goto(p, l) == pc' = [pc EXCEPT ![p] = l]

mut_no_clamp(p) == Len(msg[p])

\* How many bytes of msg[p] are stored: simple_write_to_buffer stops at the
\* end of kern_buff, a write to sysfs is shorter than a page, as is
\* my_page_buffer, and sscanf("%s") has no bound.
Room(p) ==
  CASE File /\ start[p] >= MAXBUFF -> 0
    [] File /\ start[p] < MAXBUFF -> MinOf(Len(msg[p]), MAXBUFF - start[p])
    [] driver = "sysfs_foo" -> MinOf(Len(msg[p]), MAXBUFF - 1)
    [] OTHER -> Len(msg[p])

-----------------------------------------------------------------------------
\* The process closes its file and opens the device again.
reopen(p) ==
  /\ pc[p] = "idle" /\ pos[p] # 0
  /\ pos' = [pos EXCEPT ![p] = 0]
  /\ UNCHANGED <<driver, kern_buff, my_rwlock, pc, msg, start,
                 copied, ret, alone, last, writes, stray>>

\* simple_read_from_buffer: the reader's offset moves by what is left.
my_read(p, n) ==
  /\ File /\ pc[p] = "idle" /\ pos[p] < IdLen /\ (Locked => my_rwlock = None)
  /\ pos' = [pos EXCEPT ![p] = @ + MinOf(n, IdLen - @)]
  /\ UNCHANGED <<driver, kern_buff, my_rwlock, pc, msg, start,
                 copied, ret, alone, last, writes, stray>>

mut_no_lock(p, m) ==
  /\ pc[p] = "idle" /\ writes < MaxWrites
  /\ writes' = writes + 1
  /\ msg' = [msg EXCEPT ![p] = m]
  /\ start' = [start EXCEPT ![p] = pos[p]]
  /\ copied' = [copied EXCEPT ![p] = 0]
  /\ alone' = [q \in Proc |-> IF q = p THEN \A r \in Proc \ {p} : pc[r] = "idle"
                                      ELSE alone[q] /\ pc[q] = "idle"]
  /\ last' = p
  /\ Goto(p, "copy")
  /\ UNCHANGED <<driver, kern_buff, my_rwlock, pos, ret, stray>>

\* my_write, id_store or foo_store begins, with write_lock where there is one.
my_write(p, m) ==
  /\ pc[p] = "idle" /\ writes < MaxWrites
  /\ Locked => my_rwlock = None
  /\ my_rwlock' = IF Locked THEN p ELSE None
  /\ writes' = writes + 1
  /\ msg' = [msg EXCEPT ![p] = m]
  /\ start' = [start EXCEPT ![p] = pos[p]]
  /\ copied' = [copied EXCEPT ![p] = 0]
  /\ alone' = [q \in Proc |-> IF q = p THEN \A r \in Proc \ {p} : pc[r] = "idle"
                                      ELSE alone[q] /\ pc[q] = "idle"]
  /\ last' = p
  /\ Goto(p, "copy")
  /\ UNCHANGED <<driver, kern_buff, pos, ret, stray>>

\* One byte of copy_from_user, sscanf or strncpy.
simple_write_byte(p) ==
  /\ pc[p] = "copy" /\ copied[p] < Room(p)
  /\ IF start[p] + copied[p] \in DOMAIN kern_buff
       THEN /\ kern_buff' = [kern_buff EXCEPT ![start[p] + copied[p]] = msg[p][copied[p] + 1]]
            /\ UNCHANGED stray
       ELSE stray' = TRUE /\ UNCHANGED kern_buff
  /\ copied' = [copied EXCEPT ![p] = @ + 1]
  /\ UNCHANGED <<driver, my_rwlock, pos, pc, msg, start,
                 ret, alone, last, writes>>

\* The copy returns: everything is copied, or user memory faults and
\* copy_from_user clears the rest of the destination.
simple_write_to_buffer(p) ==
  /\ pc[p] = "copy" /\ (File \/ copied[p] = Room(p))
  /\ IF copied[p] = 0 /\ Room(p) > 0
       THEN ret' = [ret EXCEPT ![p] = EFAULT] /\ UNCHANGED pos
       ELSE /\ ret' = [ret EXCEPT ![p] = copied[p]]
            /\ pos' = IF File THEN [pos EXCEPT ![p] = start[p] + copied[p]] ELSE pos
  /\ kern_buff' = [i \in DOMAIN kern_buff |->
       IF i \in (start[p] + copied[p])..(start[p] + Room(p) - 1) THEN NUL ELSE kern_buff[i]]
  /\ Goto(p, "term")
  /\ UNCHANGED <<driver, my_rwlock, msg, start, copied, alone, last, writes, stray>>

mut_no_terminator(p) ==
  /\ pc[p] = "term"
  /\ my_rwlock' = None
  /\ Goto(p, "cmp")
  /\ UNCHANGED <<driver, kern_buff, pos, msg, start, copied,
                 ret, alone, last, writes, stray>>

mut_terminator_after(p) ==
  /\ pc[p] = "term"
  /\ IF ret[p] + 1 \in DOMAIN kern_buff
       THEN kern_buff' = [kern_buff EXCEPT ![ret[p] + 1] = NUL] /\ UNCHANGED stray
       ELSE stray' = TRUE /\ UNCHANGED kern_buff
  /\ my_rwlock' = None
  /\ Goto(p, "cmp")
  /\ UNCHANGED <<driver, pos, msg, start, copied, ret, alone, last, writes>>

\* kern_buff[ret] = '\0' (sscanf stores it as well) and write_unlock.
my_write_terminate(p) ==
  /\ pc[p] = "term"
  /\ IF Terminated /\ ret[p] \in DOMAIN kern_buff
       THEN kern_buff' = [kern_buff EXCEPT ![ret[p]] = NUL] /\ UNCHANGED stray
       ELSE stray' = (stray \/ Terminated) /\ UNCHANGED kern_buff
  /\ my_rwlock' = None
  /\ Goto(p, "cmp")
  /\ UNCHANGED <<driver, pos, msg, start, copied, ret, alone, last, writes>>

\* strcmp(kern_buff, Target): it stops at the first difference, at the latest
\* behind the last character of Target.
HoldsTarget ==
  /\ \A i \in 1..Len(Target) : kern_buff[i - 1] = Target[i]
  /\ kern_buff[Len(Target)] = NUL

\* The comparison, after the unlock, and the result of write.
my_write_compare(p) ==
  /\ pc[p] = "cmp"
  /\ ret' = IF Compared => HoldsTarget THEN ret ELSE [ret EXCEPT ![p] = EINVAL]
  /\ Goto(p, "idle")
  /\ UNCHANGED <<driver, kern_buff, my_rwlock, pos, msg, start,
                 copied, alone, last, writes, stray>>

-----------------------------------------------------------------------------
Next ==
  \E p \in Proc :
    \/ reopen(p)
    \/ \E n \in Count : my_read(p, n)
    \/ \E m \in Chunk : my_write(p, m)
    \/ simple_write_byte(p) \/ simple_write_to_buffer(p)
    \/ my_write_terminate(p) \/ my_write_compare(p)

Spec == Init /\ [][Next]_vars

-----------------------------------------------------------------------------
(* Properties.                                                             *)

\* Every variable stays in its type: offsets stay in the buffer, and so do
\* copies that have a bound.
TypeOK ==
  /\ driver \in {"misc_char_dev", "procfs", "sysfs_id", "sysfs_foo", "kobjects_foo"}
  /\ kern_buff \in [0..(MAXBUFF - 1) -> Byte]
  /\ my_rwlock \in Proc \cup {None} /\ last \in Proc \cup {None}
  /\ pos \in [Proc -> 0..MAXBUFF] /\ start \in [Proc -> 0..MAXBUFF]
  /\ pc \in [Proc -> {"idle", "copy", "term", "cmp"}]
  /\ msg \in [Proc -> Chunk \cup {<<>>}]
  /\ copied \in [Proc -> Nat] /\ \A p \in Proc : copied[p] <= Room(p)
  /\ ret \in [Proc -> Nat \cup {EFAULT, EINVAL}]
  /\ alone \in [Proc -> BOOLEAN] /\ writes \in 0..MaxWrites /\ stray \in BOOLEAN

\* Between writes the buffer of a file that ends its strings holds one,
\* whatever the offsets and lengths, unless a byte went outside of it (a
\* write that fills the buffer from offset 0, one that copies nothing, a
\* string longer than the buffer of sscanf).
StringEnds ==
  Terminated /\ (\A p \in Proc : pc[p] \in {"idle", "cmp"}) /\ ~stray
    => \E i \in DOMAIN kern_buff : kern_buff[i] = NUL

\* A write that began at offset 0, copied all it was given and has returned.
Returned(p) ==
  /\ pc[p] = "idle" /\ msg[p] # <<>> /\ start[p] = 0
  /\ copied[p] = Len(msg[p]) /\ Len(msg[p]) < MAXBUFF

Verdict(p) == IF msg[p] = Target THEN Len(Target) ELSE EINVAL

\* Whatever is left in kern_buff, by writes that overlapped each other or
\* faulted included, a write that no other overlaps is judged on its string.
VerdictWhenAlone ==
  \A p \in Proc : Compared /\ Returned(p) /\ alone[p] => ret[p] = Verdict(p)

Begins(m) == \A i \in 1..Len(m) : kern_buff[i - 1] = m[i]

\* foo shows what was stored last.  With my_rwlock this holds of every store,
\* but older text may follow; without a lock it holds of a store that no
\* other overlaps.
LastStoreShown ==
  \A p \in Proc : last = p /\ Returned(p) =>
    /\ driver = "sysfs_foo" => Begins(msg[p])
    /\ driver = "kobjects_foo" /\ alone[p] =>
         Begins(msg[p]) /\ kern_buff[Len(msg[p])] = NUL
==============================================================================
