--------------------------------- MODULE Vram ---------------------------------
(***************************************************************************)
(* The file operations of /dev/vram (hardware_map.c): processes read and   *)
(* write the mapped video memory byte by byte, without a lock, each at the *)
(* offset of its own file.  A transfer is cut at the end of the memory and *)
(* is given up when a byte of user memory faults.                          *)
(***************************************************************************)
EXTENDS Integers

CONSTANTS
  Proc,      \* processes, each with its own open file
  VRAM_SIZE, \* the bytes mapped
  Length,    \* the lengths passed to read(2) and write(2)
  Wrap,      \* size_t is computed modulo Wrap
  MaxCalls   \* bound: calls

EFAULT == -14

VARIABLES
  vram,  \* the number of the call that wrote each byte last, or Boot
  off,   \* per process: *off
  pc,    \* per process: idle, or in the loop of my_read or my_write
  len,   \* per process: len, after it was cut
  i,     \* per process: the loop counter
  call,  \* per process: the number of its last call on this file, or 0
  ret,   \* per process: the result of its last call
  calls  \* calls so far

vars == <<vram, off, pc, len, i, call, ret, calls>>

Address == 0..(VRAM_SIZE - 1)
Boot == 0

Init ==
  /\ vram = [a \in Address |-> Boot]
  /\ off = [p \in Proc |-> 0] /\ pc = [p \in Proc |-> "idle"]
  /\ len = [p \in Proc |-> 0] /\ i = [p \in Proc |-> 0]
  /\ call = [p \in Proc |-> 0] /\ ret = [p \in Proc |-> 0]
  /\ calls = 0

\* my_close, and my_open of a new file: the offset is 0, no call is pending.
my_open(p) ==
  /\ pc[p] = "idle" /\ off[p] # 0
  /\ off' = [off EXCEPT ![p] = 0]
  /\ call' = [call EXCEPT ![p] = 0]
  /\ ret' = [ret EXCEPT ![p] = 0]
  /\ UNCHANGED <<vram, pc, len, i, calls>>

mut_no_cut(o, n) == n

\* len, cut at the end of the memory.
Cut(o, n) == IF (o + n) % Wrap > VRAM_SIZE THEN VRAM_SIZE - o ELSE n

\* my_read and my_write up to their loop; at the end of the memory they return 0.
Enter(p, n, loop) ==
  /\ pc[p] = "idle" /\ calls < MaxCalls
  /\ calls' = calls + 1
  /\ call' = [call EXCEPT ![p] = calls + 1]
  /\ IF off[p] >= VRAM_SIZE
       THEN ret' = [ret EXCEPT ![p] = 0] /\ UNCHANGED <<pc, len, i>>
       ELSE /\ pc' = [pc EXCEPT ![p] = loop]
            /\ len' = [len EXCEPT ![p] = Cut(off[p], n)]
            /\ i' = [i EXCEPT ![p] = 0]
            /\ UNCHANGED ret
  /\ UNCHANGED <<vram, off>>

my_read(p, n) == Enter(p, n, "read")

my_write(p, n) == Enter(p, n, "write")

\* ioread8 and copy_to_user.
my_read_byte(p) ==
  /\ pc[p] = "read" /\ i[p] < len[p]
  /\ i' = [i EXCEPT ![p] = @ + 1]
  /\ UNCHANGED <<vram, off, pc, len, call, ret, calls>>

\* copy_from_user and iowrite8.
my_write_byte(p) ==
  /\ pc[p] = "write" /\ i[p] < len[p]
  /\ vram' = [vram EXCEPT ![off[p] + i[p]] = call[p]]
  /\ i' = [i EXCEPT ![p] = @ + 1]
  /\ UNCHANGED <<off, pc, len, call, ret, calls>>

mut_fault_moves(p) ==
  /\ pc[p] # "idle" /\ i[p] < len[p]
  /\ ret' = [ret EXCEPT ![p] = EFAULT]
  /\ off' = [off EXCEPT ![p] = @ + i[p]]
  /\ pc' = [pc EXCEPT ![p] = "idle"]
  /\ UNCHANGED <<vram, len, i, call, calls>>

\* A byte of user memory faults: the call fails, the offset stays.
my_fault(p) ==
  /\ pc[p] # "idle" /\ i[p] < len[p]
  /\ ret' = [ret EXCEPT ![p] = EFAULT]
  /\ pc' = [pc EXCEPT ![p] = "idle"]
  /\ UNCHANGED <<vram, off, len, i, call, calls>>

\* The loop is done: *off += len, and len is returned.
my_return(p) ==
  /\ pc[p] # "idle" /\ i[p] >= len[p]
  /\ off' = [off EXCEPT ![p] = @ + len[p]]
  /\ ret' = [ret EXCEPT ![p] = len[p]]
  /\ pc' = [pc EXCEPT ![p] = "idle"]
  /\ UNCHANGED <<vram, len, i, call, calls>>

Next ==
  \E p \in Proc :
    \/ my_open(p)
    \/ \E n \in Length : my_read(p, n) \/ my_write(p, n)
    \/ my_read_byte(p) \/ my_write_byte(p) \/ my_fault(p) \/ my_return(p)

Spec == Init /\ [][Next]_vars

-----------------------------------------------------------------------------
(* Properties.                                                             *)

\* Every variable stays in its type: offsets and lengths in the memory.
TypeOK ==
  /\ vram \in [Address -> Nat] /\ off \in [Proc -> 0..VRAM_SIZE]
  /\ len \in [Proc -> 0..VRAM_SIZE] /\ i \in [Proc -> 0..VRAM_SIZE]
  /\ pc \in [Proc -> {"idle", "read", "write"}]
  /\ call \in [Proc -> Nat] /\ ret \in [Proc -> Nat \cup {EFAULT}] /\ calls \in Nat

\* Every byte my_read and my_write touch lies in the mapped memory, whatever
\* sequence of reads, writes and faults moved the offset before.
AccessInside ==
  \A p \in Proc : pc[p] # "idle" /\ i[p] < len[p] => off[p] + i[p] \in Address

\* The bytes an idle process's last call may have written: those it reported,
\* just before the new offset, or, if it failed, those it was asked for.
Window(p) ==
  IF ret[p] = EFAULT THEN off[p]..(off[p] + len[p] - 1)
                     ELSE (off[p] - ret[p])..(off[p] - 1)

\* However the loops of other processes run in between, the bytes that a
\* finished my_write left in the memory are among those its result and the
\* file offset account for: retrying after EFAULT overwrites all of them.
WritesWhereReported ==
  \A p \in Proc, a \in Address :
    pc[p] = "idle" /\ call[p] # 0 /\ vram[a] = call[p] => a \in Window(p)
==============================================================================
