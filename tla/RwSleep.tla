------------------------------- MODULE RwSleep -------------------------------
(***************************************************************************)
(* misc_char_dev.c copies from and to user memory with my_rwlock held.     *)
(* The lock spins with preemption disabled, while a page fault in the copy *)
(* puts its holder to sleep: on a machine with few processors those that   *)
(* spin can keep the holder from running again.                            *)
(***************************************************************************)
EXTENDS Integers, FiniteSets

CONSTANTS
  User,     \* processes with /dev/ritsz open
  MaxCpus   \* bound: processors

VARIABLES
  cpus,     \* processors of this machine
  task,     \* per process: idle, spin, copy or asleep
  op,       \* per process: my_read or my_write
  onCpu,    \* the processes that occupy a processor
  readers, writers, \* those that hold my_rwlock
  faulted   \* the processes whose copy has met a missing page

vars == <<cpus, task, op, onCpu, readers, writers, faulted>>

Init ==
  /\ cpus \in 1..MaxCpus
  /\ task = [p \in User |-> "idle"] /\ op = [p \in User |-> "my_read"]
  /\ onCpu = {} /\ readers = {} /\ writers = {} /\ faulted = {}

\* read(2) or write(2), by a process that runs.
call(p, o) ==
  /\ task[p] = "idle" /\ Cardinality(onCpu) < cpus
  /\ task' = [task EXCEPT ![p] = "spin"]
  /\ op' = [op EXCEPT ![p] = o]
  /\ onCpu' = onCpu \cup {p}
  /\ faulted' = faulted \ {p}
  /\ UNCHANGED <<cpus, readers, writers>>

\* read_lock or write_lock.
lock(p) ==
  /\ task[p] = "spin" /\ p \in onCpu /\ writers = {}
  /\ \/ op[p] = "my_read" /\ readers' = readers \cup {p} /\ UNCHANGED writers
     \/ op[p] = "my_write" /\ readers = {} /\ writers' = {p} /\ UNCHANGED readers
  /\ task' = [task EXCEPT ![p] = "copy"]
  /\ UNCHANGED <<cpus, op, onCpu, faulted>>

\* The copy needs a page that is not there; it arrives; the process runs on.
page_fault(p) ==
  /\ task[p] = "copy" /\ p \in onCpu /\ p \notin faulted
  /\ task' = [task EXCEPT ![p] = "asleep"]
  /\ onCpu' = onCpu \ {p} /\ faulted' = faulted \cup {p}
  /\ UNCHANGED <<cpus, op, readers, writers>>

page_in(p) ==
  /\ task[p] = "asleep"
  /\ task' = [task EXCEPT ![p] = "copy"]
  /\ UNCHANGED <<cpus, op, onCpu, readers, writers, faulted>>

schedule(p) ==
  /\ task[p] = "copy" /\ p \notin onCpu /\ Cardinality(onCpu) < cpus
  /\ onCpu' = onCpu \cup {p}
  /\ UNCHANGED <<cpus, task, op, readers, writers, faulted>>

mut_keeps_lock(p) ==
  /\ task[p] = "copy" /\ p \in onCpu
  /\ readers' = readers \ {p}
  /\ writers' = IF p \in faulted THEN writers ELSE writers \ {p}
  /\ task' = [task EXCEPT ![p] = "idle"]
  /\ onCpu' = onCpu \ {p}
  /\ UNCHANGED <<cpus, op, faulted>>

\* The copy ends, read_unlock or write_unlock, and the call returns.
unlock(p) ==
  /\ task[p] = "copy" /\ p \in onCpu
  /\ readers' = readers \ {p} /\ writers' = writers \ {p}
  /\ task' = [task EXCEPT ![p] = "idle"]
  /\ onCpu' = onCpu \ {p}
  /\ UNCHANGED <<cpus, op, faulted>>

Steps(p) == lock(p) \/ page_in(p) \/ schedule(p) \/ unlock(p)

Next ==
  \E p \in User : (\E o \in {"my_read", "my_write"} : call(p, o)) \/ page_fault(p) \/ Steps(p)

Spec == Init /\ [][Next]_vars

-----------------------------------------------------------------------------
(* Properties.                                                             *)

\* Every variable stays in its type, and no more processes run than fit.
TypeOK ==
  /\ task \in [User -> {"idle", "spin", "copy", "asleep"}]
  /\ op \in [User -> {"my_read", "my_write"}]
  /\ onCpu \subseteq User /\ Cardinality(onCpu) <= cpus
  /\ readers \subseteq User /\ writers \subseteq User /\ faulted \subseteq User

\* Every processor spins for a lock whose holders cannot run.
Stuck ==
  /\ Cardinality(onCpu) = cpus /\ \A p \in onCpu : task[p] = "spin"
  /\ (readers \cup writers) # {} /\ (readers \cup writers) \cap onCpu = {}

\* All processors spin without end only while a holder of my_rwlock sleeps or
\* has slept in copy_from_user or copy_to_user, and never on a machine with a
\* processor for each process.
StuckOnlyBySleep ==
  Stuck => cpus < Cardinality(User) /\ \A p \in readers \cup writers :
                                         task[p] \in {"copy", "asleep"} /\ p \in faulted

\* With a processor for each process every my_read returns, and every my_write
\* too unless readers follow each other so closely that the lock is never free.
CallReturns ==
  \A p \in User :
    (cpus >= Cardinality(User) /\ task[p] # "idle")
      ~> (task[p] = "idle" \/ (op[p] = "my_write" /\ [](readers # {})))
==============================================================================
