------------------------------- MODULE TaskWalk -------------------------------
(***************************************************************************)
(* The walk over all tasks in hello_init of thread_tree.c, from init_task  *)
(* along next_task until it is back, without rcu_read_lock: meanwhile      *)
(* tasks fork and exit.  An exiting task loses its mm, then its files,     *)
(* leaves the list and is freed.                                           *)
(***************************************************************************)
EXTENDS Integers

CONSTANTS
  Tasks,   \* tasks 1..Tasks may live; init_task is 0
  Before,  \* tasks 1..Before exist when the walk begins
  User     \* the tasks that have an mm

VARIABLES
  next,   \* task->tasks.next
  life,   \* per task: unborn, live, nomm, nofiles, unlinked, freed
  at,     \* the task the walk has reached
  walk,   \* task, files, or how the walk ended
  seen    \* the tasks it has printed

vars == <<next, life, at, walk, seen>>

init_task == 0
Task == 1..Tasks
Linked(t) == t = init_task \/ life[t] \in {"live", "nomm", "nofiles"}
Pred(t) == CHOOSE u \in Task \cup {init_task} : Linked(u) /\ next[u] = t

Init ==
  /\ next = [t \in 0..Tasks |-> IF t < Before THEN t + 1 ELSE init_task]
  /\ life = [t \in Task |-> IF t <= Before THEN "live" ELSE "unborn"]
  /\ at = init_task /\ walk = "task" /\ seen = {}

\* A new task is linked in at the end of the list; tasks are numbered in the
\* order in which they are forked.
copy_process(t) ==
  /\ life[t] = "unborn" /\ \A u \in Task : u < t => life[u] # "unborn"
  /\ life' = [life EXCEPT ![t] = "live"]
  /\ next' = [next EXCEPT ![Pred(init_task)] = t, ![t] = init_task]
  /\ UNCHANGED <<at, walk, seen>>

\* A step of do_exit, and freeing; an unlinked task keeps its next pointer.
do_exit(t) ==
  /\ \/ life[t] = "live" /\ life' = [life EXCEPT ![t] = "nomm"] /\ UNCHANGED next
     \/ life[t] = "nomm" /\ life' = [life EXCEPT ![t] = "nofiles"] /\ UNCHANGED next
     \/ life[t] = "nofiles" /\ life' = [life EXCEPT ![t] = "unlinked"]
        /\ next' = [next EXCEPT ![Pred(t)] = next[t]]
     \/ life[t] = "unlinked" /\ life' = [life EXCEPT ![t] = "freed"] /\ UNCHANGED next
  /\ UNCHANGED <<at, walk, seen>>

Freed(t) == t # init_task /\ life[t] = "freed"
HasMm(t) == t \in User /\ life[t] = "live"

mut_skip_kernel ==
  /\ walk = "task"
  /\ seen' = seen \cup {at}
  /\ IF Freed(at) THEN walk' = "fault" /\ UNCHANGED at
     ELSE IF HasMm(at) THEN walk' = "files" /\ UNCHANGED at
     ELSE /\ at' = next[next[at]]
          /\ walk' = IF next[next[at]] = init_task THEN "done" ELSE "task"
  /\ UNCHANGED <<next, life>>

\* A task is printed; a kernel thread, which has no mm, is left at once.
hello_init_task ==
  /\ walk = "task"
  /\ seen' = seen \cup {at}
  /\ IF Freed(at) THEN walk' = "fault" /\ UNCHANGED at
     ELSE IF HasMm(at) THEN walk' = "files" /\ UNCHANGED at
     ELSE at' = next[at] /\ walk' = IF next[at] = init_task THEN "done" ELSE "task"
  /\ UNCHANGED <<next, life>>

mut_never_back ==
  /\ walk = "files"
  /\ IF life[at] \in {"nofiles", "unlinked", "freed"} THEN walk' = "fault" /\ UNCHANGED at
     ELSE at' = next[at] /\ walk' = "task"
  /\ UNCHANGED <<next, life, seen>>

\* The files of a user task, found through a pointer that exit has cleared
\* or freed by now.
hello_init_files ==
  /\ walk = "files"
  /\ IF life[at] \in {"nofiles", "unlinked", "freed"} THEN walk' = "fault" /\ UNCHANGED at
     ELSE at' = next[at] /\ walk' = IF next[at] = init_task THEN "done" ELSE "task"
  /\ UNCHANGED <<next, life, seen>>

Next ==
  \/ \E t \in Task : copy_process(t) \/ do_exit(t)
  \/ hello_init_task \/ hello_init_files

-----------------------------------------------------------------------------
(* Properties.                                                             *)

\* Every variable stays in its type.
TypeOK ==
  /\ next \in [0..Tasks -> 0..Tasks] /\ at \in 0..Tasks /\ seen \subseteq 0..Tasks
  /\ life \in [Task -> {"unborn", "live", "nomm", "nofiles", "unlinked", "freed"}]
  /\ walk \in {"task", "files", "done", "fault"}

\* Whatever forks and exits during the walk, and although it stands on tasks
\* that leave the list, a walk of hello_init that comes to its end has printed
\* every task that was in the list all the time.
WalkSeesAll ==
  walk = "done" => \A t \in 1..Before : Linked(t) => t \in seen

\* The walk comes back to init_task or faults: there is no cycle without it.
WalkEnds == <>(walk \in {"done", "fault"})
==============================================================================
