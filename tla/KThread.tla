------------------------------- MODULE KThread -------------------------------
(***************************************************************************)
(* Modules that create a kernel thread: kernel_thread.c, whose exit calls  *)
(* kthread_stop, and thread_tree.c, whose exit forgets the thread.  The    *)
(* thread waits in the kernel for its first wake-up, runs its function     *)
(* once and exits; its task_struct is freed when nobody holds it.          *)
(***************************************************************************)
VARIABLES
  threadOf,  \* the module: kernel_thread or thread_tree
  wakesAll,  \* does this kernel's wake_up_process wake a stopped task?
  mod,       \* where the module's init or exit is
  thread,    \* the state of the thread
  mustStop,  \* KTHREAD_SHOULD_STOP
  badTask    \* init or exit has used an error pointer or a freed task

vars == <<threadOf, wakesAll, mod, thread, mustStop, badTask>>

\* A task that fails to be made is an error pointer, which nobody tests.
BadPointer == {"failed", "freed"}

Init ==
  /\ threadOf \in {"kernel_thread", "thread_tree"} /\ wakesAll \in BOOLEAN
  /\ mod = "create" /\ thread = "none" /\ mustStop = FALSE /\ badTask = FALSE

kthread_create ==
  /\ mod = "create"
  /\ thread' \in {"new", "failed"}
  /\ mod' = IF threadOf = "kernel_thread" THEN "set_state" ELSE "wake"
  /\ UNCHANGED <<threadOf, wakesAll, mustStop, badTask>>

\* An oops ends init or exit where it is.
Oops == badTask' = TRUE /\ mod' = "oops" /\ UNCHANGED thread

\* set_task_state(thread1, __TASK_STOPPED).
set_task_state ==
  /\ mod = "set_state"
  /\ IF thread \in BadPointer THEN Oops
     ELSE thread' = "stopped" /\ mod' = "wake" /\ UNCHANGED badTask
  /\ UNCHANGED <<threadOf, wakesAll, mustStop>>

Woken == IF thread = "new" \/ (thread = "stopped" /\ wakesAll) THEN "woken" ELSE thread

\* Both inits end with it; kernel_thread.c only tests for NULL.
wake_up_process ==
  /\ mod = "wake"
  /\ IF thread \in BadPointer THEN Oops
     ELSE thread' = Woken /\ mod' = "loaded" /\ UNCHANGED badTask
  /\ UNCHANGED <<threadOf, wakesAll, mustStop>>

\* rmmod: hello_exit of thread_tree.c returns at once.
thread_exit ==
  /\ mod = "loaded"
  /\ mod' = IF threadOf = "kernel_thread" THEN "stop" ELSE "gone"
  /\ UNCHANGED <<threadOf, wakesAll, thread, mustStop, badTask>>

\* kthread_stop takes a reference, asks the thread to stop and wakes it.
kthread_stop ==
  /\ mod = "stop"
  /\ IF thread \in BadPointer THEN Oops /\ UNCHANGED mustStop
     ELSE mustStop' = TRUE /\ thread' = Woken /\ mod' = "wait" /\ UNCHANGED badTask
  /\ UNCHANGED <<threadOf, wakesAll>>

kthread_stop_wait ==
  /\ mod = "wait" /\ thread = "exited"
  /\ mod' = "gone"
  /\ UNCHANGED <<threadOf, wakesAll, thread, mustStop, badTask>>

\* The kernel's thread main function: a thread already told to stop exits.
kthread ==
  /\ thread = "woken"
  /\ thread' = IF mustStop THEN "exited" ELSE "running"
  /\ UNCHANGED <<threadOf, wakesAll, mod, mustStop, badTask>>

mut_thread_loops ==
  /\ thread = "running"
  /\ UNCHANGED vars

\* thread_fn, or my_kernel_fn, returns.
thread_fn ==
  /\ thread = "running"
  /\ thread' = "exited"
  /\ UNCHANGED <<threadOf, wakesAll, mod, mustStop, badTask>>

free_task ==
  /\ thread = "exited" /\ mod # "wait"
  /\ thread' = "freed"
  /\ UNCHANGED <<threadOf, wakesAll, mod, mustStop, badTask>>

ExitSteps == kthread_stop \/ kthread_stop_wait
ThreadSteps == kthread \/ thread_fn

Next ==
  \/ kthread_create \/ set_task_state \/ wake_up_process
  \/ thread_exit \/ ExitSteps \/ ThreadSteps \/ free_task

-----------------------------------------------------------------------------
(* Properties.                                                             *)

\* Every variable stays in its type.
TypeOK ==
  /\ mod \in {"create", "set_state", "wake", "loaded", "stop", "wait", "gone", "oops"}
  /\ thread \in BadPointer \cup {"none", "new", "stopped", "woken", "running", "exited"}
  /\ mustStop \in BOOLEAN /\ badTask \in BOOLEAN

\* rmmod of kernel_thread.c ends, unless the thread has ended and been freed
\* before kthread_stop, or was left stopped by a kernel whose wake_up_process
\* does not wake a task that set_task_state has stopped.
StopEnds ==
  mod = "stop" ~> mod = "gone" \/ badTask \/ (thread = "stopped" /\ ~wakesAll)
==============================================================================
