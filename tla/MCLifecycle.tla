----------------------------- MODULE MCLifecycle -----------------------------
(* Lifecycle over the tables of all drivers, and what each leaves behind.  *)
EXTENDS Lifecycle, Drivers

\* The interleavings in which a call finds something missing are these, by
\* driver and entry point: a file that outlives the module or is used before
\* the buffer exists (chrdev, keylog, sum), the page freed before the files
\* (my_attrs), the list freed before the hook or never unhooked (net_hook),
\* a message before nl_sk is assigned (nl_socket), and the file add left
\* behind when creating sum fails.
UnsafeEntries == {"chrdev", "keylog", "sum", "add", "my_attrs", "net_hook", "nl_socket"}

\* In every other driver, and through every other entry point, no call runs
\* without the memory and the code it touches.
CallsSafeElsewhere == \A e \in calls \ UnsafeEntries : CallSafe(e)

\* What a failed init of each driver may leave registered or allocated.
Residue(d) ==
  CASE d = "hardware_map" -> {"vram"}
    [] d = "debugfs_basic" -> {"basics", "add"}
    [] d = "debugfs_jiffies" -> {"my_time"}
    [] d = "sysfs_example" -> {"page"}
    [] d = "network_procfs" -> {"cache", "root", "net_hook"}
    [] OTHER -> {}

\* The error paths of init release everything but the residue above.
FailureLeavesOnlyResidue == phase = "failed" => held \subseteq Residue(drv)

\* What a driver that was loaded and unloaded leaves allocated.
Leak(d) == IF d = "kernel_linked_list" THEN {"n1", "n2", "n3", "n4", "n5"} ELSE {}

\* Init and exit together give back everything init acquired, whatever init
\* missed, but for the nodes of the linked list.
ExitReleasesAll == phase = "out" => held = Leak(drv)

Context == {"KERNEL_DS", "preempt_off", "my_lock", "rcu", "kmap"}

\* The address limit, preemption, locks and mappings that init changes for a
\* while are as before when it ends, on its error paths and when a step it
\* does not notice has failed.
ContextRestored == phase # "init" => held \cap Context = {}

\* What init or exit touches without having it is what init has failed to
\* acquire and did not notice: the error pointer of class_create or filp_open, a
\* NULL cache, root, page, node or open_file, an unlinked hook, a css_set the
\* task has left.  Nothing is used before it is acquired or after it is given
\* back, and no file or hook is released twice.
FaultsOnlyUnnoticed == faults \subseteq unnoticed

-----------------------------------------------------------------------------
(* What the tables say, from which the above follows in every execution.   *)

ASSUME OrderAssumption ==
  \A d \in Driver : \A e \in Entries \ UnsafeEntries : OrderedFor(d, e)

ASSUME ResidueAssumption ==
  \A d \in Driver : \A i \in FailsAt(d) :
    Left(d, i, Setup[d][i].undo) \subseteq Residue(d)

ASSUME LeakAssumption ==
  \A d \in Driver :
    /\ Left(d, AtEnd(d), Teardown[d]) \subseteq Leak(d)
    /\ Leak(d) \subseteq SureBefore(d, AtEnd(d)) \ {"text"}
    /\ \A k \in 1..Len(Teardown[d]) : Teardown[d][k] \notin Leak(d)

ASSUME ContextAssumption ==
  \A d \in Driver : \A i \in FailsAt(d) \cup {AtEnd(d)} :
    MayHold(d, i) \cap Context = {}

ASSUME FaultAssumption == \A d \in Driver : UsesProvided(d)
==============================================================================
