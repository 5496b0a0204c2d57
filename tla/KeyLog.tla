------------------------------- MODULE KeyLog -------------------------------
(***************************************************************************)
(* The /dev/keylog driver of keyboard_interrupt_misc_device.c: processes   *)
(* that open, read and close the misc device, the keyboard interrupt that  *)
(* fills the global buffer kbuf, and rmmod running keylog_driver_exit.     *)
(*                                                                         *)
(* The file operations have no .owner, so rmmod is not refused while a     *)
(* file is open.  misc_open and misc_deregister hold misc_mtx around the   *)
(* driver's open; nothing serialises release, read and the interrupt.      *)
(* Unsynchronised read-modify-write accesses to intr_registered and keys   *)
(* are split in a load and a store.                                        *)
(***************************************************************************)
EXTENDS Integers, FiniteSets

CONSTANTS
  Proc,        \* processes, each with at most one descriptor of /dev/keylog
  ReadLen,     \* the lengths passed to read(2)
  MaxOpens,    \* bound: calls of open(2)
  MaxReads,    \* bound: calls of read(2), one kmalloc each
  MaxKeys      \* bound: keyboard interrupts

ASSUME KeyLogAssumption ==
  /\ IsFiniteSet(Proc)
  /\ ReadLen \subseteq Nat
  /\ {MaxOpens, MaxReads, MaxKeys} \subseteq Nat

VARIABLES
  pc,              \* where each process is in open, read or release
  reg,             \* the value of intr_registered a process has loaded
  want, since,     \* len of the current read; interrupts seen when it began
  ubuf,            \* the bytes copied to the user by the last read
  opens, allocs,   \* calls of open and of kmalloc so far
  actions,         \* irqactions registered on the line for dev_id &device
  intr_registered,
  raced,           \* two accesses to intr_registered have overlapped
  done, queued,    \* kbd_complete: its counter; is rmmod on its wait list?
  kbuf, keys,      \* kbuf is an allocation number or NULL
  heap,            \* the allocations made by keylog_read
  struck,          \* keyboard interrupts so far: the n-th scancode is n
  hpc, hbuf, hkeys, hleft, \* the handler: control, registers, calls to make
  exitpc           \* where rmmod is in keylog_driver_exit

procVars == <<pc, reg, want, since, ubuf>>
countVars == <<opens, actions, intr_registered, raced>>
compVars == <<done, queued>>
bufVars == <<kbuf, heap, allocs>>
handlerVars == <<struck, hpc, hbuf, hkeys, hleft>>
vars == <<procVars, countVars, compVars, bufVars, keys, handlerVars, exitpc>>

NULL == 0
Junk == 0        \* a byte kmalloc returned and nobody wrote

Opening == {"o_count", "o_init"}
Reading == {"r_keys", "r_wait", "r_asleep", "r_copy", "r_free"}
Closing == {"c_count", "c_complete"}
Label == {"closed", "open"} \cup Opening \cup Reading \cup Closing

Goto(p, l) == pc' = [pc EXCEPT ![p] = l]

\* Process p loads intr_registered, to store it changed in its next step.
Counting == {p \in Proc : pc[p] \in {"o_count", "c_count"}}
LoadCount(p) ==
  /\ reg' = [reg EXCEPT ![p] = intr_registered]
  /\ raced' = (raced \/ Counting # {})

Loaded == exitpc # "gone"
At(p, l) == Loaded /\ pc[p] = l
HandlerAt(l) == Loaded /\ hpc = l

Init ==
  /\ pc = [p \in Proc |-> "closed"]
  /\ reg = [p \in Proc |-> 0]
  /\ want = [p \in Proc |-> 0]
  /\ since = [p \in Proc |-> 0]
  /\ ubuf = [p \in Proc |-> [i \in {} |-> Junk]]
  /\ opens = 0 /\ actions = 0 /\ intr_registered = 0 /\ raced = FALSE
  /\ done = 0 /\ queued = FALSE
  /\ kbuf = NULL /\ keys = 0 /\ allocs = 0
  /\ heap = [b \in 1..MaxReads |-> [live |-> FALSE, data |-> [i \in {} |-> Junk]]]
  /\ struck = 0 /\ hpc = "idle" /\ hbuf = NULL /\ hkeys = 0 /\ hleft = 0
  /\ exitpc = "none"

-----------------------------------------------------------------------------
(* open(2), under misc_mtx.                                                *)

mut_count_if_registered(p) ==
  /\ At(p, "o_count")
  /\ intr_registered' = IF actions > 0 THEN reg[p] + 1 ELSE reg[p]
  /\ Goto(p, "o_init")
  /\ UNCHANGED <<reg, want, since, ubuf, opens, actions, raced, compVars, bufVars,
                 keys, handlerVars, exitpc>>

\* request_irq on the shared line; a failure is only logged.
keylog_open(p) ==
  /\ At(p, "closed") /\ opens < MaxOpens
  /\ \A q \in Proc : pc[q] \notin Opening
  /\ actions' \in {actions + 1, actions}
  /\ opens' = opens + 1
  /\ LoadCount(p)
  /\ Goto(p, "o_count")
  /\ UNCHANGED <<want, since, ubuf, intr_registered, compVars, bufVars, keys,
                 handlerVars, exitpc>>

\* intr_registered++ (the store).
keylog_open_count(p) ==
  /\ At(p, "o_count")
  /\ intr_registered' = reg[p] + 1
  /\ Goto(p, "o_init")
  /\ UNCHANGED <<reg, want, since, ubuf, opens, actions, raced, compVars, bufVars,
                 keys, handlerVars, exitpc>>

\* init_completion empties the wait list, whoever is on it.
keylog_open_init(p) ==
  /\ At(p, "o_init")
  /\ done' = 0 /\ queued' = FALSE
  /\ Goto(p, "open")
  /\ UNCHANGED <<reg, want, since, ubuf, countVars, bufVars, keys, handlerVars,
                 exitpc>>

-----------------------------------------------------------------------------
(* release.  free_irq waits for a handler in progress (external).          *)

mut_close_keeps_irq(p) ==
  /\ At(p, "open")
  /\ LoadCount(p)
  /\ Goto(p, "c_count")
  /\ UNCHANGED <<want, since, ubuf, opens, actions, intr_registered, compVars, bufVars, keys,
                 handlerVars, exitpc>>

\* free_irq removes one action with this dev_id, no matter who added it.
keylog_close(p) ==
  /\ At(p, "open") /\ hpc = "idle"
  /\ actions' = IF actions > 0 THEN actions - 1 ELSE 0
  /\ LoadCount(p)
  /\ Goto(p, "c_count")
  /\ UNCHANGED <<want, since, ubuf, opens, intr_registered, compVars, bufVars,
                 keys, handlerVars, exitpc>>

\* intr_registered-- (the store).
keylog_close_count(p) ==
  /\ At(p, "c_count")
  /\ intr_registered' = reg[p] - 1
  /\ Goto(p, "c_complete")
  /\ UNCHANGED <<reg, want, since, ubuf, opens, actions, raced, compVars, bufVars,
                 keys, handlerVars, exitpc>>

mut_close_no_complete(p) ==
  /\ At(p, "c_complete")
  /\ Goto(p, "closed")
  /\ UNCHANGED <<reg, want, since, ubuf, countVars, compVars, bufVars, keys,
                 handlerVars, exitpc>>

\* complete(&kbd_complete) wakes rmmod if it is on the wait list.
keylog_close_complete(p) ==
  /\ At(p, "c_complete")
  /\ done' = done + 1
  /\ exitpc' = IF queued /\ exitpc = "asleep" THEN "woken" ELSE exitpc
  /\ Goto(p, "closed")
  /\ UNCHANGED <<reg, want, since, ubuf, countVars, queued, bufVars, keys,
                 handlerVars>>

-----------------------------------------------------------------------------
(* read(2).                                                                *)

mut_reuse_kbuf(p, n) ==
  /\ At(p, "open") /\ allocs < MaxReads
  /\ allocs' = allocs + 1
  /\ IF kbuf = NULL
       THEN /\ kbuf' = allocs'
            /\ heap' = [heap EXCEPT ![allocs'] =
                          [live |-> TRUE, data |-> [i \in 0..(n - 1) |-> Junk]]]
       ELSE UNCHANGED <<kbuf, heap>>
  /\ want' = [want EXCEPT ![p] = n]
  /\ Goto(p, "r_keys")
  /\ UNCHANGED <<reg, since, ubuf, countVars, compVars, keys, handlerVars, exitpc>>

\* kbuf = kmalloc(len), which may fail; the result is not tested.
keylog_read(p, n) ==
  /\ At(p, "open") /\ allocs < MaxReads
  /\ allocs' = allocs + 1
  /\ \/ /\ kbuf' = allocs'
        /\ heap' = [heap EXCEPT ![allocs'] =
                      [live |-> TRUE, data |-> [i \in 0..(n - 1) |-> Junk]]]
     \/ n > 0 /\ kbuf' = NULL /\ UNCHANGED heap
  /\ want' = [want EXCEPT ![p] = n]
  /\ Goto(p, "r_keys")
  /\ UNCHANGED <<reg, since, ubuf, countVars, compVars, keys, handlerVars, exitpc>>

keylog_read_keys(p) ==
  /\ At(p, "r_keys")
  /\ keys' = want[p]
  /\ since' = [since EXCEPT ![p] = struck]
  /\ Goto(p, "r_wait")
  /\ UNCHANGED <<reg, want, ubuf, countVars, compVars, bufVars, handlerVars, exitpc>>

\* wait_event_interruptible: test the condition, otherwise sleep on key_wait.
keylog_read_wait(p) ==
  /\ At(p, "r_wait")
  /\ Goto(p, IF keys = 0 THEN "r_copy" ELSE "r_asleep")
  /\ UNCHANGED <<reg, want, since, ubuf, countVars, compVars, bufVars, keys,
                 handlerVars, exitpc>>

\* A signal ends the wait; kbuf keeps its value.
keylog_read_signal(p) ==
  /\ At(p, "r_asleep")
  /\ Goto(p, "open")
  /\ UNCHANGED <<reg, want, since, ubuf, countVars, compVars, bufVars, keys,
                 handlerVars, exitpc>>

\* copy_to_user from the global kbuf; on a fault read returns without kfree.
keylog_read_copy(p) ==
  /\ At(p, "r_copy")
  /\ \/ /\ kbuf # NULL
        /\ LET data == heap[kbuf].data IN
           ubuf' = [ubuf EXCEPT ![p] = [i \in 0..(want[p] - 1) |->
                      IF i \in DOMAIN data THEN data[i] ELSE Junk]]
        /\ Goto(p, "r_free")
     \/ Goto(p, "open") /\ UNCHANGED ubuf
  /\ UNCHANGED <<reg, want, since, countVars, compVars, bufVars, keys,
                 handlerVars, exitpc>>

\* kfree(kbuf); kbuf is not reset.
keylog_read_free(p) ==
  /\ At(p, "r_free")
  /\ heap' = IF kbuf = NULL THEN heap ELSE [heap EXCEPT ![kbuf].live = FALSE]
  /\ Goto(p, "open")
  /\ UNCHANGED <<reg, want, since, ubuf, countVars, compVars, kbuf, allocs, keys,
                 handlerVars, exitpc>>

-----------------------------------------------------------------------------
(* The interrupt: testirq_handler runs once per registered action.         *)

HandlerReturn ==
  /\ hleft' = hleft - 1
  /\ hpc' = IF hleft > 1 THEN "entry" ELSE "idle"

Interrupt ==
  /\ HandlerAt("idle") /\ actions > 0 /\ struck < MaxKeys
  /\ struck' = struck + 1
  /\ hleft' = actions
  /\ hpc' = "entry"
  /\ UNCHANGED <<procVars, countVars, compVars, bufVars, keys, hbuf, hkeys, exitpc>>

mut_no_null_test ==
  /\ HandlerAt("entry")
  /\ hbuf' = kbuf /\ hkeys' = keys
  /\ hpc' = "store" /\ UNCHANGED hleft
  /\ UNCHANGED <<procVars, countVars, compVars, bufVars, keys, struck, exitpc>>

\* if (kbuf), and the loads of kbuf[keys--].
testirq_handler ==
  /\ HandlerAt("entry")
  /\ IF kbuf = NULL
       THEN HandlerReturn /\ UNCHANGED <<hbuf, hkeys>>
       ELSE /\ hbuf' = kbuf /\ hkeys' = keys
            /\ hpc' = "store" /\ UNCHANGED hleft
  /\ UNCHANGED <<procVars, countVars, compVars, bufVars, keys, struck, exitpc>>

\* The stores of kbuf[i] = scancode and of keys, then the test of keys.  A
\* store outside the allocation changes no byte that the driver reads.
HandlerStore(i, last) ==
  /\ HandlerAt("store")
  /\ keys' = hkeys - 1
  /\ heap' = IF i \in DOMAIN heap[hbuf].data
               THEN [heap EXCEPT ![hbuf].data[i] = struck]
               ELSE heap
  /\ IF keys' = last THEN hpc' = "wake" /\ UNCHANGED hleft ELSE HandlerReturn
  /\ UNCHANGED <<procVars, countVars, compVars, kbuf, allocs, struck, hbuf,
                 hkeys, exitpc>>

mut_store_ascending == HandlerStore(Cardinality(DOMAIN heap[hbuf].data) - hkeys, 0)
mut_wake_at_one == HandlerStore(hkeys, 1)

\* kbuf[keys--] = scancode; if (keys == 0) ...
testirq_handler_store == HandlerStore(hkeys, 0)

\* wake_up_interruptible(&key_wait)
testirq_handler_wake ==
  /\ HandlerAt("wake")
  /\ pc' = [p \in Proc |-> IF pc[p] = "r_asleep" THEN "r_wait" ELSE pc[p]]
  /\ HandlerReturn
  /\ UNCHANGED <<reg, want, since, ubuf, countVars, compVars, bufVars, keys,
                 struck, hbuf, hkeys, exitpc>>

-----------------------------------------------------------------------------
(* rmmod.                                                                  *)

keylog_driver_exit ==
  /\ exitpc = "none"
  /\ exitpc' = IF intr_registered # 0 THEN "wait" ELSE "dereg"
  /\ UNCHANGED <<procVars, countVars, compVars, bufVars, keys, handlerVars>>

\* wait_for_completion: consume a completion, or queue and sleep.
wait_for_completion ==
  /\ exitpc \in {"wait", "woken"}
  /\ IF done > 0
       THEN done' = done - 1 /\ queued' = FALSE /\ exitpc' = "dereg"
       ELSE /\ queued' = (exitpc = "wait" \/ queued)
            /\ exitpc' = "asleep" /\ UNCHANGED done
  /\ UNCHANGED <<procVars, countVars, bufVars, keys, handlerVars>>

\* misc_deregister takes misc_mtx; afterwards the module's memory is freed.
misc_deregister ==
  /\ exitpc = "dereg"
  /\ \A p \in Proc : pc[p] \notin Opening
  /\ exitpc' = "gone"
  /\ UNCHANGED <<procVars, countVars, compVars, bufVars, keys, handlerVars>>

-----------------------------------------------------------------------------
OpenSteps(p) == keylog_open_count(p) \/ keylog_open_init(p)
CloseSteps(p) == keylog_close_count(p) \/ keylog_close_complete(p)
ReadSteps(p) == \/ keylog_read_keys(p) \/ keylog_read_wait(p)
                \/ keylog_read_copy(p) \/ keylog_read_free(p)
HandlerSteps == testirq_handler \/ testirq_handler_store \/ testirq_handler_wake
ExitSteps == wait_for_completion \/ misc_deregister

Next ==
  \/ \E p \in Proc :
       \/ keylog_open(p) \/ OpenSteps(p)
       \/ keylog_close(p) \/ CloseSteps(p)
       \/ \E n \in ReadLen : keylog_read(p, n)
       \/ ReadSteps(p) \/ keylog_read_signal(p)
  \/ Interrupt \/ HandlerSteps
  \/ keylog_driver_exit \/ ExitSteps

\* What has entered the kernel runs on; what the user or the keyboard may do
\* (open, read, close, rmmod, a signal, a key) is not promised.
Fairness ==
  /\ \A p \in Proc : WF_vars(OpenSteps(p) \/ CloseSteps(p) \/ ReadSteps(p))
  /\ WF_vars(HandlerSteps)
  /\ WF_vars(ExitSteps)

Spec == Init /\ [][Next]_vars
FairSpec == Spec /\ Fairness

-----------------------------------------------------------------------------
(* Properties.                                                             *)

Bytes == UNION {[0..(n - 1) -> 0..MaxKeys] : n \in ReadLen \cup {0}}

\* Every variable of the driver stays in its type; kbuf is NULL or an
\* allocation of keylog_read.
TypeOK ==
  /\ pc \in [Proc -> Label]
  /\ reg \in [Proc -> Int]
  /\ want \in [Proc -> ReadLen \cup {0}]
  /\ since \in [Proc -> 0..MaxKeys]
  /\ ubuf \in [Proc -> Bytes]
  /\ opens \in 0..MaxOpens /\ actions \in Nat /\ intr_registered \in Int
  /\ raced \in BOOLEAN
  /\ done \in Nat /\ queued \in BOOLEAN
  /\ allocs \in 0..MaxReads /\ kbuf \in 0..allocs /\ keys \in Int
  /\ heap \in [1..MaxReads -> [live : BOOLEAN, data : Bytes]]
  /\ struck \in 0..MaxKeys
  /\ hpc \in {"idle", "entry", "store", "wake"}
  /\ hbuf \in 0..allocs /\ hkeys \in Int /\ hleft \in Nat
  /\ exitpc \in {"none", "wait", "asleep", "woken", "dereg", "gone"}
  /\ hpc = "store" => hbuf # NULL

\* No wake-up of key_wait is lost: a reader sleeps while keys is 0 only
\* during the instants between the handler's store of 0 and its wake_up.
\* (A read of length 0 stores keys = 0 and wakes nobody.)
NoLostWakeup ==
  0 \notin ReadLen =>
    \A p \in Proc : pc[p] = "r_asleep" /\ keys = 0 => hpc = "wake"

\* Handlers never outlive the files: there are no more irqactions than
\* descriptors between request_irq and free_irq, whoever frees whose.
NoStrayHandler ==
  actions <= Cardinality({p \in Proc : pc[p] \notin {"closed"} \cup Closing})

\* intr_registered, by which rmmod decides whether to wait, is the number of
\* descriptors between the ++ of keylog_open and the -- of keylog_close, whether
\* or not request_irq succeeded, until two such accesses overlap.
CountExact ==
  ~raced => intr_registered =
    Cardinality({p \in Proc : pc[p] \notin {"closed", "o_count", "c_complete"}})

\* With one process, what read copies and frees is not already freed.
ReadOwnsKbuf ==
  \A p \in Proc : pc[p] \in {"r_copy", "r_free"} /\ kbuf # NULL => heap[kbuf].live

\* With one process, the bytes 1.. of a completed read hold key strokes
\* latest first, since the handler fills kbuf from its end.
LatestKeyFirst ==
  \A p \in Proc : \A i, j \in DOMAIN ubuf[p] :
    /\ 0 < i /\ i < j
    /\ ubuf[p][i] # Junk /\ ubuf[p][j] # Junk
    => ubuf[p][i] >= ubuf[p][j]

\* rmmod on the wait list of kbd_complete is not forgotten: it removes the
\* device, or a file stays open, or another open empties the wait list.
QueuedExitCompletes ==
  (exitpc \in {"asleep", "woken"} /\ queued)
    ~> (exitpc = "gone" \/ ~queued \/ \E p \in Proc : pc[p] # "closed")

\* "wait for it to complete before removing the char device": rmmod removes
\* the device unless a file stays open.
ExitCompletes ==
  exitpc # "none" ~> (exitpc = "gone" \/ \E p \in Proc : pc[p] # "closed")

\* "We wait for completion of read call when rmmod is called": the module is
\* never removed with a process inside read.
UnloadWaitsForRead ==
  exitpc = "gone" => \A p \in Proc : pc[p] \notin Reading

\* "wait for the number of reads the user wants": a reader whose kmalloc
\* succeeded and that has been sent that many key strokes stops waiting.
ReaderServed ==
  \A p \in Proc :
    (/\ pc[p] \in {"r_wait", "r_asleep"} /\ kbuf # NULL
     /\ struck - since[p] >= want[p])
      ~> (pc[p] \notin {"r_wait", "r_asleep"} \/ ~Loaded)
=============================================================================
