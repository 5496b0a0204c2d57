# Verification of the kernel modules

TLA+ models of the kernel modules in `src/`, TLC configurations that check
them on small instances, and TLAPS proofs of the main results for all
instances.

## The system and its parts

The repository is a collection of small, independent Linux modules. Most of
them register callbacks with the kernel (files in `/dev`, `/proc`, debugfs and
sysfs, interrupt handlers, netfilter hooks, a netlink socket) in
`module_init`, are then called concurrently by the kernel, and take the
registration back in `module_exit`; some do all their work in `module_init`.
They meet only through the kernel, so there are two kinds of model: modules
about the callbacks of a driver and what they share, and one that runs the
loading and unloading of every driver.

| Part | Source | Module | State |
|---|---|---|---|
| keylog device | `keyboard_interrupt_misc_device.c` | `KeyLog` | modelled, proved |
| network accounting | `network_procfs.c` | `NetProc`, `CountTable`, `SeqPass` | modelled, proved |
| loading and unloading of 24 modules | see `Drivers` | `Lifecycle`, `Drivers` | modelled, proved |
| string files | `misc_char_dev.c`, `procfs.c`, `sysfs_example.c`, `kobjects.c` | `CharBuf` | modelled (in `kobjects.c` only foo), proved |
| sleeping under the lock | `misc_char_dev.c` | `RwSleep` | modelled, proved |
| ICMP blocking hook | `packet_block_protocol.c` | `PacketBlock` | modelled, proved |
| video memory device | `hardware_map.c` | `Vram` | modelled, proved |
| accumulator | `file_proc.c` | `SimAcc` | modelled, proved |
| debugfs sum | `debugfs_basic.c` | `DebugfsSum` | modelled, proved |
| listings through seq_file | `seq_file_procfs.c`, `network_procfs.c` | `SeqPass` | modelled, proved |
| kernel threads | `kernel_thread.c`, `thread_tree.c` | `KThread` | modelled, types proved |
| walk over all tasks | `thread_tree.c` | `TaskWalk` | modelled, proved |
| file access, pages, preemption | `vfs_basic.c`, `read_write_vfs.c`, `high_low_memory.c`, `preempt_schedule.c` | `Drivers` | modelled: what init takes and gives back |
| keyboard interrupt, USB pen, packet hooks that accept everything, debugfs jiffies | `keyboard_interrupt.c`, `usb_basic.c`, `packet_filter.c`, `packet_hello.c`, `debugfs_jiffies.c` | `Drivers` | modelled (they only register and log) |
| one-byte device, netlink, linked list, cgroup listing | `chardev_fops.c`, `netlink_module.c`, `kernel_linked_list.c`, `cgroups_iterate.c` | `Drivers` | partly |
| mouse, parameters, symbols, user programs, build script | `mouse_driver.c`, `parameters.c`, `kallsyms.c`, `manager.c`, `keyboard_interrupt_misc_device_test.c`, `driver.sh`, `Makefile` | | not modelled |

`PROJECT.json` maps every definition to the lines it models, and lists the
hazards of the code with the properties that cover them.

## The models

### KeyLog

Processes open `/dev/keylog`, read and close it; each keyboard interrupt runs
the handler once for every registered action; `rmmod` runs
`keylog_driver_exit`. `pc[p]`, `hpc` and `exitpc` are the control of a
process, of the handler and of `rmmod`. `kbuf` is the number of an allocation
in `heap`; a key stroke is the number of its interrupt, so that the order of
bytes can be stated. `intr_registered++` and `keys--` are a load and a store.
Opening is serialised by the misc layer's mutex; `release`, `read` and the
handler are not. `done` and `queued` are the counter and wait list of
`kbd_complete`; `init_completion` resets both. `raced` is history: two updates
of `intr_registered` have overlapped.

From the kernel: `request_irq` and `kmalloc` may fail, a signal ends an
interruptible wait, `free_irq` waits for a running handler, and file
operations without `.owner` do not stop `rmmod`.

### NetProc and CountTable

The hook runs on several CPUs and may interrupt a process that writes to
`/proc/net_proc` on the same CPU, which then cannot continue before the hook
ends. The list is a sequence of nodes; a node is linked (`ready = FALSE`)
before it is filled. `sock_buff` is the global pointer, here the CPU whose
packet it points to; `hook_func_log` reads `data_len` through it. A failed
allocation, a walk over freed memory and a step from a half-made node set
`undefined`, after which nothing is claimed. `logged` and `bytes` are history:
what the counters should be.

`CountTable` is what the list is for: a table from addresses to packets and
bytes, with one step to log a packet and one to clear everything. `NetProc`
implements it (`ImplementsTable`) under a mapping that reads an address's
numbers off its node, and zeros for an address without a node or with one not
yet filled. Which length is logged is left to `BytesExact`.

### Lifecycle, Drivers

`Drivers` holds, for each module, the steps of `module_init` in order: what
each acquires and gives back, what it uses, whether it can fail, whether the
test sees the failure, what the error path releases, and whether the step is
behind a test of what it uses. It also holds the releases of `module_exit` in
order, and for each entry point what its callbacks touch, whether an open file
pins the module and whether unregistering waits for running calls.
`Lifecycle` runs any such table, with the kernel calling every registered
entry point at any time. `OrderedFor(d, e)` is the discipline driver `d` should
follow for its entry point `e`: acquire what `e` needs before publishing it,
unpublish it before releasing that, in error paths too, and publish it only if
it pins the module or is drained. `SureBefore` and `MayHold` are what init
certainly and possibly has when it reaches a step, read off the table alone:
a resource may be held if some step acquires it and no later step is sure to
give it back, where a step behind a test is sure only if what it tests for was
there when the resource was acquired.

Resources are also what init changes for a while: the address limit
(`KERNEL_DS`), disabled preemption, a lock, an RCU section, a mapping.

`faults` is what init or exit has touched without having it; the machine stops
there. `unnoticed` is history: what init has failed to acquire, without seeing
the failure, when it last tried. A fault outside `unnoticed` would be a use
before the acquisition or after the release, or a second release.

### CharBuf

Writes to five files that keep a string: `my_write` of `misc_char_dev.c` and
`procfs.c`, `id_store` and `foo_store` of `sysfs_example.c`, `foo_store` of
`kobjects.c`. `driver` says which it is; `File`, `Locked`, `Terminated` and
`Compared` say what that file does. Bytes are stored one by one; a copy from
user memory may fault anywhere, after which the rest of the destination is
cleared. A byte stored outside the buffer sets `stray` and changes nothing the
model reads. `alone` and `last` are history: whether another write overlapped
this one, and who began last.

### RwSleep

The processors under `my_rwlock` of `misc_char_dev.c`. A process that spins,
or holds the lock, is not preempted; a page fault in the copy puts the holder
to sleep, and it needs a free processor to run on.

### PacketBlock

`hook_func` on several CPUs. `sock_buff` and `ip_header` are global; whether a
later use reads the global again or a register is the compiler's choice, so
the model takes either value at each use. Finding the header and storing it in
`ip_header` are two steps: a CPU may store the header of a packet that has
left the hook, after another packet has come. `during[k]` is history: the
packets that were in the hook while `k` was. A freed packet's header may hold
anything. Loads and stores take effect in the order of the program
(sequential consistency); store buffers are not modelled.

### Vram, SimAcc, DebugfsSum

`Vram`: `my_read` and `my_write` of `hardware_map.c`, byte by byte. A byte of
memory is the number of the call that wrote it last. `*off + len` is computed
modulo `Wrap`; that it does not wrap is an assumption, which the system call
layer guarantees by cutting lengths at 2^31 - 4096.

`SimAcc`: `simacc_write` by several processes: the copy, its fault, the end
mark (which is `;`, because the constant in the code is a multi-character
one), each turn of the loop, `sprintf`. `Total` is the reference: the sum of a
text's numbers, defined by the weight of each digit.

`DebugfsSum`: `sum += value` as a load and a store, truncated.

### SeqPass, KThread, TaskWalk

`SeqPass`: `seq_read` (external) over several read calls, calling `my_start`,
`my_show`, `my_next` and `my_stop`. A byte is a record and an index in it.

`KThread`: the thread of `kernel_thread.c` or `thread_tree.c` and the init and
exit of its module. `wakesAll` is the kernel: some versions of
`wake_up_process` do not wake a task that `set_task_state` has stopped.

`TaskWalk`: the loop of `hello_init` against tasks that fork, exit in steps,
leave the list (keeping their next pointer) and are freed.

### MCValues, MCCalls

Each puts several of the smaller modules into one specification, of which one
(`model`) runs. The modules share no variables and their drivers no data, so
letting them run at the same time would only multiply the states.

## The runs

| Run | What it shows |
|---|---|
| `KeyLog_one` | One process: a read uses memory it owns, bytes 1.. are the latest key first; a queued `rmmod` is woken, unless an open empties the wait list. |
| `KeyLog_two` | Two processes: no lost wake-up, no handler outlives its file, and `intr_registered` is the number of open files until two updates overlap. |
| `NetProc_all` | One node per address, nodes initialised unless locked, exact packet counts, and the list implements `CountTable`. Every packet gets a verdict and `rmmod` ends, unless a CPU deadlocks on its own lock (`SelfLocked`) or memory is corrupt. |
| `Lifecycle_all` | In all 24 modules: an entry point for which a driver follows the discipline is safe; seven entry points (`UnsafeEntries`) are the only ones that can be called without what they need; failed inits leave at most the residue listed; exits release everything but the nodes of `kernel_linked_list.c`; the address limit, locks and mappings are restored on every path; what init or exit touches without having it, init has failed to acquire and did not notice. |
| `CharBuf_two` | Two processes: the buffer is a terminated string between writes; a write that no other overlaps is judged on its own string, whatever earlier writes left; `foo` shows what was stored last. |
| `Values_all` | `hardware_map.c`: accesses stay in the memory, a write leaves bytes only where its result and offset say. `file_proc.c`: a write that no other overlaps leaves the sum of its text and of what lies behind it in the buffer; `result` is large enough for fewer than 16 digits. `debugfs_basic.c`: only adds that overlap are lost. |
| `Calls_all` | Listings consist of whole records in order, but never get beyond the first buffer. `rmmod` of `kernel_thread.c` ends unless the thread has been freed or is left stopped. The task walk ends or faults, and sees every task that stays. A wrong ICMP verdict is that of a packet in the hook at the same time, or together with one that was. Processors are lost to `my_rwlock` only by sleeping in the copy, with fewer processors than processes; otherwise calls return. |

Five runs end in a violation: the code disagrees with a comment of its own.
The findings in `PROJECT.json` quote them.

| Run | Disagreement |
|---|---|
| `KeyLog_rmmod_hangs` | `rmmod` can sleep for ever after the file is closed. |
| `KeyLog_unload` | The module can be removed under a reader. |
| `KeyLog_served` | A reader can miss the moment at which `keys` is 0. |
| `NetProc_bytes` | Bytes are counted for another CPU's packet. |
| `Seq_page` | A task list longer than a page is never listed to its end. |

The models also show, without a run of their own: byte 0 of a read from
`/dev/keylog` need not be a key stroke (the handler fills `kbuf` from index
`len` down to 1); a failed `request_irq` is counted in `intr_registered`; the
verdict of `misc_char_dev.c` can be on another process's string, although the
lock is taken (`VerdictWhenAlone` without `alone`); `rmmod` of
`thread_tree.c` does not wait for its thread; a reader of the seq_file
listings never sees the end of the file, except of an empty address list.

### Bounds

- KeyLog: one process with two opens, two reads of 0, 1 or 3 bytes and four
  key strokes (a read can be overtaken, interrupted and repeated on a stale
  `kbuf`); two processes with two opens, reads and key strokes, taken up to
  symmetry (each shared variable is contended).
- NetProc: two receiving CPUs, one of which also writes, a reader, two
  addresses, three packets: both CPUs can miss the same address, and a
  third packet finds the node.
- Lifecycle: no bound. A second concurrent call through the same entry point
  would be an identical element of `calls`.
- CharBuf: a buffer of five bytes, a target of three; the target, a prefix of
  it and a string longer than the buffer; three writes by two processes up to
  symmetry, so that a lone write can follow two that overlapped.
- Vram: three bytes, lengths 0, 2 and 4, four calls. SimAcc: a buffer of
  three, all texts of a digit and a separator that fit in it and one that does
  not, three writes by two processes; `unsigned long` modulo 150 and two bytes
  of `result`, so that sums wrap and digits reach the limit. DebugfsSum:
  modulo 8, values below and above it, four adds by two processes.
- SeqPass: up to four records of two bytes, a buffer for two records (a record
  that would fill it completely is given up), reads of 1, 3 and 8 bytes.
  TaskWalk: three tasks at the start, one more may fork. PacketBlock: three
  CPUs, three packets, one of them ICMP: enough for the verdict of a packet
  that left before another came, through a third that met both. RwSleep: three processes on one to
  three processors. KThread has no bound.

Deadlock checking is off in all runs: with bounded calls, or after unloading,
every system here may stop.

### Fairness

Only what has entered the kernel runs on: the steps of system calls, of a
handler or hook, of a runnable thread, of the task walk and of `rmmod` are
weakly fair. User actions, key strokes, packets, signals, forks and page
faults are not promised; a page that is missing does arrive. Acquiring
`net_lock` is strongly fair, since the kernel's spinlock is a ticket lock, and
so is acquiring `my_rwlock`, which is why `CallReturns` still lets a writer
starve while readers hold the lock without a gap. `Seq_page` assumes a reader
that goes on reading.

## The proofs

TLAPS proves these for every value of the constants, from the `ASSUME`s of
the modules, which TLC evaluates in the runs: the types of the constants;
`Proc` of `KeyLog` and `Caller` of `MCCalls` are finite; lengths do not wrap
(`ValuesAssumption`); the target string fits in the buffer (`CharBuf`); a
record is not empty and shorter than the first buffer (`SeqPass`). The
assumptions of `MCLifecycle` are conditions on the tables that TLC evaluates on
those of the repository: all entry points but the seven unsafe ones are kept to
the discipline (`OrderAssumption`); of what init may hold at a step that fails,
the step's releases leave only the residue (`ResidueAssumption`); of what it
may hold at its end, exit leaves only the leak, which it certainly holds
(`LeakAssumption`); it holds nothing of the context at either
(`ContextAssumption`); and what a step uses without a test, or what must
be there when it is released, comes from an earlier step without a test, no
step between gives it back, and it is released once (`FaultAssumption`).

- `KeyLogProofs`: `TypeCorrect`, `WakeupNotLost`, `HandlersBounded`,
  `CountRight`, and for one process `KbufOwned` and `KeysInOrder`. The
  inductive invariant is the type invariant with `Control`: a handler in
  progress has a call left to make, and a process in `read` waits for one of
  the lengths it can be given. With it `NoLostWakeup` is inductive: `keys`
  becomes 0 only in the handler's store, which leads to its wake-up, since a
  read stores a length that is not 0. `NoStrayHandler` needs that only open
  and close change the set of established descriptors, each by one element
  and together with the number of actions. `CountExact` needs that a process
  about to store has loaded the present value (`CountInv`), unless updates
  overlapped. With one process (`OneInv`) a read owns `kbuf` (`ReadOwns`), and
  above the index at which the handler stores next the keys are in order
  (`Filling`). The handler may have loaded that index before the reader's
  `keys = len`: then the buffer is still empty, or it is the reader's length
  (`Complete`).
- `NetProcProofs`: `TypeCorrect`, `NoDuplicateNodes`, `NodesReady`,
  `CountsAreExact`, `ReadersOutliveNothing`, `Refinement`. `IInv` adds to the
  properties that exactly the context holding `net_lock` is in its critical
  section (`LockInv`) and that a hook about to fill works on the tail, which
  has the address of its packet and is not counted (`FillInv`). For the
  counts, `CountInv` relates the list to the packets logged in every control
  state, also when a context has counted or cleared and not yet unlocked.
  `Refinement` shows that every step is a step of `CountTable` or leaves the
  table alone: a match changes one entry, linking a node none, filling it one,
  clearing all.
- `LifecycleProofs`: `TypeCorrect` and, for any tables with the conditions
  above, every other invariant of `Lifecycle_all`. All rest on `InitInv`: when
  init reaches a step it holds at least `SureBefore`, and everything it holds
  comes from a step that no later one was sure to give back, with what that
  step used still there or given back (`Origin`). The last clause is what the
  bound needs to be inductive: a step behind a test can be skipped only when
  what it tests for is missing. `FailuresLeaveResidue` and `ExitsReleaseAll`
  carry the bound through the releases (`LeftInv`), `ContextAlwaysRestored`
  needs it only where init ends. `FaultsAreUnnoticed` needs that what a step
  without a test should have acquired is there, failed unnoticed, or was given
  back (`Supplied`), and that what remains to be released and must be there is
  there or failed unnoticed, and remains once (`StrictInv`). `DisciplineSuffices` and `OthersAreSafe` are shown for each
  entry point on its own: while it can be called or is, it has what it needs
  (`CallInv`), and what remains to be released respects it as long as it is
  registered (`ReleaseInv`).
- `CharBufProofs`: `TypeCorrect`, `StringsEnd`, `VerdictsRight`,
  `LastStoresShown`. The invariant has two parts: who may be writing
  (`OwnInv`: the lock's holder, or, of a process that is alone, nobody else)
  and what is in the buffer (`DataInv`: the bytes copied so far by a writer
  whose bytes nobody else has touched).
- `SeqPassProofs` and `CallsProofs`: `WholeRecords` and `FirstBuffer`. The
  bytes a reader has got and those in the seq_file's buffer are one listing,
  in the order of the list, that ends with a whole record (`Listing`). A pass
  begins at the first record with an empty buffer (`Position`), so that a
  record in the buffer fits there behind all those before it (`Early`).
- `CallsProofs`: `WalkComplete`. The tasks in the list are linked in the order
  in which they were forked, in a circle (`ListInv`); from a task that has
  left it the pointers still lead on to every older task that stays, without
  skipping one (`OutInv`), so what has not been printed lies before the walk
  (`AheadInv`).
- `CallsProofs`: `VerdictsOverlap`. What a CPU in the hook can read from
  `sock_buff`, or has read, was in the hook together with its packet, so what
  it can read from `ip_header`, which a CPU in the hook with it has stored, was
  in the hook together with one that was (`GlobalInv`). That needs that packets
  in the hook at the same time know of each other (`PairInv`) and are not freed
  (`PacketInv`).
- `CallsProofs`: `LockStuckBySleep`. The lock is held exactly during the copy,
  and a process leaves its processor only by a fault in the copy (`HoldInv`);
  a holder off the processors then leaves at least one process too many for
  them. `CallTypes` collects the types of all models of `MCCalls`.
- `SimAccProofs` and `ValuesProofs`: `BufferSummed` and `SumFits`. `SumInv`
  says of a write that no other overlaps that the buffer keeps its text, its
  end mark and what lay behind (`Kept`), and that `sum` and `num` are, modulo
  `ULong`, the sums of the digits read so far, of closed numbers and of the
  open one (`InText`, `InRest`). That one turn of the loop keeps this is
  arithmetic: a digit multiplies the weights of the open number by ten
  (`TotDigit`), anything else closes it (`TotOther`). `SumFits` needs only that
  n digits make numbers below 10^n (`AccInv`), which also holds when writers
  overlap. The sums of the reference are folds over finite sets; what they
  compute is proved by taking a least counterexample (`Least`), since
  induction theorems cannot be instantiated.
- `ValuesProofs`: `AccessesInside`, `WritesAccounted`. The invariant says that
  the rest of a transfer fits (`Fits`), that call numbers are unique
  (`CallInv`, `Numbered`) and that the bytes of a running call are those its
  counter has passed (`DoneInv`).
- `ValuesProofs`: `OnlyOverlappedLost`. The sum, and every copy of it that a
  process has loaded, counts some of the adds that have ended and all of them
  that were apart (`AddInv`): a store then counts the one more that it ends,
  and an add that ends while another is in progress is not apart.
  `TypesCorrect` collects the types of the three models.

Only model-checked: the liveness properties, which are out of the prover's
reach (`QueuedExitCompletes`, `PacketVerdict`, `UnloadEnds`, `StopEnds`,
`WalkEnds`, `CallReturns`), and that the tables of the repository meet the
assumptions of `MCLifecycle`, which TLC evaluates. Every invariant that a
passing run checks has a theorem.

## Not modelled

- `mouse_driver.c`: a polling loop in init over two hardware ports, with no
  state and no other actor; how the controller answers is not in the
  repository.
- `parameters.c` prints its parameters. `kallsyms.c` uses an undeclared name
  and does not compile. `manager.c`, the test program, `driver.sh` and the
  `Makefile` are straight-line callers.
- `memory_read` and `memory_write` of `chardev_fops.c`, `b_show` and `b_store`
  of `kobjects.c`, `hello_nl_recv_msg` of `netlink_module.c`: one load, store
  or message in one call; nothing of another process comes in between. Calls
  before the buffer or socket exists are in `Lifecycle`.
- The order of the list in `kernel_linked_list.c`, and the loops that print in
  `cgroups_iterate.c` and over the children of kthreadd in `thread_tree.c`.
- `pread` and `pwrite`, which bring their own offset, in `Vram` and `CharBuf`;
  memory ordering weaker than sequential consistency; the contents of log
  messages.
