------------------------------- MODULE NetProc -------------------------------
(***************************************************************************)
(* network_procfs.c: a netfilter hook that keeps, per source address, a    *)
(* packet and a byte count in a linked list, and /proc/net_proc, which     *)
(* lists it (read, without the lock) and clears it (write).                *)
(*                                                                         *)
(* The hook runs in softirq context: on its CPU it runs to the end before  *)
(* the process it interrupted continues.  my_write takes net_lock with     *)
(* spin_lock, which leaves softirqs enabled.  The list only grows until    *)
(* cleanup_packet frees it, so it is a sequence of nodes; root, which      *)
(* never holds an address, is position 0, and tail is its last position.   *)
(***************************************************************************)
EXTENDS Integers, Sequences

CONSTANTS
  RxCpu,      \* CPUs on which packets arrive
  WrCpu,      \* CPUs on which a process may write to /proc/net_proc
  Reader,     \* processes reading /proc/net_proc
  Addr,       \* source addresses
  DataLen,    \* values of skb->data_len
  None,       \* no packet; net_lock is not held
  MaxPackets  \* bound: packets received

ASSUME NetProcAssumption ==
  /\ DataLen \subseteq Nat /\ MaxPackets \in Nat
  /\ None \notin RxCpu
  /\ None \notin [addr : Addr, len : DataLen]
  /\ None \notin (RxCpu \X {"rx"}) \cup (WrCpu \X {"wr"})

VARIABLES
  list,       \* the nodes after root, in list order
  net_lock,   \* the context that holds the lock, or None
  sock_buff,  \* the global pointer: the CPU whose packet it points to
  rx, skb, size, \* per CPU: the hook's control, its argument, its data_size
  wr,         \* per CPU: my_write
  rd,         \* per reader: position of seq_file's v, 0 outside a pass
  exitpc,     \* where cleanup_packet is
  undefined,  \* the kernel has dereferenced NULL, freed or garbage memory
  packets,    \* packets received so far
  logged, bytes \* per address: packets accepted and their bytes since a clear

hookVars == <<rx, skb, size, sock_buff, packets>>
ghostVars == <<logged, bytes>>
vars == <<list, net_lock, hookVars, wr, rd, exitpc, undefined, ghostVars>>

Packet == [addr : Addr, len : DataLen]
Node == [addr : Addr, count : Nat, data : Nat, ready : BOOLEAN]

Running == ~undefined /\ exitpc # "gone"
Freed == exitpc \in {"unhook", "sync", "gone"}     \* free(root) has run
InProc == exitpc = "none"                          \* the /proc entry exists
Hooked == exitpc \in {"none", "rmproc", "unhook"}  \* nfho is registered

RxAt(c, l) == Running /\ rx[c] = l
\* A process runs on its CPU only while no softirq does.
WrAt(c, l) == Running /\ wr[c] = l /\ (c \in RxCpu => rx[c] = "idle")
RxGoto(c, l) == rx' = [rx EXCEPT ![c] = l]
WrGoto(c, l) == wr' = [wr EXCEPT ![c] = l]

\* The position of the first node for address a, 0 if there is none.
Matches(a) == {i \in 1..Len(list) : list[i].addr = a}
Match(a) == IF Matches(a) = {} THEN 0
            ELSE CHOOSE i \in Matches(a) : \A j \in Matches(a) : i <= j

\* atomic_set, atomic_inc and atomic64_add on a node's counters.
Recount(node, k, d) == [node EXCEPT !.count = k, !.data = d]

\* The state init_packet leaves behind when it succeeds.
Init ==
  /\ list = <<>> /\ net_lock = None
  /\ rx = [c \in RxCpu |-> "idle"] /\ skb = [c \in RxCpu |-> None]
  /\ size = [c \in RxCpu |-> 0] /\ sock_buff = None
  /\ wr = [c \in WrCpu |-> "idle"] /\ rd = [r \in Reader |-> 0]
  /\ exitpc = "none" /\ undefined = FALSE /\ packets = 0
  /\ logged = [a \in Addr |-> 0] /\ bytes = [a \in Addr |-> 0]

-----------------------------------------------------------------------------
(* The hook.  The source address is formatted from the header just looked  *)
(* up; data_len is read through sock_buff again after two external calls.  *)

hook_func(c, p) ==
  /\ RxAt(c, "idle") /\ Hooked /\ packets < MaxPackets
  /\ packets' = packets + 1
  /\ skb' = [skb EXCEPT ![c] = p]
  /\ sock_buff' = c
  /\ RxGoto(c, "log")
  /\ UNCHANGED <<list, net_lock, size, wr, rd, exitpc, undefined, ghostVars>>

\* The packet sock_buff points to may by now belong to another CPU; once that
\* CPU has left the hook the memory may hold any packet.
hook_func_log(c) ==
  /\ RxAt(c, "log")
  /\ \E n \in IF skb[sock_buff] = None THEN DataLen ELSE {skb[sock_buff].len} :
       size' = [size EXCEPT ![c] = n]
  /\ RxGoto(c, "spin")
  /\ UNCHANGED <<list, net_lock, skb, sock_buff, packets, wr, rd, exitpc,
                 undefined, ghostVars>>

mut_no_lock(c) ==
  /\ RxAt(c, "spin")
  /\ net_lock' = <<c, "rx">>
  /\ RxGoto(c, "scan")
  /\ UNCHANGED <<list, skb, size, sock_buff, packets, wr, rd, exitpc,
                 undefined, ghostVars>>

\* spin_lock(&net_lock) in add_to_list_network
add_to_list_lock(c) ==
  /\ RxAt(c, "spin") /\ net_lock = None
  /\ net_lock' = <<c, "rx">>
  /\ RxGoto(c, "scan")
  /\ UNCHANGED <<list, skb, size, sock_buff, packets, wr, rd, exitpc,
                 undefined, ghostVars>>

\* The search loop; a match is counted, otherwise a node is linked at tail.
\* The new node holds garbage until add_to_list_fill.  A failed allocation is
\* dereferenced.
add_to_list_scan(c) ==
  /\ RxAt(c, "scan")
  /\ LET a == skb[c].addr
         i == Match(a) IN
     \/ Freed /\ undefined' = TRUE /\ UNCHANGED <<list, rx>>
     \/ /\ ~Freed /\ i # 0
        /\ list' = [list EXCEPT ![i] = Recount(@, @.count + 1, @.data + size[c])]
        /\ RxGoto(c, "unlock") /\ UNCHANGED undefined
     \/ /\ ~Freed /\ i = 0
        /\ list' = Append(list, [addr |-> a, count |-> 0, data |-> 0, ready |-> FALSE])
        /\ RxGoto(c, "fill") /\ UNCHANGED undefined
     \/ ~Freed /\ i = 0 /\ undefined' = TRUE /\ UNCHANGED <<list, rx>>
  /\ UNCHANGED <<net_lock, skb, size, sock_buff, packets, wr, rd, exitpc, ghostVars>>

mut_fill_no_data(c) ==
  /\ RxAt(c, "fill")
  /\ IF Freed
       THEN undefined' = TRUE /\ UNCHANGED <<list, rx>>
       ELSE /\ list' = [list EXCEPT ![Len(list)].addr = skb[c].addr,
                                    ![Len(list)].count = 1,
                                    ![Len(list)].ready = TRUE]
            /\ RxGoto(c, "unlock") /\ UNCHANGED undefined
  /\ UNCHANGED <<net_lock, skb, size, sock_buff, packets, wr, rd, exitpc, ghostVars>>

\* count, data_used, addr and next of the new tail.
add_to_list_fill(c) ==
  /\ RxAt(c, "fill")
  /\ IF Freed
       THEN undefined' = TRUE /\ UNCHANGED <<list, rx>>
       ELSE /\ list' = [list EXCEPT ![Len(list)] =
                          [addr |-> skb[c].addr, count |-> 1, data |-> size[c],
                           ready |-> TRUE]]
            /\ RxGoto(c, "unlock") /\ UNCHANGED undefined
  /\ UNCHANGED <<net_lock, skb, size, sock_buff, packets, wr, rd, exitpc, ghostVars>>

mut_no_unlock(c) ==
  /\ RxAt(c, "unlock")
  /\ logged' = [logged EXCEPT ![skb[c].addr] = @ + 1]
  /\ bytes' = [bytes EXCEPT ![skb[c].addr] = @ + skb[c].len]
  /\ skb' = [skb EXCEPT ![c] = None]
  /\ size' = [size EXCEPT ![c] = 0]
  /\ RxGoto(c, "idle")
  /\ UNCHANGED <<list, net_lock, sock_buff, packets, wr, rd, exitpc, undefined>>

\* spin_unlock, and the hook returns NF_ACCEPT.
add_to_list_unlock(c) ==
  /\ RxAt(c, "unlock")
  /\ net_lock' = None
  /\ logged' = [logged EXCEPT ![skb[c].addr] = @ + 1]
  /\ bytes' = [bytes EXCEPT ![skb[c].addr] = @ + skb[c].len]
  /\ skb' = [skb EXCEPT ![c] = None]
  /\ size' = [size EXCEPT ![c] = 0]
  /\ RxGoto(c, "idle")
  /\ UNCHANGED <<list, sock_buff, packets, wr, rd, exitpc, undefined>>

-----------------------------------------------------------------------------
(* write(2) on /proc/net_proc: clear the counters.                         *)

my_write(c) ==
  /\ WrAt(c, "idle") /\ InProc
  /\ WrGoto(c, "spin")
  /\ UNCHANGED <<list, net_lock, hookVars, rd, exitpc, undefined, ghostVars>>

my_write_lock(c) ==
  /\ WrAt(c, "spin") /\ net_lock = None
  /\ net_lock' = <<c, "wr">>
  /\ WrGoto(c, "clear")
  /\ UNCHANGED <<list, hookVars, rd, exitpc, undefined, ghostVars>>

mut_clear_first(c) ==
  /\ WrAt(c, "clear")
  /\ list' = [i \in DOMAIN list |->
                IF i = 1 THEN Recount(list[i], 0, 0) ELSE list[i]]
  /\ WrGoto(c, "unlock")
  /\ UNCHANGED <<net_lock, hookVars, rd, exitpc, undefined, ghostVars>>

my_write_clear(c) ==
  /\ WrAt(c, "clear")
  /\ list' = [i \in DOMAIN list |-> Recount(list[i], 0, 0)]
  /\ WrGoto(c, "unlock")
  /\ UNCHANGED <<net_lock, hookVars, rd, exitpc, undefined, ghostVars>>

my_write_unlock(c) ==
  /\ WrAt(c, "unlock")
  /\ net_lock' = None
  /\ logged' = [a \in Addr |-> 0] /\ bytes' = [a \in Addr |-> 0]
  /\ WrGoto(c, "idle")
  /\ UNCHANGED <<list, hookVars, rd, exitpc, undefined>>

-----------------------------------------------------------------------------
(* read(2) on /proc/net_proc: a pass of seq_read, without net_lock.        *)

\* my_start returns root->next; NULL ends the pass at once.
my_start(r) ==
  /\ Running /\ InProc /\ rd[r] = 0 /\ list # <<>>
  /\ rd' = [rd EXCEPT ![r] = 1]
  /\ UNCHANGED <<list, net_lock, hookVars, wr, exitpc, undefined, ghostVars>>

mut_next_past_end(r) ==
  /\ Running /\ rd[r] # 0
  /\ IF Freed \/ ~list[rd[r]].ready
       THEN undefined' = TRUE /\ UNCHANGED rd
       ELSE /\ rd' = [rd EXCEPT ![r] = IF @ <= Len(list) THEN @ + 1 ELSE 0]
            /\ UNCHANGED undefined
  /\ UNCHANGED <<list, net_lock, hookVars, wr, exitpc, ghostVars>>

\* my_show, then my_next.  The next pointer of a node that is not filled yet
\* is garbage: NULL or a wild pointer.
my_next(r) ==
  /\ Running /\ rd[r] # 0
  /\ IF Freed \/ ~list[rd[r]].ready
       THEN undefined' = TRUE /\ UNCHANGED rd
       ELSE /\ rd' = [rd EXCEPT ![r] = IF @ < Len(list) THEN @ + 1 ELSE 0]
            /\ UNCHANGED undefined
  /\ UNCHANGED <<list, net_lock, hookVars, wr, exitpc, ghostVars>>

\* seq_read's buffer is full: the pass ends early.
my_stop(r) ==
  /\ Running /\ rd[r] # 0
  /\ rd' = [rd EXCEPT ![r] = 0]
  /\ UNCHANGED <<list, net_lock, hookVars, wr, exitpc, undefined, ghostVars>>

-----------------------------------------------------------------------------
(* rmmod: cleanup_packet.                                                  *)

remove_proc_entry ==
  /\ Running /\ exitpc = "none"
  /\ exitpc' = "rmproc"
  /\ UNCHANGED <<list, net_lock, hookVars, wr, rd, undefined, ghostVars>>

\* remove_proc_entry returns when no call into the file is in progress; then
\* free(root) and kmem_cache_destroy.  The hook is still registered.
free_list ==
  /\ Running /\ exitpc = "rmproc"
  /\ \A r \in Reader : rd[r] = 0
  /\ \A c \in WrCpu : wr[c] = "idle"
  /\ exitpc' = "unhook"
  /\ UNCHANGED <<list, net_lock, hookVars, wr, rd, undefined, ghostVars>>

nf_unregister_hook ==
  /\ Running /\ exitpc = "unhook"
  /\ exitpc' = "sync"
  /\ UNCHANGED <<list, net_lock, hookVars, wr, rd, undefined, ghostVars>>

\* nf_unregister_hook returns when the hooks in progress have.
synchronize_net ==
  /\ Running /\ exitpc = "sync"
  /\ \A c \in RxCpu : rx[c] = "idle"
  /\ exitpc' = "gone"
  /\ UNCHANGED <<list, net_lock, hookVars, wr, rd, undefined, ghostVars>>

-----------------------------------------------------------------------------
HookSteps(c) == \/ hook_func_log(c) \/ add_to_list_scan(c)
                \/ add_to_list_fill(c) \/ add_to_list_unlock(c)
WriteSteps(c) == my_write_clear(c) \/ my_write_unlock(c)
ExitSteps == free_list \/ nf_unregister_hook \/ synchronize_net

Next ==
  \/ \E c \in RxCpu : \/ \E p \in Packet : hook_func(c, p)
                      \/ add_to_list_lock(c) \/ HookSteps(c)
  \/ \E c \in WrCpu : my_write(c) \/ my_write_lock(c) \/ WriteSteps(c)
  \/ \E r \in Reader : my_start(r) \/ my_next(r) \/ my_stop(r)
  \/ remove_proc_entry \/ ExitSteps

\* Contexts that run make progress; the spinlock is a ticket lock, so nobody
\* who can get it infinitely often waits for ever.  Packets, calls of read
\* and write, and rmmod are not promised.
Fairness ==
  /\ \A c \in RxCpu : WF_vars(HookSteps(c)) /\ SF_vars(add_to_list_lock(c))
  /\ \A c \in WrCpu : WF_vars(WriteSteps(c)) /\ SF_vars(my_write_lock(c))
  /\ \A r \in Reader : WF_vars(my_next(r))
  /\ WF_vars(ExitSteps)

Spec == Init /\ [][Next]_vars
FairSpec == Spec /\ Fairness

-----------------------------------------------------------------------------
(* Properties.                                                             *)

Context == (RxCpu \X {"rx"}) \cup (WrCpu \X {"wr"})

\* Every variable stays in its type, and readers stay inside the list.
TypeOK ==
  /\ list \in Seq(Node)
  /\ net_lock \in Context \cup {None}
  /\ sock_buff \in RxCpu \cup {None}
  /\ rx \in [RxCpu -> {"idle", "log", "spin", "scan", "fill", "unlock"}]
  /\ skb \in [RxCpu -> Packet \cup {None}]
  /\ size \in [RxCpu -> Nat]
  /\ wr \in [WrCpu -> {"idle", "spin", "clear", "unlock"}]
  /\ rd \in [Reader -> Nat]
  /\ \A r \in Reader : rd[r] <= Len(list)
  /\ exitpc \in {"none", "rmproc", "unhook", "sync", "gone"}
  /\ undefined \in BOOLEAN /\ packets \in Nat
  /\ logged \in [Addr -> Nat] /\ bytes \in [Addr -> Nat]
  /\ \A c \in RxCpu : rx[c] # "idle" => skb[c] # None /\ sock_buff # None

\* An address has one node: two hooks never both miss it and append it.
OneNodePerAddr ==
  \A i, j \in 1..Len(list) : list[i].addr = list[j].addr => i = j

\* Only the tail can be uninitialised, and only while a hook holds net_lock:
\* a reader that took the lock would never see a half-made node.
ReadyUnlessLocked ==
  \A i \in 1..Len(list) : ~list[i].ready =>
    /\ i = Len(list)
    /\ \E c \in RxCpu : net_lock = <<c, "rx">> /\ rx[c] = "fill"

CountOf(a) == IF Match(a) = 0 THEN 0 ELSE list[Match(a)].count
DataOf(a) == IF Match(a) = 0 THEN 0 ELSE list[Match(a)].data

\* Whenever net_lock is free, the count of every address is the number of its
\* packets accepted since the last clear: no update or clear is lost.
CountsExact == net_lock = None => \A a \in Addr : CountOf(a) = logged[a]

Table == INSTANCE CountTable
           WITH table <- [a \in Addr |-> [count |-> CountOf(a), data |-> DataOf(a)]]

\* The list behaves as a table of counters: whatever the CPUs, hooks and
\* writers do, each step counts one packet, clears all, or changes nothing.
ImplementsTable == Table!Spec

\* A reader is never on a freed node: remove_proc_entry comes first.
ReaderNeverOnFreed == \A r \in Reader : rd[r] # 0 => ~Freed

\* The CPU's softirq spins on the lock its own interrupted process holds.
SelfLocked(c) == c \in RxCpu \cap WrCpu /\ rx[c] = "spin" /\ net_lock = <<c, "wr">>

\* Every packet gets its verdict, unless a CPU has taken net_lock in my_write
\* and was interrupted by the hook on the same CPU, or memory is corrupt.
PacketVerdict ==
  \A c \in RxCpu :
    rx[c] # "idle" ~> (rx[c] = "idle" \/ undefined \/ \E d \in WrCpu : SelfLocked(d))

\* rmmod comes to an end under the same conditions.
UnloadEnds ==
  exitpc # "none" ~> (exitpc = "gone" \/ undefined \/ \E d \in WrCpu : SelfLocked(d))

\* "sk_buff::data_len contains the data size that has been transmitted in
\* that buffer": data_used of an address is the sum over its own packets.
BytesExact == net_lock = None => \A a \in Addr : DataOf(a) = bytes[a]
=============================================================================
