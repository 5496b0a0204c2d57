---------------------------- MODULE NetProcProofs ----------------------------
(* Proofs about NetProc for any CPUs, readers, addresses and packets, and    *)
(* that it implements CountTable.                                           *)
EXTENDS NetProc, TLAPS

\* net_lock names exactly the context that is between lock and unlock.
LockInv ==
  /\ \A c \in RxCpu : rx[c] \in {"scan", "fill", "unlock"} <=> net_lock = <<c, "rx">>
  /\ \A c \in WrCpu : wr[c] \in {"clear", "unlock"} <=> net_lock = <<c, "wr">>

\* The node a hook has linked and not filled is the tail, carries the hook's
\* address in the model, and has not been counted.
FillInv ==
  \A c \in RxCpu : rx[c] = "fill" =>
    /\ Len(list) > 0
    /\ list[Len(list)].addr = skb[c].addr
    /\ list[Len(list)].count = 0

IInv == TypeOK /\ LockInv /\ FillInv /\ OneNodePerAddr /\ ReadyUnlessLocked

-----------------------------------------------------------------------------
\* The invariant holds at the start.
LEMMA InitIInv == Init => IInv
<1> SUFFICES ASSUME Init PROVE IInv
  OBVIOUS
<1>1. TypeOK
  <2>1. /\ skb \in [RxCpu -> Packet \cup {None}] /\ size \in [RxCpu -> Nat]
        /\ rx \in [RxCpu -> {"idle", "log", "spin", "scan", "fill", "unlock"}]
        /\ wr \in [WrCpu -> {"idle", "spin", "clear", "unlock"}]
    BY DEF Init
  <2>2. /\ rd \in [Reader -> Nat] /\ \A r \in Reader : rd[r] <= Len(list)
        /\ list \in Seq(Node)
    BY DEF Init
  <2>3. logged \in [Addr -> Nat] /\ bytes \in [Addr -> Nat] /\ packets \in Nat
    BY DEF Init
  <2>4. undefined \in BOOLEAN /\ exitpc = "none" /\ net_lock = None /\ sock_buff = None
    BY DEF Init
  <2>5. \A c \in RxCpu : rx[c] = "idle"
    BY DEF Init
  <2> QED BY <2>1, <2>2, <2>3, <2>4, <2>5 DEF TypeOK
<1>2. LockInv
  BY NetProcAssumption DEF Init, LockInv
<1>3. FillInv /\ OneNodePerAddr /\ ReadyUnlessLocked
  BY DEF Init, FillInv, OneNodePerAddr, ReadyUnlessLocked
<1> QED BY <1>1, <1>2, <1>3 DEF IInv

\* If Match finds no node for an address, no node has it; if it finds one, the
\* node has it.
LEMMA MatchZero ==
  ASSUME IInv, NEW a \in Addr, Match(a) = 0
  PROVE  \A i \in 1..Len(list) : list[i].addr # a
<1> SUFFICES ASSUME Matches(a) # {} PROVE FALSE
  BY DEF Matches
<1>1. PICK i \in Matches(a) : TRUE
  OBVIOUS
<1>2. \A j \in Matches(a) : i <= j
  BY <1>1 DEF Matches, IInv, OneNodePerAddr, TypeOK
<1>3. Match(a) \in Matches(a)
  BY <1>1, <1>2 DEF Match
<1>4. list \in Seq(Node)
  BY DEF IInv, TypeOK
<1> QED BY <1>3, <1>4 DEF Matches

\* A match is a node of the address.
LEMMA MatchFound ==
  ASSUME IInv, NEW a \in Addr, Match(a) # 0
  PROVE  Match(a) \in 1..Len(list) /\ list[Match(a)].addr = a
<1>1. Matches(a) # {}
  BY DEF Match
<1>2. PICK i \in Matches(a) : TRUE
  BY <1>1
<1>3. \A j \in Matches(a) : i <= j
  BY <1>2 DEF Matches, IInv, OneNodePerAddr, TypeOK
<1>4. Match(a) \in Matches(a)
  BY <1>2, <1>3 DEF Match
<1> QED BY <1>4 DEF Matches

\* The hook before it takes the lock.
LEMMA EnterStep ==
  ASSUME IInv, NEW c \in RxCpu,
         (\E p \in Packet : hook_func(c, p)) \/ hook_func_log(c) \/ add_to_list_lock(c)
  PROVE  IInv'
<1> USE NetProcAssumption DEF IInv, RxAt, RxGoto, hookVars, ghostVars
<1>1. ASSUME NEW p \in Packet, hook_func(c, p) PROVE IInv'
  <2>1. p # None
    BY DEF Packet
  <2>2. TypeOK'
    BY <1>1, <2>1 DEF hook_func, TypeOK
  <2>3. LockInv' /\ FillInv' /\ OneNodePerAddr' /\ ReadyUnlessLocked'
    BY <1>1 DEF hook_func, TypeOK, LockInv, FillInv, OneNodePerAddr, ReadyUnlessLocked
  <2> QED BY <2>2, <2>3
<1>2. CASE hook_func_log(c)
  <2>1. size' \in [RxCpu -> Nat]
    <3>1. sock_buff \in RxCpu
      BY <1>2 DEF hook_func_log, TypeOK
    <3>2. PICK n \in IF skb[sock_buff] = None THEN DataLen ELSE {skb[sock_buff].len} :
                 size' = [size EXCEPT ![c] = n]
      BY <1>2 DEF hook_func_log
    <3>3. n \in Nat
      BY <3>1, <3>2 DEF TypeOK, Packet
    <3> QED BY <3>2, <3>3 DEF TypeOK
  <2>2. TypeOK'
    BY <1>2, <2>1 DEF hook_func_log, TypeOK
  <2>3. LockInv' /\ FillInv' /\ OneNodePerAddr' /\ ReadyUnlessLocked'
    BY <1>2 DEF hook_func_log, TypeOK, LockInv, FillInv, OneNodePerAddr, ReadyUnlessLocked
  <2> QED BY <2>2, <2>3
<1>3. CASE add_to_list_lock(c)
  <2>1. TypeOK'
    BY <1>3 DEF add_to_list_lock, TypeOK, Context
  <2>2. LockInv'
    BY <1>3 DEF add_to_list_lock, TypeOK, LockInv
  <2>3. FillInv' /\ OneNodePerAddr' /\ ReadyUnlessLocked'
    BY <1>3 DEF add_to_list_lock, TypeOK, FillInv, OneNodePerAddr, ReadyUnlessLocked
  <2> QED BY <2>1, <2>2, <2>3
<1> QED BY <1>1, <1>2, <1>3

\* The hook under the lock: a match, a link, a fill, the unlock.
LEMMA ScanStep ==
  ASSUME IInv, NEW c \in RxCpu, add_to_list_scan(c)
  PROVE  IInv'
<1> USE NetProcAssumption DEF IInv, RxAt, RxGoto, hookVars, ghostVars
<1> DEFINE a == skb[c].addr
           i == Match(a)
           new == [addr |-> a, count |-> 0, data |-> 0, ready |-> FALSE]
<1>1. a \in Addr /\ skb[c] \in Packet /\ size[c] \in Nat /\ list \in Seq(Node)
  BY DEF add_to_list_scan, TypeOK, Packet
<1>2. CASE undefined' /\ UNCHANGED <<list, rx>>
  BY <1>2 DEF add_to_list_scan, TypeOK, LockInv, FillInv, OneNodePerAddr,
     ReadyUnlessLocked
<1>3. CASE /\ i # 0
           /\ list' = [list EXCEPT ![i] = Recount(@, @.count + 1, @.data + size[c])]
           /\ rx' = [rx EXCEPT ![c] = "unlock"] /\ UNCHANGED undefined
  <2>1. i \in 1..Len(list) /\ list[i].addr = a
    BY <1>1, <1>3, MatchFound
  <2>2. /\ Len(list') = Len(list) /\ list' \in Seq(Node)
        /\ \A j \in 1..Len(list) : list'[j].addr = list[j].addr /\ list'[j].ready = list[j].ready
    <3> DEFINE k == list[i].count + 1
               d == list[i].data + size[c]
               m == Recount(list[i], k, d)
    <3>1. list[i] \in Node
      BY <1>1, <2>1
    <3>2. list[i].count \in Nat /\ list[i].data \in Nat
      BY <3>1 DEF Node
    <3>5. k \in Nat /\ d \in Nat
      BY <1>1, <3>2
    <3>3. m \in Node /\ m.addr = list[i].addr /\ m.ready = list[i].ready
      <4> HIDE DEF k, d, i
      <4> QED BY <3>1, <3>5 DEF Node, Recount
    <3>4. list' = [list EXCEPT ![i] = m]
      BY <1>1, <1>3, <2>1
    <3> HIDE DEF m, i
    <3> QED BY <1>1, <2>1, <3>3, <3>4
  <2>3. TypeOK'
    BY <1>3, <2>2 DEF add_to_list_scan, TypeOK
  <2>4. LockInv' /\ FillInv'
    <3>1. LockInv'
      BY <1>3 DEF add_to_list_scan, TypeOK, LockInv
    <3>2. \A d \in RxCpu : rx'[d] # "fill"
      BY <1>3 DEF add_to_list_scan, TypeOK, LockInv
    <3> QED BY <3>1, <3>2 DEF FillInv
  <2>5. OneNodePerAddr'
    BY <2>2 DEF OneNodePerAddr
  <2>6. ReadyUnlessLocked'
    BY <1>3, <2>2 DEF add_to_list_scan, ReadyUnlessLocked, LockInv, TypeOK
  <2> QED BY <2>3, <2>4, <2>5, <2>6
<1>4. CASE /\ i = 0 /\ list' = Append(list, new)
           /\ rx' = [rx EXCEPT ![c] = "fill"] /\ UNCHANGED undefined
  <2>1. new \in Node
    BY <1>1 DEF Node
  <2>2. /\ Len(list') = Len(list) + 1 /\ list' \in Seq(Node)
        /\ list'[Len(list) + 1] = new
        /\ \A j \in 1..Len(list) : list'[j] = list[j]
    BY <1>1, <1>4, <2>1
  <2>3. \A j \in 1..Len(list) : list[j].addr # a
    BY <1>1, <1>4, MatchZero
  <2>4. TypeOK'
    BY <1>4, <2>2 DEF add_to_list_scan, TypeOK
  <2>5. net_lock = <<c, "rx">> /\ \A d \in RxCpu : rx[d] = "fill" => d = c
    BY DEF add_to_list_scan, LockInv
  <2>6. LockInv'
    BY <1>4 DEF add_to_list_scan, TypeOK, LockInv
  <2>7. FillInv'
    BY <1>4, <2>2, <2>5, <1>1 DEF add_to_list_scan, TypeOK, FillInv
  <2>8. OneNodePerAddr'
    BY <1>1, <2>2, <2>3 DEF OneNodePerAddr
  <2>9. \A j \in 1..Len(list) : list[j].ready
    BY <2>5 DEF add_to_list_scan, ReadyUnlessLocked
  <2>10. ReadyUnlessLocked'
    BY <1>1, <1>4, <2>2, <2>5, <2>9 DEF add_to_list_scan, ReadyUnlessLocked, TypeOK
  <2> QED BY <2>4, <2>6, <2>7, <2>8, <2>10
<1> QED BY <1>2, <1>3, <1>4 DEF add_to_list_scan

\* Filling the new node keeps the invariant.
LEMMA FillStep ==
  ASSUME IInv, NEW c \in RxCpu, add_to_list_fill(c)
  PROVE  IInv'
<1> USE NetProcAssumption DEF IInv, RxAt, RxGoto, hookVars, ghostVars
<1> DEFINE n == Len(list)
           node == [addr |-> skb[c].addr, count |-> 1, data |-> size[c], ready |-> TRUE]
<1>1. skb[c].addr \in Addr /\ size[c] \in Nat /\ list \in Seq(Node) /\ n \in Nat
  BY DEF add_to_list_fill, TypeOK, Packet
<1>2. CASE undefined' /\ UNCHANGED <<list, rx>>
  BY <1>2 DEF add_to_list_fill, TypeOK, LockInv, FillInv, OneNodePerAddr,
     ReadyUnlessLocked
<1>3. CASE /\ list' = [list EXCEPT ![n] = node]
           /\ rx' = [rx EXCEPT ![c] = "unlock"] /\ UNCHANGED undefined
  <2>1. n > 0 /\ list[n].addr = skb[c].addr
    BY DEF add_to_list_fill, FillInv
  <2>2. node \in Node
    BY <1>1 DEF Node
  <2>3. /\ Len(list') = n /\ list' \in Seq(Node) /\ list'[n] = node
        /\ \A j \in 1..n : j # n => list'[j] = list[j]
    BY <1>1, <1>3, <2>1, <2>2
  <2>4. \A j \in 1..n : list'[j].addr = list[j].addr
    BY <2>1, <2>3
  <2>5. TypeOK'
    BY <1>3, <2>3 DEF add_to_list_fill, TypeOK
  <2>6. LockInv'
    BY <1>3 DEF add_to_list_fill, TypeOK, LockInv
  <2>7. FillInv'
    BY <1>3 DEF add_to_list_fill, TypeOK, LockInv, FillInv
  <2>8. OneNodePerAddr'
    BY <2>3, <2>4 DEF OneNodePerAddr
  <2>9. ReadyUnlessLocked'
    BY <1>1, <2>1, <2>3 DEF ReadyUnlessLocked
  <2> QED BY <2>5, <2>6, <2>7, <2>8, <2>9
<1> QED BY <1>2, <1>3 DEF add_to_list_fill

\* So does unlocking.
LEMMA UnlockStep ==
  ASSUME IInv, NEW c \in RxCpu, add_to_list_unlock(c)
  PROVE  IInv'
<1> USE NetProcAssumption DEF IInv, RxAt, RxGoto, hookVars, ghostVars
<1>1. skb[c] \in Packet /\ skb[c].addr \in Addr /\ skb[c].len \in Nat
  BY DEF add_to_list_unlock, TypeOK, Packet
<1>2. TypeOK'
  <2>1. logged' \in [Addr -> Nat] /\ bytes' \in [Addr -> Nat]
    <3>1. logged \in [Addr -> Nat] /\ bytes \in [Addr -> Nat]
      BY DEF TypeOK
    <3>2. /\ logged' = [logged EXCEPT ![skb[c].addr] = @ + 1]
          /\ bytes' = [bytes EXCEPT ![skb[c].addr] = @ + skb[c].len]
      BY DEF add_to_list_unlock
    <3>3. logged[skb[c].addr] + 1 \in Nat /\ bytes[skb[c].addr] + skb[c].len \in Nat
      BY <1>1, <3>1
    <3> QED BY <3>1, <3>2, <3>3, Zenon
  <2>2. /\ rx' \in [RxCpu -> {"idle", "log", "spin", "scan", "fill", "unlock"}]
        /\ skb' \in [RxCpu -> Packet \cup {None}] /\ size' \in [RxCpu -> Nat]
    BY DEF add_to_list_unlock, TypeOK
  <2>3. \A d \in RxCpu : rx'[d] # "idle" => skb'[d] # None /\ sock_buff' # None
    BY DEF add_to_list_unlock, TypeOK
  <2>4. net_lock' \in Context \cup {None}
    BY DEF add_to_list_unlock
  <2>5. UNCHANGED <<list, sock_buff, packets, wr, rd, exitpc, undefined>>
    BY DEF add_to_list_unlock
  <2> QED BY <2>1, <2>2, <2>3, <2>4, <2>5 DEF TypeOK
<1>3. LockInv'
  BY DEF add_to_list_unlock, TypeOK, LockInv
<1>4. FillInv'
  BY DEF add_to_list_unlock, TypeOK, FillInv
<1>5. OneNodePerAddr' /\ ReadyUnlessLocked'
  BY DEF add_to_list_unlock, TypeOK, LockInv, OneNodePerAddr, ReadyUnlessLocked
<1> QED BY <1>2, <1>3, <1>4, <1>5

\* my_write.
LEMMA WriteStep ==
  ASSUME IInv, NEW c \in WrCpu, my_write(c) \/ my_write_lock(c) \/ WriteSteps(c)
  PROVE  IInv'
<1> USE NetProcAssumption DEF IInv, WrAt, WrGoto, hookVars, ghostVars
<1>1. CASE my_write(c)
  BY <1>1 DEF my_write, TypeOK, LockInv, FillInv, OneNodePerAddr, ReadyUnlessLocked
<1>2. CASE my_write_lock(c)
  <2>1. TypeOK'
    BY <1>2 DEF my_write_lock, TypeOK, Context
  <2>2. LockInv'
    BY <1>2 DEF my_write_lock, TypeOK, LockInv
  <2>3. UNCHANGED <<list, rx, skb>> /\ net_lock = None
    BY <1>2 DEF my_write_lock
  <2>4. FillInv' /\ OneNodePerAddr'
    BY <2>3 DEF FillInv, OneNodePerAddr
  <2>5. ReadyUnlessLocked'
    BY <2>3 DEF ReadyUnlessLocked
  <2> QED BY <2>1, <2>2, <2>4, <2>5
<1>3. CASE my_write_clear(c)
  <2>1. list \in Seq(Node) /\ Len(list) \in Nat /\ DOMAIN list = 1..Len(list)
    BY DEF TypeOK
  <2>2. \A j \in 1..Len(list) :
          /\ Recount(list[j], 0, 0) \in Node
          /\ Recount(list[j], 0, 0).addr = list[j].addr
          /\ Recount(list[j], 0, 0).ready = list[j].ready
    <3> TAKE j \in 1..Len(list)
    <3>1. list[j] \in Node
      BY <2>1
    <3> QED BY <3>1 DEF Node, Recount
  <2>3. /\ list' \in Seq(Node) /\ Len(list') = Len(list)
        /\ \A j \in 1..Len(list) : /\ list'[j].addr = list[j].addr
                                   /\ list'[j].ready = list[j].ready
    BY <1>3, <2>1, <2>2 DEF my_write_clear
  <2>4. TypeOK'
    BY <1>3, <2>3 DEF my_write_clear, TypeOK
  <2>5. LockInv'
    BY <1>3 DEF my_write_clear, TypeOK, LockInv
  <2>6. FillInv'
    <3>1. \A d \in RxCpu : rx'[d] # "fill"
      <4>1. net_lock = <<c, "wr">> /\ rx' = rx
        BY <1>3 DEF my_write_clear, LockInv
      <4>2. \A d \in RxCpu : <<d, "rx">> # <<c, "wr">>
        OBVIOUS
      <4> QED BY <4>1, <4>2 DEF LockInv
    <3> QED BY <3>1 DEF FillInv
  <2>7. OneNodePerAddr'
    BY <2>3 DEF OneNodePerAddr
  <2>8. ReadyUnlessLocked'
    BY <1>3, <2>3 DEF my_write_clear, ReadyUnlessLocked
  <2> QED BY <2>4, <2>5, <2>6, <2>7, <2>8
<1>4. CASE my_write_unlock(c)
  <2>1. TypeOK'
    BY <1>4 DEF my_write_unlock, TypeOK
  <2>2. LockInv'
    BY <1>4 DEF my_write_unlock, TypeOK, LockInv
  <2>3. FillInv' /\ OneNodePerAddr' /\ ReadyUnlessLocked'
    BY <1>4 DEF my_write_unlock, LockInv, FillInv, OneNodePerAddr, ReadyUnlessLocked
  <2> QED BY <2>1, <2>2, <2>3
<1> QED BY <1>1, <1>2, <1>3, <1>4 DEF WriteSteps

\* Readers and rmmod change neither the list nor the lock.
LEMMA OtherStep ==
  ASSUME IInv,
         \/ \E r \in Reader : my_start(r) \/ my_next(r) \/ my_stop(r)
         \/ remove_proc_entry \/ ExitSteps \/ UNCHANGED vars
  PROVE  IInv'
<1> USE DEF IInv, LockInv, FillInv, OneNodePerAddr, ReadyUnlessLocked, hookVars, ghostVars
<1>1. ASSUME NEW r \in Reader, my_start(r) PROVE IInv'
  BY <1>1 DEF my_start, TypeOK
<1>2. ASSUME NEW r \in Reader, my_next(r) PROVE IInv'
  <2>1. CASE undefined' = TRUE /\ UNCHANGED rd
    BY <1>2, <2>1 DEF my_next, TypeOK
  <2>2. CASE /\ rd' = [rd EXCEPT ![r] = IF @ < Len(list) THEN @ + 1 ELSE 0]
             /\ UNCHANGED undefined
    <3>1. Len(list) \in Nat
      BY DEF TypeOK
    <3>2. rd' \in [Reader -> Nat] /\ \A q \in Reader : rd'[q] <= Len(list)
      BY <2>2, <3>1 DEF TypeOK
    <3> QED BY <1>2, <2>2, <3>2 DEF my_next, TypeOK
  <2> QED BY <1>2, <2>1, <2>2 DEF my_next
<1>3. ASSUME NEW r \in Reader, my_stop(r) PROVE IInv'
  BY <1>3 DEF my_stop, TypeOK
<1>4. CASE remove_proc_entry \/ ExitSteps
  BY <1>4 DEF remove_proc_entry, ExitSteps, free_list, nf_unregister_hook,
     synchronize_net, TypeOK
<1>5. CASE UNCHANGED vars
  BY <1>5 DEF vars, TypeOK
<1> QED BY <1>1, <1>2, <1>3, <1>4, <1>5

\* Every step keeps the invariant.
LEMMA NextIInv == IInv /\ [Next]_vars => IInv'
BY EnterStep, ScanStep, FillStep, UnlockStep, WriteStep, OtherStep DEF Next, HookSteps

\* It holds throughout.
LEMMA IInvHolds == Spec => []IInv
BY InitIInv, NextIInv, PTL DEF Spec

\* The hook, my_write, seq_file and cleanup_packet keep the state in its type;
\* in particular a reader's position never leaves the list.
THEOREM TypeCorrect == Spec => []TypeOK
<1>1. IInv => TypeOK
  BY DEF IInv
<1> QED BY <1>1, IInvHolds, PTL

\* add_to_list_network never makes two nodes for an address, on any number of
\* CPUs.
THEOREM NoDuplicateNodes == Spec => []OneNodePerAddr
<1>1. IInv => OneNodePerAddr
  BY DEF IInv
<1> QED BY <1>1, IInvHolds, PTL

\* A node that is linked and not yet initialised is visible only while its
\* hook holds net_lock.
THEOREM NodesReady == Spec => []ReadyUnlessLocked
<1>1. IInv => ReadyUnlessLocked
  BY DEF IInv
<1> QED BY <1>1, IInvHolds, PTL

-----------------------------------------------------------------------------
(* The counts.                                                             *)

\* The counters in the list are k, which is 0 for addresses without a node.
Tally(k) ==
  /\ \A i \in 1..Len(list) : list[i].count = k[list[i].addr]
  /\ \A a \in Addr : (\A i \in 1..Len(list) : list[i].addr # a) => k[a] = 0

\* The list agrees with the packets logged, except that a context about to
\* unlock has already counted its packet, or cleared the list.
CountInv ==
  /\ (\A c \in RxCpu : rx[c] # "unlock") /\ (\A c \in WrCpu : wr[c] # "unlock")
       => Tally(logged)
  /\ \A c \in RxCpu : rx[c] = "unlock" => Tally([logged EXCEPT ![skb[c].addr] = @ + 1])
  /\ \A c \in WrCpu : wr[c] = "unlock" => \A i \in 1..Len(list) : list[i].count = 0

\* Under the lock nobody else is about to unlock.
LEMMA RxHolderAlone ==
  ASSUME IInv, NEW c \in RxCpu, rx[c] \in {"scan", "fill", "unlock"}
  PROVE  /\ \A d \in RxCpu : rx[d] = "unlock" => d = c
         /\ \A d \in WrCpu : wr[d] # "unlock"
<1>1. net_lock = <<c, "rx">>
  BY DEF IInv, LockInv
<1> QED BY <1>1 DEF IInv, LockInv

\* No hook works on the list while a writer holds the lock.
LEMMA WrHolderAlone ==
  ASSUME IInv, NEW c \in WrCpu, wr[c] \in {"clear", "unlock"}
  PROVE  /\ \A d \in RxCpu : rx[d] # "unlock"
         /\ \A d \in WrCpu : wr[d] = "unlock" => d = c
<1>1. net_lock = <<c, "wr">>
  BY DEF IInv, LockInv
<1> QED BY <1>1 DEF IInv, LockInv

\* Counting a packet, or linking a node, keeps the counts.
LEMMA CountScan ==
  ASSUME IInv, CountInv, NEW c \in RxCpu, add_to_list_scan(c)
  PROVE  CountInv'
<1> USE DEF RxAt, RxGoto, Tally
<1> DEFINE a == skb[c].addr
           i == Match(a)
           new == [addr |-> a, count |-> 0, data |-> 0, ready |-> FALSE]
<1>1. /\ rx[c] = "scan" /\ a \in Addr /\ list \in Seq(Node) /\ size[c] \in Nat
      /\ logged \in [Addr -> Nat] /\ rx \in [RxCpu -> {"idle", "log", "spin", "scan",
                                                       "fill", "unlock"}]
      /\ UNCHANGED <<skb, wr, logged>>
  BY DEF add_to_list_scan, IInv, TypeOK, Packet, ghostVars
<1>2. /\ \A d \in RxCpu : rx[d] # "unlock"
      /\ \A d \in WrCpu : wr[d] # "unlock"
  BY <1>1, RxHolderAlone
<1>3. Tally(logged)
  BY <1>2 DEF CountInv
<1>4. \A j \in 1..Len(list) : list[j].addr \in Addr /\ list[j].count \in Nat
  <2> TAKE j \in 1..Len(list)
  <2>1. list[j] \in Node
    BY <1>1
  <2> QED BY <2>1 DEF Node
<1>5. CASE UNCHANGED <<list, rx>>
  BY <1>1, <1>5 DEF CountInv
<1>6. CASE /\ i # 0
           /\ list' = [list EXCEPT ![i] = Recount(@, @.count + 1, @.data + size[c])]
           /\ rx' = [rx EXCEPT ![c] = "unlock"]
  <2>1. i \in 1..Len(list) /\ list[i].addr = a
    BY <1>1, <1>6, MatchFound
  <2>2. list[i] \in Node
    BY <1>1, <2>1
  <2> DEFINE m == Recount(list[i], list[i].count + 1, list[i].data + size[c])
  <2>3. m.count = list[i].count + 1 /\ m.addr = a
    BY <2>1, <2>2 DEF Node, Recount
  <2>4. list' = [list EXCEPT ![i] = m]
    BY <1>1, <1>6, <2>1
  <2> HIDE DEF m, i, a
  <2>5. /\ Len(list') = Len(list) /\ list'[i] = m
        /\ \A j \in 1..Len(list) : j # i => list'[j] = list[j]
    BY <1>1, <2>1, <2>4
  <2>6. \A j \in 1..Len(list) : j # i => list[j].addr # a
    BY <2>1 DEF IInv, OneNodePerAddr
  <2> DEFINE k == [logged EXCEPT ![a] = @ + 1]
  <2>7. \A j \in 1..Len(list) : list'[j].count = k[list'[j].addr]
    <3> TAKE j \in 1..Len(list)
    <3>1. CASE j = i
      BY <1>1, <1>3, <2>1, <2>3, <2>5, <3>1
    <3>2. CASE j # i
      BY <1>1, <1>3, <1>4, <2>5, <2>6, <3>2
    <3> QED BY <3>1, <3>2
  <2>8. \A b \in Addr : (\A j \in 1..Len(list') : list'[j].addr # b) => k[b] = 0
    <3> SUFFICES ASSUME NEW b \in Addr, \A j \in 1..Len(list') : list'[j].addr # b
                 PROVE  k[b] = 0
      OBVIOUS
    <3>1. b # a
      BY <2>1, <2>3, <2>5
    <3>2. \A j \in 1..Len(list) : list[j].addr # b
      BY <2>1, <2>5, <3>1
    <3> QED BY <1>1, <1>3, <3>1, <3>2
  <2>9. \A d \in RxCpu : rx'[d] = "unlock" => d = c
    BY <1>1, <1>2, <1>6
  <2>10. skb'[c].addr = a
    BY <1>1 DEF a
  <2>11. \A d \in WrCpu : wr'[d] # "unlock"
    BY <1>1, <1>2
  <2>12. rx'[c] = "unlock"
    BY <1>1, <1>6
  <2> QED BY <1>1, <2>5, <2>7, <2>8, <2>9, <2>10, <2>11, <2>12 DEF CountInv
<1>7. CASE i = 0 /\ list' = Append(list, new) /\ rx' = [rx EXCEPT ![c] = "fill"]
  <2>1. /\ Len(list') = Len(list) + 1 /\ list'[Len(list) + 1] = new
        /\ \A j \in 1..Len(list) : list'[j] = list[j]
    BY <1>1, <1>7, SMTT(30)
  <2>2. logged[a] = 0
    BY <1>1, <1>3, <1>7, MatchZero
  <2>3. Tally(logged)'
    <3>1. \A j \in 1..Len(list') : list'[j].count = logged[list'[j].addr]
      <4> TAKE j \in 1..Len(list')
      <4>1. CASE j = Len(list) + 1
        BY <2>1, <2>2, <4>1
      <4>2. CASE j \in 1..Len(list)
        BY <1>3, <2>1, <4>2
      <4>3. Len(list) \in Nat
        BY <1>1
      <4> QED BY <2>1, <4>1, <4>2, <4>3
    <3>2. \A b \in Addr : (\A j \in 1..Len(list') : list'[j].addr # b) => logged[b] = 0
      BY <1>1, <1>3, <2>1
    <3> QED BY <1>1, <3>1, <3>2
  <2>4. \A d \in RxCpu : rx'[d] # "unlock"
    BY <1>1, <1>2, <1>7
  <2> QED BY <1>1, <1>2, <2>3, <2>4 DEF CountInv
<1> QED BY <1>5, <1>6, <1>7 DEF add_to_list_scan

\* So does filling the node,
LEMMA CountFill ==
  ASSUME IInv, CountInv, NEW c \in RxCpu, add_to_list_fill(c)
  PROVE  CountInv'
<1> USE DEF RxAt, RxGoto, Tally
<1> DEFINE n == Len(list)
           a == skb[c].addr
           node == [addr |-> a, count |-> 1, data |-> size[c], ready |-> TRUE]
           k == [logged EXCEPT ![a] = @ + 1]
<1>1. /\ rx[c] = "fill" /\ a \in Addr /\ list \in Seq(Node) /\ n \in Nat
      /\ logged \in [Addr -> Nat] /\ rx \in [RxCpu -> {"idle", "log", "spin", "scan",
                                                       "fill", "unlock"}]
      /\ UNCHANGED <<skb, wr, logged>>
  BY DEF add_to_list_fill, IInv, TypeOK, Packet, ghostVars
<1>2. /\ \A d \in RxCpu : rx[d] # "unlock"
      /\ \A d \in WrCpu : wr[d] # "unlock"
  BY <1>1, RxHolderAlone
<1>3. Tally(logged)
  BY <1>2 DEF CountInv
<1>4. n > 0 /\ list[n].addr = a /\ list[n].count = 0
  BY <1>1 DEF IInv, FillInv
<1>5. CASE UNCHANGED <<list, rx>>
  <2>1. Tally(logged)'
    BY <1>1, <1>3, <1>5
  <2>2. /\ \A d \in RxCpu : rx'[d] # "unlock"
        /\ \A d \in WrCpu : wr'[d] # "unlock"
    BY <1>1, <1>2, <1>5
  <2> QED BY <2>1, <2>2 DEF CountInv
<1>6. CASE list' = [list EXCEPT ![n] = node] /\ rx' = [rx EXCEPT ![c] = "unlock"]
  <2>1. /\ Len(list') = n /\ list'[n].count = 1 /\ list'[n].addr = a
        /\ \A j \in 1..n : j # n => list'[j] = list[j]
    BY <1>1, <1>4, <1>6, SMTT(30)
  <2>2. \A j \in 1..n : j # n => list[j].addr # a
    BY <1>1, <1>4 DEF IInv, OneNodePerAddr
  <2>3. logged[a] = 0
    BY <1>1, <1>3, <1>4
  <2>4. \A j \in 1..n : list[j].addr \in Addr
    <3> TAKE j \in 1..n
    <3>1. list[j] \in Node
      BY <1>1
    <3> QED BY <3>1 DEF Node
  <2> HIDE DEF a, n
  <2>5. \A j \in 1..n : list'[j].count = k[list'[j].addr]
    <3> TAKE j \in 1..n
    <3>1. CASE j = n
      BY <1>1, <2>1, <2>3, <3>1
    <3>2. CASE j # n
      BY <1>1, <1>3, <2>1, <2>2, <2>4, <3>2 DEF n
    <3> QED BY <3>1, <3>2
  <2>6. \A b \in Addr : (\A j \in 1..n : list'[j].addr # b) => k[b] = 0
    <3> SUFFICES ASSUME NEW b \in Addr, \A j \in 1..n : list'[j].addr # b
                 PROVE  k[b] = 0
      OBVIOUS
    <3>1. b # a
      BY <1>1, <1>4, <2>1
    <3>2. \A j \in 1..n : list[j].addr # b
      BY <1>4, <2>1, <3>1
    <3> QED BY <1>1, <1>3, <3>1, <3>2 DEF n
  <2>7. \A d \in RxCpu : rx'[d] = "unlock" => d = c
    BY <1>1, <1>2, <1>6
  <2>8. skb'[c].addr = a /\ rx'[c] = "unlock"
    BY <1>1, <1>6 DEF a
  <2>9. \A d \in WrCpu : wr'[d] # "unlock"
    BY <1>1, <1>2
  <2>10. k' = k
    BY <1>1 DEF a
  <2>11. Tally(k)'
    BY <2>1, <2>5, <2>6, <2>10
  <2>12. Tally([logged EXCEPT ![skb[c].addr] = @ + 1])'
    BY <2>11, Zenon DEF k, a
  <2>13. \A d \in RxCpu : rx'[d] = "unlock" => Tally([logged EXCEPT ![skb[d].addr] = @ + 1])'
    BY <2>7, <2>12, Zenon
  <2> QED BY <2>8, <2>9, <2>13, Zenon DEF CountInv
<1> QED BY <1>5, <1>6 DEF add_to_list_fill

\* unlocking,
LEMMA CountUnlock ==
  ASSUME IInv, CountInv, NEW c \in RxCpu, add_to_list_unlock(c)
  PROVE  CountInv'
<1>1. /\ rx[c] = "unlock" /\ rx' = [rx EXCEPT ![c] = "idle"] /\ UNCHANGED <<list, wr>>
      /\ logged' = [logged EXCEPT ![skb[c].addr] = @ + 1]
  BY DEF add_to_list_unlock, RxAt, RxGoto
<1>2. Tally(logged)'
  BY <1>1 DEF CountInv, Tally
<1>3. /\ \A d \in RxCpu : rx'[d] # "unlock"
      /\ \A d \in WrCpu : wr'[d] # "unlock"
  BY <1>1, RxHolderAlone DEF IInv, TypeOK
<1> QED BY <1>2, <1>3 DEF CountInv

\* and clearing.
LEMMA CountWrite ==
  ASSUME IInv, CountInv, NEW c \in WrCpu, WriteSteps(c)
  PROVE  CountInv'
<1>1. CASE my_write_clear(c)
  <2>1. wr[c] = "clear" /\ UNCHANGED <<rx, skb, logged>>
    BY <1>1 DEF my_write_clear, WrAt, hookVars, ghostVars
  <2>2. \A d \in RxCpu : rx'[d] # "unlock"
    BY <2>1, WrHolderAlone
  <2>3. wr'[c] = "unlock"
    BY <1>1 DEF my_write_clear, WrGoto, IInv, TypeOK
  <2>4. \A i \in 1..Len(list') : list'[i].count = 0
    <3>1. list \in Seq(Node) /\ Len(list) \in Nat /\ DOMAIN list = 1..Len(list)
      BY DEF IInv, TypeOK
    <3>2. \A i \in 1..Len(list) : Recount(list[i], 0, 0).count = 0
      <4> TAKE i \in 1..Len(list)
      <4>1. list[i] \in Node
        BY <3>1
      <4> QED BY <4>1 DEF Node, Recount
    <3>3. /\ DOMAIN list' = 1..Len(list)
          /\ \A i \in 1..Len(list) : list'[i].count = 0
      BY <1>1, <3>1, <3>2 DEF my_write_clear
    <3>4. Len(list') = Len(list)
      BY <1>1, <3>1 DEF my_write_clear
    <3> QED BY <3>3, <3>4
  <2> QED BY <2>2, <2>3, <2>4 DEF CountInv
<1>2. CASE my_write_unlock(c)
  <2>1. /\ wr[c] = "unlock" /\ wr' = [wr EXCEPT ![c] = "idle"]
        /\ UNCHANGED <<list, rx>> /\ logged' = [a \in Addr |-> 0]
    BY <1>2 DEF my_write_unlock, WrAt, WrGoto, hookVars
  <2>2. \A i \in 1..Len(list) : list[i].count = 0 /\ list[i].addr \in Addr
    <3> TAKE i \in 1..Len(list)
    <3>1. list[i] \in Node
      BY DEF IInv, TypeOK
    <3> QED BY <2>1, <3>1 DEF CountInv, Node
  <2>3. Tally(logged)'
    BY <2>1, <2>2 DEF Tally
  <2>4. /\ \A d \in RxCpu : rx'[d] # "unlock"
        /\ \A d \in WrCpu : wr'[d] # "unlock"
    BY <2>1, WrHolderAlone DEF IInv, TypeOK
  <2> QED BY <2>3, <2>4 DEF CountInv
<1> QED BY <1>1, <1>2 DEF WriteSteps

\* The steps outside the critical sections.
LEMMA CountOther ==
  ASSUME IInv, CountInv,
         \/ \E c \in RxCpu : (\E p \in Packet : hook_func(c, p)) \/ hook_func_log(c)
                             \/ add_to_list_lock(c)
         \/ \E c \in WrCpu : my_write(c) \/ my_write_lock(c)
         \/ \E r \in Reader : my_start(r) \/ my_next(r) \/ my_stop(r)
         \/ remove_proc_entry \/ ExitSteps \/ UNCHANGED vars
  PROVE  CountInv'
<1> USE DEF CountInv, Tally, hookVars, ghostVars
<1> DEFINE Same ==
      /\ UNCHANGED <<list, logged>>
      /\ \A d \in RxCpu : (rx'[d] = "unlock" <=> rx[d] = "unlock")
      /\ \A d \in RxCpu : rx[d] = "unlock" => skb'[d] = skb[d]
      /\ \A d \in WrCpu : (wr'[d] = "unlock" <=> wr[d] = "unlock")
<1>1. ASSUME NEW c \in RxCpu,
             \/ (\E p \in Packet : hook_func(c, p)) \/ hook_func_log(c)
             \/ add_to_list_lock(c)
      PROVE  Same
  <2>1. UNCHANGED <<list, logged, wr>>
    BY <1>1 DEF hook_func, hook_func_log, add_to_list_lock
  <2>2. /\ rx[c] # "unlock" /\ rx'[c] # "unlock"
        /\ \A d \in RxCpu : d # c => rx'[d] = rx[d] /\ skb'[d] = skb[d]
    <3>1. rx \in [RxCpu -> {"idle", "log", "spin", "scan", "fill", "unlock"}]
          /\ skb \in [RxCpu -> Packet \cup {None}]
      BY DEF IInv, TypeOK
    <3>2. CASE \E p \in Packet : hook_func(c, p)
      BY <3>1, <3>2 DEF hook_func, RxAt, RxGoto
    <3>3. CASE hook_func_log(c)
      BY <3>1, <3>3 DEF hook_func_log, RxAt, RxGoto
    <3>4. CASE add_to_list_lock(c)
      BY <3>1, <3>4 DEF add_to_list_lock, RxAt, RxGoto
    <3> QED BY <1>1, <3>2, <3>3, <3>4
  <2> QED BY <2>1, <2>2
<1>2. ASSUME NEW c \in WrCpu, my_write(c) \/ my_write_lock(c)
      PROVE  Same
  BY <1>2 DEF my_write, my_write_lock, WrAt, WrGoto, IInv, TypeOK
<1>3. ASSUME UNCHANGED <<list, rx, skb, wr, logged>>
      PROVE  Same
  BY <1>3
<1>4. Same
  BY <1>1, <1>2, <1>3 DEF my_start, my_next, my_stop, remove_proc_entry, ExitSteps,
     free_list, nf_unregister_hook, synchronize_net, vars
<1>5. ASSUME \A d \in RxCpu : rx'[d] # "unlock", \A d \in WrCpu : wr'[d] # "unlock"
      PROVE  Tally(logged)'
  BY <1>4, <1>5
<1>6. ASSUME NEW d \in RxCpu, rx'[d] = "unlock"
      PROVE  Tally([logged EXCEPT ![skb[d].addr] = @ + 1])'
  <2>1. rx[d] = "unlock" /\ skb'[d] = skb[d] /\ list' = list /\ logged' = logged
    BY <1>4, <1>6
  <2>2. Tally([logged EXCEPT ![skb[d].addr] = @ + 1])
    BY <2>1
  <2> QED BY <2>1, <2>2
<1>7. ASSUME NEW d \in WrCpu, wr'[d] = "unlock"
      PROVE  \A i \in 1..Len(list') : list'[i].count = 0
  BY <1>4, <1>7
<1> QED BY <1>5, <1>6, <1>7

\* Every step keeps the counts.
LEMMA NextCount == IInv /\ CountInv /\ [Next]_vars => CountInv'
BY CountScan, CountFill, CountUnlock, CountWrite, CountOther DEF Next, HookSteps

\* With the lock free the counts are exact.
LEMMA CountsFollow == IInv /\ CountInv => CountsExact
<1> SUFFICES ASSUME IInv, CountInv, net_lock = None, NEW a \in Addr
             PROVE  CountOf(a) = logged[a]
  BY DEF CountsExact
<1>1. Tally(logged)
  <2>1. /\ \A c \in RxCpu : rx[c] # "unlock"
        /\ \A c \in WrCpu : wr[c] # "unlock"
    BY NetProcAssumption DEF IInv, LockInv
  <2> QED BY <2>1 DEF CountInv
<1>2. CASE Match(a) = 0
  BY <1>1, <1>2, MatchZero DEF CountOf, Tally
<1>3. CASE Match(a) # 0
  BY <1>1, <1>3, MatchFound DEF CountOf, Tally
<1> QED BY <1>2, <1>3

\* On any number of CPUs, whenever net_lock is free the count of every address
\* is the number of its packets accepted since the last clear: no increment,
\* new node or clear is lost.
THEOREM CountsAreExact == Spec => []CountsExact
<1>1. Init => CountInv
  BY DEF Init, CountInv, Tally
<1>2. Spec => []CountInv
  BY <1>1, NextCount, IInvHolds, PTL DEF Spec
<1> QED BY <1>2, CountsFollow, IInvHolds, PTL

-----------------------------------------------------------------------------
\* A reader is never on a freed node: it begins a pass only while the /proc
\* entry exists, and remove_proc_entry waits for the passes before free(root).
THEOREM ReadersOutliveNothing == Spec => []ReaderNeverOnFreed
<1>1. Init => ReaderNeverOnFreed
  BY DEF Init, ReaderNeverOnFreed
<1>2. IInv /\ ReaderNeverOnFreed /\ [Next]_vars => ReaderNeverOnFreed'
  <2> SUFFICES ASSUME IInv, ReaderNeverOnFreed, [Next]_vars
               PROVE  ReaderNeverOnFreed'
    OBVIOUS
  <2> USE DEF ReaderNeverOnFreed, Freed
  <2>1. ASSUME NEW r \in Reader, my_start(r) \/ my_next(r) \/ my_stop(r)
        PROVE  ReaderNeverOnFreed'
    BY <2>1 DEF my_start, my_next, my_stop, InProc, IInv, TypeOK
  <2>2. CASE remove_proc_entry \/ ExitSteps
    BY <2>2 DEF remove_proc_entry, ExitSteps, free_list, nf_unregister_hook,
       synchronize_net
  <2>3. CASE UNCHANGED <<rd, exitpc>>
    BY <2>3
  <2> QED BY <2>1, <2>2, <2>3 DEF Next, hook_func, HookSteps, hook_func_log,
       add_to_list_lock, add_to_list_scan, add_to_list_fill, add_to_list_unlock,
       my_write, my_write_lock, WriteSteps, my_write_clear, my_write_unlock, vars
<1> QED BY <1>1, <1>2, IInvHolds, PTL DEF Spec

-----------------------------------------------------------------------------
(* NetProc implements CountTable.                                           *)

\* What a hook is going to add is the data_len of some packet, and the node it
\* is about to fill has no bytes yet.
SizeInv ==
  \A c \in RxCpu :
    /\ rx[c] \in {"spin", "scan", "fill"} => size[c] \in DataLen
    /\ rx[c] = "fill" => list[Len(list)].data = 0

\* An address's entry is its only node, or zero.
EntryOf(a) == [count |-> CountOf(a), data |-> DataOf(a)]
EntriesAre ==
  \A a \in Addr :
    /\ \A i \in 1..Len(list) : list[i].addr = a =>
         EntryOf(a) = [count |-> list[i].count, data |-> list[i].data]
    /\ (\A i \in 1..Len(list) : list[i].addr # a) => EntryOf(a) = [count |-> 0, data |-> 0]

\* The table that the list stands for, before a step
LEMMA EntryIs == IInv => EntriesAre
<1> SUFFICES ASSUME IInv, NEW a \in Addr
             PROVE  /\ \A i \in 1..Len(list) : list[i].addr = a =>
                         EntryOf(a) = [count |-> list[i].count, data |-> list[i].data]
                    /\ (\A i \in 1..Len(list) : list[i].addr # a) =>
                         EntryOf(a) = [count |-> 0, data |-> 0]
  BY DEF EntriesAre
<1>0. Len(list) \in Nat
  BY DEF IInv, TypeOK
<1>1. ASSUME NEW i \in 1..Len(list), list[i].addr = a
      PROVE  EntryOf(a) = [count |-> list[i].count, data |-> list[i].data]
  <2>1. Match(a) # 0
    BY <1>1, MatchZero
  <2>2. Match(a) = i
    BY <1>1, <2>1, MatchFound DEF IInv, OneNodePerAddr
  <2> QED BY <1>0, <2>2 DEF EntryOf, CountOf, DataOf
<1>2. ASSUME \A i \in 1..Len(list) : list[i].addr # a
      PROVE  EntryOf(a) = [count |-> 0, data |-> 0]
  <2>1. Match(a) = 0
    BY <1>2, MatchFound
  <2> QED BY <2>1 DEF EntryOf, CountOf, DataOf
<1> QED BY <1>1, <1>2

\* and after it.
LEMMA EntryIsNext == IInv' => EntriesAre'
BY EntryIs, PTL

\* The steps of the table, on entries.
TableLog(a, n) ==
  /\ EntryOf(a)' = [count |-> EntryOf(a).count + 1, data |-> EntryOf(a).data + n]
  /\ \A b \in Addr : b # a => EntryOf(b)' = EntryOf(b)
TableClear == \A a \in Addr : EntryOf(a)' = [count |-> 0, data |-> 0]
TableSame == \A a \in Addr : EntryOf(a)' = EntryOf(a)
TableStep == TableSame \/ TableClear \/ \E a \in Addr, n \in DataLen : TableLog(a, n)

\* A step that leaves the list alone leaves the table alone.
LEMMA TableKept == UNCHANGED list => TableSame
<1> SUFFICES ASSUME UNCHANGED list PROVE TableSame
  OBVIOUS
<1>1. \A a : Matches(a)' = Matches(a)
  BY Zenon DEF Matches
<1>2. ASSUME NEW a PROVE Match(a)' = Match(a)
  <2> DEFINE First(S) == IF S = {} THEN 0 ELSE CHOOSE i \in S : \A j \in S : i <= j
  <2>1. Match(a) = First(Matches(a)) /\ Match(a)' = First(Matches(a)')
    BY Zenon DEF Match
  <2> HIDE DEF First
  <2> QED BY <1>1, <2>1, Zenon
<1>3. \A a : CountOf(a)' = CountOf(a) /\ DataOf(a)' = DataOf(a)
  BY <1>2, Zenon DEF CountOf, DataOf
<1> QED BY <1>3 DEF TableSame, EntryOf

\* A match logs its packet; linking a node changes nothing.
LEMMA ScanLogs ==
  ASSUME IInv, IInv', SizeInv, NEW c \in RxCpu, add_to_list_scan(c)
  PROVE  TableStep
<1> USE DEF RxAt, RxGoto
<1>0. PICK a \in Addr : a = skb[c].addr
  BY DEF add_to_list_scan, IInv, TypeOK, Packet
<1> DEFINE i == Match(a)
           new == [addr |-> a, count |-> 0, data |-> 0, ready |-> FALSE]
<1>1. /\ list \in Seq(Node) /\ size[c] \in DataLen /\ size[c] \in Nat
      /\ Len(list) \in Nat
  <2>1. list \in Seq(Node) /\ Len(list) \in Nat
    BY DEF IInv, TypeOK
  <2>2. size[c] \in DataLen
    BY DEF add_to_list_scan, IInv, TypeOK, Packet, SizeInv
  <2> QED BY <2>1, <2>2, NetProcAssumption
<1>2. EntriesAre /\ EntriesAre'
  BY EntryIs, EntryIsNext
<1>3. CASE UNCHANGED list
  BY <1>3, TableKept DEF TableStep
<1>4. CASE /\ i # 0
           /\ list' = [list EXCEPT ![i] = Recount(@, @.count + 1, @.data + size[c])]
  <2>1. i \in 1..Len(list) /\ list[i].addr = a
    BY <1>1, <1>4, MatchFound
  <2>2. list[i] \in Node
    BY <1>1, <2>1
  <2> DEFINE m == Recount(list[i], list[i].count + 1, list[i].data + size[c])
  <2>3. m.count = list[i].count + 1 /\ m.data = list[i].data + size[c] /\ m.addr = a
    BY <2>1, <2>2 DEF Node, Recount
  <2>4. list' = [list EXCEPT ![i] = m]
    BY <1>1, <1>4, <2>1
  <2> HIDE DEF m, i
  <2>5. /\ Len(list') = Len(list) /\ list'[i] = m
        /\ \A j \in 1..Len(list) : j # i => list'[j] = list[j]
    BY <1>1, <2>1, <2>4
  <2>6. EntryOf(a) = [count |-> list[i].count, data |-> list[i].data]
    BY <1>1, <1>2, <2>1 DEF EntriesAre
  <2>7. EntryOf(a)' = [count |-> m.count, data |-> m.data]
    BY <1>1, <1>2, <2>1, <2>3, <2>5 DEF EntriesAre
  <2>8. ASSUME NEW b \in Addr, b # a PROVE EntryOf(b)' = EntryOf(b)
    <3>1. CASE \E j \in 1..Len(list) : list[j].addr = b
      <4>1. PICK j \in 1..Len(list) : list[j].addr = b
        BY <3>1
      <4>2. j # i /\ list'[j] = list[j]
        BY <2>1, <2>5, <2>8, <4>1
      <4>3. EntryOf(b) = [count |-> list[j].count, data |-> list[j].data]
        BY <1>2, <4>1, Zenon DEF EntriesAre
      <4>4. j \in 1..Len(list') /\ list'[j].addr = b
        BY <2>5, <4>1, <4>2
      <4>5. EntryOf(b)' = [count |-> list'[j].count, data |-> list'[j].data]
        BY <1>2, <4>4, Zenon DEF EntriesAre
      <4> QED BY <4>2, <4>3, <4>5
    <3>2. CASE \A j \in 1..Len(list) : list[j].addr # b
      <4>1. \A j \in 1..Len(list') : list'[j].addr # b
        BY <2>3, <2>5, <2>8, <3>2
      <4> QED BY <1>2, <3>2, <4>1 DEF EntriesAre
    <3> QED BY <3>1, <3>2
  <2>9. TableLog(a, size[c])
    BY <2>3, <2>6, <2>7, <2>8 DEF TableLog
  <2> QED BY <1>1, <2>9 DEF TableStep
<1>5. CASE i = 0 /\ list' = Append(list, new)
  <2>1. /\ Len(list') = Len(list) + 1 /\ list'[Len(list) + 1] = new
        /\ \A j \in 1..Len(list) : list'[j] = list[j]
    BY <1>1, <1>5, SMTT(30)
  <2>2. \A j \in 1..Len(list) : list[j].addr # a
    BY <1>1, <1>5, MatchZero
  <2>3. EntryOf(a) = [count |-> 0, data |-> 0]
    BY <1>1, <1>2, <2>2 DEF EntriesAre
  <2>4. EntryOf(a)' = [count |-> 0, data |-> 0]
    <3>1. PICK k \in 1..Len(list') : list'[k] = new
      BY <1>1, <2>1
    <3>2. new.addr = a /\ new.count = 0 /\ new.data = 0
      OBVIOUS
    <3>3. EntryOf(a)' = [count |-> list'[k].count, data |-> list'[k].data]
      BY <1>1, <1>2, <3>1, <3>2, Zenon DEF EntriesAre
    <3> QED BY <3>1, <3>2, <3>3
  <2>5. ASSUME NEW b \in Addr, b # a PROVE EntryOf(b)' = EntryOf(b)
    <3>1. CASE \E j \in 1..Len(list) : list[j].addr = b
      <4>1. PICK j \in 1..Len(list) : list[j].addr = b
        BY <3>1
      <4>2. j \in 1..Len(list') /\ list'[j] = list[j]
        <5>1. Len(list) \in Nat /\ Len(list') = Len(list) + 1
          BY <1>1, <2>1
        <5> QED BY <2>1, <4>1, <5>1
      <4>3. EntryOf(b) = [count |-> list[j].count, data |-> list[j].data]
        BY <1>2, <4>1 DEF EntriesAre
      <4>4. EntryOf(b)' = [count |-> list'[j].count, data |-> list'[j].data]
        BY <1>2, <4>1, <4>2 DEF EntriesAre
      <4> QED BY <4>2, <4>3, <4>4
    <3>2. CASE \A j \in 1..Len(list) : list[j].addr # b
      <4>1. \A j \in 1..Len(list') : list'[j].addr # b
        BY <1>1, <2>1, <2>5, <3>2
      <4> QED BY <1>2, <3>2, <4>1 DEF EntriesAre
    <3> QED BY <3>1, <3>2
  <2> QED BY <2>3, <2>4, <2>5 DEF TableStep, TableSame
<1> QED BY <1>0, <1>3, <1>4, <1>5 DEF add_to_list_scan

\* Filling a node logs its packet.
LEMMA FillLogs ==
  ASSUME IInv, IInv', SizeInv, NEW c \in RxCpu, add_to_list_fill(c)
  PROVE  TableStep
<1> USE DEF RxAt, RxGoto
<1>0. PICK a \in Addr : a = skb[c].addr
  BY DEF add_to_list_fill, IInv, TypeOK, Packet
<1> DEFINE n == Len(list)
           node == [addr |-> a, count |-> 1, data |-> size[c], ready |-> TRUE]
<1>1. /\ list \in Seq(Node) /\ size[c] \in DataLen /\ size[c] \in Nat /\ n \in Nat
  <2>1. list \in Seq(Node) /\ n \in Nat
    BY DEF IInv, TypeOK
  <2>2. size[c] \in DataLen
    BY DEF add_to_list_fill, SizeInv
  <2> QED BY <2>1, <2>2, NetProcAssumption
<1>2. EntriesAre /\ EntriesAre'
  BY EntryIs, EntryIsNext
<1>3. CASE UNCHANGED list
  BY <1>3, TableKept DEF TableStep
<1>4. CASE list' = [list EXCEPT ![n] = node]
  <2>1. n \in 1..n /\ list[n].addr = a /\ list[n].count = 0 /\ list[n].data = 0
    <3>1. rx[c] = "fill"
      BY DEF add_to_list_fill
    <3>2. n > 0 /\ list[n].addr = a /\ list[n].count = 0
      BY <1>0, <3>1 DEF IInv, FillInv
    <3>3. list[n].data = 0
      BY <3>1 DEF SizeInv
    <3>4. n \in 1..n
      BY <1>1, <3>2
    <3> QED BY <3>2, <3>3, <3>4
  <2>2. node.count = 1 /\ node.data = size[c] /\ node.addr = a
    OBVIOUS
  <2> HIDE DEF node
  <2>3. /\ Len(list') = n /\ list'[n] = node
        /\ \A j \in 1..n : j # n => list'[j] = list[j]
    BY <1>1, <1>4, <2>1, SMTT(30)
  <2> HIDE DEF n
  <2>4. EntryOf(a) = [count |-> 0, data |-> 0]
    BY <1>2, <2>1 DEF EntriesAre, n
  <2>5. EntryOf(a)' = [count |-> 1, data |-> size[c]]
    BY <1>2, <2>1, <2>2, <2>3 DEF EntriesAre
  <2>6. ASSUME NEW b \in Addr, b # a PROVE EntryOf(b)' = EntryOf(b)
    <3>1. CASE \E j \in 1..n : list[j].addr = b
      <4>1. PICK j \in 1..n : list[j].addr = b
        BY <3>1
      <4>2. j # n /\ list'[j] = list[j]
        BY <2>1, <2>3, <2>6, <4>1
      <4>3. j \in 1..Len(list) /\ j \in 1..Len(list')
        BY <2>3, <4>1 DEF n
      <4>4. EntryOf(b) = [count |-> list[j].count, data |-> list[j].data]
        BY <1>2, <4>1, <4>3 DEF EntriesAre
      <4>5. EntryOf(b)' = [count |-> list'[j].count, data |-> list'[j].data]
        BY <1>2, <4>1, <4>2, <4>3 DEF EntriesAre
      <4> QED BY <4>2, <4>4, <4>5
    <3>2. CASE \A j \in 1..n : list[j].addr # b
      <4>1. \A j \in 1..Len(list') : list'[j].addr # b
        BY <2>2, <2>3, <2>6, <3>2
      <4> QED BY <1>2, <3>2, <4>1 DEF EntriesAre, n
    <3> QED BY <3>1, <3>2
  <2>7. TableLog(a, size[c])
    BY <1>1, <2>4, <2>5, <2>6 DEF TableLog
  <2> QED BY <1>1, <2>7 DEF TableStep
<1> QED BY <1>0, <1>3, <1>4 DEF add_to_list_fill

\* my_write_clear clears the table.
LEMMA ClearClears ==
  ASSUME IInv, IInv', NEW c \in WrCpu, my_write_clear(c)
  PROVE  TableClear
<1>1. list \in Seq(Node) /\ Len(list) \in Nat /\ DOMAIN list = 1..Len(list)
  BY DEF IInv, TypeOK
<1>2. \A i \in 1..Len(list) : Recount(list[i], 0, 0).count = 0 /\ Recount(list[i], 0, 0).data = 0
  <2> TAKE i \in 1..Len(list)
  <2>1. list[i] \in Node
    BY <1>1
  <2> QED BY <2>1 DEF Node, Recount
<1>3. /\ Len(list') = Len(list)
      /\ \A i \in 1..Len(list) : list'[i].count = 0 /\ list'[i].data = 0
  BY <1>1, <1>2 DEF my_write_clear
<1>4. EntriesAre'
  BY EntryIsNext
<1>5. ASSUME NEW a \in Addr PROVE EntryOf(a)' = [count |-> 0, data |-> 0]
  <2>1. CASE \E i \in 1..Len(list') : list'[i].addr = a
    BY <1>3, <1>4, <2>1 DEF EntriesAre
  <2>2. CASE \A i \in 1..Len(list') : list'[i].addr # a
    BY <1>4, <2>2 DEF EntriesAre
  <2> QED BY <2>1, <2>2
<1> QED BY <1>5 DEF TableClear

\* Everything else leaves the list alone.
LEMMA NextTable == IInv /\ IInv' /\ SizeInv /\ [Next]_vars => TableStep
<1> SUFFICES ASSUME IInv, IInv', SizeInv, [Next]_vars PROVE TableStep
  OBVIOUS
<1>1. ASSUME UNCHANGED list PROVE TableStep
  BY <1>1, TableKept DEF TableStep
<1>2. ASSUME NEW c \in WrCpu, my_write_clear(c) PROVE TableStep
  BY <1>2, ClearClears DEF TableStep
<1> QED BY <1>1, <1>2, ScanLogs, FillLogs DEF Next, hook_func, HookSteps, hook_func_log,
     add_to_list_lock, add_to_list_unlock, my_write, my_write_lock, WriteSteps,
     my_write_unlock, my_start, my_next, my_stop, remove_proc_entry, ExitSteps,
     free_list, nf_unregister_hook, synchronize_net, vars

-----------------------------------------------------------------------------
\* Every step keeps the sizes.
LEMMA SizeStep == IInv /\ SizeInv /\ [Next]_vars => SizeInv'
<1> SUFFICES ASSUME IInv, SizeInv, [Next]_vars PROVE SizeInv'
  OBVIOUS
<1> USE DEF RxAt, RxGoto, hookVars, ghostVars
<1>0. /\ rx \in [RxCpu -> {"idle", "log", "spin", "scan", "fill", "unlock"}]
      /\ size \in [RxCpu -> Nat] /\ list \in Seq(Node)
  BY DEF IInv, TypeOK
\* Nobody else is filling a node while c holds the lock.
<1>1. ASSUME NEW c \in RxCpu, rx[c] \in {"scan", "fill", "unlock"}, NEW d \in RxCpu, d # c
      PROVE  rx[d] # "fill"
  <2>1. net_lock = <<c, "rx">>
    BY <1>1 DEF IInv, LockInv
  <2> QED BY <1>1, <2>1 DEF IInv, LockInv
<1>2. ASSUME NEW c \in RxCpu, NEW p \in Packet, hook_func(c, p) PROVE SizeInv'
  BY <1>0, <1>2 DEF hook_func, SizeInv
<1>3. ASSUME NEW c \in RxCpu, hook_func_log(c) PROVE SizeInv'
  <2>1. sock_buff \in RxCpu /\ skb[sock_buff] \in Packet \cup {None}
    BY <1>3 DEF hook_func_log, IInv, TypeOK
  <2>2. PICK n \in IF skb[sock_buff] = None THEN DataLen ELSE {skb[sock_buff].len} :
               size' = [size EXCEPT ![c] = n]
    BY <1>3 DEF hook_func_log
  <2>3. n \in DataLen
    BY <2>1, <2>2 DEF Packet
  <2>4. rx[c] = "log" /\ rx' = [rx EXCEPT ![c] = "spin"] /\ list' = list
    BY <1>3 DEF hook_func_log
  <2> QED BY <1>0, <2>2, <2>3, <2>4 DEF SizeInv
<1>4. ASSUME NEW c \in RxCpu, add_to_list_lock(c) PROVE SizeInv'
  BY <1>0, <1>4 DEF add_to_list_lock, SizeInv
<1>5. ASSUME NEW c \in RxCpu, add_to_list_scan(c) PROVE SizeInv'
  <2> DEFINE new == [addr |-> skb[c].addr, count |-> 0, data |-> 0, ready |-> FALSE]
  <2>1. rx[c] = "scan" /\ UNCHANGED size
    BY <1>5 DEF add_to_list_scan
  <2>2. \A d \in RxCpu : rx[d] # "fill"
    BY <1>1, <2>1
  <2>3. CASE UNCHANGED rx
    BY <2>1, <2>2, <2>3 DEF SizeInv
  <2>4. CASE rx' = [rx EXCEPT ![c] = "unlock"]
    BY <1>0, <2>1, <2>2, <2>4 DEF SizeInv
  <2>5. CASE rx' = [rx EXCEPT ![c] = "fill"] /\ list' = Append(list, new)
    <3>1. list'[Len(list')] = new
      BY <1>0, <2>5, SMTT(30)
    <3>2. \A d \in RxCpu : rx'[d] = "fill" => d = c
      BY <1>0, <2>2, <2>5
    <3>3. list'[Len(list')].data = 0
      BY <3>1
    <3> QED BY <1>0, <2>1, <2>5, <3>2, <3>3 DEF SizeInv
  <2> QED BY <1>5, <2>3, <2>4, <2>5 DEF add_to_list_scan
<1>6. ASSUME NEW c \in RxCpu, add_to_list_fill(c) PROVE SizeInv'
  <2>1. rx[c] = "fill" /\ UNCHANGED size
    BY <1>6 DEF add_to_list_fill
  <2>2. \A d \in RxCpu : rx[d] = "fill" => d = c
    BY <1>1, <2>1
  <2>3. CASE UNCHANGED <<list, rx>>
    BY <2>1, <2>3 DEF SizeInv
  <2>4. CASE rx' = [rx EXCEPT ![c] = "unlock"]
    BY <1>0, <2>1, <2>2, <2>4 DEF SizeInv
  <2> QED BY <1>6, <2>3, <2>4 DEF add_to_list_fill
<1>7. ASSUME NEW c \in RxCpu, add_to_list_unlock(c) PROVE SizeInv'
  BY <1>0, <1>7 DEF add_to_list_unlock, SizeInv
<1>8. ASSUME NEW c \in WrCpu, my_write_clear(c) PROVE SizeInv'
  <2>1. net_lock = <<c, "wr">> /\ UNCHANGED <<rx, size>>
    BY <1>8 DEF my_write_clear, WrAt, IInv, LockInv
  <2>2. \A d \in RxCpu : <<d, "rx">> # <<c, "wr">>
    OBVIOUS
  <2>3. \A d \in RxCpu : rx[d] # "fill"
    BY <2>1, <2>2 DEF IInv, LockInv
  <2> QED BY <2>1, <2>3 DEF SizeInv
<1>9. CASE UNCHANGED <<list, rx, size>>
  BY <1>9 DEF SizeInv
<1> QED BY <1>2, <1>3, <1>4, <1>5, <1>6, <1>7, <1>8, <1>9 DEF Next, HookSteps,
     my_write, my_write_lock, WriteSteps, my_write_unlock, my_start, my_next, my_stop,
     remove_proc_entry, ExitSteps, free_list, nf_unregister_hook, synchronize_net, vars

\* They hold throughout.
LEMMA SizeHolds == Spec => []SizeInv
<1>1. Init => SizeInv
  BY DEF Init, SizeInv
<1> QED BY <1>1, SizeStep, IInvHolds, PTL DEF Spec

\* network_procfs.c implements the table of counters: on any number of CPUs a
\* step of the hook, of my_write or of cleanup_packet counts one packet in one
\* entry, clears every entry, or leaves the table as it is.
THEOREM Refinement == Spec => ImplementsTable
<1>1. Init => Table!Init
  BY DEF Init, Table!Init, Table!Zero, CountOf, DataOf, Match, Matches
<1>2. IInv /\ IInv' /\ SizeInv /\ [Next]_vars
        => [Table!Next]_[a \in Addr |-> [count |-> CountOf(a), data |-> DataOf(a)]]
  <2> DEFINE T == [a \in Addr |-> EntryOf(a)]
  <2> SUFFICES ASSUME IInv, IInv', SizeInv, [Next]_vars
               PROVE  [Table!Next]_T
    BY DEF EntryOf
  <2>1. TableStep
    BY NextTable
  <2>2. CASE TableSame
    BY <2>2 DEF TableSame
  <2>3. CASE TableClear
    BY <2>3 DEF TableClear, Table!Next, Table!Clear, Table!Zero, EntryOf
  <2>4. ASSUME NEW a \in Addr, NEW n \in DataLen, TableLog(a, n) PROVE [Table!Next]_T
    <3>1. T' = [T EXCEPT ![a] = [count |-> T[a].count + 1, data |-> T[a].data + n]]
      BY <2>4 DEF TableLog
    <3> QED BY <3>1 DEF Table!Next, Table!Log, EntryOf
  <2> QED BY <2>1, <2>2, <2>3, <2>4 DEF TableStep
<1> QED BY <1>1, <1>2, IInvHolds, SizeHolds, PTL DEF Spec, ImplementsTable, Table!Spec
=============================================================================
