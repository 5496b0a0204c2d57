------------------------------- MODULE MCCalls -------------------------------
(* The modules about one call of a driver racing with another: what runs is *)
(* chosen at the start, and the others stay in their initial states.        *)
EXTENDS SeqPass

CONSTANTS
  Tasks, Before, User,       \* see TaskWalk
  Cpu, Packet, Icmp, None,   \* see PacketBlock
  Caller, MaxCpus            \* see RwSleep

ASSUME CallsAssumption ==
  /\ Tasks \in Nat /\ Before \in 0..Tasks
  /\ IsFiniteSet(Caller) /\ MaxCpus \in Nat

VARIABLES
  model,
  threadOf, wakesAll, mod, thread, mustStop, badTask,
  next, life, visit, walk, printed,
  sock_buff, ip_header, hook, skb, header, verdict, during, released,
  cpus, task, op, onCpu, readers, writers, faulted

kvars == <<threadOf, wakesAll, mod, thread, mustStop, badTask>>
tvars == <<next, life, visit, walk, printed>>
pvars == <<sock_buff, ip_header, hook, skb, header, verdict, during, released>>
rvars == <<cpus, task, op, onCpu, readers, writers, faulted>>
all == <<model, vars, kvars, tvars, pvars, rvars>>

K == INSTANCE KThread
T == INSTANCE TaskWalk WITH at <- visit, seen <- printed
P == INSTANCE PacketBlock
R == INSTANCE RwSleep WITH User <- Caller

AllInit ==
  /\ model \in {"SeqPass", "KThread", "TaskWalk", "PacketBlock", "RwSleep"}
  /\ Init /\ K!Init /\ T!Init /\ P!Init /\ R!Init
  /\ model # "SeqPass" => list = "net" /\ count = 0
  /\ model # "KThread" => threadOf = "kernel_thread" /\ wakesAll
  /\ model # "RwSleep" => cpus = 1

AllNext ==
  \/ model = "SeqPass" /\ Next /\ UNCHANGED <<model, kvars, tvars, pvars, rvars>>
  \/ model = "KThread" /\ K!Next /\ UNCHANGED <<model, vars, tvars, pvars, rvars>>
  \/ model = "TaskWalk" /\ T!Next /\ UNCHANGED <<model, vars, kvars, pvars, rvars>>
  \/ model = "PacketBlock" /\ P!Next /\ UNCHANGED <<model, vars, kvars, tvars, rvars>>
  \/ model = "RwSleep" /\ R!Next /\ UNCHANGED <<model, vars, kvars, tvars, pvars>>

\* Threads, exits and walks that can go on do; spinning for my_rwlock succeeds
\* if the lock is free again and again.
AllSpec ==
  /\ AllInit /\ [][AllNext]_all
  /\ WF_kvars(model = "KThread" /\ K!ExitSteps) /\ WF_kvars(model = "KThread" /\ K!ThreadSteps)
  /\ WF_tvars(model = "TaskWalk" /\ (T!hello_init_task \/ T!hello_init_files))
  /\ \A p \in Caller : WF_rvars(model = "RwSleep" /\ R!Steps(p))
                      /\ SF_rvars(model = "RwSleep" /\ R!lock(p))

-----------------------------------------------------------------------------
\* The type invariants of the modules.
TypesOK == TypeOK /\ K!TypeOK /\ T!TypeOK /\ P!TypeOK /\ R!TypeOK

\* kernel_thread.c: rmmod ends unless the thread is gone or was left stopped.
StopEnds == model = "KThread" => K!StopEnds

\* thread_tree.c: the walk of hello_init prints every task that stays.
WalkSeesAll == T!WalkSeesAll

\* thread_tree.c: the walk of hello_init ends, or faults.
WalkEnds == model = "TaskWalk" => T!WalkEnds

\* packet_block_protocol.c: a verdict of hook_func is about a packet that was
\* in the hook at the same time, or together with one that was.
VerdictOfOverlap == P!VerdictOfOverlap

\* misc_char_dev.c: my_read and my_write block every processor only by
\* sleeping with my_rwlock held, where processors are scarce.
StuckOnlyBySleep == R!StuckOnlyBySleep

\* misc_char_dev.c: with enough processors my_read and my_write return.
CallReturns == model = "RwSleep" => R!CallReturns
==============================================================================
