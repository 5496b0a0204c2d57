---------------------------- MODULE KeyLogProofs ----------------------------
(* Proofs about KeyLog for any processes, read lengths and bounds.         *)
EXTENDS KeyLog, FiniteSetTheorems, TLAPS

\* What TypeOK and NoLostWakeup need of the handler and of read: a handler in
\* progress has a call to make, and a read waits for the length it was given.
Control ==
  /\ hpc # "idle" => hleft > 0
  /\ \A p \in Proc : pc[p] \in Reading => want[p] \in ReadLen

IInv == TypeOK /\ Control

\* A buffer of a legal length that holds scancodes or junk is in Bytes.
LEMMA BytesIntro ==
  ASSUME NEW n \in ReadLen \cup {0}, NEW f \in [0..(n - 1) -> 0..MaxKeys]
  PROVE  f \in Bytes
BY DEF Bytes

\* Storing a scancode at an index of a buffer leaves it in Bytes.
LEMMA BytesStore ==
  ASSUME NEW b \in Bytes, NEW i \in DOMAIN b, NEW k \in 0..MaxKeys
  PROVE  [b EXCEPT ![i] = k] \in Bytes
<1>1. PICK n \in ReadLen \cup {0} : b \in [0..(n - 1) -> 0..MaxKeys]
  BY DEF Bytes
<1>2. [b EXCEPT ![i] = k] \in [0..(n - 1) -> 0..MaxKeys]
  BY <1>1
<1> QED BY <1>2, BytesIntro

\* What read copies to the user is in Bytes, whatever the buffer's length.
LEMMA BytesCopy ==
  ASSUME NEW n \in ReadLen \cup {0}, NEW b \in Bytes
  PROVE  [i \in 0..(n - 1) |-> IF i \in DOMAIN b THEN b[i] ELSE Junk] \in Bytes
<1>1. PICK m \in ReadLen \cup {0} : b \in [0..(m - 1) -> 0..MaxKeys]
  BY DEF Bytes
<1>2. Junk \in 0..MaxKeys
  BY KeyLogAssumption DEF Junk
<1>3. [i \in 0..(n - 1) |-> IF i \in DOMAIN b THEN b[i] ELSE Junk]
        \in [0..(n - 1) -> 0..MaxKeys]
  BY <1>1, <1>2
<1> QED BY <1>3, BytesIntro

\* A fresh buffer of kmalloc is in Bytes.
LEMMA BytesFresh ==
  ASSUME NEW n \in ReadLen \cup {0}
  PROVE  [i \in 0..(n - 1) |-> Junk] \in Bytes
<1>1. Junk \in 0..MaxKeys
  BY KeyLogAssumption DEF Junk
<1> QED BY <1>1, BytesIntro

\* The empty buffer ubuf and heap start with is in Bytes.
LEMMA BytesEmpty == [i \in {} |-> Junk] \in Bytes
<1>1. [i \in {} |-> Junk] \in [0..(0 - 1) -> 0..MaxKeys]
  OBVIOUS
<1> QED BY <1>1, BytesIntro

-----------------------------------------------------------------------------
\* The invariant holds at the start.
LEMMA InitIInv == Init => IInv
<1> SUFFICES ASSUME Init PROVE IInv
  OBVIOUS
<1>1. TypeOK
  <2>1. ubuf \in [Proc -> Bytes]
    BY BytesEmpty DEF Init
  <2>2. heap \in [1..MaxReads -> [live : BOOLEAN, data : Bytes]]
    <3>1. [live |-> FALSE, data |-> [i \in {} |-> Junk]] \in [live : BOOLEAN, data : Bytes]
      BY BytesEmpty
    <3> QED BY <3>1 DEF Init
  <2>3. /\ pc \in [Proc -> Label] /\ reg \in [Proc -> Int]
        /\ want \in [Proc -> ReadLen \cup {0}] /\ since \in [Proc -> 0..MaxKeys]
    BY KeyLogAssumption DEF Init, Label
  <2>4. /\ opens \in 0..MaxOpens /\ allocs \in 0..MaxReads /\ kbuf \in 0..allocs
        /\ hbuf \in 0..allocs /\ struck \in 0..MaxKeys
    BY KeyLogAssumption DEF Init, NULL
  <2>5. queued \in BOOLEAN /\ raced \in BOOLEAN
    BY DEF Init
  <2> QED BY <2>1, <2>2, <2>3, <2>4, <2>5 DEF Init, TypeOK
<1>2. Control
  BY DEF Init, Control, Reading
<1> QED BY <1>1, <1>2 DEF IInv

\* open, close and the steps of read that touch no buffer.
LEMMA ProcStep ==
  ASSUME IInv, NEW p \in Proc,
         \/ keylog_open(p) \/ OpenSteps(p) \/ keylog_close(p) \/ CloseSteps(p)
         \/ keylog_read_keys(p) \/ keylog_read_wait(p) \/ keylog_read_signal(p)
  PROVE  IInv'
<1> USE KeyLogAssumption DEF IInv, Goto, At, procVars, countVars, compVars,
        bufVars, handlerVars, Label, Opening, Reading, Closing
<1>1. CASE keylog_open(p)
  BY <1>1 DEF TypeOK, Control, keylog_open, LoadCount
<1>2. CASE keylog_open_count(p)
  BY <1>2 DEF TypeOK, Control, keylog_open_count
<1>3. CASE keylog_open_init(p)
  BY <1>3 DEF TypeOK, Control, keylog_open_init
<1>4. CASE keylog_close(p)
  BY <1>4 DEF TypeOK, Control, keylog_close, LoadCount
<1>5. CASE keylog_close_count(p)
  BY <1>5 DEF TypeOK, Control, keylog_close_count
<1>6. CASE keylog_close_complete(p)
  BY <1>6 DEF TypeOK, Control, keylog_close_complete
<1>7. CASE keylog_read_keys(p)
  BY <1>7 DEF TypeOK, Control, keylog_read_keys
<1>8. CASE keylog_read_wait(p)
  BY <1>8 DEF TypeOK, Control, keylog_read_wait
<1>9. CASE keylog_read_signal(p)
  BY <1>9 DEF TypeOK, Control, keylog_read_signal
<1> QED
  BY <1>1, <1>2, <1>3, <1>4, <1>5, <1>6, <1>7, <1>8, <1>9 DEF OpenSteps, CloseSteps

\* The steps of read that allocate, copy and free.
LEMMA BufferStep ==
  ASSUME IInv, NEW p \in Proc,
         \/ \E n \in ReadLen : keylog_read(p, n)
         \/ keylog_read_copy(p) \/ keylog_read_free(p)
  PROVE  IInv'
<1> USE KeyLogAssumption DEF IInv, Goto, At, procVars, countVars, compVars,
        bufVars, handlerVars, Label, Opening, Reading, Closing
<1>1. ASSUME NEW n \in ReadLen, keylog_read(p, n) PROVE IInv'
  <2>1. heap' \in [1..MaxReads -> [live : BOOLEAN, data : Bytes]]
    <3> DEFINE fresh == [live |-> TRUE, data |-> [i \in 0..(n - 1) |-> Junk]]
    <3>1. fresh \in [live : BOOLEAN, data : Bytes]
      BY BytesFresh
    <3>2. heap' = [heap EXCEPT ![allocs'] = fresh] \/ heap' = heap
      BY <1>1 DEF keylog_read
    <3> HIDE DEF fresh
    <3> QED BY <3>1, <3>2 DEF TypeOK
  <2>2. TypeOK'
    BY <1>1, <2>1 DEF TypeOK, keylog_read, NULL
  <2>3. Control'
    BY <1>1 DEF TypeOK, Control, keylog_read
  <2> QED BY <2>2, <2>3
<1>2. CASE keylog_read_copy(p)
  <2>1. ubuf' \in [Proc -> Bytes]
    <3>1. CASE kbuf # NULL
      <4>1. kbuf \in 1..MaxReads
        BY <3>1 DEF TypeOK, NULL
      <4>2. heap[kbuf].data \in Bytes /\ want[p] \in ReadLen \cup {0}
        BY <4>1 DEF TypeOK
      <4> DEFINE copy == [i \in 0..(want[p] - 1) |->
                            IF i \in DOMAIN heap[kbuf].data THEN heap[kbuf].data[i]
                            ELSE Junk]
      <4>3. copy \in Bytes
        BY <4>2, BytesCopy
      <4>4. ubuf' = [ubuf EXCEPT ![p] = copy] \/ ubuf' = ubuf
        BY <1>2 DEF keylog_read_copy
      <4> HIDE DEF copy
      <4> QED BY <4>3, <4>4 DEF TypeOK
    <3>2. CASE kbuf = NULL
      BY <1>2, <3>2 DEF TypeOK, keylog_read_copy
    <3> QED BY <3>1, <3>2
  <2>2. TypeOK'
    BY <1>2, <2>1 DEF TypeOK, keylog_read_copy
  <2>3. Control'
    BY <1>2 DEF TypeOK, Control, keylog_read_copy
  <2> QED BY <2>2, <2>3
<1>3. CASE keylog_read_free(p)
  BY <1>3 DEF TypeOK, Control, keylog_read_free, NULL
<1> QED BY <1>1, <1>2, <1>3

\* The interrupt and the handler.
LEMMA HandlerStep ==
  ASSUME IInv, Interrupt \/ HandlerSteps
  PROVE  IInv'
<1> USE KeyLogAssumption DEF IInv, HandlerAt, procVars, countVars, compVars,
        bufVars, handlerVars, Label, Opening, Reading, Closing
<1>1. CASE Interrupt
  BY <1>1 DEF TypeOK, Control, Interrupt
<1>2. CASE testirq_handler
  <2>1. /\ hpc' \in {"idle", "entry", "store"} /\ hleft' \in Nat
        /\ hbuf' \in 0..allocs /\ hkeys' \in Int
        /\ (hpc' = "store" => hbuf' # NULL) /\ (hpc' # "idle" => hleft' > 0)
    BY <1>2 DEF TypeOK, Control, testirq_handler, HandlerReturn, NULL
  <2>2. UNCHANGED <<procVars, countVars, compVars, bufVars, keys, struck, exitpc>>
    BY <1>2 DEF testirq_handler
  <2> QED BY <2>1, <2>2 DEF TypeOK, Control
<1>3. CASE testirq_handler_store
  <2>0. hpc = "store" /\ hbuf \in 0..allocs /\ hbuf # NULL /\ allocs \in 0..MaxReads
    BY <1>3 DEF TypeOK, testirq_handler_store, HandlerStore
  <2>1. hbuf \in 1..MaxReads /\ heap[hbuf].data \in Bytes
    <3>1. hbuf \in 1..MaxReads
      BY <2>0 DEF NULL
    <3> QED BY <3>1 DEF TypeOK
  <2>2. heap' \in [1..MaxReads -> [live : BOOLEAN, data : Bytes]]
    <3>1. CASE hkeys \in DOMAIN heap[hbuf].data
      <4>1. [heap[hbuf].data EXCEPT ![hkeys] = struck] \in Bytes
        BY <2>1, <3>1, BytesStore DEF TypeOK
      <4>2. heap' = [heap EXCEPT ![hbuf].data = [heap[hbuf].data EXCEPT ![hkeys] = struck]]
        BY <1>3, <2>1, <3>1 DEF TypeOK, testirq_handler_store, HandlerStore
      <4> DEFINE stored == [heap[hbuf].data EXCEPT ![hkeys] = struck]
      <4> HIDE DEF stored
      <4>3. stored \in Bytes /\ heap' = [heap EXCEPT ![hbuf].data = stored]
        BY <4>1, <4>2 DEF stored
      <4>4. heap \in [1..MaxReads -> [live : BOOLEAN, data : Bytes]]
        BY DEF TypeOK
      <4>5. [heap[hbuf] EXCEPT !.data = stored] \in [live : BOOLEAN, data : Bytes]
        BY <2>1, <4>3, <4>4
      <4> QED BY <2>1, <4>3, <4>4, <4>5
    <3>2. CASE hkeys \notin DOMAIN heap[hbuf].data
      BY <1>3, <3>2 DEF TypeOK, testirq_handler_store, HandlerStore
    <3> QED BY <3>1, <3>2
  <2>3. /\ keys' \in Int /\ hleft' \in Nat
        /\ hpc' \in {"idle", "entry", "wake"}
        /\ UNCHANGED <<procVars, countVars, compVars, kbuf, allocs, struck, hbuf,
                       hkeys, exitpc>>
    <3>1. /\ keys' = hkeys - 1
          /\ UNCHANGED <<procVars, countVars, compVars, kbuf, allocs, struck, hbuf,
                         hkeys, exitpc>>
          /\ (hpc' = "wake" /\ hleft' = hleft)
             \/ (hleft' = hleft - 1 /\ hpc' = IF hleft > 1 THEN "entry" ELSE "idle")
      BY <1>3 DEF testirq_handler_store, HandlerStore, HandlerReturn
    <3>2. hkeys \in Int /\ hleft \in Nat /\ hleft > 0
      BY <2>0 DEF TypeOK, Control
    <3>3. hpc' \in {"idle", "entry", "wake"} /\ hleft' \in Nat
      BY <3>1, <3>2
    <3> QED BY <3>1, <3>2, <3>3
  <2>5. TypeOK'
    BY <2>2, <2>3 DEF TypeOK
  <2>4. Control'
    <3>1. \/ hpc' = "wake" /\ hleft' = hleft
          \/ hleft' = hleft - 1 /\ hpc' = IF hleft > 1 THEN "entry" ELSE "idle"
      BY <1>3 DEF testirq_handler_store, HandlerStore, HandlerReturn
    <3>2. hleft \in Nat /\ hleft > 0
      BY <2>0 DEF TypeOK, Control
    <3>3. hpc' # "idle" => hleft' > 0
      BY <3>1, <3>2
    <3> QED BY <2>3, <3>3 DEF Control
  <2> QED BY <2>4, <2>5
<1>4. CASE testirq_handler_wake
  BY <1>4 DEF TypeOK, Control, testirq_handler_wake, HandlerReturn
<1> QED BY <1>1, <1>2, <1>3, <1>4 DEF HandlerSteps

\* rmmod.
LEMMA ExitStep ==
  ASSUME IInv, keylog_driver_exit \/ ExitSteps
  PROVE  IInv'
<1> USE DEF IInv, TypeOK, Control, procVars, countVars, compVars, bufVars, handlerVars
<1>1. CASE keylog_driver_exit
  BY <1>1 DEF keylog_driver_exit
<1>2. CASE wait_for_completion
  <2>1. queued' \in BOOLEAN
    BY <1>2, Zenon DEF wait_for_completion
  <2>2. done' \in Nat /\ exitpc' \in {"dereg", "asleep"}
    BY <1>2 DEF wait_for_completion
  <2> QED BY <1>2, <2>1, <2>2 DEF wait_for_completion
<1>3. CASE misc_deregister
  BY <1>3 DEF misc_deregister
<1> QED BY <1>1, <1>2, <1>3 DEF ExitSteps

\* Every step keeps it.
LEMMA NextIInv == IInv /\ [Next]_vars => IInv'
<1> SUFFICES ASSUME IInv, [Next]_vars PROVE IInv'
  OBVIOUS
<1>1. CASE UNCHANGED vars
  BY <1>1 DEF IInv, TypeOK, Control, vars, procVars, countVars, compVars, bufVars,
     handlerVars
<1>2. CASE Next
  BY <1>2, ProcStep, BufferStep, HandlerStep, ExitStep DEF Next, ReadSteps
<1> QED BY <1>1, <1>2

\* It holds throughout.
LEMMA IInvHolds == Spec => []IInv
BY InitIInv, NextIInv, PTL DEF Spec

\* The driver's state stays in its types for any number of processes, any
\* read lengths and any number of calls and key strokes; in particular the
\* handler stores through kbuf only after its test that kbuf is not NULL.
THEOREM TypeCorrect == Spec => []TypeOK
<1>1. IInv => TypeOK
  BY DEF IInv
<1> QED BY <1>1, IInvHolds, PTL

-----------------------------------------------------------------------------
\* keys becomes 0 only in the store that leads to the wake-up.
LEMMA NextWakeup == IInv /\ NoLostWakeup /\ [Next]_vars => NoLostWakeup'
<1> SUFFICES ASSUME IInv, NoLostWakeup, [Next]_vars, 0 \notin ReadLen,
                    NEW q \in Proc, pc'[q] = "r_asleep", keys' = 0
             PROVE  hpc' = "wake"
  BY DEF NoLostWakeup
<1> USE DEF IInv, NoLostWakeup, Goto, procVars, countVars, compVars, bufVars,
        handlerVars
<1>1. CASE UNCHANGED vars
  BY <1>1 DEF vars
<1>2. ASSUME NEW p \in Proc,
             \/ keylog_open(p) \/ OpenSteps(p) \/ keylog_close(p) \/ CloseSteps(p)
             \/ \E n \in ReadLen : keylog_read(p, n)
      PROVE  hpc' = "wake"
  BY <1>2 DEF TypeOK, keylog_open, OpenSteps, keylog_open_count, keylog_open_init,
     keylog_close, CloseSteps, keylog_close_count, keylog_close_complete, keylog_read
<1>3. ASSUME NEW p \in Proc, ReadSteps(p) \/ keylog_read_signal(p)
      PROVE  hpc' = "wake"
  <2>1. CASE keylog_read_keys(p)
    BY <1>3, <2>1 DEF TypeOK, Control, Reading, At, keylog_read_keys
  <2>2. CASE keylog_read_wait(p)
    BY <1>3, <2>2 DEF TypeOK, keylog_read_wait
  <2>3. CASE keylog_read_copy(p) \/ keylog_read_free(p) \/ keylog_read_signal(p)
    BY <1>3, <2>3 DEF TypeOK, keylog_read_copy, keylog_read_free, keylog_read_signal
  <2> QED BY <1>3, <2>1, <2>2, <2>3 DEF ReadSteps
<1>4. CASE Interrupt \/ testirq_handler
  BY <1>4 DEF Interrupt, testirq_handler, HandlerAt, HandlerReturn
<1>5. CASE testirq_handler_store
  BY <1>5 DEF testirq_handler_store, HandlerStore
<1>6. CASE testirq_handler_wake
  BY <1>6 DEF TypeOK, testirq_handler_wake
<1>7. CASE keylog_driver_exit \/ ExitSteps
  BY <1>7 DEF keylog_driver_exit, ExitSteps, wait_for_completion, misc_deregister
<1> QED BY <1>1, <1>2, <1>3, <1>4, <1>5, <1>6, <1>7 DEF Next, HandlerSteps

\* No wake-up of key_wait is lost, for any number of readers and key strokes:
\* a reader sleeps with keys = 0 only until the handler that stored the 0 has
\* called wake_up_interruptible.
THEOREM WakeupNotLost == Spec => []NoLostWakeup
<1>1. Init => NoLostWakeup
  BY DEF Init, NoLostWakeup
<1> QED BY <1>1, NextWakeup, IInvHolds, PTL DEF Spec

-----------------------------------------------------------------------------
\* The descriptors between request_irq and free_irq.
Established == {p \in Proc : pc[p] \notin {"closed"} \cup Closing}

\* Descriptors can be counted.
LEMMA EstablishedFinite == IsFiniteSet(Established) /\ Cardinality(Established) \in Nat
<1>1. Established \in SUBSET Proc
  BY DEF Established
<1> QED BY <1>1, KeyLogAssumption, FS_Subset, FS_CardinalityType

\* Only open and close change the irqactions or the established descriptors.
LEMMA OthersKeep ==
  ASSUME IInv,
         \/ \E p \in Proc :
              \/ OpenSteps(p) \/ CloseSteps(p) \/ ReadSteps(p)
              \/ keylog_read_signal(p) \/ \E n \in ReadLen : keylog_read(p, n)
         \/ Interrupt \/ HandlerSteps \/ keylog_driver_exit \/ ExitSteps
         \/ UNCHANGED vars
  PROVE  actions' = actions /\ Established' = Established
<1> USE DEF IInv, TypeOK, Goto, At, HandlerAt, Established, procVars, countVars,
        compVars, bufVars, handlerVars, Closing
<1>1. ASSUME NEW p \in Proc, OpenSteps(p) \/ CloseSteps(p)
      PROVE  actions' = actions /\ Established' = Established
  BY <1>1 DEF OpenSteps, keylog_open_count, keylog_open_init, CloseSteps,
     keylog_close_count, keylog_close_complete
<1>2. ASSUME NEW p \in Proc,
             \/ ReadSteps(p) \/ keylog_read_signal(p)
             \/ \E n \in ReadLen : keylog_read(p, n)
      PROVE  actions' = actions /\ Established' = Established
  BY <1>2 DEF ReadSteps, keylog_read_keys, keylog_read_wait, keylog_read_copy,
     keylog_read_free, keylog_read_signal, keylog_read
<1>3. CASE Interrupt \/ testirq_handler \/ testirq_handler_store
  BY <1>3 DEF Interrupt, testirq_handler, testirq_handler_store, HandlerStore
<1>4. CASE testirq_handler_wake
  BY <1>4 DEF testirq_handler_wake
<1>5. CASE keylog_driver_exit \/ ExitSteps \/ UNCHANGED vars
  BY <1>5 DEF keylog_driver_exit, ExitSteps, wait_for_completion, misc_deregister, vars
<1> QED BY <1>1, <1>2, <1>3, <1>4, <1>5 DEF HandlerSteps

\* Only open and close change the number of actions.
LEMMA NextStray == IInv /\ NoStrayHandler /\ [Next]_vars => NoStrayHandler'
<1> SUFFICES ASSUME IInv, actions <= Cardinality(Established), [Next]_vars
             PROVE  (actions <= Cardinality(Established))'
  BY DEF NoStrayHandler, Established
<1>1. ASSUME NEW p \in Proc, keylog_open(p)
      PROVE  (actions <= Cardinality(Established))'
  <2>1. p \notin Established /\ Established' = Established \cup {p}
    BY <1>1 DEF keylog_open, At, Goto, Established, IInv, TypeOK, Closing
  <2>2. Cardinality(Established') = Cardinality(Established) + 1
    BY <2>1, EstablishedFinite, FS_AddElement
  <2> QED BY <1>1, <2>2, EstablishedFinite DEF keylog_open, IInv, TypeOK
<1>2. ASSUME NEW p \in Proc, keylog_close(p)
      PROVE  (actions <= Cardinality(Established))'
  <2>1. p \in Established /\ Established' = Established \ {p}
    BY <1>2 DEF keylog_close, At, Goto, Established, IInv, TypeOK, Closing
  <2>2. /\ Cardinality(Established') = Cardinality(Established) - 1
        /\ Cardinality(Established') \in Nat
    BY <2>1, EstablishedFinite, FS_RemoveElement, FS_CardinalityType
  <2> QED BY <1>2, <2>2, EstablishedFinite DEF keylog_close, IInv, TypeOK
<1>3. CASE ~ \E p \in Proc : keylog_open(p) \/ keylog_close(p)
  BY <1>3, OthersKeep DEF Next
<1> QED BY <1>1, <1>2, <1>3

\* The keyboard line never carries more handlers than there are descriptors
\* that asked for one, although free_irq removes the first action it finds
\* with the shared dev_id, whichever open added it.
THEOREM HandlersBounded == Spec => []NoStrayHandler
<1>1. Init => NoStrayHandler
  <2> SUFFICES ASSUME Init PROVE 0 <= Cardinality(Established)
    BY DEF Init, NoStrayHandler, Established
  <2> QED BY EstablishedFinite
<1> QED BY <1>1, NextStray, IInvHolds, PTL DEF Spec

-----------------------------------------------------------------------------
\* The descriptors that intr_registered counts.
Counted == {p \in Proc : pc[p] \notin {"closed", "o_count", "c_complete"}}

\* Until accesses overlap, at most one process is between its load of
\* intr_registered and its store, and what it has loaded is still right.
OneCounts ==
  ~raced => /\ \A p, q \in Counting : p = q
            /\ \A p \in Counting : reg[p] = intr_registered

\* So can those that intr_registered counts.
LEMMA CountedFinite == IsFiniteSet(Counted) /\ Cardinality(Counted) \in Nat
<1>1. Counted \in SUBSET Proc
  BY DEF Counted
<1> QED BY <1>1, KeyLogAssumption, FS_Subset, FS_CardinalityType

\* Only the loads and stores in open and close touch the count.
LEMMA OthersKeepCount ==
  ASSUME IInv,
         \/ \E p \in Proc :
              \/ keylog_open_init(p) \/ keylog_close_complete(p) \/ ReadSteps(p)
              \/ keylog_read_signal(p) \/ \E n \in ReadLen : keylog_read(p, n)
         \/ Interrupt \/ HandlerSteps \/ keylog_driver_exit \/ ExitSteps
         \/ UNCHANGED vars
  PROVE  /\ UNCHANGED <<intr_registered, raced, reg>>
         /\ Counted' = Counted /\ Counting' = Counting
<1> DEFINE Kept == /\ UNCHANGED <<intr_registered, raced, reg>>
                   /\ Counted' = Counted /\ Counting' = Counting
<1> USE DEF IInv, TypeOK, Goto, At, HandlerAt, Counted, Counting, procVars, countVars,
        compVars, bufVars, handlerVars
<1>1. ASSUME NEW p \in Proc, keylog_open_init(p) \/ keylog_close_complete(p) PROVE Kept
  BY <1>1 DEF keylog_open_init, keylog_close_complete
<1>2. ASSUME NEW p \in Proc,
             \/ ReadSteps(p) \/ keylog_read_signal(p)
             \/ \E n \in ReadLen : keylog_read(p, n)
      PROVE  Kept
  BY <1>2 DEF ReadSteps, keylog_read_keys, keylog_read_wait, keylog_read_copy,
     keylog_read_free, keylog_read_signal, keylog_read
<1>3. CASE Interrupt \/ testirq_handler \/ testirq_handler_store
  BY <1>3 DEF Interrupt, testirq_handler, testirq_handler_store, HandlerStore
<1>4. CASE testirq_handler_wake
  BY <1>4 DEF testirq_handler_wake
<1>5. CASE keylog_driver_exit \/ ExitSteps \/ UNCHANGED vars
  BY <1>5 DEF keylog_driver_exit, ExitSteps, wait_for_completion, misc_deregister, vars
<1> QED BY <1>1, <1>2, <1>3, <1>4, <1>5 DEF HandlerSteps

CountInv == OneCounts /\ (~raced => intr_registered = Cardinality(Counted))

\* Every step keeps the count, unless updates overlap.
LEMMA NextCount == IInv /\ CountInv /\ [Next]_vars => CountInv'
<1> SUFFICES ASSUME IInv, CountInv, [Next]_vars PROVE CountInv'
  OBVIOUS
<1>1. ASSUME NEW p \in Proc, keylog_open(p) \/ keylog_close(p) PROVE CountInv'
  <2>1. /\ pc[p] \in {"closed", "open"} /\ intr_registered' = intr_registered
        /\ reg' = [reg EXCEPT ![p] = intr_registered]
        /\ raced' = (raced \/ Counting # {})
        /\ pc' = [pc EXCEPT ![p] = IF pc[p] = "closed" THEN "o_count" ELSE "c_count"]
    BY <1>1 DEF keylog_open, keylog_close, LoadCount, At, Goto
  <2>2. Counted' = Counted /\ Counting' = Counting \cup {p}
    BY <2>1 DEF Counted, Counting, IInv, TypeOK
  <2>3. OneCounts'
    BY <2>1, <2>2 DEF OneCounts, CountInv, IInv, TypeOK
  <2> QED BY <2>1, <2>2, <2>3 DEF CountInv
<1>2. ASSUME NEW p \in Proc, keylog_open_count(p) PROVE CountInv'
  <2>1. /\ pc[p] = "o_count" /\ pc' = [pc EXCEPT ![p] = "o_init"] /\ p \in Counting
        /\ intr_registered' = reg[p] + 1 /\ raced' = raced /\ reg' = reg
    BY <1>2 DEF keylog_open_count, At, Goto, Counting
  <2>2. p \notin Counted /\ Counted' = Counted \cup {p} /\ Counting' = Counting \ {p}
    BY <2>1 DEF Counted, Counting, IInv, TypeOK
  <2>3. Cardinality(Counted') = Cardinality(Counted) + 1
    BY <2>2, CountedFinite, FS_AddElement
  <2> QED BY <2>1, <2>2, <2>3 DEF CountInv, OneCounts
<1>3. ASSUME NEW p \in Proc, keylog_close_count(p) PROVE CountInv'
  <2>1. /\ pc[p] = "c_count" /\ pc' = [pc EXCEPT ![p] = "c_complete"] /\ p \in Counting
        /\ intr_registered' = reg[p] - 1 /\ raced' = raced /\ reg' = reg
    BY <1>3 DEF keylog_close_count, At, Goto, Counting
  <2>2. p \in Counted /\ Counted' = Counted \ {p} /\ Counting' = Counting \ {p}
    BY <2>1 DEF Counted, Counting, IInv, TypeOK
  <2>3. Cardinality(Counted') = Cardinality(Counted) - 1
    BY <2>2, CountedFinite, FS_RemoveElement
  <2> QED BY <2>1, <2>2, <2>3 DEF CountInv, OneCounts
<1>4. CASE ~ \E p \in Proc : \/ keylog_open(p) \/ keylog_close(p)
                             \/ keylog_open_count(p) \/ keylog_close_count(p)
  BY <1>4, OthersKeepCount DEF Next, OpenSteps, CloseSteps, CountInv, OneCounts
<1> QED BY <1>1, <1>2, <1>3, <1>4

\* The count by which keylog_driver_exit decides whether to wait is right, for
\* any number of processes and whatever request_irq returned, as long as no
\* two of its unprotected increments and decrements overlap.
THEOREM CountRight == Spec => []CountExact
<1>1. Init => CountInv
  <2> SUFFICES ASSUME Init PROVE CountInv
    OBVIOUS
  <2>1. Counted = {} /\ Counting = {} /\ intr_registered = 0
    BY DEF Init, Counted, Counting
  <2> QED BY <2>1, FS_EmptySet DEF CountInv, OneCounts
<1>2. CountInv => CountExact
  BY DEF CountInv, CountExact, Counted
<1> QED BY <1>1, <1>2, NextCount, IInvHolds, PTL DEF Spec

-----------------------------------------------------------------------------
(* One process.  Only then kbuf stays the buffer of the read in progress.   *)

Buffer == heap[kbuf].data
InRead == {p \in Proc : pc[p] \in Reading}

\* The index the handler stores at next.  It was loaded together with kbuf, and
\* the reader's keys = len may come between that load and the store.
Slot == IF hpc = "store" THEN hkeys ELSE keys

\* From index k on, but never at index 0, the later key comes first.
Descending(d, k) ==
  \A i, j \in DOMAIN d :
    0 < i /\ k < i /\ i < j /\ d[i] # Junk /\ d[j] # Junk => d[i] >= d[j]

\* A read owns kbuf, which has the length it was given.
ReadOwns ==
  \A p \in InRead : kbuf # NULL => heap[kbuf].live /\ DOMAIN Buffer = 0..(want[p] - 1)

\* No buffer holds a key from the future.
KeysPast ==
  \A b \in 1..MaxReads : \A i \in DOMAIN heap[b].data : heap[b].data[i] <= struck

\* kbuf is filled from its end: above the handler's index the keys are in order,
\* and a buffer allocated after the handler's load of kbuf is untouched.
Filling ==
  /\ InRead # {} /\ kbuf # NULL => Descending(Buffer, Slot)
  /\ hpc = "store" /\ hbuf # kbuf /\ kbuf # NULL => \A i \in DOMAIN Buffer : Buffer[i] = Junk

\* An index loaded before keys = len is not 0's: a reader that finds keys = 0 and
\* has bytes to copy finds the handler done with them.
Complete ==
  /\ \A p \in Proc : pc[p] \in {"r_wait", "r_asleep"} /\ hpc = "store" =>
                       hkeys = keys \/ keys = want[p]
  /\ \A p \in Proc : pc[p] = "r_copy" => Slot <= 0 \/ want[p] = 0

OneInv == ReadOwns /\ KeysPast /\ Filling /\ Complete /\ LatestKeyFirst

\* Steps that leave buffers, keys and the handler's registers alone, and begin or
\* end no wait of a read.
LEMMA OneKept ==
  ASSUME OneInv, UNCHANGED <<want, ubuf, kbuf, heap, keys, hbuf, hkeys>>,
         Slot' = Slot, hpc' = "store" => hpc = "store",
         struck \in Nat, struck' \in Nat, struck <= struck', TypeOK,
         \A p \in Proc : \/ pc'[p] = pc[p]
                         \/ pc'[p] \notin Reading
                         \/ pc'[p] = "r_free" /\ pc[p] \in Reading
                         \/ pc'[p] \in {"r_wait", "r_asleep"} /\ pc[p] \in {"r_wait", "r_asleep"}
  PROVE  OneInv'
<1>1. InRead' \subseteq InRead
  BY DEF InRead, Reading
<1>2. ReadOwns'
  BY <1>1 DEF ReadOwns, OneInv, Buffer
<1>3. KeysPast'
  <2>1. ASSUME NEW b \in 1..MaxReads, NEW i \in DOMAIN heap[b].data
        PROVE  heap[b].data[i] \in Nat
    <3>1. heap[b].data \in Bytes
      BY DEF TypeOK
    <3> QED BY <3>1, KeyLogAssumption DEF Bytes
  <2> QED BY <2>1 DEF KeysPast, OneInv
<1>4. Filling'
  BY <1>1 DEF Filling, OneInv, Buffer, Descending
<1>5. Complete'
  BY DEF Complete, OneInv, Reading
<1>6. LatestKeyFirst'
  BY DEF LatestKeyFirst, OneInv
<1> QED BY <1>2, <1>3, <1>4, <1>5, <1>6 DEF OneInv

\* A value of a buffer is a scancode number.
LEMMA BufferNat ==
  ASSUME TypeOK, NEW b \in 1..MaxReads, NEW i \in DOMAIN heap[b].data
  PROVE  heap[b].data[i] \in Nat
<1>1. heap[b].data \in Bytes
  BY DEF TypeOK
<1> QED BY <1>1, KeyLogAssumption DEF Bytes

\* keylog_read: a fresh buffer, or none.
LEMMA OneAlloc ==
  ASSUME IInv, OneInv, \A p, q \in Proc : p = q,
         NEW p \in Proc, NEW n \in ReadLen, keylog_read(p, n)
  PROVE  OneInv'
<1> DEFINE fresh == [i \in 0..(n - 1) |-> Junk]
           block == [live |-> TRUE, data |-> fresh]
<1>1. /\ allocs' \in 1..MaxReads /\ allocs < allocs' /\ n \in Nat
      /\ \/ kbuf' = allocs' /\ heap' = [heap EXCEPT ![allocs'] = block]
         \/ kbuf' = NULL /\ heap' = heap
      /\ want' = [want EXCEPT ![p] = n] /\ pc' = [pc EXCEPT ![p] = "r_keys"]
      /\ UNCHANGED <<ubuf, keys, struck, hpc, hbuf, hkeys>>
  BY KeyLogAssumption DEF IInv, TypeOK, keylog_read, Goto, handlerVars
<1>a. DOMAIN fresh = 0..(n - 1) /\ \A i \in DOMAIN fresh : fresh[i] = Junk
  OBVIOUS
<1> HIDE DEF fresh
<1>b. block.live /\ block.data = fresh
  OBVIOUS
<1> HIDE DEF block
<1>0. \A b \in 1..MaxReads : heap'[b] = heap[b] \/ heap'[b] = block
  BY <1>1 DEF IInv, TypeOK
<1>2. kbuf' # NULL => /\ heap'[kbuf'].live /\ Buffer' = fresh
                      /\ DOMAIN Buffer' = 0..(n - 1) /\ \A i \in DOMAIN Buffer' : Buffer'[i] = Junk
  <2>1. kbuf' # NULL => heap'[kbuf'] = block
    BY <1>1 DEF IInv, TypeOK
  <2> QED BY <2>1, <1>a, <1>b DEF Buffer
<1>3. ReadOwns'
  BY <1>1, <1>2 DEF ReadOwns, InRead, IInv, TypeOK
<1>4. KeysPast'
  <2> SUFFICES ASSUME NEW b \in 1..MaxReads, NEW i \in DOMAIN heap'[b].data
               PROVE  heap'[b].data[i] <= struck
    BY <1>1 DEF KeysPast
  <2>1. heap'[b].data = heap[b].data \/ heap'[b].data = fresh
    BY <1>0, <1>b
  <2>2. struck \in Nat
    BY KeyLogAssumption DEF IInv, TypeOK
  <2>3. CASE heap'[b].data = fresh
    BY <2>2, <2>3, <1>a DEF Junk
  <2>4. CASE heap'[b].data = heap[b].data
    BY <2>4 DEF OneInv, KeysPast
  <2> QED BY <2>1, <2>3, <2>4
<1>5. Filling'
  BY <1>2 DEF Filling, Descending
<1>6. Complete'
  BY <1>1 DEF Complete, IInv, TypeOK
<1>7. LatestKeyFirst'
  BY <1>1 DEF LatestKeyFirst, OneInv
<1> QED BY <1>3, <1>4, <1>5, <1>6, <1>7 DEF OneInv

\* keys = len: no index of the buffer lies above it.
LEMMA OneKeys ==
  ASSUME IInv, OneInv, \A p, q \in Proc : p = q, NEW p \in Proc, keylog_read_keys(p)
  PROVE  OneInv'
<1>1. /\ pc[p] = "r_keys" /\ pc' = [pc EXCEPT ![p] = "r_wait"] /\ keys' = want[p]
      /\ UNCHANGED <<want, ubuf, kbuf, heap, struck, hpc, hbuf, hkeys>>
  BY DEF keylog_read_keys, At, Goto, bufVars, handlerVars
<1>2. InRead' = InRead /\ p \in InRead /\ Buffer' = Buffer /\ want[p] \in Nat
  BY <1>1, KeyLogAssumption DEF InRead, IInv, TypeOK, Reading, Buffer
<1>3. ReadOwns'
  BY <1>1, <1>2 DEF ReadOwns, OneInv
<1>4. KeysPast' /\ LatestKeyFirst'
  BY <1>1 DEF KeysPast, LatestKeyFirst, OneInv
<1>5. Filling'
  <2>1. CASE hpc = "store"
    BY <1>1, <1>2, <2>1 DEF Filling, OneInv, Slot
  <2>2. CASE hpc # "store"
    <3>1. kbuf # NULL => DOMAIN Buffer = 0..(want[p] - 1)
      BY <1>2 DEF ReadOwns, OneInv
    <3>2. Slot' = want[p]
      BY <1>1, <2>2 DEF Slot
    <3> QED BY <1>1, <1>2, <2>2, <3>1, <3>2 DEF Filling, Descending
  <2> QED BY <2>1, <2>2
<1>6. Complete'
  BY <1>1 DEF Complete, OneInv, IInv, TypeOK
<1> QED BY <1>3, <1>4, <1>5, <1>6 DEF OneInv

\* The reader's test of keys.
LEMMA OneWait ==
  ASSUME IInv, OneInv, NEW p \in Proc, keylog_read_wait(p)
  PROVE  OneInv'
<1>1. /\ pc[p] = "r_wait" /\ pc' = [pc EXCEPT ![p] = IF keys = 0 THEN "r_copy" ELSE "r_asleep"]
      /\ UNCHANGED <<want, ubuf, kbuf, heap, keys, struck, hpc, hbuf, hkeys>>
  BY DEF keylog_read_wait, At, Goto, bufVars, handlerVars
<1>2. InRead' = InRead /\ Buffer' = Buffer /\ Slot' = Slot
  BY <1>1 DEF InRead, IInv, TypeOK, Reading, Buffer, Slot
<1>3. ReadOwns' /\ KeysPast' /\ LatestKeyFirst' /\ Filling'
  BY <1>1, <1>2 DEF ReadOwns, KeysPast, LatestKeyFirst, Filling, OneInv
<1>4. Complete'
  BY <1>1, <1>2 DEF Complete, OneInv, IInv, TypeOK, Slot
<1> QED BY <1>3, <1>4 DEF OneInv

\* copy_to_user of a complete buffer.
LEMMA OneCopy ==
  ASSUME IInv, OneInv, NEW p \in Proc, keylog_read_copy(p)
  PROVE  OneInv'
<1>1. /\ pc[p] = "r_copy"
      /\ \/ pc' = [pc EXCEPT ![p] = "r_free"] /\ kbuf # NULL
            /\ ubuf' = [ubuf EXCEPT ![p] = [i \in 0..(want[p] - 1) |->
                          IF i \in DOMAIN Buffer THEN Buffer[i] ELSE Junk]]
         \/ pc' = [pc EXCEPT ![p] = "open"] /\ ubuf' = ubuf
      /\ UNCHANGED <<want, kbuf, heap, keys, struck, hpc, hbuf, hkeys>>
  BY DEF keylog_read_copy, At, Goto, bufVars, handlerVars, Buffer
<1>2. InRead' \subseteq InRead /\ p \in InRead /\ Buffer' = Buffer /\ Slot' = Slot
  BY <1>1 DEF InRead, IInv, TypeOK, Reading, Buffer, Slot
<1>3. ReadOwns' /\ KeysPast' /\ Filling'
  BY <1>1, <1>2 DEF ReadOwns, KeysPast, Filling, OneInv
<1>4. Complete'
  BY <1>1, <1>2 DEF Complete, OneInv, IInv, TypeOK
<1>5. LatestKeyFirst'
  <2>1. CASE ubuf' = ubuf
    BY <2>1 DEF LatestKeyFirst, OneInv
  <2>2. CASE kbuf # NULL /\ ubuf' = [ubuf EXCEPT ![p] = [i \in 0..(want[p] - 1) |->
                                       IF i \in DOMAIN Buffer THEN Buffer[i] ELSE Junk]]
    <3>1. DOMAIN Buffer = 0..(want[p] - 1) /\ Descending(Buffer, Slot)
      BY <1>2, <2>2 DEF ReadOwns, Filling, OneInv
    <3>2. /\ Slot <= 0 \/ want[p] = 0
          /\ want[p] \in Nat /\ Slot \in Int
      <4>1. Slot <= 0 \/ want[p] = 0
        BY <1>1 DEF Complete, OneInv
      <4>2. want[p] \in Nat
        <5>1. want \in [Proc -> ReadLen \cup {0}]
          BY DEF IInv, TypeOK
        <5>2. want[p] \in ReadLen \cup {0}
          BY <5>1
        <5>3. ReadLen \cup {0} \subseteq Nat
          BY KeyLogAssumption
        <5> QED BY <5>2, <5>3
      <4>3. Slot \in Int
        BY DEF IInv, TypeOK, Slot
      <4> QED BY <4>1, <4>2, <4>3
    <3> DEFINE copy == [i \in 0..(want[p] - 1) |->
                          IF i \in DOMAIN Buffer THEN Buffer[i] ELSE Junk]
    <3>0. DOMAIN copy = DOMAIN Buffer /\ \A i \in DOMAIN Buffer : copy[i] = Buffer[i]
      BY <3>1
    <3>6. ubuf' = [ubuf EXCEPT ![p] = copy]
      BY <2>2
    <3> HIDE DEF copy
    <3>3. \A q \in Proc : q # p => ubuf'[q] = ubuf[q]
      BY <3>6 DEF IInv, TypeOK
    <3>4. DOMAIN ubuf'[p] = DOMAIN Buffer /\ \A i \in DOMAIN Buffer : ubuf'[p][i] = Buffer[i]
      BY <3>0, <3>6 DEF IInv, TypeOK
    <3>5. ASSUME NEW i \in DOMAIN Buffer, NEW j \in DOMAIN Buffer, 0 < i, i < j,
                 Buffer[i] # Junk, Buffer[j] # Junk
          PROVE  Buffer[i] >= Buffer[j]
      BY <3>1, <3>2, <3>5 DEF Descending
    <3> QED BY <3>3, <3>4, <3>5 DEF LatestKeyFirst, OneInv
  <2> QED BY <1>1, <2>1, <2>2
<1> QED BY <1>3, <1>4, <1>5 DEF OneInv

\* kfree, after which no read is in progress.
LEMMA OneFree ==
  ASSUME IInv, OneInv, \A p, q \in Proc : p = q, NEW p \in Proc, keylog_read_free(p)
  PROVE  OneInv'
<1>1. /\ pc' = [pc EXCEPT ![p] = "open"]
      /\ heap' = IF kbuf = NULL THEN heap ELSE [heap EXCEPT ![kbuf].live = FALSE]
      /\ UNCHANGED <<want, ubuf, kbuf, keys, struck, hpc, hbuf, hkeys>>
  BY DEF keylog_read_free, At, Goto, handlerVars
<1>2. \A b \in 1..MaxReads : heap'[b].data = heap[b].data
  BY <1>1 DEF IInv, TypeOK, NULL
<1>3. InRead' = {}
  BY <1>1 DEF InRead, IInv, TypeOK, Reading
<1>4. kbuf # NULL => Buffer' = Buffer
  BY <1>1, <1>2 DEF Buffer, IInv, TypeOK, NULL
<1>5. ReadOwns' /\ KeysPast' /\ LatestKeyFirst' /\ Filling'
  BY <1>1, <1>2, <1>3, <1>4 DEF ReadOwns, KeysPast, LatestKeyFirst, Filling, OneInv
<1>6. Complete'
  BY <1>1 DEF Complete, IInv, TypeOK
<1> QED BY <1>5, <1>6 DEF OneInv

\* The handler's test of kbuf and its loads.
LEMMA OneEntry ==
  ASSUME IInv, OneInv, testirq_handler
  PROVE  OneInv'
<1>1. UNCHANGED <<pc, want, ubuf, kbuf, heap, keys, struck>> /\ hpc = "entry"
  BY DEF testirq_handler, HandlerAt, procVars, bufVars
<1>2. CASE kbuf = NULL
  <2>1. UNCHANGED <<hbuf, hkeys>> /\ hpc' # "store"
    BY <1>2 DEF testirq_handler, HandlerReturn
  <2>2. struck \in Nat
    BY KeyLogAssumption DEF IInv, TypeOK
  <2> QED BY <1>1, <2>1, <2>2, OneKept DEF Slot, IInv
<1>3. CASE kbuf # NULL
  <2>1. hbuf' = kbuf /\ hkeys' = keys /\ hpc' = "store"
    BY <1>3 DEF testirq_handler
  <2>2. InRead' = InRead /\ Buffer' = Buffer /\ Slot' = Slot
    BY <1>1, <2>1 DEF InRead, Buffer, Slot
  <2>3. ReadOwns' /\ KeysPast' /\ LatestKeyFirst'
    BY <1>1, <2>2 DEF ReadOwns, KeysPast, LatestKeyFirst, OneInv
  <2>4. Filling'
    BY <1>1, <2>1, <2>2 DEF Filling, OneInv
  <2>5. Complete'
    BY <1>1, <2>1, <2>2 DEF Complete, OneInv
  <2> QED BY <2>3, <2>4, <2>5 DEF OneInv
<1> QED BY <1>2, <1>3

\* kbuf[keys--] = scancode.
LEMMA OneStore ==
  ASSUME IInv, OneInv, testirq_handler_store
  PROVE  OneInv'
<1>1. /\ hpc = "store" /\ hpc' # "store" /\ keys' = hkeys - 1
      /\ heap' = IF hkeys \in DOMAIN heap[hbuf].data
                   THEN [heap EXCEPT ![hbuf].data[hkeys] = struck] ELSE heap
      /\ UNCHANGED <<pc, want, ubuf, kbuf, struck>>
  BY DEF testirq_handler_store, HandlerStore, HandlerAt, HandlerReturn, procVars
<1>2. hbuf \in 1..MaxReads /\ hkeys \in Int /\ struck \in Nat /\ kbuf \in 0..MaxReads
  BY <1>1, KeyLogAssumption DEF IInv, TypeOK, NULL
<1>3. \A b \in 1..MaxReads : /\ heap'[b].live = heap[b].live
                             /\ DOMAIN heap'[b].data = DOMAIN heap[b].data
                             /\ b # hbuf => heap'[b].data = heap[b].data
  BY <1>1, <1>2 DEF IInv, TypeOK
<1>4. \A i \in DOMAIN heap[hbuf].data :
        heap'[hbuf].data[i] = IF i = hkeys THEN struck ELSE heap[hbuf].data[i]
  BY <1>1, <1>2 DEF IInv, TypeOK
<1>5. Slot = hkeys /\ Slot' = hkeys - 1 /\ InRead' = InRead
  BY <1>1 DEF Slot, InRead
<1>6. ReadOwns'
  BY <1>1, <1>2, <1>3, <1>5 DEF ReadOwns, OneInv, Buffer, NULL
<1>7. KeysPast'
  <2> SUFFICES ASSUME NEW b \in 1..MaxReads, NEW i \in DOMAIN heap[b].data
               PROVE  heap'[b].data[i] <= struck
    BY <1>1, <1>3 DEF KeysPast
  <2>1. heap[b].data[i] <= struck
    BY DEF KeysPast, OneInv
  <2> QED BY <1>2, <1>3, <1>4, <2>1
<1>8. Filling'
  <2> SUFFICES ASSUME InRead # {}, kbuf # NULL
               PROVE  Descending(Buffer', hkeys - 1)
    BY <1>1, <1>5 DEF Filling
  <2>1. kbuf \in 1..MaxReads
    BY <1>2 DEF NULL
  <2>2. CASE hbuf = kbuf
    <3>1. Descending(Buffer, hkeys)
      BY <1>5 DEF Filling, OneInv
    <3>2. DOMAIN Buffer' = DOMAIN Buffer
      BY <1>1, <1>3, <2>1 DEF Buffer
    <3> SUFFICES ASSUME NEW i \in DOMAIN Buffer, NEW j \in DOMAIN Buffer, 0 < i, hkeys - 1 < i,
                        i < j, Buffer'[i] # Junk, Buffer'[j] # Junk
                 PROVE  Buffer'[i] >= Buffer'[j]
      BY <3>2 DEF Descending
    <3>3. i \in Int /\ j \in Int
      <4>1. Buffer \in Bytes
        BY <2>1 DEF Buffer, IInv, TypeOK
      <4>2. PICK n \in ReadLen \cup {0} : Buffer \in [0..(n - 1) -> 0..MaxKeys]
        BY <4>1 DEF Bytes
      <4> QED BY <4>2, KeyLogAssumption
    <3>4. Buffer'[j] = Buffer[j] /\ Buffer[j] <= struck /\ Buffer[j] \in Nat
      <4>1. Buffer'[j] = Buffer[j]
        BY <1>1, <1>2, <1>4, <2>2, <3>3 DEF Buffer
      <4> QED BY <2>1, <4>1, BufferNat DEF Buffer, KeysPast, OneInv, IInv
    <3>5. CASE i = hkeys
      BY <1>1, <1>2, <1>4, <2>2, <3>4, <3>5 DEF Buffer
    <3>6. CASE i # hkeys
      <4>1. Buffer'[i] = Buffer[i] /\ hkeys < i
        BY <1>1, <1>2, <1>4, <2>2, <3>3, <3>6 DEF Buffer
      <4> QED BY <3>1, <3>4, <4>1 DEF Descending
    <3> QED BY <3>5, <3>6
  <2>3. CASE hbuf # kbuf
    <3>1. Buffer' = Buffer
      BY <1>1, <1>3, <2>1, <2>3 DEF Buffer
    <3>2. \A i \in DOMAIN Buffer : Buffer[i] = Junk
      BY <1>1, <2>3 DEF Filling, OneInv
    <3> QED BY <3>1, <3>2 DEF Descending
  <2> QED BY <2>2, <2>3
<1>9. Complete'
  BY <1>1, <1>2, <1>5 DEF Complete, OneInv
<1>10. LatestKeyFirst'
  BY <1>1 DEF LatestKeyFirst, OneInv
<1> QED BY <1>6, <1>7, <1>8, <1>9, <1>10 DEF OneInv

\* With one process every step keeps the invariant of its buffer.
LEMMA NextOne ==
  ASSUME \A p, q \in Proc : p = q
  PROVE  IInv /\ OneInv /\ [Next]_vars => OneInv'
<1> SUFFICES ASSUME IInv, OneInv, [Next]_vars PROVE OneInv'
  OBVIOUS
<1>1. struck \in Nat /\ TypeOK
  BY KeyLogAssumption DEF IInv, TypeOK
<1>2. CASE UNCHANGED vars
  BY <1>1, <1>2, OneKept DEF vars, procVars, bufVars, handlerVars, Slot
<1>3. ASSUME NEW p \in Proc,
             \/ keylog_open(p) \/ OpenSteps(p) \/ keylog_close(p) \/ CloseSteps(p)
             \/ keylog_read_signal(p)
      PROVE  OneInv'
  <2>1. /\ UNCHANGED <<want, ubuf, kbuf, heap, keys, struck, hpc, hbuf, hkeys>>
        /\ \E l \in {"closed", "open"} \cup Opening \cup Closing : pc' = [pc EXCEPT ![p] = l]
    BY <1>3 DEF keylog_open, OpenSteps, keylog_open_count, keylog_open_init, keylog_close,
       CloseSteps, keylog_close_count, keylog_close_complete, keylog_read_signal, Goto,
       Opening, Closing, procVars, bufVars, handlerVars
  <2>2. \A q \in Proc : pc'[q] = pc[q] \/ pc'[q] \notin Reading
    BY <1>1, <2>1 DEF TypeOK, Opening, Closing, Reading
  <2>3. Slot' = Slot
    BY <2>1 DEF Slot
  <2> QED BY <1>1, <2>1, <2>2, <2>3, OneKept
<1>4. ASSUME NEW p \in Proc, ReadSteps(p) \/ \E n \in ReadLen : keylog_read(p, n)
      PROVE  OneInv'
  BY <1>4, OneAlloc, OneKeys, OneWait, OneCopy, OneFree DEF ReadSteps
<1>5. CASE Interrupt
  <2>1. /\ UNCHANGED <<pc, want, ubuf, kbuf, heap, keys, hbuf, hkeys>>
        /\ struck' = struck + 1 /\ hpc # "store" /\ hpc' # "store"
    BY <1>5 DEF Interrupt, HandlerAt, procVars, bufVars
  <2>2. Slot' = Slot
    BY <2>1 DEF Slot
  <2> QED BY <1>1, <2>1, <2>2, OneKept
<1>6. CASE testirq_handler_wake
  <2>1. /\ UNCHANGED <<want, ubuf, kbuf, heap, keys, struck, hbuf, hkeys>>
        /\ hpc # "store" /\ hpc' # "store"
        /\ pc' = [q \in Proc |-> IF pc[q] = "r_asleep" THEN "r_wait" ELSE pc[q]]
    BY <1>6 DEF testirq_handler_wake, HandlerAt, HandlerReturn, bufVars
  <2>2. Slot' = Slot
    BY <2>1 DEF Slot
  <2> QED BY <1>1, <2>1, <2>2, OneKept
<1>7. CASE keylog_driver_exit \/ ExitSteps
  <2>1. UNCHANGED <<pc, want, ubuf, kbuf, heap, keys, struck, hpc, hbuf, hkeys>>
    BY <1>7 DEF keylog_driver_exit, ExitSteps, wait_for_completion, misc_deregister,
       procVars, bufVars, handlerVars
  <2> QED BY <1>1, <2>1, OneKept DEF Slot
<1>8. CASE testirq_handler \/ testirq_handler_store
  BY <1>8, OneEntry, OneStore
<1> QED BY <1>2, <1>3, <1>4, <1>5, <1>6, <1>7, <1>8 DEF Next, HandlerSteps

\* It holds at the start.
LEMMA InitOne == Init => OneInv
<1> SUFFICES ASSUME Init PROVE OneInv
  OBVIOUS
<1>1. InRead = {} /\ hpc # "store" /\ \A p \in Proc : pc[p] = "closed"
  BY DEF Init, InRead, Reading
<1>2. \A b \in 1..MaxReads : DOMAIN heap[b].data = {}
  BY DEF Init
<1>3. \A p \in Proc : DOMAIN ubuf[p] = {}
  BY DEF Init
<1> QED BY <1>1, <1>2, <1>3 DEF OneInv, ReadOwns, KeysPast, Filling, Complete, LatestKeyFirst

\* With one process, whenever its read copies from kbuf or frees it, kbuf is an
\* allocation that nobody has freed, whatever the interrupts, signals, faults
\* and failed allocations between its steps.
THEOREM KbufOwned ==
  ASSUME \A p, q \in Proc : p = q
  PROVE  Spec => []ReadOwnsKbuf
<1>1. OneInv => ReadOwnsKbuf
  BY DEF OneInv, ReadOwns, InRead, Reading, ReadOwnsKbuf
<1> QED BY <1>1, InitOne, NextOne, IInvHolds, PTL DEF Spec

\* With one process, what read returns behind byte 0 is in order, latest key
\* first, for every length and however the handler's two accesses to kbuf and
\* keys interleave with the reader's kbuf = kmalloc() and keys = len: keys left
\* over from an interrupted read may begin to fill the new buffer, but what they
\* stored is overwritten or in order when keys comes to 0.
THEOREM KeysInOrder ==
  ASSUME \A p, q \in Proc : p = q
  PROVE  Spec => []LatestKeyFirst
<1>1. OneInv => LatestKeyFirst
  BY DEF OneInv
<1> QED BY <1>1, InitOne, NextOne, IInvHolds, PTL DEF Spec
=============================================================================
