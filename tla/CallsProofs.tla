------------------------------ MODULE CallsProofs ------------------------------
(* Proofs about MCCalls for any lists, buffers, tasks, packets, processors   *)
(* and processes: seq_read over lists (with SeqPassProofs), the walk over    *)
(* the tasks, the packet hook, and the lock.                                 *)
EXTENDS MCCalls, SeqPassProofs

-----------------------------------------------------------------------------
(* TaskWalk.                                                                *)

\* Tasks that exist, or have existed.
Born(t) == t = 0 \/ life[t] # "unborn"

\* Tasks in the list of tasks.
InList == {u \in 0..Tasks : T!Linked(u)}

\* The tasks in the list are linked in the order of their numbers, in a circle
\* through init_task.
ListInv ==
  /\ \A u \in InList :
       \/ next[u] = 0 /\ \A t \in InList : t <= u
       \/ /\ next[u] \in InList /\ u < next[u]
          /\ \A t \in InList : t <= u \/ next[u] <= t
  /\ \A t \in InList : \E u \in InList : next[u] = t

\* Numbers are given in order, and no pointer leads to a task to come.
BirthInv ==
  /\ \A t \in 1..Before : life[t] # "unborn"
  /\ \A t, u \in 1..Tasks : life[t] = "unborn" /\ t < u => life[u] = "unborn"
  /\ \A u \in 0..Tasks : Born(next[u])

\* From a task that has left the list, too, the pointers lead on to every task
\* that is still there from the beginning.
OutInv ==
  \A u \in 1..Tasks : life[u] \in {"unlinked", "freed"} =>
    \A t \in 1..Before : u < t /\ t \in InList => next[u] \in (u + 1)..t

\* What the walk has not printed lies before it.
AheadInv ==
  /\ Born(visit)
  /\ \A t \in 1..Before : t \in InList /\ t \notin printed =>
       \/ walk = "task" /\ visit <= t
       \/ walk = "files" /\ visit < t
       \/ walk = "fault"

WalkInv == T!TypeOK /\ ListInv /\ BirthInv /\ OutInv /\ AheadInv

\* The walk begins at init_task, before every task.
LEMMA WalkInit == T!Init => WalkInv
<1> SUFFICES ASSUME T!Init PROVE WalkInv  OBVIOUS
<1> USE CallsAssumption
<1>1. /\ \A t \in 0..Tasks : next[t] = IF t < Before THEN t + 1 ELSE 0
      /\ \A t \in 1..Tasks : life[t] = IF t <= Before THEN "live" ELSE "unborn"
      /\ visit = 0 /\ walk = "task" /\ printed = {}
  BY DEF T!Init, T!Task, T!init_task
<1>2. T!TypeOK
  BY DEF T!Init, T!Task, T!init_task, T!TypeOK
<1>3. InList = 0..Before
  BY <1>1 DEF InList, T!Linked, T!init_task
<1>4. ListInv
  <2>1. ASSUME NEW t \in InList
        PROVE  \E u \in InList : next[u] = t
    <3>1. CASE t = 0
      BY <1>1, <1>3, <3>1
    <3>2. CASE t # 0
      <4>1. t - 1 \in 0..Tasks /\ t - 1 \in InList /\ next[t - 1] = t
        BY <1>1, <1>3, <2>1, <3>2
      <4> QED BY <4>1
    <3> QED BY <3>1, <3>2
  <2>2. ASSUME NEW u \in InList
        PROVE  \/ next[u] = 0 /\ \A t \in InList : t <= u
               \/ /\ next[u] \in InList /\ u < next[u]
                  /\ \A t \in InList : t <= u \/ next[u] <= t
    <3>1. CASE u < Before
      <4>1. next[u] = u + 1 /\ u + 1 \in 0..Tasks /\ u + 1 \in InList
        BY <1>1, <1>3, <3>1
      <4> QED BY <1>3, <4>1
    <3>2. CASE ~(u < Before)
      BY <1>1, <1>3, <2>2, <3>2
    <3> QED BY <3>1, <3>2
  <2> QED BY <2>1, <2>2 DEF ListInv
<1>5. BirthInv /\ OutInv
  BY <1>1 DEF BirthInv, OutInv, Born
<1>6. AheadInv
  BY <1>1 DEF AheadInv, Born
<1> QED BY <1>2, <1>4, <1>5, <1>6 DEF WalkInv

\* Only tasks in the list are found by Pred, and every one there has one.
LEMMA PredIs ==
  ASSUME WalkInv, NEW t \in InList
  PROVE  T!Pred(t) \in InList /\ next[T!Pred(t)] = t
<1>1. T!Task \cup {T!init_task} = 0..Tasks
  BY CallsAssumption DEF T!Task, T!init_task
<1>2. \E u \in InList : next[u] = t
  BY DEF WalkInv, ListInv
<1> QED BY <1>1, <1>2 DEF T!Pred, InList

\* A fork.
LEMMA WalkFork ==
  ASSUME WalkInv, NEW y \in 1..Tasks, T!copy_process(y)
  PROVE  WalkInv'
<1> DEFINE p == T!Pred(0)
<1> USE CallsAssumption
<1>0. /\ T!TypeOK /\ ListInv /\ BirthInv /\ OutInv /\ AheadInv
  BY DEF WalkInv
<1>1. p \in InList /\ next[p] = 0
  <2>1. 0 \in InList
    BY DEF InList, T!Linked, T!init_task
  <2> QED BY <2>1, PredIs
<1> HIDE DEF p
<1>2. /\ life[y] = "unborn" /\ life' = [life EXCEPT ![y] = "live"]
      /\ next' = [next EXCEPT ![p] = y, ![y] = 0]
      /\ UNCHANGED <<visit, walk, printed>>
      /\ \A u \in 1..Tasks : u < y => life[u] # "unborn"
  BY DEF T!copy_process, T!init_task, p, T!Task
<1>3. \A t \in InList : t <= p /\ t < y
  <2>1. \A t \in InList : t \in 0..Tasks /\ (t = 0 \/ life[t] # "unborn")
    BY DEF InList, T!Linked, T!init_task
  <2>2. \A t \in InList : t < y
    BY <1>0, <1>2, <2>1 DEF BirthInv
  <2>3. \A t \in InList : t <= p
    BY <1>0, <1>1, <2>1 DEF ListInv
  <2> QED BY <2>2, <2>3
<1>4. p < y
  BY <1>1, <1>3
<1>5. /\ next'[p] = y /\ next'[y] = 0
      /\ \A u \in 0..Tasks : u # p /\ u # y => next'[u] = next[u]
      /\ life'[y] = "live" /\ \A u \in 1..Tasks : u # y => life'[u] = life[u]
  BY <1>0, <1>1, <1>2, <1>4 DEF T!TypeOK, T!Task, InList
<1>6. InList' = InList \cup {y} /\ InList \subseteq 0..Tasks
  BY <1>2, <1>5 DEF InList, T!Linked, T!init_task
<1>7. T!TypeOK'
  <2>1. p \in 0..Tasks /\ 0 \in 0..Tasks /\ y \in 0..Tasks
    BY <1>1 DEF InList
  <2>2. next' \in [0..Tasks -> 0..Tasks]
    BY <1>0, <1>2, <2>1 DEF T!TypeOK
  <2> QED BY <1>0, <1>2, <2>2 DEF T!TypeOK, T!Task
<1>8. ListInv'
  <2>1. ASSUME NEW u \in InList'
        PROVE  \/ next'[u] = 0 /\ \A t \in InList' : t <= u
               \/ /\ next'[u] \in InList' /\ u < next'[u]
                  /\ \A t \in InList' : t <= u \/ next'[u] <= t
    <3>1. CASE u = y
      BY <1>3, <1>5, <1>6, <3>1
    <3>2. CASE u = p
      BY <1>3, <1>4, <1>5, <1>6, <3>2
    <3>3. CASE u # y /\ u # p
      <4>1. u \in InList /\ next'[u] = next[u] /\ u < p
        BY <1>1, <1>3, <1>5, <1>6, <2>1, <3>3
      <4>2. /\ next[u] \in 1..Tasks /\ next[u] \in InList /\ u < next[u]
            /\ \A t \in InList : t <= u \/ next[u] <= t
        <5>1. next[u] # 0
          BY <1>0, <1>1, <1>6, <4>1 DEF ListInv
        <5>2. /\ next[u] \in InList /\ u < next[u]
              /\ \A t \in InList : t <= u \/ next[u] <= t
          BY <1>0, <4>1, <5>1, Zenon DEF ListInv
        <5>3. next[u] \in 1..Tasks
          <6>1. next[u] \in 0..Tasks
            BY <1>6, <5>2, Zenon
          <6> QED BY <5>1, <6>1
        <5> QED BY <5>2, <5>3
      <4>3. next[u] < y
        BY <1>3, <4>2
      <4>4. next[u] \in InList'
        BY <1>6, <4>2
      <4> QED BY <1>6, <4>1, <4>2, <4>3, <4>4
    <3> QED BY <3>1, <3>2, <3>3
  <2>2. ASSUME NEW t \in InList'
        PROVE  \E u \in InList' : next'[u] = t
    <3>1. CASE t = y
      BY <1>1, <1>5, <1>6, <3>1
    <3>2. CASE t = 0
      BY <1>5, <1>6, <3>2
    <3>3. CASE t # y /\ t # 0
      <4>1. PICK u \in InList : next[u] = t
        BY <1>0, <1>6, <2>2, <3>3 DEF ListInv
      <4>2. u # p /\ u # y
        BY <1>1, <1>2, <3>3, <4>1 DEF InList, T!Linked, T!init_task
      <4> QED BY <1>5, <1>6, <4>1, <4>2
    <3> QED BY <3>1, <3>2, <3>3
  <2> QED BY <2>1, <2>2 DEF ListInv
<1>9. BirthInv'
  <2>1. \A u \in 0..Tasks : Born(u) => Born(u)'
    BY <1>5 DEF Born
  <2>2. \A u \in 0..Tasks : next[u] \in 0..Tasks
    BY <1>0 DEF T!TypeOK
  <2>3. ASSUME NEW u \in 0..Tasks
        PROVE  Born(next[u])'
    <3>1. CASE u \in {p, y}
      BY <1>5, <3>1 DEF Born
    <3>2. CASE u \notin {p, y}
      BY <1>0, <1>5, <2>2, <3>2 DEF BirthInv, Born
    <3> QED BY <3>1, <3>2
  <2>4. \A t \in 1..Before : life'[t] # "unborn"
    BY <1>0, <1>5 DEF BirthInv
  <2>5. \A t, u \in 1..Tasks : life'[t] = "unborn" /\ t < u => life'[u] = "unborn"
    BY <1>0, <1>2, <1>5 DEF BirthInv
  <2> QED BY <2>3, <2>4, <2>5 DEF BirthInv
<1>10. OutInv'
  <2> SUFFICES ASSUME NEW u \in 1..Tasks, life'[u] \in {"unlinked", "freed"},
                      NEW t \in 1..Before, u < t, t \in InList'
               PROVE  next'[u] \in (u + 1)..t
    BY DEF OutInv
  <2>1. u # y /\ life[u] \in {"unlinked", "freed"} /\ u # p
    BY <1>1, <1>5 DEF InList, T!Linked, T!init_task
  <2>2. t # y
    BY <1>0, <1>2 DEF BirthInv
  <2> QED BY <1>0, <1>5, <1>6, <2>1, <2>2 DEF OutInv
<1>11. AheadInv'
  <2>1. Born(visit)'
    <3>1. visit' = visit /\ (visit = 0 \/ (visit \in 1..Tasks /\ life[visit] # "unborn"))
      BY <1>0, <1>2 DEF AheadInv, Born, T!TypeOK
    <3> QED BY <1>2, <1>5, <3>1 DEF Born
  <2>2. \A t \in 1..Before : t # y
    BY <1>0, <1>2 DEF BirthInv
  <2> QED BY <1>0, <1>2, <1>6, <2>1, <2>2 DEF AheadInv
<1> QED BY <1>7, <1>8, <1>9, <1>10, <1>11 DEF WalkInv

\* A step of an exit that leaves the list as it is.
LEMMA WalkExit ==
  ASSUME WalkInv, NEW x \in 1..Tasks, NEW s,
         \/ life[x] = "live" /\ s = "nomm"
         \/ life[x] = "nomm" /\ s = "nofiles"
         \/ life[x] = "unlinked" /\ s = "freed",
         life' = [life EXCEPT ![x] = s], UNCHANGED <<next, visit, walk, printed>>
  PROVE  WalkInv'
<1> USE CallsAssumption
<1>0. /\ T!TypeOK /\ ListInv /\ BirthInv /\ OutInv /\ AheadInv
  BY DEF WalkInv
<1>1. life'[x] = s /\ \A u \in 1..Tasks : u # x => life'[u] = life[u]
  BY <1>0 DEF T!TypeOK, T!Task
<1>2. InList' = InList /\ InList \subseteq 0..Tasks
  BY <1>1 DEF InList, T!Linked, T!init_task
<1>3. /\ \A u \in 1..Tasks : life'[u] = "unborn" <=> life[u] = "unborn"
      /\ \A u \in 1..Tasks : life'[u] \in {"unlinked", "freed"} => life[u] \in {"unlinked", "freed"}
  BY <1>1
<1>4. T!TypeOK'
  BY <1>0 DEF T!TypeOK, T!Task
<1>9. \A u \in 0..Tasks : Born(u) => Born(u)'
  BY <1>3 DEF Born
<1>5. ListInv'
  BY <1>0, <1>2 DEF ListInv
<1>6. BirthInv'
  <2>1. \A u \in 0..Tasks : Born(next[u])'
    <3>1. \A u \in 0..Tasks : next'[u] = next[u] /\ next[u] \in 0..Tasks
      BY <1>0 DEF T!TypeOK
    <3> QED BY <1>0, <1>9, <3>1 DEF BirthInv
  <2>2. Before \in 0..Tasks
    OBVIOUS
  <2> QED BY <1>0, <1>3, <2>1, <2>2 DEF BirthInv
<1>7. OutInv'
  BY <1>0, <1>2, <1>3 DEF OutInv
<1>8. AheadInv'
  <2>1. Born(visit)'
    <3>1. visit' = visit /\ (visit = 0 \/ (visit \in 1..Tasks /\ life[visit] # "unborn"))
      BY <1>0 DEF AheadInv, Born, T!TypeOK
    <3> QED BY <1>9, <3>1 DEF Born
  <2> QED BY <1>0, <1>2, <2>1 DEF AheadInv
<1> QED BY <1>4, <1>5, <1>6, <1>7, <1>8 DEF WalkInv

\* A task leaves the list.
LEMMA WalkUnlink ==
  ASSUME WalkInv, NEW x \in 1..Tasks, life[x] = "nofiles",
         life' = [life EXCEPT ![x] = "unlinked"],
         next' = [next EXCEPT ![T!Pred(x)] = next[x]],
         UNCHANGED <<visit, walk, printed>>
  PROVE  WalkInv'
<1> DEFINE p == T!Pred(x)
<1> USE CallsAssumption
<1>0. /\ T!TypeOK /\ ListInv /\ BirthInv /\ OutInv /\ AheadInv
  BY DEF WalkInv
<1>1. p \in InList /\ next[p] = x /\ x \in InList
  <2>1. x \in InList
    BY DEF InList, T!Linked, T!init_task
  <2> QED BY <2>1, PredIs
<1>2. next' = [next EXCEPT ![p] = next[x]]
  OBVIOUS
<1> HIDE DEF p
<1>3. p < x /\ \A t \in InList : t <= p \/ x <= t
  BY <1>0, <1>1, x # 0 DEF ListInv
<1>4. /\ next'[p] = next[x] /\ \A u \in 0..Tasks : u # p => next'[u] = next[u]
      /\ life'[x] = "unlinked" /\ \A u \in 1..Tasks : u # x => life'[u] = life[u]
      /\ \A u \in 0..Tasks : next[u] \in 0..Tasks
  BY <1>0, <1>1, <1>2 DEF T!TypeOK, T!Task, InList
<1>5. InList' = InList \ {x} /\ InList \subseteq 0..Tasks
  BY <1>4 DEF InList, T!Linked, T!init_task
<1>6. T!TypeOK'
  BY <1>0, <1>1, <1>2 DEF T!TypeOK, T!Task, InList
<1>7. \/ next[x] = 0 /\ \A t \in InList : t <= x
      \/ /\ next[x] \in InList /\ x < next[x]
         /\ \A t \in InList : t <= x \/ next[x] <= t
  BY <1>0, <1>1 DEF ListInv
<1>8. ListInv'
  <2>1. ASSUME NEW u \in InList'
        PROVE  \/ next'[u] = 0 /\ \A t \in InList' : t <= u
               \/ /\ next'[u] \in InList' /\ u < next'[u]
                  /\ \A t \in InList' : t <= u \/ next'[u] <= t
    <3>1. CASE u = p
      <4>1. CASE next[x] = 0
        BY <1>3, <1>4, <1>5, <1>7, <3>1, <4>1
      <4>2. CASE next[x] # 0
        <5>1. next[x] \in InList /\ x < next[x] /\ next[x] \in 0..Tasks
          BY <1>4, <1>7, <4>2
        <5>2. next[x] \in InList'
          BY <1>5, <5>1
        <5> QED BY <1>3, <1>4, <1>5, <1>7, <3>1, <4>2, <5>1, <5>2
      <4> QED BY <4>1, <4>2
    <3>2. CASE u # p
      <4>1. u \in InList /\ u # x /\ next'[u] = next[u]
        BY <1>4, <1>5, <2>1, <3>2
      <4>2. \/ next[u] = 0 /\ \A t \in InList : t <= u
            \/ /\ next[u] \in InList /\ u < next[u]
               /\ \A t \in InList : t <= u \/ next[u] <= t
        BY <1>0, <4>1 DEF ListInv
      <4>3. next[u] # x
        BY <1>1, <1>3, <1>5, <3>2, <4>1, <4>2
      <4>4. next[u] \in InList => next[u] \in InList'
        BY <1>4, <1>5, <4>3
      <4> QED BY <1>5, <4>1, <4>2, <4>4
    <3> QED BY <3>1, <3>2
  <2>2. ASSUME NEW t \in InList'
        PROVE  \E u \in InList' : next'[u] = t
    <3>1. PICK u \in InList : next[u] = t
      BY <1>0, <1>5, <2>2 DEF ListInv
    <3>2. CASE u = x
      BY <1>1, <1>3, <1>4, <1>5, <3>1, <3>2
    <3>3. CASE u # x
      <4>1. u # p
        BY <1>1, <1>5, <2>2, <3>1
      <4> QED BY <1>4, <1>5, <3>1, <3>3, <4>1
    <3> QED BY <3>2, <3>3
  <2> QED BY <2>1, <2>2 DEF ListInv
<1>9. BirthInv'
  <2>1. \A u \in 0..Tasks : Born(next[u])'
    BY <1>0, <1>4 DEF BirthInv, Born
  <2> QED BY <1>0, <1>4, <2>1 DEF BirthInv
<1>10. OutInv'
  <2> SUFFICES ASSUME NEW u \in 1..Tasks, life'[u] \in {"unlinked", "freed"},
                      NEW t \in 1..Before, u < t, t \in InList'
               PROVE  next'[u] \in (u + 1)..t
    BY DEF OutInv
  <2>1. t \in InList /\ t \in 1..Tasks
    BY <1>5
  <2>2. CASE u = x
    BY <1>3, <1>4, <1>7, <2>1, <2>2
  <2>3. CASE u # x
    <3>1. life[u] \in {"unlinked", "freed"} /\ u # p
      BY <1>1, <1>4, <2>3 DEF InList, T!Linked, T!init_task
    <3> QED BY <1>0, <1>4, <2>1, <3>1 DEF OutInv
  <2> QED BY <2>2, <2>3
<1>11. AheadInv'
  <2>1. Born(visit)'
    <3>1. visit' = visit /\ (visit = 0 \/ (visit \in 1..Tasks /\ life[visit] # "unborn"))
      BY <1>0 DEF AheadInv, Born, T!TypeOK
    <3> QED BY <1>4, <3>1 DEF Born
  <2> QED BY <1>0, <1>5, <2>1 DEF AheadInv
<1> QED BY <1>6, <1>8, <1>9, <1>10, <1>11 DEF WalkInv

\* The walk leaves the task it has printed.
LEMMA WalkOn ==
  ASSUME WalkInv, walk \in {"task", "files"}, UNCHANGED <<next, life>>,
         printed' = printed \cup {visit} \/ (walk = "files" /\ printed' = printed),
         visit' = next[visit], walk' = IF next[visit] = 0 THEN "done" ELSE "task"
  PROVE  WalkInv'
<1> USE CallsAssumption
<1>0. /\ T!TypeOK /\ ListInv /\ BirthInv /\ OutInv /\ AheadInv
  BY DEF WalkInv
<1>1. T!TypeOK' /\ visit \in 0..Tasks /\ next[visit] \in 0..Tasks
  BY <1>0 DEF T!TypeOK
<1>2. InList' = InList /\ InList \subseteq 0..Tasks
  BY DEF InList, T!Linked
<1>5. ListInv' /\ BirthInv' /\ OutInv'
  BY <1>0, <1>2 DEF ListInv, BirthInv, OutInv, Born
<1>3. ASSUME NEW t \in 1..Before, t \in InList, t \notin printed'
      PROVE  next[visit] \in 1..t
  <2>1. visit < t
    BY <1>0, <1>1, <1>3 DEF AheadInv
  <2>2. CASE visit \in InList
    BY <1>0, <1>1, <1>3, <2>1, <2>2 DEF ListInv
  <2>3. CASE ~visit \in InList
    <3>1. visit \in 1..Tasks /\ life[visit] \in {"unlinked", "freed"}
      BY <1>0, <1>1, <2>3 DEF AheadInv, Born, InList, T!Linked, T!init_task, T!TypeOK, T!Task
    <3> QED BY <1>0, <1>3, <2>1, <3>1 DEF OutInv
  <2> QED BY <2>2, <2>3
<1>4. AheadInv'
  <2>1. Born(visit)'
    BY <1>0, <1>1 DEF BirthInv, Born
  <2>2. ASSUME NEW t \in 1..Before, t \in InList', t \notin printed'
        PROVE  walk' = "task" /\ visit' <= t
    BY <1>2, <1>3, <2>2
  <2> QED BY <2>1, <2>2 DEF AheadInv
<1> QED BY <1>1, <1>4, <1>5 DEF WalkInv

\* Forks, exits and the steps of the walk keep the invariant.
LEMMA WalkStep == WalkInv /\ [AllNext]_all => WalkInv'
<1> SUFFICES ASSUME WalkInv, [AllNext]_all PROVE WalkInv'
  OBVIOUS
<1>1. CASE UNCHANGED tvars
  BY <1>1 DEF tvars, WalkInv, T!TypeOK, ListInv, BirthInv, OutInv, AheadInv, InList, Born, T!Linked
<1>2. ASSUME NEW t \in T!Task, T!copy_process(t) PROVE WalkInv'
  BY <1>2, WalkFork DEF T!Task
<1>3. ASSUME NEW t \in T!Task, T!do_exit(t) PROVE WalkInv'
  <2>1. t \in 1..Tasks /\ UNCHANGED <<visit, walk, printed>>
    BY <1>3 DEF T!do_exit, T!Task
  <2>2. CASE life[t] = "nofiles"
    BY <1>3, <2>1, <2>2, WalkUnlink DEF T!do_exit
  <2>3. CASE life[t] # "nofiles"
    <3>1. PICK s : /\ \/ life[t] = "live" /\ s = "nomm"
                      \/ life[t] = "nomm" /\ s = "nofiles"
                      \/ life[t] = "unlinked" /\ s = "freed"
                   /\ life' = [life EXCEPT ![t] = s] /\ UNCHANGED next
      BY <1>3, <2>3 DEF T!do_exit
    <3> QED BY <2>1, <3>1, WalkExit
  <2> QED BY <2>2, <2>3
<1>4. CASE T!hello_init_task
  <2>1. CASE visit' = visit
    <3>1. /\ UNCHANGED <<next, life, visit>> /\ walk' \in {"fault", "files", "done", "task"}
          /\ printed' = printed \cup {visit} /\ walk = "task"
          /\ walk' \notin {"fault", "files"} => walk' = IF next[visit] = 0 THEN "done" ELSE "task"
          /\ walk' \notin {"fault", "files"} => visit' = next[visit]
      BY <1>4, <2>1 DEF T!hello_init_task, T!init_task
    <3>2. CASE walk' \in {"fault", "files"}
      <4>1. T!TypeOK'
        BY <3>1, <3>2 DEF WalkInv, T!TypeOK
      <4>2. ListInv' /\ BirthInv' /\ OutInv'
        <5>1. ListInv'
          BY <3>1 DEF WalkInv, ListInv, InList, T!Linked
        <5>2. BirthInv' /\ OutInv'
          BY <3>1 DEF WalkInv, BirthInv, OutInv, InList, Born, T!Linked
        <5> QED BY <5>1, <5>2
      <4>3. AheadInv'
        BY <3>1, <3>2 DEF WalkInv, T!TypeOK, AheadInv, Born, InList, T!Linked
      <4> QED BY <4>1, <4>2, <4>3 DEF WalkInv
    <3>3. CASE walk' \notin {"fault", "files"}
      BY <3>1, <3>3, WalkOn
    <3> QED BY <3>2, <3>3
  <2>2. CASE visit' # visit
    <3>1. /\ UNCHANGED <<next, life>> /\ printed' = printed \cup {visit} /\ walk = "task"
          /\ visit' = next[visit] /\ walk' = IF next[visit] = 0 THEN "done" ELSE "task"
      BY <1>4, <2>2 DEF T!hello_init_task, T!init_task
    <3> QED BY <3>1, WalkOn
  <2> QED BY <2>1, <2>2
<1>5. CASE T!hello_init_files
  <2>1. CASE walk' = "fault"
    <3>1. UNCHANGED <<next, life, visit, printed>>
      BY <1>5, <2>1 DEF T!hello_init_files
    <3>2. T!TypeOK'
      BY <2>1, <3>1 DEF WalkInv, T!TypeOK
    <3>3. ListInv' /\ BirthInv' /\ OutInv'
      BY <3>1 DEF WalkInv, ListInv, BirthInv, OutInv, InList, Born, T!Linked
    <3>4. AheadInv'
      BY <2>1, <3>1 DEF WalkInv, AheadInv, Born, InList, T!Linked
    <3> QED BY <3>2, <3>3, <3>4 DEF WalkInv
  <2>2. CASE walk' # "fault"
    <3>1. /\ UNCHANGED <<next, life, printed>> /\ walk = "files"
          /\ visit' = next[visit] /\ walk' = IF next[visit] = 0 THEN "done" ELSE "task"
      BY <1>5, <2>2 DEF T!hello_init_files, T!init_task
    <3> QED BY <3>1, WalkOn
  <2> QED BY <2>1, <2>2
<1>6. T!Next \/ UNCHANGED tvars
  BY DEF AllNext, all, tvars
<1> QED BY <1>1, <1>2, <1>3, <1>4, <1>5, <1>6 DEF T!Next

\* A walk that is back has nothing left before it.
LEMMA WalkAll == WalkInv => WalkSeesAll
BY CallsAssumption DEF WalkInv, AheadInv, InList, WalkSeesAll, T!WalkSeesAll

-----------------------------------------------------------------------------
(* PacketBlock.                                                             *)

Active(c) == hook[c] # "idle"

\* A packet in the hook has no verdict yet and is not freed.
PacketInv ==
  /\ \A k \in Packet : k \in released => verdict[k] # "none"
  /\ \A k \in Packet : verdict[k] # "none" => during[k] # {}
  /\ \A c \in Cpu : Active(c) => verdict[skb[c]] = "none" /\ skb[c] \in during[skb[c]]

\* Packets in the hook at the same time are different and know of each other.
PairInv ==
  \A c, d \in Cpu : Active(c) /\ Active(d) =>
    skb[c] \in during[skb[d]] /\ (c # d => skb[c] # skb[d])

\* What a processor in the hook may read from sock_buff, or has read, is a packet
\* that was in the hook together with its own; what it may read from ip_header
\* once it has stored there was in the hook together with one that was.
GlobalInv ==
  \A c \in Cpu :
    /\ Active(c) => sock_buff \in during[skb[c]]
    /\ hook[c] \in {"store", "protocol"} => header[c] \in during[skb[c]]
    /\ hook[c] = "protocol" => ip_header \in P!Near(skb[c])

\* A processor in the hook has a packet.
ArgInv == \A c \in Cpu : Active(c) => skb[c] \in Packet

HookInv == P!TypeOK /\ ArgInv /\ PacketInv /\ PairInv /\ GlobalInv /\ P!VerdictOfOverlap

\* No packet is in the hook at the start.
LEMMA PacketInit == P!Init => HookInv
BY DEF P!Init, HookInv, P!TypeOK, ArgInv, PacketInv, PairInv, GlobalInv, P!VerdictOfOverlap, Active

\* A packet arrives.
LEMMA ArriveInv ==
  ASSUME HookInv, NEW c \in Cpu, NEW k \in Packet, P!hook_func(c, k)
  PROVE  HookInv'
<1>1. /\ ~Active(c) /\ during[k] = {} /\ sock_buff' = k /\ skb' = [skb EXCEPT ![c] = k]
      /\ hook' = [hook EXCEPT ![c] = "header"]
      /\ UNCHANGED <<ip_header, header, verdict, released>>
  BY DEF P!hook_func, Active
<1>2. /\ during'[k] = P!InHook \cup {k}
      /\ \A j \in Packet \ {k} : j \in P!InHook => during'[j] = during[j] \cup {k}
      /\ \A j \in Packet \ {k} : j \notin P!InHook => during'[j] = during[j]
  BY DEF P!hook_func
<1>3. /\ \A d \in Cpu : Active(d) => skb[d] \in P!InHook /\ d # c /\ skb[d] # k
      /\ P!InHook \subseteq Packet /\ verdict[k] = "none"
      /\ \A j \in Packet : j \in P!InHook => verdict[j] = "none"
  BY <1>1 DEF P!InHook, Active, HookInv, ArgInv, PacketInv
<1>4. /\ \A d \in Cpu \ {c} : skb'[d] = skb[d] /\ hook'[d] = hook[d]
      /\ skb'[c] = k /\ hook'[c] = "header"
  BY <1>1 DEF HookInv, P!TypeOK
<1>5. \A d \in Cpu : Active(d) => during'[skb[d]] = during[skb[d]] \cup {k}
  BY <1>2, <1>3 DEF HookInv, ArgInv
<1>6. P!TypeOK'
  <2>1. during' \in [Packet -> SUBSET Packet]
    BY <1>3 DEF P!hook_func, HookInv, P!TypeOK
  <2> QED BY <1>1, <2>1 DEF HookInv, P!TypeOK
<1>7. ArgInv'
  BY <1>4 DEF HookInv, ArgInv, Active
<1>8. PacketInv'
  <2>1. \A j \in Packet : j \in released' => verdict'[j] # "none"
    BY <1>1 DEF HookInv, PacketInv
  <2>2. \A j \in Packet : verdict'[j] # "none" => during'[j] # {}
    BY <1>1, <1>2, <1>3 DEF HookInv, PacketInv
  <2>3. \A d \in Cpu : Active(d)' => verdict'[skb'[d]] = "none" /\ skb'[d] \in during'[skb'[d]]
    <3> SUFFICES ASSUME NEW d \in Cpu, Active(d)'
                 PROVE  verdict'[skb'[d]] = "none" /\ skb'[d] \in during'[skb'[d]]
      OBVIOUS
    <3>1. verdict' = verdict
      BY <1>1
    <3>2. CASE d = c
      BY <1>2, <1>3, <1>4, <3>1, <3>2
    <3>3. CASE d # c
      <4>1. Active(d) /\ skb'[d] = skb[d]
        BY <1>4, <3>3 DEF Active
      <4>2. verdict[skb[d]] = "none" /\ skb[d] \in during[skb[d]]
        BY <4>1 DEF HookInv, PacketInv
      <4> QED BY <1>5, <3>1, <4>1, <4>2
    <3> QED BY <3>2, <3>3
  <2> QED BY <2>1, <2>2, <2>3 DEF PacketInv
<1>9. \A d \in Cpu : Active(d)' /\ d # c => Active(d) /\ skb'[d] = skb[d]
  BY <1>4 DEF Active
<1>10. PairInv'
  <2> SUFFICES ASSUME NEW d \in Cpu, NEW e \in Cpu, Active(d)', Active(e)'
               PROVE  skb'[d] \in during'[skb'[e]] /\ (d # e => skb'[d] # skb'[e])
    BY DEF PairInv
  <2>1. CASE d = c /\ e = c
    BY <1>2, <1>4, <2>1
  <2>2. CASE d = c /\ e # c
    <3>1. Active(e) /\ skb'[e] = skb[e] /\ skb'[d] = k
      BY <1>4, <1>9, <2>2
    <3> QED BY <1>3, <1>5, <3>1
  <2>3. CASE d # c /\ e = c
    <3>1. Active(d) /\ skb'[d] = skb[d] /\ skb'[e] = k
      BY <1>4, <1>9, <2>3
    <3> QED BY <1>2, <1>3, <3>1
  <2>4. CASE d # c /\ e # c
    <3>1. Active(d) /\ skb'[d] = skb[d] /\ Active(e) /\ skb'[e] = skb[e]
      BY <1>9, <2>4
    <3>2. skb[d] \in during[skb[e]] /\ (d # e => skb[d] # skb[e])
      BY <3>1 DEF HookInv, PairInv
    <3> QED BY <1>5, <3>1, <3>2
  <2> QED BY <2>1, <2>2, <2>3, <2>4
<1>11. \A i \in Packet : during[i] \subseteq Packet /\ during[i] \subseteq during'[i]
  BY <1>1, <1>2 DEF HookInv, P!TypeOK
<1>12. GlobalInv'
  <2> SUFFICES ASSUME NEW d \in Cpu, Active(d)'
               PROVE  /\ sock_buff' \in during'[skb'[d]]
                      /\ hook'[d] \in {"store", "protocol"} => header'[d] \in during'[skb'[d]]
                      /\ hook'[d] = "protocol" => ip_header' \in P!Near(skb[d])'
    BY DEF GlobalInv, Active
  <2>1. CASE d = c
    BY <1>1, <1>2, <1>4, <2>1
  <2>2. CASE d # c
    <3>1. Active(d) /\ skb'[d] = skb[d] /\ hook'[d] = hook[d]
      BY <1>4, <1>9, <2>2
    <3>2. during'[skb'[d]] = during[skb[d]] \cup {k}
      BY <1>5, <3>1
    <3>3. /\ hook[d] \in {"store", "protocol"} => header[d] \in during[skb[d]]
          /\ hook[d] = "protocol" => ip_header \in P!Near(skb[d])
      BY DEF HookInv, GlobalInv
    <3>4. P!Near(skb[d]) \subseteq P!Near(skb[d])'
      <4>1. skb[d] \in Packet
        BY <3>1 DEF HookInv, ArgInv, P!TypeOK
      <4>2. \A j \in during[skb[d]] : j \in during'[skb'[d]] /\ during[j] \subseteq during'[j]
        BY <1>11, <3>2, <4>1
      <4> QED BY <4>2, Zenon DEF P!Near
    <3> QED BY <1>1, <3>1, <3>2, <3>3, <3>4
  <2> QED BY <2>1, <2>2
<1>13. P!VerdictOfOverlap'
  <2>1. \A j \in Packet : verdict[j] # "none" => during'[j] = during[j]
    BY <1>2, <1>3
  <2>2. \A j \in Packet : verdict[j] # "none" => P!Near(j) \subseteq P!Near(j)'
    BY <1>11, <2>1 DEF P!Near
  <2> QED BY <1>1, <2>1, <2>2 DEF HookInv, P!VerdictOfOverlap
<1> QED BY <1>6, <1>7, <1>8, <1>10, <1>12, <1>13 DEF HookInv

\* The header is found.
LEMMA HeaderInv ==
  ASSUME HookInv, NEW c \in Cpu, P!hook_func_header(c)
  PROVE  HookInv'
<1>1. PICK k \in {skb[c], sock_buff} : header' = [header EXCEPT ![c] = k]
  BY DEF P!hook_func_header
<1>2. /\ hook[c] = "header" /\ hook' = [hook EXCEPT ![c] = "store"]
      /\ UNCHANGED <<sock_buff, ip_header, skb, verdict, during, released>>
  BY DEF P!hook_func_header
<1>3. /\ \A d \in Cpu : Active(d)' <=> Active(d)
      /\ \A d \in Cpu : hook'[d] = "protocol" => hook[d] = "protocol"
      /\ \A d \in Cpu \ {c} : hook'[d] = hook[d] /\ header'[d] = header[d]
      /\ header'[c] = k
  BY <1>1, <1>2 DEF Active, HookInv, P!TypeOK
<1>4. k \in during[skb[c]]
  BY <1>1, <1>2 DEF HookInv, PairInv, GlobalInv, Active
<1>5. P!TypeOK'
  BY <1>1, <1>2 DEF HookInv, P!TypeOK
<1>6. ArgInv' /\ PacketInv' /\ PairInv' /\ P!VerdictOfOverlap'
  <2>1. ArgInv' /\ PacketInv'
    BY <1>2, <1>3 DEF HookInv, ArgInv, PacketInv
  <2>2. PairInv'
    BY <1>2, <1>3 DEF HookInv, PairInv
  <2>3. P!VerdictOfOverlap'
    <3>1. \A j : P!Near(j)' = P!Near(j)
      BY <1>2 DEF P!Near
    <3>2. verdict' = verdict /\ during' = during
      BY <1>2
    <3> QED BY <3>1, <3>2 DEF HookInv, P!VerdictOfOverlap
  <2> QED BY <2>1, <2>2, <2>3
<1>7. GlobalInv'
  <2>1. \A d \in Cpu : Active(d)' => sock_buff' \in during'[skb'[d]]
    BY <1>2, <1>3 DEF HookInv, GlobalInv
  <2>2. \A d \in Cpu : hook'[d] \in {"store", "protocol"} => header'[d] \in during'[skb'[d]]
    BY <1>2, <1>3, <1>4 DEF HookInv, GlobalInv
  <2>3. \A d \in Cpu : hook'[d] = "protocol" => ip_header' \in P!Near(skb[d])'
    BY <1>2, <1>3 DEF HookInv, GlobalInv, P!Near
  <2> QED BY <2>1, <2>2, <2>3 DEF GlobalInv
<1> QED BY <1>5, <1>6, <1>7 DEF HookInv

\* It is stored: the header of a packet that was in the hook with this one,
\* which is in the hook with all that are there now.
LEMMA StoreInv ==
  ASSUME HookInv, NEW c \in Cpu, P!hook_func_store(c)
  PROVE  HookInv'
<1>1. /\ hook[c] = "store" /\ hook' = [hook EXCEPT ![c] = "protocol"]
      /\ ip_header' = header[c]
      /\ UNCHANGED <<sock_buff, skb, header, verdict, during, released>>
  BY DEF P!hook_func_store
<1>2. /\ \A d \in Cpu : Active(d)' <=> Active(d)
      /\ \A d \in Cpu : hook'[d] \in {"store", "protocol"} => hook[d] \in {"store", "protocol"}
  BY <1>1 DEF Active, HookInv, P!TypeOK
<1>3. Active(c) /\ header[c] \in during[skb[c]]
  BY <1>1 DEF HookInv, GlobalInv, Active
<1>4. \A d \in Cpu : Active(d) => header[c] \in P!Near(skb[d])
  BY <1>3 DEF HookInv, PairInv, P!Near
<1>5. P!TypeOK'
  BY <1>1 DEF HookInv, P!TypeOK
<1>6. ArgInv' /\ PacketInv' /\ PairInv' /\ P!VerdictOfOverlap'
  <2>1. ArgInv' /\ PacketInv'
    BY <1>1, <1>2 DEF HookInv, ArgInv, PacketInv
  <2>2. PairInv'
    BY <1>1, <1>2 DEF HookInv, PairInv
  <2>3. P!VerdictOfOverlap'
    <3>1. \A j : P!Near(j)' = P!Near(j)
      BY <1>1 DEF P!Near
    <3>2. verdict' = verdict /\ during' = during
      BY <1>1
    <3> QED BY <3>1, <3>2 DEF HookInv, P!VerdictOfOverlap
  <2> QED BY <2>1, <2>2, <2>3
<1>7. GlobalInv'
  <2>1. \A d \in Cpu : Active(d)' => sock_buff' \in during'[skb'[d]]
    BY <1>1, <1>2 DEF HookInv, GlobalInv
  <2>2. \A d \in Cpu : hook'[d] \in {"store", "protocol"} => header'[d] \in during'[skb'[d]]
    BY <1>1, <1>2 DEF HookInv, GlobalInv
  <2>3. \A d \in Cpu : hook'[d] = "protocol" => ip_header' \in P!Near(skb[d])'
    BY <1>1, <1>2, <1>4 DEF Active, P!Near
  <2> QED BY <2>1, <2>2, <2>3 DEF GlobalInv
<1> QED BY <1>5, <1>6, <1>7 DEF HookInv

\* The verdict.
LEMMA VerdictInv ==
  ASSUME HookInv, NEW c \in Cpu, P!hook_func_verdict(c)
  PROVE  HookInv'
<1> DEFINE Judged(k) ==
      IF k \in released THEN "any" ELSE IF k \in Icmp THEN "NF_DROP" ELSE "NF_ACCEPT"
<1>1. PICK k \in {header[c], ip_header} :
        verdict' = [verdict EXCEPT ![skb[c]] = Judged(k)]
  BY DEF P!hook_func_verdict
<1>2. /\ hook[c] = "protocol" /\ hook' = [hook EXCEPT ![c] = "idle"]
      /\ UNCHANGED <<sock_buff, ip_header, skb, header, during, released>>
  BY DEF P!hook_func_verdict
<1>3. /\ skb[c] \in Packet /\ skb[c] \notin released
      /\ during[skb[c]] # {} /\ skb[c] \in during[skb[c]]
  BY <1>2 DEF HookInv, ArgInv, PacketInv, Active
<1>4. k \in P!Near(skb[c])
  BY <1>1, <1>2, <1>3 DEF HookInv, GlobalInv, P!Near
<1>5. /\ verdict'[skb[c]] = Judged(k)
      /\ \A j \in Packet \ {skb[c]} : verdict'[j] = verdict[j]
  BY <1>1, <1>3 DEF HookInv, P!TypeOK
<1>6. /\ \A d \in Cpu : Active(d)' => Active(d) /\ d # c
      /\ \A d \in Cpu : hook'[d] # "idle" => hook'[d] = hook[d]
  BY <1>2 DEF Active, HookInv, P!TypeOK
<1>7. P!TypeOK'
  BY <1>1, <1>2, <1>3 DEF HookInv, P!TypeOK
<1>8. ArgInv' /\ PairInv' /\ GlobalInv'
  <2>1. ArgInv'
    BY <1>2, <1>6 DEF HookInv, ArgInv
  <2>2. PairInv'
    BY <1>2, <1>6 DEF HookInv, PairInv
  <2>3. \A j : P!Near(j)' = P!Near(j)
    BY <1>2 DEF P!Near
  <2>4. \A d \in Cpu : Active(d)' => sock_buff' \in during'[skb'[d]]
    BY <1>2, <1>6 DEF HookInv, GlobalInv
  <2>5. \A d \in Cpu : hook'[d] \in {"store", "protocol"} => header'[d] \in during'[skb'[d]]
    BY <1>2, <1>6 DEF HookInv, GlobalInv
  <2>6. \A d \in Cpu : hook'[d] = "protocol" => ip_header' \in P!Near(skb[d])'
    <3>1. \A d \in Cpu : hook'[d] = "protocol" => ip_header \in P!Near(skb[d])
      BY <1>6 DEF HookInv, GlobalInv
    <3> QED BY <1>2, <2>3, <3>1
  <2> QED BY <2>1, <2>2, <2>4, <2>5, <2>6 DEF GlobalInv
<1>9. PacketInv'
  <2>1. \A d \in Cpu : Active(d)' => skb[d] # skb[c] /\ skb[d] \in Packet
    BY <1>2, <1>6 DEF HookInv, PairInv, ArgInv, Active
  <2>2. \A j \in Packet : j \in released' => verdict'[j] # "none"
    BY <1>2, <1>3, <1>5 DEF HookInv, PacketInv
  <2>3. \A j \in Packet : verdict'[j] # "none" => during'[j] # {}
    BY <1>2, <1>3, <1>5 DEF HookInv, PacketInv
  <2>4. \A d \in Cpu : Active(d)' => verdict'[skb'[d]] = "none" /\ skb'[d] \in during'[skb'[d]]
    <3>1. \A d \in Cpu : Active(d)' => verdict[skb[d]] = "none" /\ skb[d] \in during[skb[d]]
      BY <1>6 DEF HookInv, PacketInv
    <3> QED BY <1>2, <1>5, <2>1, <3>1
  <2> QED BY <2>2, <2>3, <2>4 DEF PacketInv
<1>10. P!VerdictOfOverlap'
  <2>1. during[skb[c]] = {skb[c]} => k = skb[c]
    BY <1>4 DEF P!Near
  <2>2. /\ Judged(k) = "NF_DROP" => P!Near(skb[c]) \cap Icmp # {}
        /\ Judged(k) = "NF_ACCEPT" => P!Near(skb[c]) \ Icmp # {}
        /\ Judged(k) = "any" => during[skb[c]] # {skb[c]}
    BY <1>4, <1>3, <2>1
  <2>3. during' = during /\ \A j : P!Near(j)' = P!Near(j)
    BY <1>2 DEF P!Near
  <2> HIDE DEF Judged
  <2> QED BY <1>5, <2>2, <2>3 DEF HookInv, P!VerdictOfOverlap
<1> QED BY <1>7, <1>8, <1>9, <1>10 DEF HookInv

\* Every step of PacketBlock keeps the invariant.
LEMMA PacketStep == HookInv /\ [AllNext]_all => HookInv'
<1> SUFFICES ASSUME HookInv, [AllNext]_all PROVE HookInv'
  OBVIOUS
<1>1. CASE UNCHANGED pvars
  <2>1. P!TypeOK' /\ ArgInv' /\ PacketInv'
    BY <1>1 DEF pvars, HookInv, P!TypeOK, ArgInv, PacketInv, Active
  <2>2. PairInv' /\ GlobalInv'
    BY <1>1 DEF pvars, HookInv, PairInv, GlobalInv, P!Near, Active
  <2>3. P!VerdictOfOverlap'
    <3>1. \A j : P!Near(j)' = P!Near(j)
      BY <1>1 DEF pvars, P!Near
    <3>2. verdict' = verdict /\ during' = during
      BY <1>1 DEF pvars
    <3> QED BY <3>1, <3>2 DEF HookInv, P!VerdictOfOverlap
  <2> QED BY <2>1, <2>2, <2>3 DEF HookInv
<1>2. ASSUME NEW k \in Packet, P!kfree_skb(k) PROVE HookInv'
  <2>1. /\ verdict[k] # "none" /\ released' = released \cup {k}
        /\ UNCHANGED <<sock_buff, ip_header, hook, skb, header, verdict, during>>
    BY <1>2 DEF P!kfree_skb
  <2>2. P!TypeOK' /\ ArgInv' /\ PacketInv'
    BY <2>1 DEF HookInv, P!TypeOK, ArgInv, PacketInv, Active
  <2>3. PairInv' /\ GlobalInv'
    BY <2>1 DEF HookInv, PairInv, GlobalInv, P!Near, Active
  <2>4. P!VerdictOfOverlap'
    <3>1. \A j : P!Near(j)' = P!Near(j)
      BY <2>1 DEF P!Near
    <3>2. verdict' = verdict /\ during' = during
      BY <2>1
    <3> QED BY <3>1, <3>2 DEF HookInv, P!VerdictOfOverlap
  <2> QED BY <2>2, <2>3, <2>4 DEF HookInv
<1>3. P!Next \/ UNCHANGED pvars
  BY DEF AllNext, all, pvars
<1> QED BY <1>1, <1>2, <1>3, ArriveInv, HeaderInv, StoreInv, VerdictInv DEF P!Next

-----------------------------------------------------------------------------
(* RwSleep.                                                                 *)

FS == INSTANCE FiniteSetTheorems

\* The counts of RwSleep and of the library are the same.
LEMMA SameCount ==
  \A S : R!Cardinality(S) = FS!Cardinality(S) /\ (IsFiniteSet(S) <=> FS!IsFiniteSet(S))
BY Zenon DEF R!Cardinality, FS!Cardinality, IsFiniteSet, FS!IsFiniteSet

\* What is needed of them: the empty set,
LEMMA CountEmpty == R!Cardinality({}) = 0
BY SameCount, FS!FS_EmptySet, Zenon

\* the type,
LEMMA CountNat == \A S : IsFiniteSet(S) => R!Cardinality(S) \in Nat
BY SameCount, FS!FS_CardinalityType, Zenon

\* one element more,
LEMMA CountAdd ==
  \A S, x : IsFiniteSet(S) =>
    R!Cardinality(S \cup {x}) = IF x \in S THEN R!Cardinality(S) ELSE R!Cardinality(S) + 1
BY SameCount, FS!FS_AddElement, Zenon

\* and subsets.
LEMMA CountSub ==
  \A S, A : IsFiniteSet(S) /\ A \subseteq S =>
    /\ IsFiniteSet(A) /\ R!Cardinality(A) <= R!Cardinality(S)
    /\ R!Cardinality(S) = R!Cardinality(A) => S = A
<1> SUFFICES ASSUME NEW S, NEW A, IsFiniteSet(S), A \in SUBSET S
             PROVE  /\ IsFiniteSet(A) /\ R!Cardinality(A) <= R!Cardinality(S)
                    /\ R!Cardinality(S) = R!Cardinality(A) => S = A
  BY Zenon
<1>1. /\ FS!IsFiniteSet(A) /\ FS!Cardinality(A) <= FS!Cardinality(S)
      /\ FS!Cardinality(S) = FS!Cardinality(A) => S = A
  BY SameCount, FS!FS_Subset, Zenon
<1> QED BY <1>1, SameCount, Zenon

Holders == readers \cup writers

\* The lock is held exactly during the copy, and a process leaves its processor
\* only in the copy, by a page fault.
HoldInv ==
  /\ cpus \in Nat /\ R!TypeOK
  /\ \A p \in Caller :
       /\ p \in Holders <=> task[p] \in {"copy", "asleep"}
       /\ task[p] \in {"copy", "asleep"} /\ p \notin onCpu => p \in faulted
       /\ task[p] = "spin" => p \in onCpu

\* The invariant holds at the start.
LEMMA InitHold == R!Init => HoldInv
<1> SUFFICES ASSUME R!Init PROVE HoldInv
  OBVIOUS
<1>1. R!Cardinality(onCpu) = 0
  BY CountEmpty DEF R!Init
<1> QED BY <1>1 DEF R!Init, HoldInv, R!TypeOK, Holders

\* Processors are taken only while one is free.
LEMMA CpuBound ==
  ASSUME HoldInv, [R!Next]_rvars
  PROVE  onCpu' \subseteq Caller /\ R!Cardinality(onCpu') <= cpus' /\ cpus' = cpus
<1>1. IsFiniteSet(onCpu) /\ R!Cardinality(onCpu) \in Nat /\ cpus \in Nat
  BY CountSub, CallsAssumption, CountNat DEF HoldInv, R!TypeOK
<1>2. \A p \in Caller : /\ R!Cardinality(onCpu \cup {p}) <= R!Cardinality(onCpu) + 1
                      /\ R!Cardinality(onCpu \cup {p}) \in Nat
  <2> SUFFICES ASSUME NEW p \in Caller
               PROVE  /\ R!Cardinality(onCpu \cup {p}) <= R!Cardinality(onCpu) + 1
                      /\ R!Cardinality(onCpu \cup {p}) \in Nat
    OBVIOUS
  <2>1. R!Cardinality(onCpu \cup {p}) =
          IF p \in onCpu THEN R!Cardinality(onCpu) ELSE R!Cardinality(onCpu) + 1
    BY <1>1, CountAdd, Zenon
  <2> QED BY <1>1, <2>1
<1>3. \A p \in Caller : /\ R!Cardinality(onCpu \ {p}) <= R!Cardinality(onCpu)
                      /\ R!Cardinality(onCpu \ {p}) \in Nat
  BY <1>1, CountSub, CallsAssumption, CountNat
<1>4. onCpu \subseteq Caller /\ R!Cardinality(onCpu) <= cpus
  BY DEF HoldInv, R!TypeOK
<1>5. CASE UNCHANGED onCpu /\ UNCHANGED cpus
  BY <1>4, <1>5
<1>6. ASSUME NEW p \in Caller, onCpu' = onCpu \cup {p}, R!Cardinality(onCpu) < cpus, cpus' = cpus
      PROVE  onCpu' \subseteq Caller /\ R!Cardinality(onCpu') <= cpus' /\ cpus' = cpus
  BY <1>1, <1>2, <1>4, <1>6
<1>7. ASSUME NEW p \in Caller, onCpu' = onCpu \ {p}, cpus' = cpus
      PROVE  onCpu' \subseteq Caller /\ R!Cardinality(onCpu') <= cpus' /\ cpus' = cpus
  BY <1>1, <1>3, <1>4, <1>7
<1>8. CASE UNCHANGED rvars
  BY <1>5, <1>8 DEF rvars
<1>9. ASSUME NEW p \in Caller,
             (\E o \in {"my_read", "my_write"} : R!call(p, o)) \/ R!page_fault(p) \/ R!Steps(p)
      PROVE  onCpu' \subseteq Caller /\ R!Cardinality(onCpu') <= cpus' /\ cpus' = cpus
  <2>1. ASSUME NEW o \in {"my_read", "my_write"}, R!call(p, o)
        PROVE  onCpu' \subseteq Caller /\ R!Cardinality(onCpu') <= cpus' /\ cpus' = cpus
    BY <1>6, <2>1 DEF R!call
  <2>2. CASE R!page_fault(p)
    BY <1>7, <2>2 DEF R!page_fault
  <2>3. CASE R!lock(p) \/ R!page_in(p)
    BY <1>5, <2>3 DEF R!lock, R!page_in
  <2>4. CASE R!schedule(p)
    BY <1>6, <2>4 DEF R!schedule
  <2>5. CASE R!unlock(p)
    BY <1>7, <2>5 DEF R!unlock
  <2> QED BY <1>9, <2>1, <2>2, <2>3, <2>4, <2>5 DEF R!Steps
<1> QED BY <1>8, <1>9 DEF R!Next

\* Every step of RwSleep keeps it.
LEMMA StepHold ==
  ASSUME HoldInv, [R!Next]_rvars
  PROVE  HoldInv'
<1>1. onCpu' \subseteq Caller /\ R!Cardinality(onCpu') <= cpus' /\ cpus' = cpus
  BY CpuBound
<1>2. CASE UNCHANGED rvars
  BY <1>1, <1>2 DEF rvars, HoldInv, R!TypeOK, Holders
<1>3. ASSUME NEW p \in Caller,
             (\E o \in {"my_read", "my_write"} : R!call(p, o)) \/ R!page_fault(p) \/ R!Steps(p)
      PROVE  HoldInv'
  <2>1. ASSUME NEW o \in {"my_read", "my_write"}, R!call(p, o) PROVE HoldInv'
    BY <1>1, <2>1 DEF R!call, HoldInv, R!TypeOK, Holders
  <2>2. CASE R!lock(p)
    <3>1. Holders' = Holders \cup {p}
      BY <2>2 DEF R!lock, Holders
    <3>2. readers' \subseteq Caller /\ writers' \subseteq Caller
      BY <2>2 DEF R!lock, HoldInv, R!TypeOK
    <3> QED BY <1>1, <2>2, <3>1, <3>2 DEF R!lock, HoldInv, R!TypeOK
  <2>3. CASE R!page_fault(p)
    BY <1>1, <2>3 DEF R!page_fault, HoldInv, R!TypeOK, Holders
  <2>4. CASE R!page_in(p)
    BY <1>1, <2>4 DEF R!page_in, HoldInv, R!TypeOK, Holders
  <2>5. CASE R!schedule(p)
    BY <1>1, <2>5 DEF R!schedule, HoldInv, R!TypeOK, Holders
  <2>6. CASE R!unlock(p)
    <3>1. Holders' = Holders \ {p}
      BY <2>6 DEF R!unlock, Holders
    <3> QED BY <1>1, <2>6, <3>1 DEF R!unlock, HoldInv, R!TypeOK
  <2> QED BY <1>3, <2>1, <2>2, <2>3, <2>4, <2>5, <2>6 DEF R!Steps
<1> QED BY <1>2, <1>3 DEF R!Next

\* All processors are lost to spinning only when the holders were put to sleep in
\* the copy and there are fewer processors than processes.
LEMMA HoldStuck ==
  ASSUME HoldInv
  PROVE  R!StuckOnlyBySleep
<1> SUFFICES ASSUME R!Stuck
             PROVE  /\ cpus < R!Cardinality(Caller)
                    /\ \A p \in readers \cup writers :
                         task[p] \in {"copy", "asleep"} /\ p \in faulted
  BY DEF R!StuckOnlyBySleep
<1>1. \A p \in Holders : p \in Caller /\ p \notin onCpu
  BY DEF HoldInv, R!TypeOK, R!Stuck, Holders
<1>2. \A p \in Holders : task[p] \in {"copy", "asleep"} /\ p \in faulted
  BY <1>1 DEF HoldInv
<1>3. cpus < R!Cardinality(Caller)
  <2>1. PICK h \in Holders : TRUE
    BY DEF R!Stuck, Holders
  <2>2. IsFiniteSet(onCpu) /\ onCpu \subseteq Caller /\ onCpu # Caller
    BY <1>1, <2>1, CountSub, CallsAssumption DEF HoldInv, R!TypeOK
  <2>3. R!Cardinality(onCpu) < R!Cardinality(Caller)
    BY <2>2, CountSub, CallsAssumption, CountNat
  <2> QED BY <2>3 DEF R!Stuck
<1> QED BY <1>2, <1>3 DEF Holders

-----------------------------------------------------------------------------
(* The five modules together.                                               *)

\* The invariant of SeqPass holds whichever model runs.
LEMMA SeqStays == SeqInv /\ [AllNext]_all => SeqInv'
<1>1. [AllNext]_all => [Next]_vars
  BY DEF AllNext, all, vars
<1> QED BY <1>1, SeqStep

\* So does that of RwSleep,
LEMMA LockStays == HoldInv /\ [AllNext]_all => HoldInv'
<1>1. [AllNext]_all => [R!Next]_rvars
  BY DEF AllNext, all, rvars
<1> QED BY <1>1, StepHold

\* However much a read(2) of seq_file_procfs.c or network_procfs.c asks for, and
\* however many records there are, the bytes the reader gets are whole records,
\* each followed by the next one of the list or by the first.
THEOREM WholeRecords == AllSpec => []RecordsWhole
<1>1. AllInit => SeqInv
  BY SeqInit DEF AllInit
<1> QED BY <1>1, SeqStays, SeqWhole, PTL DEF AllSpec

\* The records that do not fit in the buffer of seq_read from the beginning of
\* the list are never shown, since my_start ignores the position it is given.
THEOREM FirstBuffer == AllSpec => []OnlyFirstBuffer
<1>1. AllInit => SeqInv
  BY SeqInit DEF AllInit
<1>2. SeqInv => OnlyFirstBuffer
  BY DEF SeqInv
<1> QED BY <1>1, <1>2, SeqStays, PTL DEF AllSpec

\* However many tasks fork and exit while hello_init of thread_tree.c walks over
\* them without rcu_read_lock, a walk that is back at init_task has printed every
\* task that was there from its beginning to its end.
THEOREM WalkComplete == AllSpec => []WalkSeesAll
<1>1. AllInit => WalkInv
  BY WalkInit DEF AllInit
<1> QED BY <1>1, WalkStep, WalkAll, PTL DEF AllSpec

\* However many processors take packets, a verdict of hook_func that is wrong for
\* its own packet is the right one for another packet, or comes from a header
\* that was freed, and that packet was in the hook at the same time or together
\* with one that was: the globals sock_buff and ip_header mix up packets across
\* at most two overlaps, and never the packet of a hook that runs alone.
THEOREM VerdictsOverlap == AllSpec => []VerdictOfOverlap
<1>1. AllInit => HookInv
  BY PacketInit DEF AllInit
<1>2. HookInv => VerdictOfOverlap
  BY DEF HookInv, VerdictOfOverlap
<1> QED BY <1>1, <1>2, PacketStep, PTL DEF AllSpec

\* my_read and my_write of misc_char_dev.c can bring every processor to spin on
\* my_rwlock for good only through a page fault in the copy made under the lock,
\* and never with a processor for each process, however many there are.
THEOREM LockStuckBySleep == AllSpec => []StuckOnlyBySleep
<1>1. AllInit => HoldInv
  BY InitHold DEF AllInit
<1>2. HoldInv => StuckOnlyBySleep
  BY HoldStuck DEF StuckOnlyBySleep
<1> QED BY <1>1, <1>2, LockStays, PTL DEF AllSpec

\* and the types of KThread.
LEMMA ThreadTypes == K!TypeOK /\ [AllNext]_all => K!TypeOK'
<1>1. [AllNext]_all => K!Next \/ UNCHANGED kvars
  BY DEF AllNext, all, kvars
<1>2. K!TypeOK /\ UNCHANGED kvars => K!TypeOK'
  BY DEF kvars, K!TypeOK
<1>3. K!TypeOK /\ K!Next => K!TypeOK'
  BY DEF K!Next, K!TypeOK, K!kthread_create, K!set_task_state, K!wake_up_process,
     K!thread_exit, K!ExitSteps, K!kthread_stop, K!kthread_stop_wait, K!ThreadSteps,
     K!kthread, K!thread_fn, K!free_task, K!Oops, K!Woken, K!BadPointer
<1> QED BY <1>1, <1>2, <1>3

\* The variables of all five modules stay in their types, and never more
\* processes run than there are processors.
THEOREM CallTypes == AllSpec => []TypesOK
<1> DEFINE Types == SeqInv /\ WalkInv /\ K!TypeOK /\ HookInv /\ HoldInv
<1>1. AllInit => Types
  <2>1. AllInit => K!TypeOK
    BY DEF AllInit, K!Init, K!TypeOK, K!BadPointer
  <2>2. AllInit => SeqInv /\ WalkInv
    BY SeqInit, WalkInit DEF AllInit
  <2>3. AllInit => HookInv /\ HoldInv
    BY PacketInit, InitHold DEF AllInit
  <2> QED BY <2>1, <2>2, <2>3
<1>2. Types /\ [AllNext]_all => Types'
  BY SeqStays, WalkStep, PacketStep, ThreadTypes, LockStays
<1>3. Types => TypesOK
  BY DEF TypesOK, SeqInv, WalkInv, HookInv, HoldInv
<1> QED BY <1>1, <1>2, <1>3, PTL DEF AllSpec
==============================================================================
