--------------------------- MODULE LifecycleProofs ---------------------------
(* Proofs about Lifecycle for any tables: what the tables alone say holds  *)
(* in every interleaving of init, its error paths, exit and the callbacks. *)
EXTENDS MCLifecycle, TLAPS

\* The types hold at the start.
LEMMA InitType == Init => TypeOK
<1> SUFFICES ASSUME Init PROVE TypeOK
  OBVIOUS
<1>1. Len(Setup[drv]) \in Nat
  BY LifecycleAssumption DEF Init
<1>2. faults \subseteq Resource /\ unnoticed \subseteq Resource
  BY DEF Init
<1>4. todo \in Seq(Resource \ {"text"})
  BY DEF Init
<1>3. held \subseteq Resource
  BY LifecycleAssumption DEF Init
<1> QED BY <1>1, <1>2, <1>3, <1>4 DEF Init, TypeOK

\* Every step keeps them.
LEMMA NextType == TypeOK /\ [Next]_vars => TypeOK'
<1> SUFFICES ASSUME TypeOK, [Next]_vars PROVE TypeOK'
  OBVIOUS
<1> USE LifecycleAssumption
<1>1. Setup[drv] \in Seq(Step) /\ Teardown[drv] \in Seq(Resource \ {"text"})
  BY DEF TypeOK
<1>2. ASSUME AtStep
      PROVE  /\ step \in 1..Len(Setup[drv]) /\ Setup[drv][step] \in Step
             /\ step + 1 \in 1..(Len(Setup[drv]) + 1)
  BY <1>1, <1>2 DEF AtStep, TypeOK
<1>3. CASE Acquire
  BY <1>2, <1>3 DEF Acquire, TypeOK, Step, GoTo, AtStep, Now
<1>4. CASE AcquireFails
  BY <1>2, <1>4 DEF AcquireFails, TypeOK, Step, FailWith, AtStep, Now
<1>5. CASE AcquireMissed \/ AcquireSkipped \/ AcquireFaults
  <2>1. /\ UNCHANGED <<drv, phase, todo, wait, held, calls>>
        /\ step' \in {step, step + 1} /\ Setup[drv][step] \in Step
        /\ step' \in 1..(Len(Setup[drv]) + 1)
        /\ faults' \in {faults, Now.uses \ held}
        /\ unnoticed' \in {unnoticed, unnoticed \cup Now.gets}
    BY <1>2, <1>5 DEF AcquireMissed, AcquireSkipped, AcquireFaults, TypeOK, GoTo
  <2>2. faults' \subseteq Resource /\ unnoticed' \subseteq Resource
    BY <2>1 DEF TypeOK, Step, Now
  <2> QED BY <2>1, <2>2 DEF TypeOK
<1>6. CASE Loaded
  BY <1>6 DEF Loaded, TypeOK
<1>7. ASSUME NEW e \in Entries, Call(e) \/ Return(e) PROVE TypeOK'
  BY <1>7 DEF Call, Return, TypeOK
<1>8. CASE Rmmod
  BY <1>1, <1>8 DEF Rmmod, TypeOK, BeginExit
<1>9. CASE Release
  <2>1. faults' \subseteq Resource /\ unnoticed' = unnoticed
    <3>1. todo # <<>> /\ faults' \subseteq {Head(todo)} /\ unnoticed' = unnoticed
      BY <1>9 DEF Release, FreeNext, FreeHead
    <3>2. Head(todo) \in Resource
      BY <3>1 DEF TypeOK
    <3> QED BY <3>1, <3>2
  <2>2. todo' \in Seq(Resource \ {"text"})
    BY <1>9 DEF Release, TypeOK, FreeNext, FreeHead
  <2>3. wait' \in Entries \cup {None} /\ held' \subseteq Resource
    BY <1>9 DEF Release, TypeOK, FreeNext, FreeHead
  <2> QED BY <1>9, <2>1, <2>2, <2>3 DEF Release, TypeOK, FreeNext, FreeHead
<1>10. CASE Finish
  BY <1>10 DEF Finish, TypeOK, FreeModule
<1>11. CASE UNCHANGED vars
  BY <1>11 DEF vars, TypeOK
<1> QED BY <1>3, <1>4, <1>5, <1>6, <1>7, <1>8, <1>9, <1>10, <1>11 DEF Next

\* The module loader, init, exit and the callbacks keep the state in its type.
THEOREM TypeCorrect == Spec => []TypeOK
BY InitType, NextType, PTL DEF Spec

-----------------------------------------------------------------------------
(* What init has when it reaches a step.                                   *)

\* r comes from a step that no later step surely gave back, and what that
\* step used is there unless it was given back.
Origin(r) ==
  LET S == Setup[drv] IN
  \E j \in 1..(step - 1) :
    /\ r \in S[j].gets
    /\ \A k \in j..(step - 1) : ~GivesBack(drv, j, k, r)
    /\ \A u \in S[j].uses : u \in held \/ \E m \in j..(step - 1) : u \in S[m].gives

\* What a step without a test should have acquired is there, or failed and was
\* not noticed, or was given back.
Supplied ==
  LET S == Setup[drv] IN
  \A j \in 1..(step - 1) : ~S[j].tested =>
    \A r \in S[j].gets :
      r \in held \cup unnoticed \/ \E k \in j..(step - 1) : r \in S[k].gives

\* Until rmmod or a failure, init has no more and no less than the tables say,
\* and nothing waits for a call.
InitInv ==
  phase \in {"init", "live"} =>
    /\ wait = None
    /\ phase = "live" => step = AtEnd(drv)
    /\ {"text"} \cup SureBefore(drv, step) \subseteq held
    /\ \A r \in held \ {"text"} : Origin(r)
    /\ Supplied

\* What the tables bound from above.
LEMMA HoldsAtMost ==
  ASSUME TypeOK, InitInv, phase \in {"init", "live"}
  PROVE  held \ {"text"} \subseteq MayHold(drv, step)
BY DEF InitInv, Origin, MayHold, TypeOK

\* module_init going forward.
LEMMA SetupStep ==
  ASSUME TypeOK, InitInv, Acquire \/ AcquireMissed \/ AcquireSkipped
  PROVE  InitInv'
<1> DEFINE S == Setup[drv]
           s == S[step]
<1>1. /\ phase = "init" /\ phase' = "init" /\ step' = step + 1
      /\ UNCHANGED <<drv, wait>> /\ step \in 1..Len(S) /\ s \in Step
      /\ \/ /\ s.uses \subseteq held /\ held' = (held \cup s.gets) \ s.gives
            /\ unnoticed' = unnoticed \ s.gets
         \/ /\ s.uses \subseteq held /\ held' = held /\ s.missed
            /\ unnoticed' = unnoticed \cup s.gets
         \/ ~(s.uses \subseteq held) /\ held' = held /\ s.tested /\ unnoticed' = unnoticed
  BY LifecycleAssumption DEF Acquire, AcquireMissed, AcquireSkipped, TypeOK, GoTo,
     AtStep, Now
<1>2. step \in Nat /\ step >= 1 /\ Len(S) \in Nat
  BY LifecycleAssumption DEF TypeOK
<1>3. held \ s.gives \subseteq held' /\ "text" \notin s.gives
  BY <1>1 DEF Step
<1>4. {"text"} \cup SureBefore(drv, step + 1) \subseteq held'
  <2>1. SureBefore(drv, step + 1) \subseteq
          SureBefore(drv, step) \cup
            (IF s.tested THEN {} ELSE s.uses \cup (IF s.missed THEN {} ELSE s.gets))
    BY <1>1, <1>2 DEF SureBefore
  <2>2. s.gives \cap SureBefore(drv, step + 1) = {}
    BY <1>1 DEF SureBefore, Given
  <2>3. {"text"} \cup SureBefore(drv, step) \subseteq held
    BY <1>1 DEF InitInv
  <2>4. ASSUME ~s.tested PROVE s.uses \subseteq held /\ (s.missed \/ s.gets \ s.gives \subseteq held')
    BY <1>1, <2>4
  <2> HIDE DEF S, s
  <2> QED BY <1>3, <2>1, <2>2, <2>3, <2>4
<1>5. ASSUME NEW r \in held' \ {"text"} PROVE Origin(r)'
  <2>1. CASE r \in held
    <3>1. PICK j \in 1..(step - 1) :
            /\ r \in S[j].gets
            /\ \A k \in j..(step - 1) : ~GivesBack(drv, j, k, r)
            /\ \A u \in S[j].uses : u \in held \/ \E m \in j..(step - 1) : u \in S[m].gives
      BY <1>1, <1>5, <2>1 DEF InitInv, Origin
    <3>2. ~GivesBack(drv, j, step, r)
      BY <1>1, <1>2, <1>5, <3>1 DEF GivesBack
    <3>3. j \in 1..step /\ \A k \in j..step : k = step \/ k \in j..(step - 1)
      BY <1>2
    <3>4. step \in j..step /\ j..(step - 1) \subseteq j..step
      BY <1>2
    <3>5. \A k \in j..step : ~GivesBack(drv, j, k, r)
      BY <3>1, <3>2, <3>3
    <3>6. \A u \in S[j].uses : u \in held' \/ \E m \in j..step : u \in S[m].gives
      BY <1>3, <3>1, <3>4
    <3>7. step' - 1 = step /\ drv' = drv
      BY <1>1, <1>2
    <3> QED BY <3>1, <3>3, <3>5, <3>6, <3>7 DEF Origin, GivesBack
  <2>2. CASE r \notin held
    <3>1. r \in s.gets /\ r \notin s.gives /\ s.uses \subseteq held
      BY <1>1, <1>5, <2>2
    <3>2. \A u \in s.uses : u \in held' \/ u \in s.gives
      BY <1>3, <3>1
    <3>3. step' - 1 = step /\ drv' = drv /\ step..step = {step} /\ step \in 1..step
      BY <1>1, <1>2
    <3>4. \A k \in step..step : ~GivesBack(drv, step, k, r)
      BY <3>1, <3>3 DEF GivesBack
    <3> QED BY <3>1, <3>2, <3>3, <3>4 DEF Origin, GivesBack
  <2> QED BY <2>1, <2>2
<1>6. Supplied'
  <2> SUFFICES ASSUME NEW j \in 1..step, ~S[j].tested, NEW r \in S[j].gets
               PROVE  r \in held' \cup unnoticed' \/ \E k \in j..step : r \in S[k].gives
    BY <1>1, <1>2 DEF Supplied
  <2>1. step \in j..step /\ j..(step - 1) \subseteq j..step
    BY <1>2
  <2>2. CASE j = step
    BY <1>1, <2>1, <2>2
  <2>3. CASE j # step
    <3>1. j \in 1..(step - 1)
      BY <1>2, <2>3
    <3>2. r \in held \cup unnoticed \/ \E k \in j..(step - 1) : r \in S[k].gives
      BY <1>1, <3>1 DEF InitInv, Supplied
    <3>3. r \in held \cup unnoticed => r \in held' \cup unnoticed' \/ r \in s.gives
      BY <1>1
    <3> QED BY <2>1, <3>2, <3>3
  <2> QED BY <2>2, <2>3
<1> HIDE DEF S, s
<1> QED BY <1>1, <1>4, <1>5, <1>6 DEF InitInv

\* The other steps leave init where it is, or end it.
LEMMA InitInvNext == TypeOK /\ InitInv /\ [Next]_vars => InitInv'
<1> SUFFICES ASSUME TypeOK, InitInv, [Next]_vars PROVE InitInv'
  OBVIOUS
<1>1. CASE Acquire \/ AcquireMissed \/ AcquireSkipped
  BY <1>1, SetupStep
<1>2. CASE AcquireFails \/ Rmmod \/ Release \/ Finish
  BY <1>2 DEF AcquireFails, Rmmod, Release, Finish, InitInv, FailWith, AtStep, Now,
     BeginExit, FreeNext, FreeHead, FreeModule
<1>3. ASSUME UNCHANGED <<drv, step, wait, held, unnoticed>>, phase' = phase \/ Loaded
      PROVE  InitInv'
  <2>1. phase' \in {"init", "live"} => phase \in {"init", "live"}
    BY <1>3 DEF Loaded
  <2>2. phase' = "live" => step = AtEnd(drv)
    BY <1>3, LifecycleAssumption DEF InitInv, Loaded, AtEnd, TypeOK
  <2>3. Supplied => Supplied'
    BY <1>3 DEF Supplied
  <2>4. \A r : Origin(r) => Origin(r)'
    BY <1>3 DEF Origin, GivesBack
  <2> QED BY <1>3, <2>1, <2>2, <2>3, <2>4 DEF InitInv, SureBefore, Given, AtEnd
<1> QED BY <1>1, <1>2, <1>3 DEF Next, AcquireFaults, Loaded, Call, Return, vars,
   AtStep, Now

\* Init reaches each step with no more and no less than the tables say.
LEMMA InitInvHolds == Spec => [](TypeOK /\ InitInv)
<1>1. Init => InitInv
  <2> SUFFICES ASSUME Init PROVE InitInv
    OBVIOUS
  <2>1. SureBefore(drv, 1) = {}
    BY DEF SureBefore
  <2> QED BY <2>1 DEF Init, InitInv, Supplied
<1> QED BY <1>1, InitType, NextType, InitInvNext, PTL DEF Spec

-----------------------------------------------------------------------------
(* What is left when init fails, and after exit.                           *)

\* What remains to be released is all there is besides what the tables allow
\* to be left, and what exit leaks it never had to release.
LeftInv ==
  LET rest == {todo[k] : k \in 1..Len(todo)} IN
  /\ phase = "unwind" => held \ rest \subseteq Residue(drv) \cup {"text"}
  /\ phase = "failed" => held \subseteq Residue(drv)
  /\ phase = "exit" => /\ held \ rest \subseteq Leak(drv) \cup {"text"}
                       /\ Leak(drv) \subseteq held \ rest
  /\ phase = "out" => held = Leak(drv)

\* One release, or the end of them.
LEMMA LeftRelease == ASSUME TypeOK, LeftInv, Release \/ Finish PROVE LeftInv'
<1> DEFINE rest == {todo[k] : k \in 1..Len(todo)}
<1>1. drv \in Driver /\ drv' = drv /\ "text" \notin Leak(drv)
  BY LeakAssumption DEF Release, Finish, TypeOK, FreeNext, FreeHead, FreeModule
<1>2. CASE Release
  <2> DEFINE r == Head(todo)
  <2>1. /\ held' = held \ {r} /\ todo' = Tail(todo) /\ phase' = phase
        /\ phase \in {"unwind", "exit"} /\ todo # <<>> /\ todo \in Seq(Resource \ {"text"})
    BY <1>2 DEF Release, TypeOK, FreeNext, FreeHead
  <2>2. /\ Len(todo) \in Nat /\ Len(todo) > 0 /\ r = todo[1]
        /\ Len(todo') = Len(todo) - 1
        /\ \A k \in 1..(Len(todo) - 1) : todo'[k] = todo[k + 1]
    BY <2>1
  <2>3. rest \subseteq rest' \cup {r}
    <3> SUFFICES ASSUME NEW k \in 1..Len(todo), k # 1 PROVE todo[k] \in rest'
      BY <2>2
    <3>1. k - 1 \in 1..Len(todo') /\ todo'[k - 1] = todo[k]
      BY <2>2
    <3> QED BY <3>1
  <2>4. rest' \subseteq rest /\ r \in rest
    <3>1. ASSUME NEW k \in 1..Len(todo') PROVE k + 1 \in 1..Len(todo) /\ todo'[k] = todo[k + 1]
      BY <2>2
    <3>2. rest' \subseteq rest
      BY <3>1
    <3>3. 1 \in 1..Len(todo) /\ r = todo[1]
      BY <2>2
    <3> QED BY <3>2, <3>3
  <2>5. held' \ rest' \subseteq held \ rest
    BY <2>1, <2>3
  <2>6. Leak(drv) \subseteq held \ rest => Leak(drv) \subseteq held' \ rest'
    BY <2>1, <2>4
  <2> HIDE DEF rest, r
  <2> QED BY <1>1, <2>1, <2>5, <2>6 DEF LeftInv, rest
<1>3. CASE Finish
  <2>1. rest = {}
    BY <1>3 DEF Finish, FreeModule
  <2> QED BY <1>1, <1>3, <2>1 DEF Finish, LeftInv, FreeModule
<1> QED BY <1>2, <1>3

\* Every step keeps it.
LEMMA LeftNext == TypeOK /\ InitInv /\ LeftInv /\ [Next]_vars => LeftInv'
<1> SUFFICES ASSUME TypeOK, InitInv, LeftInv, [Next]_vars PROVE LeftInv'
  OBVIOUS
<1>1. CASE Release \/ Finish
  BY <1>1, LeftRelease
<1>2. CASE AcquireFails
  <2>1. /\ phase = "init" /\ phase' = "unwind" /\ todo' = Setup[drv][step].undo
        /\ UNCHANGED <<drv, held>> /\ step \in FailsAt(drv) /\ drv \in Driver
    BY <1>2, LifecycleAssumption DEF AcquireFails, TypeOK, FailsAt, FailWith, AtStep,
       Now
  <2>2. Left(drv, step, todo') \subseteq Residue(drv)
    BY <2>1, ResidueAssumption
  <2>3. held \ {"text"} \subseteq MayHold(drv, step)
    BY <2>1, HoldsAtMost
  <2> QED BY <2>1, <2>2, <2>3 DEF LeftInv, Left
<1>3. CASE Rmmod
  <2>1. /\ phase = "live" /\ phase' = "exit" /\ todo' = Teardown[drv]
        /\ UNCHANGED <<drv, held>> /\ drv \in Driver /\ step = AtEnd(drv)
    BY <1>3 DEF Rmmod, TypeOK, InitInv, BeginExit
  <2>2. /\ Left(drv, step, todo') \subseteq Leak(drv)
        /\ Leak(drv) \subseteq SureBefore(drv, step)
        /\ \A k \in 1..Len(todo') : todo'[k] \notin Leak(drv)
    BY <2>1, LeakAssumption
  <2>3. held \ {"text"} \subseteq MayHold(drv, step) /\ SureBefore(drv, step) \subseteq held
    BY <2>1, HoldsAtMost DEF InitInv
  <2> QED BY <2>1, <2>2, <2>3 DEF LeftInv, Left
<1>4. CASE phase' \in {"init", "live"}
  BY <1>4 DEF LeftInv
<1>5. ASSUME NEW e \in Entries, Call(e) \/ Return(e) PROVE LeftInv'
  BY <1>5 DEF Call, Return, LeftInv
<1>6. CASE UNCHANGED vars
  BY <1>6 DEF vars, LeftInv
<1> QED BY <1>1, <1>2, <1>3, <1>4, <1>5, <1>6 DEF Next, Acquire, AcquireMissed,
   AcquireSkipped, AcquireFaults, Loaded, GoTo, AtStep, Now

\* The bound holds throughout.
LEMMA LeftHolds == Spec => []LeftInv
<1>1. Init => LeftInv
  BY DEF Init, LeftInv
<1> QED BY <1>1, LeftNext, InitInvHolds, PTL DEF Spec

\* When module_init fails, at whatever step and whatever it missed before, all
\* that stays registered or allocated is what its error path has no release
\* for (the "return" of each test in the init functions).
THEOREM FailuresLeaveResidue == Spec => []FailureLeavesOnlyResidue
<1>1. LeftInv => FailureLeavesOnlyResidue
  BY DEF LeftInv, FailureLeavesOnlyResidue
<1> QED BY <1>1, LeftHolds, PTL

\* Once module_exit has returned, everything init acquired is given back but
\* what the tables let exit leak, which certainly is (the nodes of
\* kernel_linked_list.c), whatever init missed.
THEOREM ExitsReleaseAll == Spec => []ExitReleasesAll
<1>1. LeftInv => ExitReleasesAll
  BY DEF LeftInv, ExitReleasesAll
<1> QED BY <1>1, LeftHolds, PTL

-----------------------------------------------------------------------------
(* What init changes for a while.                                          *)

\* The address limit, preemption, locks, the RCU read side and mappings are as
\* before as soon as init returns, on every error path of init too and
\* whichever steps it missed: in every table in which init cannot fail, and
\* cannot miss the reversal, after the change.
THEOREM ContextAlwaysRestored == Spec => []ContextRestored
<1>1. Init => ContextRestored
  BY DEF Init, ContextRestored
<1>2. TypeOK /\ InitInv /\ ContextRestored /\ [Next]_vars => ContextRestored'
  <2> SUFFICES ASSUME TypeOK, InitInv, ContextRestored, [Next]_vars PROVE ContextRestored'
    OBVIOUS
  <2>1. CASE AcquireFails \/ Loaded
    <3>1. /\ phase = "init" /\ held' = held /\ drv \in Driver
          /\ step \in FailsAt(drv) \cup {AtEnd(drv)}
      BY <2>1, LifecycleAssumption DEF AcquireFails, Loaded, TypeOK, FailsAt, AtEnd,
         FailWith, AtStep, Now
    <3>2. held \ {"text"} \subseteq MayHold(drv, step) /\ MayHold(drv, step) \cap Context = {}
      BY <3>1, HoldsAtMost, ContextAssumption
    <3>3. "text" \notin Context
      BY DEF Context
    <3> QED BY <3>1, <3>2, <3>3 DEF ContextRestored
  <2>2. CASE Rmmod \/ Release \/ Finish
    BY <2>2 DEF Rmmod, Release, Finish, ContextRestored, BeginExit, FreeNext, FreeHead, FreeModule
  <2>3. CASE UNCHANGED <<phase, held>>
    BY <2>3 DEF ContextRestored
  <2>4. CASE Acquire \/ AcquireMissed \/ AcquireSkipped
    BY <2>4 DEF Acquire, AcquireMissed, AcquireSkipped, ContextRestored, GoTo, AtStep,
       Now
  <2> QED BY <2>1, <2>2, <2>3, <2>4 DEF Next, AcquireFaults, Call, Return, vars,
     AtStep, Now
<1> QED BY <1>1, <1>2, InitInvHolds, PTL DEF Spec

-----------------------------------------------------------------------------
(* What init or exit touches that is not there.                            *)

\* What init provides for step i is there when it gets to it, or failed and was
\* not noticed.
LEMMA ProvidedIs ==
  ASSUME TypeOK, InitInv, phase \in {"init", "live"}, NEW r, Provided(drv, step, r)
  PROVE  r \in held \cup unnoticed
BY DEF InitInv, Supplied, Provided

\* What remains to be released and must not be unless acquired is there, or
\* failed and was not noticed, and remains once.
StrictInv ==
  phase \in {"unwind", "exit"} =>
    \A k \in 1..Len(todo) : todo[k] \in Strict =>
      todo[k] \in held \cup unnoticed /\ \A j \in 1..(k - 1) : todo[j] # todo[k]

\* Every step keeps that.
LEMMA StrictNext == TypeOK /\ InitInv /\ StrictInv /\ [Next]_vars => StrictInv'
<1> SUFFICES ASSUME TypeOK, InitInv, StrictInv, [Next]_vars PROVE StrictInv'
  OBVIOUS
<1>0. drv \in Driver
  BY DEF TypeOK
<1>1. CASE UNCHANGED <<phase, todo, held, unnoticed>>
  BY <1>1 DEF StrictInv
<1>2. CASE phase' \notin {"unwind", "exit"}
  BY <1>2 DEF StrictInv
<1>3. CASE AcquireFails
  <2>1. /\ step \in FailsAt(drv) /\ todo' = Setup[drv][step].undo /\ phase = "init"
        /\ UNCHANGED <<held, unnoticed>>
    BY <1>3, LifecycleAssumption DEF AcquireFails, TypeOK, FailsAt, FailWith, AtStep,
       Now
  <2>2. ReleasesProvided(drv, step, todo')
    BY <1>0, <2>1, FaultAssumption DEF UsesProvided
  <2> QED BY <2>1, <2>2, ProvidedIs DEF ReleasesProvided, StrictInv
<1>4. CASE Rmmod
  <2>1. /\ todo' = Teardown[drv] /\ phase = "live" /\ step = AtEnd(drv)
        /\ UNCHANGED <<held, unnoticed>>
    BY <1>4 DEF Rmmod, BeginExit, InitInv
  <2>2. ReleasesProvided(drv, step, todo')
    BY <1>0, <2>1, FaultAssumption DEF UsesProvided
  <2> QED BY <2>1, <2>2, ProvidedIs DEF ReleasesProvided, StrictInv
<1>5. CASE Release
  <2>1. /\ todo # <<>> /\ todo \in Seq(Resource \ {"text"}) /\ todo' = Tail(todo)
        /\ phase \in {"unwind", "exit"} /\ held' = held \ {Head(todo)}
        /\ unnoticed' = unnoticed
    BY <1>5 DEF Release, TypeOK, FreeNext, FreeHead
  <2>2. /\ Len(todo) \in Nat /\ Len(todo) > 0 /\ Head(todo) = todo[1]
        /\ Len(todo') = Len(todo) - 1
        /\ \A k \in 1..(Len(todo) - 1) : todo'[k] = todo[k + 1]
    BY <2>1
  <2> SUFFICES ASSUME NEW k \in 1..Len(todo'), todo'[k] \in Strict
               PROVE  /\ todo'[k] \in held' \cup unnoticed'
                      /\ \A j \in 1..(k - 1) : todo'[j] # todo'[k]
    BY DEF StrictInv
  <2>3. /\ k + 1 \in 1..Len(todo) /\ todo'[k] = todo[k + 1] /\ 1 \in 1..((k + 1) - 1)
        /\ \A j \in 1..(k - 1) : j + 1 \in 1..((k + 1) - 1) /\ todo'[j] = todo[j + 1]
    BY <2>2
  <2>4. /\ todo[k + 1] \in held \cup unnoticed
        /\ \A j \in 1..((k + 1) - 1) : todo[j] # todo[k + 1]
    BY <2>1, <2>3 DEF StrictInv
  <2>5. todo'[k] \in held' \cup unnoticed'
    BY <2>1, <2>2, <2>3, <2>4
  <2>6. \A j \in 1..(k - 1) : todo'[j] # todo'[k]
    BY <2>3, <2>4
  <2> QED BY <2>5, <2>6
<1>6. [Next]_vars => \/ AcquireFails \/ Rmmod \/ Release
                    \/ UNCHANGED <<phase, todo, held, unnoticed>>
                    \/ phase' \notin {"unwind", "exit"}
  BY DEF Next, Acquire, AcquireMissed, AcquireSkipped, AcquireFaults, Loaded, Call,
     Return, Finish, vars, GoTo, AtStep, Now, FreeModule
<1> QED BY <1>1, <1>2, <1>3, <1>4, <1>5, <1>6

\* init faults on what a step it missed should have acquired.
LEMMA InitFaults ==
  ASSUME TypeOK, InitInv, AcquireFaults
  PROVE  FaultsOnlyUnnoticed'
<1> DEFINE S == Setup[drv]
<1>1. /\ phase = "init" /\ step \in 1..Len(S) /\ ~S[step].tested
      /\ faults' = S[step].uses \ held /\ unnoticed' = unnoticed /\ drv \in Driver
  BY LifecycleAssumption DEF AcquireFaults, TypeOK, AtStep, Now
<1>2. ASSUME NEW r \in S[step].uses, r \notin held PROVE r \in unnoticed
  <2>1. r # "text"
    BY <1>1, <1>2 DEF InitInv
  <2>2. Provided(drv, step, r)
    BY <1>1, <2>1, FaultAssumption DEF UsesProvided
  <2> QED BY <1>1, <1>2, <2>2, ProvidedIs
<1> QED BY <1>1, <1>2 DEF FaultsOnlyUnnoticed

\* Whatever init or exit touches without having it, init has tried to acquire,
\* and has failed without noticing, when it last tried: an ignored result, an
\* error pointer tested for NULL.  So it is in any table where an earlier step
\* provides what is used or must be there to be released; a release before
\* the acquisition, a second release and a use after it are excluded.
THEOREM FaultsAreUnnoticed == Spec => []FaultsOnlyUnnoticed
<1>1. Init => StrictInv /\ FaultsOnlyUnnoticed
  BY DEF Init, StrictInv, FaultsOnlyUnnoticed
<1>2. TypeOK /\ InitInv /\ StrictInv /\ FaultsOnlyUnnoticed /\ [Next]_vars
        => FaultsOnlyUnnoticed'
  <2> SUFFICES ASSUME TypeOK, InitInv, StrictInv, FaultsOnlyUnnoticed, [Next]_vars
               PROVE  FaultsOnlyUnnoticed'
    OBVIOUS
  <2>1. CASE AcquireFaults
    BY <2>1, InitFaults
  <2>2. CASE Release
    <3>1. /\ todo # <<>> /\ todo \in Seq(Resource \ {"text"}) /\ unnoticed' = unnoticed
          /\ phase \in {"unwind", "exit"} /\ faults' = {Head(todo)} \cap (Strict \ held)
      BY <2>2 DEF Release, TypeOK, FreeNext, FreeHead
    <3>2. 1 \in 1..Len(todo) /\ Head(todo) = todo[1]
      BY <3>1
    <3> QED BY <3>1, <3>2 DEF StrictInv, FaultsOnlyUnnoticed
  <2>3. CASE faults' = {}
    BY <2>3 DEF FaultsOnlyUnnoticed
  <2>4. CASE UNCHANGED vars
    BY <2>4 DEF vars, FaultsOnlyUnnoticed
  <2> QED BY <2>1, <2>2, <2>3, <2>4 DEF Next, Acquire, AcquireFails, AcquireMissed,
     AcquireSkipped, Loaded, Call, Return, Rmmod, Finish, GoTo, FailWith, AtStep, dead,
     BeginExit, FreeModule
<1> QED BY <1>1, <1>2, StrictNext, InitInvHolds, PTL DEF Spec

-----------------------------------------------------------------------------
(* Calls through an entry point e that d keeps the discipline for.         *)

\* While e can be called, or is, it has what it needs, and a call whose entry
\* point is gone is the one the last release waits for.
CallInv(e) ==
  /\ e \in held \cup calls => Entry[e].needs \subseteq held
  /\ e \in calls => e \in held \/ Entry[e].needs = {} \/ e = wait

\* What remains to be released respects e while it is registered, and its
\* release waits for its calls unless none can be running.
ReleaseInv(e) ==
  phase \in {"unwind", "exit"} /\ e \in held =>
    /\ EntryFirst(todo, e)
    /\ e \in calls => Entry[e].needs = {} \/ Entry[e].drains
    /\ Entry[e].needs = {} \/ Entry[e].drains \/ (phase = "exit" /\ Entry[e].pins)

EntryInv(e) == CallInv(e) /\ ReleaseInv(e)

\* module_init going forward: what e needs is acquired before it and is not
\* among what init gives back.
LEMMA EntrySetup ==
  ASSUME TypeOK, InitInv, NEW e \in Entries, OrderedFor(drv, e), EntryInv(e),
         Acquire \/ AcquireMissed \/ AcquireSkipped
  PROVE  EntryInv(e)'
<1> DEFINE S == Setup[drv]
           s == S[step]
<1>1. /\ phase = "init" /\ phase' = "init" /\ calls' = calls /\ wait' = wait
      /\ step \in 1..Len(S) /\ s \in Step
      /\ held' = held \/ held' = (held \cup s.gets) \ s.gives
  BY LifecycleAssumption DEF Acquire, AcquireMissed, AcquireSkipped, TypeOK, GoTo,
     AtStep, Now
<1>2. wait = None /\ e # None /\ e # "text"
  BY <1>1, LifecycleAssumption DEF InitInv, Entries
<1>3. e \in s.gets => Entry[e].needs \subseteq held
  BY <1>1 DEF OrderedFor, InitInv
<1>4. ASSUME e \in held \/ e \in s.gets
      PROVE  e \notin s.gives /\ Entry[e].needs \cap s.gives = {}
  <2>1. PICK j \in 1..Len(S) : e \in S[j].gets
    <3>1. CASE e \in s.gets
      BY <1>1, <3>1
    <3>2. CASE e \in held
      <4>1. PICK j \in 1..(step - 1) : e \in S[j].gets
        BY <1>1, <1>2, <3>2 DEF InitInv, Origin
      <4> QED BY <1>1, <4>1, LifecycleAssumption DEF TypeOK
    <3> QED BY <1>4, <3>1, <3>2
  <2>2. e \notin Given(drv) /\ Entry[e].needs \ {"text"} \subseteq SureBefore(drv, j)
    BY <2>1 DEF OrderedFor
  <2>3. SureBefore(drv, j) \cap Given(drv) = {}
    BY DEF SureBefore
  <2>4. s.gives \subseteq Given(drv) /\ "text" \notin s.gives
    BY <1>1 DEF Given, Step
  <2> QED BY <2>2, <2>3, <2>4
<1>5. CASE e \in held \/ e \in s.gets
  <2>1. Entry[e].needs \subseteq held /\ e \notin s.gives /\ Entry[e].needs \cap s.gives = {}
    BY <1>3, <1>4, <1>5 DEF EntryInv, CallInv
  <2>2. Entry[e].needs \subseteq held' /\ (e \in held => e \in held')
    BY <1>1, <2>1
  <2>3. e \in calls => e \in held' \/ Entry[e].needs = {}
    BY <1>2, <2>2 DEF EntryInv, CallInv
  <2> QED BY <1>1, <2>2, <2>3 DEF EntryInv, CallInv, ReleaseInv
<1>6. CASE ~(e \in held \/ e \in s.gets)
  BY <1>1, <1>2, <1>6 DEF EntryInv, CallInv, ReleaseInv
<1> QED BY <1>5, <1>6

\* A call begins or ends.
LEMMA EntryCall ==
  ASSUME TypeOK, NEW e \in Entries, EntryInv(e), NEW f \in Entries, Call(f) \/ Return(f)
  PROVE  EntryInv(e)'
<1>1. /\ UNCHANGED <<phase, todo, wait, held>>
      /\ e \in calls' => e \in calls \/ e \in held
      /\ phase = "exit" /\ e \in calls' => e \in calls \/ ~Entry[e].pins
  BY DEF Call, Return, TypeOK
<1> QED BY <1>1 DEF EntryInv, CallInv, ReleaseInv, EntryFirst

\* init succeeds, fails or faults, or rmmod begins.
LEMMA EntryEnds ==
  ASSUME TypeOK, InitInv, NEW e \in Entries, OrderedFor(drv, e), EntryInv(e),
         Loaded \/ AcquireFails \/ AcquireFaults \/ Rmmod
  PROVE  EntryInv(e)'
<1>1. UNCHANGED <<step, wait, held, calls>>
  BY DEF Loaded, AcquireFails, AcquireFaults, Rmmod, FailWith, AtStep, Now, BeginExit
<1>2. CallInv(e)'
  BY <1>1 DEF EntryInv, CallInv
<1>3. e # "text"
  BY LifecycleAssumption DEF Entries
<1>4. CASE Loaded \/ AcquireFaults
  BY <1>1, <1>2, <1>4 DEF Loaded, AcquireFaults, EntryInv, ReleaseInv, AtStep, Now
<1>5. CASE AcquireFails
  <2>1. /\ phase = "init" /\ phase' = "unwind" /\ todo' = Setup[drv][step].undo
        /\ step \in FailsAt(drv)
    BY <1>5, LifecycleAssumption DEF AcquireFails, TypeOK, FailsAt, FailWith, AtStep,
       Now
  <2>2. e \in held => e \in MayHold(drv, step)
    BY <1>3, <2>1, HoldsAtMost
  <2>3. e \in held => EntryFirst(todo, e)' /\ (Entry[e].needs = {} \/ Entry[e].drains)
    BY <2>1, <2>2 DEF OrderedFor, EntryFirst
  <2> QED BY <1>1, <1>2, <2>1, <2>3 DEF EntryInv, ReleaseInv
<1>6. CASE Rmmod
  <2>1. /\ phase = "live" /\ phase' = "exit" /\ todo' = Teardown[drv]
        /\ step = AtEnd(drv) /\ \A f \in calls : ~Entry[f].pins
    BY <1>6 DEF Rmmod, InitInv, BeginExit
  <2>2. e \in held => e \in MayHold(drv, AtEnd(drv))
    BY <1>3, <2>1, HoldsAtMost
  <2>3. e \in held => /\ EntryFirst(todo, e)'
                      /\ Entry[e].needs = {} \/ Entry[e].pins \/ Entry[e].drains
    BY <2>1, <2>2 DEF OrderedFor, EntryFirst
  <2> QED BY <1>1, <1>2, <2>1, <2>3 DEF EntryInv, ReleaseInv
<1> QED BY <1>4, <1>5, <1>6

\* One release: its resource is not needed by e while e is registered.
LEMMA EntryRelease ==
  ASSUME TypeOK, NEW e \in Entries, EntryInv(e), Release
  PROVE  EntryInv(e)'
<1> DEFINE r == Head(todo)
<1>1. /\ UNCHANGED <<phase, calls>> /\ phase \in {"unwind", "exit"}
      /\ todo # <<>> /\ todo \in Seq(Resource \ {"text"}) /\ wait \notin calls
      /\ held' = held \ {r} /\ todo' = Tail(todo)
      /\ r \in Entries /\ Entry[r].drains => wait' = r
  BY DEF Release, TypeOK, FreeNext, FreeHead
<1>2. /\ Len(todo) \in Nat /\ Len(todo) > 0 /\ r = todo[1]
      /\ Len(todo') = Len(todo) - 1
      /\ \A k \in 1..(Len(todo) - 1) : todo'[k] = todo[k + 1]
  BY <1>1
<1> HIDE DEF r
<1>3. e \in held => r \notin Entry[e].needs
  BY <1>1, <1>2 DEF EntryInv, ReleaseInv, EntryFirst
<1>4. CallInv(e)'
  <2>1. CASE e \in held
    BY <1>1, <1>3, <2>1 DEF EntryInv, CallInv, ReleaseInv
  <2>2. CASE e \notin held
    BY <1>1, <2>2 DEF EntryInv, CallInv
  <2> QED BY <2>1, <2>2
<1>5. ASSUME e \in held' PROVE EntryFirst(todo, e)'
  <2>0. e \in held /\ e # r /\ EntryFirst(todo, e)
    BY <1>1, <1>5 DEF EntryInv, ReleaseInv
  <2>1. ASSUME NEW k \in 1..Len(todo), todo[k] = e
        PROVE  k - 1 \in 1..Len(todo') /\ todo'[k - 1] = e
    BY <1>2, <2>0, <2>1
  <2>2. ASSUME NEW k \in 1..Len(todo'), todo'[k] \in Entry[e].needs
        PROVE  \E j \in 1..(k - 1) : todo'[j] = e
    <3>1. k + 1 \in 1..Len(todo) /\ todo[k + 1] \in Entry[e].needs
      BY <1>2, <2>2
    <3>2. PICK j \in 1..k : todo[j] = e
      BY <2>0, <3>1 DEF EntryFirst
    <3>3. j \in 1..Len(todo) /\ j - 1 \in 1..(k - 1)
      BY <1>2, <2>0, <3>1, <3>2
    <3> QED BY <2>1, <3>2, <3>3
  <2>3. "text" \in Entry[e].needs => \E k \in 1..Len(todo') : todo'[k] = e
    BY <2>0, <2>1 DEF EntryFirst
  <2> QED BY <2>2, <2>3 DEF EntryFirst
<1>6. ReleaseInv(e)'
  BY <1>1, <1>5 DEF EntryInv, ReleaseInv
<1> QED BY <1>4, <1>6 DEF EntryInv

\* The module is freed: e is gone, or does not need it.
LEMMA EntryFinish ==
  ASSUME TypeOK, NEW e \in Entries, EntryInv(e), Finish
  PROVE  EntryInv(e)'
<1>1. /\ UNCHANGED <<wait, calls>> /\ phase \in {"unwind", "exit"}
      /\ phase' \in {"failed", "out"} /\ todo = <<>> /\ wait \notin calls
      /\ held' = held \ {"text"} /\ e # "text"
  BY LifecycleAssumption DEF Finish, Entries, FreeModule
<1>2. e \in held => "text" \notin Entry[e].needs
  BY <1>1 DEF EntryInv, ReleaseInv, EntryFirst
<1>3. e \in calls => e \in held \/ Entry[e].needs = {}
  BY <1>1 DEF EntryInv, CallInv
<1> QED BY <1>1, <1>2, <1>3 DEF EntryInv, CallInv, ReleaseInv

DisciplineInv == \A e \in Entries : OrderedFor(drv, e) => EntryInv(e)

\* Every step keeps the invariant of a disciplined entry point.
LEMMA NextDiscipline == TypeOK /\ InitInv /\ DisciplineInv /\ [Next]_vars => DisciplineInv'
<1> SUFFICES ASSUME TypeOK, InitInv, DisciplineInv, [Next]_vars,
                    NEW e \in Entries, OrderedFor(drv', e)
             PROVE  EntryInv(e)'
  BY DEF DisciplineInv, OrderedFor, Given, SureBefore, MayHold, GivesBack, AtEnd,
     FailsAt
<1>1. drv' = drv
  BY DEF Next, Acquire, AcquireFails, AcquireMissed, AcquireSkipped, AcquireFaults,
     Loaded, Call, Return, Rmmod, Release, Finish, vars, GoTo, FailWith, AtStep, Now,
     BeginExit, FreeNext, FreeHead, FreeModule
<1>2. OrderedFor(drv, e) /\ EntryInv(e)
  BY <1>1 DEF DisciplineInv
<1>3. CASE UNCHANGED vars
  BY <1>2, <1>3 DEF vars, EntryInv, CallInv, ReleaseInv, EntryFirst
<1>4. CASE Next
  BY <1>2, <1>4, EntrySetup, EntryCall, EntryEnds, EntryRelease, EntryFinish DEF Next
<1> QED BY <1>3, <1>4

\* And it holds throughout.
LEMMA DisciplineHolds == Spec => [](TypeOK /\ DisciplineInv)
<1>1. Init => DisciplineInv
  <2>1. "text" \notin Entries
    BY LifecycleAssumption DEF Entries
  <2> QED BY <2>1 DEF Init, DisciplineInv, EntryInv, CallInv, ReleaseInv
<1> QED BY <1>1, NextDiscipline, InitInvHolds, PTL DEF Spec

\* An entry point whose tables follow the discipline (acquire what its callbacks
\* touch before registering it, unregister it before giving that back on every
\* path, and let unregistering wait for calls or fops.owner forbid rmmod) is
\* never called without what its callbacks touch: for every table, in every
\* interleaving with the error paths of init and with exit.
THEOREM DisciplineSuffices == Spec => []OrderedIsSafe
<1>1. TypeOK /\ DisciplineInv => OrderedIsSafe
  BY DEF TypeOK, DisciplineInv, OrderedIsSafe, EntryInv, CallInv, CallSafe
<1> QED BY <1>1, DisciplineHolds, PTL

\* So no driver is called without what it touches through an entry point that
\* is not one of the seven listed in UnsafeEntries.
THEOREM OthersAreSafe == Spec => []CallsSafeElsewhere
<1>1. TypeOK /\ DisciplineInv => CallsSafeElsewhere
  BY OrderAssumption DEF TypeOK, DisciplineInv, CallsSafeElsewhere, EntryInv, CallInv,
     CallSafe
<1> QED BY <1>1, DisciplineHolds, PTL
==============================================================================
