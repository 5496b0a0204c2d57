------------------------------ MODULE Lifecycle ------------------------------
(***************************************************************************)
(* Loading and unloading a driver of the repository.  module_init acquires *)
(* resources one by one, and gives some back itself; when an acquisition   *)
(* fails, init either releases some of what it has and fails, or does not  *)
(* notice and goes on.  module_exit releases resources in a fixed order.   *)
(*                                                                         *)
(* Some resources are entry points: once registered, the kernel calls the  *)
(* driver through them, concurrently with init and exit.  Each driver is a *)
(* table (module Drivers); this module runs any of them.                   *)
(***************************************************************************)
EXTENDS Naturals, Sequences

CONSTANTS
  Driver,    \* the drivers
  Resource,  \* what they acquire, "text" (the loaded module) included
  Setup,     \* Setup[d]: the acquisitions of module_init, in order
  Teardown,  \* Teardown[d]: what module_exit releases, in order
  Entry,     \* the entry points, each with what its callbacks touch (needs),
             \* whether an open file or socket keeps the module loaded (pins)
             \* and whether unregistering waits for running calls (drains)
  Strict,    \* resources that must not be released unless acquired
  None

\* gets is acquired, and gives given back, with resources in uses; if fails,
\* that may fail, and if missed, init may not notice; otherwise it releases
\* undo and fails.  A step that is tested is skipped when uses is not there.
Step == [gets : SUBSET (Resource \ {"text"}), gives : SUBSET (Resource \ {"text"}),
         uses : SUBSET Resource, tested : BOOLEAN, fails : BOOLEAN,
         missed : BOOLEAN, undo : Seq(Resource \ {"text"})]

ASSUME LifecycleAssumption ==
  /\ Setup \in [Driver -> Seq(Step)]
  /\ Teardown \in [Driver -> Seq(Resource \ {"text"})]
  /\ DOMAIN Entry \subseteq Resource \ {"text"} /\ None \notin Resource
  /\ Entry \in [DOMAIN Entry -> [needs : SUBSET Resource, pins : BOOLEAN,
                                 drains : BOOLEAN]]
  /\ "text" \in Resource

VARIABLES
  drv,    \* the driver being loaded
  phase,  \* what the module loader is doing
  step,   \* module_init: the next acquisition
  todo,   \* what remains to be released
  wait,   \* the entry point whose running calls the last release waits for
  held,   \* resources acquired and not released
  calls,  \* entry points with a call in progress, or a file open
  faults, \* what init or exit has touched without having it: it dies of it
  unnoticed  \* history: what init failed to acquire when it last tried, and
             \* went on as if it had it

vars == <<drv, phase, step, todo, wait, held, calls, faults, unnoticed>>

Entries == DOMAIN Entry
dead == faults # {}

Init ==
  /\ drv \in Driver
  /\ phase = "init" /\ step = 1 /\ todo = <<>> /\ wait = None
  /\ held = {"text"} /\ calls = {} /\ faults = {} /\ unnoticed = {}

-----------------------------------------------------------------------------
(* module_init.                                                            *)

AtStep == ~dead /\ phase = "init" /\ step <= Len(Setup[drv])
Now == Setup[drv][step]

\* init goes on to step i with the resources h, not knowing that it lacks u.
GoTo(i, h, u) ==
  /\ step' = i /\ held' = h /\ unnoticed' = u
  /\ UNCHANGED <<drv, phase, todo, wait, calls, faults>>

mut_gives_nothing ==
  AtStep /\ Now.uses \subseteq held /\ GoTo(step + 1, held \cup Now.gets, unnoticed \ Now.gets)

Acquire ==
  /\ AtStep /\ Now.uses \subseteq held
  /\ GoTo(step + 1, (held \cup Now.gets) \ Now.gives, unnoticed \ Now.gets)

FailWith(releases) ==
  /\ AtStep /\ Now.fails /\ Now.uses \subseteq held
  /\ phase' = "unwind" /\ todo' = releases
  /\ UNCHANGED <<drv, step, wait, held, calls, faults, unnoticed>>

mut_no_undo == FailWith(<<>>)
AcquireFails == FailWith(Now.undo)

mut_skip_next ==
  /\ AtStep /\ Now.missed /\ Now.uses \subseteq held
  /\ GoTo(step + 2, held, unnoticed \cup Now.gets)

AcquireMissed ==
  /\ AtStep /\ Now.missed /\ Now.uses \subseteq held
  /\ GoTo(step + 1, held, unnoticed \cup Now.gets)

\* init tests for what it may have missed.
AcquireSkipped ==
  AtStep /\ Now.tested /\ ~(Now.uses \subseteq held) /\ GoTo(step + 1, held, unnoticed)

AcquireFaults ==
  /\ AtStep /\ ~Now.tested /\ ~(Now.uses \subseteq held)
  /\ faults' = Now.uses \ held
  /\ UNCHANGED <<drv, phase, step, todo, wait, held, calls, unnoticed>>

Loaded ==
  /\ ~dead /\ phase = "init" /\ step > Len(Setup[drv])
  /\ phase' = "live"
  /\ UNCHANGED <<drv, step, todo, wait, held, calls, faults, unnoticed>>

-----------------------------------------------------------------------------
(* Callbacks.  try_module_get refuses an open once rmmod has begun.        *)

Call(e) ==
  /\ ~dead /\ e \in held \ calls
  /\ Entry[e].pins => phase \notin {"exit", "failed", "out"}
  /\ calls' = calls \cup {e}
  /\ UNCHANGED <<drv, phase, step, todo, wait, held, faults, unnoticed>>

Return(e) ==
  /\ ~dead /\ e \in calls
  /\ calls' = calls \ {e}
  /\ UNCHANGED <<drv, phase, step, todo, wait, held, faults, unnoticed>>

-----------------------------------------------------------------------------
(* module_exit, and the error paths of module_init.                        *)

BeginExit ==
  /\ ~dead /\ phase = "live"
  /\ phase' = "exit" /\ todo' = Teardown[drv]
  /\ UNCHANGED <<drv, step, wait, held, calls, faults, unnoticed>>

mut_rmmod_busy == BeginExit
Rmmod == BeginExit /\ \A e \in calls : ~Entry[e].pins

\* Releasing what must have been acquired, and was not, is fatal.
FreeHead(rest, w) ==
  /\ ~dead /\ phase \in {"unwind", "exit"} /\ todo # <<>>
  /\ held' = held \ {Head(todo)} /\ todo' = rest /\ wait' = w
  /\ faults' = {Head(todo)} \cap (Strict \ held)
  /\ UNCHANGED <<drv, phase, step, calls, unnoticed>>

mut_freed_again(w) == FreeHead(todo, w)
FreeNext(w) == FreeHead(Tail(todo), w)

mut_no_drain == FreeNext(None)

\* The releasing function returns when the calls it waits for have.
Release ==
  LET r == Head(todo) IN
  wait \notin calls /\ FreeNext(IF r \in Entries /\ Entry[r].drains THEN r ELSE None)

FreeModule(n) ==
  /\ ~dead /\ phase \in {"unwind", "exit"} /\ Len(todo) <= n
  /\ wait \notin calls
  /\ phase' = IF phase = "exit" THEN "out" ELSE "failed"
  /\ held' = held \ {"text"}
  /\ UNCHANGED <<drv, step, todo, wait, calls, faults, unnoticed>>

mut_last_kept == FreeModule(1)

\* The loader frees the module once nothing remains to be released.
Finish == FreeModule(0)

-----------------------------------------------------------------------------
Next ==
  \/ Acquire \/ AcquireFails \/ AcquireMissed \/ AcquireSkipped \/ AcquireFaults
  \/ Loaded
  \/ \E e \in Entries : Call(e) \/ Return(e)
  \/ Rmmod \/ Release \/ Finish

Spec == Init /\ [][Next]_vars

-----------------------------------------------------------------------------
(* What the tables alone say of init and exit.                             *)

\* What init gives back itself, at any time.
Given(d) == UNION {Setup[d][j].gives : j \in 1..Len(Setup[d])}

\* What init certainly has when it reaches step i, and keeps: what a step
\* without a test used, and acquired if failing is not missed.
SureBefore(d, i) ==
  (UNION {Setup[d][j].uses \cup (IF Setup[d][j].missed THEN {} ELSE Setup[d][j].gets) :
            j \in {k \in 1..(i - 1) : ~Setup[d][k].tested}}) \ Given(d)

\* Step k gives back the r of step j whatever init has missed: its test, if it
\* has one, is for what init had at step j and has not given back since.
GivesBack(d, j, k, r) ==
  LET S == Setup[d] IN
  /\ r \in S[k].gives /\ ~S[k].missed
  /\ S[k].tested => /\ S[k].uses \subseteq S[j].uses
                    /\ \A m \in j..(k - 1) : S[m].gives \cap S[k].uses = {}

\* What init may have when it reaches step i.
MayHold(d, i) ==
  {r \in Resource : \E j \in 1..(i - 1) :
     /\ r \in Setup[d][j].gets
     /\ \A k \in j..(i - 1) : ~GivesBack(d, j, k, r)}

AtEnd(d) == Len(Setup[d]) + 1
FailsAt(d) == {i \in 1..Len(Setup[d]) : Setup[d][i].fails}

\* A sequence of releases takes away what entry point e needs only after e,
\* and e itself if e needs the module's text, which goes at the end.
EntryFirst(releases, e) ==
  /\ \A k \in 1..Len(releases) :
       releases[k] \in Entry[e].needs => \E j \in 1..(k - 1) : releases[j] = e
  /\ "text" \in Entry[e].needs => \E k \in 1..Len(releases) : releases[k] = e

\* The discipline that makes it safe to call a driver through e: what e needs
\* is there before e and is kept, and on every path e goes first, waiting
\* for calls; in exit it is enough that rmmod does.
OrderedFor(d, e) ==
  /\ \A i \in 1..Len(Setup[d]) : e \in Setup[d][i].gets =>
       e \notin Given(d) /\ Entry[e].needs \ {"text"} \subseteq SureBefore(d, i)
  /\ e \in MayHold(d, AtEnd(d)) =>
       /\ EntryFirst(Teardown[d], e)
       /\ Entry[e].needs = {} \/ Entry[e].pins \/ Entry[e].drains
  /\ \A i \in FailsAt(d) : e \in MayHold(d, i) =>
       /\ EntryFirst(Setup[d][i].undo, e)
       /\ Entry[e].needs = {} \/ Entry[e].drains

\* What is still there after the releases, at most.
Left(d, i, releases) ==
  MayHold(d, i) \ {releases[k] : k \in 1..Len(releases)}

\* Before step i a step without a test acquires r, and none gives it back.
Provided(d, i, r) ==
  \E j \in 1..(i - 1) :
    /\ ~Setup[d][j].tested /\ r \in Setup[d][j].gets
    /\ \A k \in j..(i - 1) : r \notin Setup[d][k].gives

\* The releases, after step i - 1, of what must not be released unless acquired:
\* init has seen to it, and they release it once.
ReleasesProvided(d, i, releases) ==
  \A k \in 1..Len(releases) : releases[k] \in Strict =>
    Provided(d, i, releases[k]) /\ \A j \in 1..(k - 1) : releases[j] # releases[k]

\* What init uses without a test, and what it or exit must have in order to
\* release it, an earlier step provides.
UsesProvided(d) ==
  /\ \A i \in 1..Len(Setup[d]) : ~Setup[d][i].tested =>
       \A r \in Setup[d][i].uses \ {"text"} : Provided(d, i, r)
  /\ \A i \in FailsAt(d) : ReleasesProvided(d, i, Setup[d][i].undo)
  /\ ReleasesProvided(d, AtEnd(d), Teardown[d])

-----------------------------------------------------------------------------
(* Properties.                                                             *)

\* Every variable stays in its type; only entry points are called.
TypeOK ==
  /\ drv \in Driver
  /\ phase \in {"init", "unwind", "live", "exit", "failed", "out"}
  /\ step \in 1..(Len(Setup[drv]) + 1)
  /\ todo \in Seq(Resource \ {"text"})
  /\ wait \in Entries \cup {None}
  /\ held \subseteq Resource /\ calls \subseteq Entries
  /\ faults \subseteq Resource /\ unnoticed \subseteq Resource

\* A call in progress through e has all that its callbacks touch.
CallSafe(e) == Entry[e].needs \subseteq held

\* A driver is never called, in any interleaving of calls with init, its error
\* paths and exit, without the memory, tables or code the callbacks of an
\* entry point touch that its init and exit keep to the discipline for.
OrderedIsSafe == \A e \in calls : OrderedFor(drv, e) => CallSafe(e)
==============================================================================
