--------------------------- MODULE ConnectionSlots ---------------------------
(***************************************************************************)
(* The ConnectionLimiter of src/core/rate_limiter.py for one host, and the *)
(* calls of Orchestrator._execute_pi_tier that hold its slots while their  *)
(* PI process talks to the server of that host.                            *)
(*                                                                         *)
(* set_limit puts a new BoundedSemaphore in place of the old one, so a     *)
(* semaphore is one of a series of generations.  A caller keeps the object *)
(* it looked up: it waits on one generation and may release another.  The  *)
(* drain inside set_limit is one step: it never blocks, and the methods    *)
(* that could run in between hold no lock it waits for.                    *)
(***************************************************************************)
EXTENDS Integers, FiniteSets, FiniteSetsExt

CONSTANTS
  Calls,       \* calls of _execute_pi_tier for models of this host
  Limit,       \* DEFAULT_LIMITS.get(host, 1)
  NewLimits,   \* limits set_limit may be given
  MaxChanges   \* bound: calls of set_limit

ASSUME SlotAssumption ==
  /\ IsFiniteSet(Calls)
  /\ Limit \in Nat
  /\ NewLimits \subseteq Nat
  /\ MaxChanges \in Nat

Generations == 1..(MaxChanges + 1)

VARIABLES
  limit,     \* _limits[host]
  gen,       \* generation of _semaphores[host], 0 before the first acquire
  free,      \* generation -> value of the semaphore
  bound,     \* generation -> the value a release may not exceed
  active,    \* _active[host]
  changes,   \* history: calls of set_limit
  pc,        \* call -> where it stands
  sem,       \* call -> generation of the semaphore object it has in hand
  holds,     \* history: call -> generation it took a slot of, 0 for none
  allowed,   \* history: the sum of the limits semaphores were made with
  overdue,   \* history: calls whose wait for a slot timed out
  killed     \* history: calls that ran into the deadline

semaphores == <<gen, free, bound>>
books == <<allowed, overdue, killed>>
vars == <<limit, semaphores, active, changes, pc, sem, holds, books>>

Init ==
  /\ limit = Limit
  /\ gen = 0
  /\ free = [g \in Generations |-> 0] /\ bound = [g \in Generations |-> 0]
  /\ active = 0 /\ changes = 0
  /\ pc = [c \in Calls |-> "idle"]
  /\ sem = [c \in Calls |-> 0] /\ holds = [c \in Calls |-> 0]
  /\ allowed = Limit /\ overdue = {} /\ killed = {}

Goto(c, from, to) == pc[c] = from /\ pc' = [pc EXCEPT ![c] = to]

Holders(g) == {c \in Calls : holds[c] = g}
Connected == {c \in Calls : pc[c] = "streaming"}

-----------------------------------------------------------------------------
(* acquire.                                                                *)

\* The semaphore is created by the first call that asks for it.
CreateIfMissing ==
  IF gen = 0
  THEN /\ gen' = 1
       /\ free' = [free EXCEPT ![1] = limit]
       /\ bound' = [bound EXCEPT ![1] = limit]
       /\ active' = 0
  ELSE UNCHANGED <<semaphores, active>>

Begin(c) ==
  /\ Goto(c, "idle", "waiting")
  /\ CreateIfMissing
  /\ sem' = [sem EXCEPT ![c] = gen']
  /\ UNCHANGED <<limit, changes, holds, books>>

Acquire(c) ==
  /\ Goto(c, "waiting", "counting")
  /\ free[sem[c]] > 0
  /\ free' = [free EXCEPT ![sem[c]] = @ - 1]
  /\ holds' = [holds EXCEPT ![c] = sem[c]]
  /\ UNCHANGED <<limit, gen, bound, active, changes, sem, books>>

Count(c) ==
  /\ Goto(c, "counting", "spawning")
  /\ active' = active + 1
  /\ UNCHANGED <<limit, semaphores, changes, sem, holds, books>>

\* Mutant of AcquireTimesOut: the tier waits until there is a slot for it.
WaitsOn(c) == pc[c] = "waiting" /\ UNCHANGED vars

\* After 120 s the tier prints a line and goes on without a slot.
AcquireTimesOut(c) ==
  /\ Goto(c, "waiting", "spawning")
  /\ overdue' = overdue \cup {c}
  /\ UNCHANGED <<limit, semaphores, active, changes, sem, holds, allowed, killed>>

-----------------------------------------------------------------------------
(* The PI process.                                                         *)

Spawn(c) ==
  /\ Goto(c, "spawning", "streaming")
  /\ UNCHANGED <<limit, semaphores, active, changes, sem, holds, books>>

SpawnFails(c) ==
  /\ Goto(c, "spawning", "releasing")
  /\ UNCHANGED <<limit, semaphores, active, changes, sem, holds, books>>

\* Failed, salvaged, empty or complete: every exit of the process releases.
Exit(c) ==
  /\ Goto(c, "streaming", "releasing")
  /\ UNCHANGED <<limit, semaphores, active, changes, sem, holds, books>>

\* The deadline: the process is killed and the tier returns, slot and all.
Deadline(c) ==
  /\ Goto(c, "streaming", "done")
  /\ holds' = [holds EXCEPT ![c] = 0]
  /\ killed' = killed \cup {c}
  /\ UNCHANGED <<limit, semaphores, active, changes, sem, allowed, overdue>>

-----------------------------------------------------------------------------
(* release.                                                                *)

LookUp(c) ==
  /\ Goto(c, "releasing", "returning")
  /\ sem' = [sem EXCEPT ![c] = gen]
  /\ UNCHANGED <<limit, semaphores, active, changes, holds, books>>

\* Mutant of GiveBack: the handler of a failed process releases, and so does the
\* code all exits share.
GiveBackTwice(c) ==
  /\ Goto(c, "returning", IF holds[c] = 0 THEN "uncounting" ELSE "releasing")
  /\ free[sem[c]] < bound[sem[c]]
  /\ free' = [free EXCEPT ![sem[c]] = @ + 1]
  /\ holds' = [holds EXCEPT ![c] = 0]
  /\ UNCHANGED <<limit, gen, bound, active, changes, sem, books>>

\* The slot goes to the semaphore found now, whichever it was taken from, and
\* whether or not one was.
GiveBack(c) ==
  /\ Goto(c, "returning", "uncounting")
  /\ free[sem[c]] < bound[sem[c]]
  /\ free' = [free EXCEPT ![sem[c]] = @ + 1]
  /\ holds' = [holds EXCEPT ![c] = 0]
  /\ UNCHANGED <<limit, gen, bound, active, changes, sem, books>>

\* BoundedSemaphore raises ValueError, and the tier ignores it.
GiveBackRefused(c) ==
  /\ Goto(c, "returning", "done")
  /\ free[sem[c]] = bound[sem[c]]
  /\ holds' = [holds EXCEPT ![c] = 0]
  /\ UNCHANGED <<limit, semaphores, active, changes, sem, books>>

Uncount(c) ==
  /\ Goto(c, "uncounting", "done")
  /\ active' = Max({0, active - 1})
  /\ UNCHANGED <<limit, semaphores, changes, sem, holds, books>>

-----------------------------------------------------------------------------
(* set_limit.  What the old semaphore has free is taken from both.         *)

SetLimit(n) ==
  /\ changes < MaxChanges
  /\ changes' = changes + 1
  /\ limit' = n
  /\ IF gen = 0
     THEN allowed' = n /\ UNCHANGED semaphores
     ELSE LET taken == Min({n, free[gen]}) IN
          /\ gen' = gen + 1
          /\ free' = [free EXCEPT ![gen] = 0, ![gen + 1] = n - taken]
          /\ bound' = [bound EXCEPT ![gen + 1] = n]
          /\ allowed' = allowed + n
  /\ UNCHANGED <<active, pc, sem, holds, overdue, killed>>

AcquireStep(c) == Begin(c) \/ Acquire(c) \/ Count(c) \/ AcquireTimesOut(c)
ProcessStep(c) == Spawn(c) \/ SpawnFails(c) \/ Exit(c) \/ Deadline(c)
ReleaseStep(c) == LookUp(c) \/ GiveBack(c) \/ GiveBackRefused(c) \/ Uncount(c)
CallStep(c) == AcquireStep(c) \/ ProcessStep(c) \/ ReleaseStep(c)

AllDone == (\A c \in Calls : pc[c] = "done") /\ UNCHANGED vars

Next == (\E c \in Calls : CallStep(c)) \/ (\E n \in NewLimits : SetLimit(n)) \/ AllDone

Spec == Init /\ [][Next]_vars

\* A call runs on: its waits end by themselves, with the acquire's timeout and
\* the tier's deadline.
FairSpec == Spec /\ \A c \in Calls : WF_vars(CallStep(c))

-----------------------------------------------------------------------------
PCs == {"idle", "waiting", "counting", "spawning", "streaming", "releasing",
        "returning", "uncounting", "done"}

\* Every variable keeps its type; a semaphore never exceeds its bound.
TypeOK ==
  /\ limit \in Nat /\ gen \in 0..(MaxChanges + 1)
  /\ free \in [Generations -> Nat] /\ bound \in [Generations -> Nat]
  /\ \A g \in Generations : free[g] <= bound[g]
  /\ active \in Nat /\ changes \in Nat /\ gen <= changes + 1
  /\ pc \in [Calls -> PCs]
  /\ sem \in [Calls -> 0..gen] /\ holds \in [Calls -> 0..gen]
  /\ \A c \in Calls : pc[c] # "idle" => sem[c] # 0
  /\ allowed \in Nat /\ overdue \subseteq Calls /\ killed \subseteq Calls

\* Nobody has a slot, or will release one.
Quiet == \A c \in Calls : pc[c] \in {"idle", "waiting", "uncounting", "done"}

\* "Local llama.cpp servers crash when too many concurrent inference requests
\* exhaust VRAM" (rate_limiter.py:107): a server has no more connections at a time
\* than the limits its semaphores were made with, and one for each call that went
\* on without a slot.  Such a call is not only one connection too many while it
\* lasts: what it releases lets another in after it.  And a host serves on as its
\* limit says: with nobody at work a slot is missing only for a call that was
\* killed at the deadline, unless set_limit was called, which takes the free slots
\* of the old semaphore from the new one too.
LimitKept ==
  /\ Cardinality(Connected) <= allowed + Cardinality(overdue)
  /\ Quiet /\ gen = 1 /\ changes = 0 => free[gen] + Cardinality(killed) >= Limit

\* A call of the tier returns, whatever became of the slots.
CallsReturn == \A c \in Calls : pc[c] = "waiting" ~> pc[c] = "done"
=============================================================================
