------------------------ MODULE SharedByCallsProofs -------------------------
(***************************************************************************)
(* What the calls of one process share, for any calls, limits, tasks,      *)
(* operators and tiers: the connection slots of a host, and the operator's *)
(* signals and gates.                                                      *)
(***************************************************************************)
EXTENDS ConnectionSlots, OperatorControl, FiniteSetTheorems, TLAPS

-----------------------------------------------------------------------------
(* The connection slots of a host (ConnectionSlots).                       *)

\* A call that waits, or has given back, holds no slot; one that went on without
\* a slot has none later either; a killed one is over.
EmptyHanded ==
  \A c \in Calls :
    /\ pc[c] \in {"idle", "waiting", "uncounting", "done"} => holds[c] = 0
    /\ c \in overdue => holds[c] = 0 /\ pc[c] \notin {"idle", "waiting", "counting"}
    /\ pc[c] \in {"spawning", "streaming", "releasing", "returning"} => holds[c] # 0 \/ c \in overdue
    /\ pc[c] = "counting" => holds[c] # 0
    /\ c \in killed => pc[c] = "done"

\* The free slots of all semaphores, each with its number.
FreeSlots == {x \in Generations \X Nat : x[2] \in 1..free[x[1]]}

\* The calls that may still put a slot into a semaphore.
Holding == {c \in Calls : holds[c] # 0}
Strangers == {c \in overdue : pc[c] \in {"spawning", "streaming", "releasing", "returning"}}

\* What was let in, and what can be, is what was allowed.
Balance ==
  /\ IsFiniteSet(FreeSlots)
  /\ Cardinality(FreeSlots) + Cardinality(Holding) + Cardinality(Strangers)
       <= allowed + Cardinality(overdue)
  /\ gen = 0 => FreeSlots = {} /\ allowed = limit

\* While the limit is the first one, a slot is free, held, or was lost with a call.
Served ==
  changes = 0 =>
    /\ gen <= 1 /\ limit = Limit
    /\ gen = 1 => /\ bound[1] = Limit
                  /\ free[1] + Cardinality(Holding) + Cardinality(killed) >= Limit

SlotInv == TypeOK /\ EmptyHanded /\ Balance /\ Served

(* The larger and the smaller of two numbers.                              *)
LEMMA MaxOfTwo ==
  ASSUME NEW a \in Int, NEW b \in Int
  PROVE  Max({a, b}) \in {a, b} /\ Max({a, b}) >= a /\ Max({a, b}) >= b
<1>1. \E x \in {a, b} : \A y \in {a, b} : x >= y
  <2>1. CASE a >= b
    BY <2>1
  <2>2. CASE b >= a
    BY <2>2
  <2> QED BY <2>1, <2>2
<1> QED BY <1>1 DEF Max

LEMMA MinOfTwo ==
  ASSUME NEW a \in Int, NEW b \in Int
  PROVE  Min({a, b}) \in {a, b} /\ Min({a, b}) <= a /\ Min({a, b}) <= b
<1>1. \E x \in {a, b} : \A y \in {a, b} : x <= y
  <2>1. CASE a <= b
    BY <2>1
  <2>2. CASE b <= a
    BY <2>2
  <2> QED BY <2>1, <2>2
<1> QED BY <1>1 DEF Min

-----------------------------------------------------------------------------
LEMMA Constants ==
  /\ MaxChanges \in Nat /\ Limit \in Nat /\ NewLimits \subseteq Nat
  /\ 1 \in Generations
  /\ \A g \in Generations : g \in Nat /\ g # 0
BY SlotAssumption DEF Generations

(* Going from one place to another keeps the type of pc.                   *)
LEMMA GotoTypes ==
  ASSUME TypeOK, NEW c \in Calls, NEW from, NEW to \in PCs, Goto(c, from, to)
  PROVE  /\ pc' \in [Calls -> PCs]
         /\ pc[c] = from /\ pc'[c] = to
         /\ \A d \in Calls : d # c => pc'[d] = pc[d]
BY DEF TypeOK, Goto

(* A call's steps keep the types.                                          *)
LEMMA CallTypes ==
  ASSUME TypeOK, NEW c \in Calls, CallStep(c)
  PROVE  TypeOK'
<1>0. /\ limit \in Nat /\ gen \in Nat /\ gen <= MaxChanges + 1 /\ active \in Nat /\ changes \in Nat
      /\ free \in [Generations -> Nat] /\ bound \in [Generations -> Nat]
      /\ sem[c] \in 0..gen /\ holds[c] \in 0..gen /\ MaxChanges \in Nat
      /\ \A d \in Calls : pc[d] # "idle" => sem[d] # 0
  BY Constants DEF TypeOK
<1>15. (sem[c] # 0 => sem[c] \in Generations) /\ (holds[c] # 0 => holds[c] \in Generations)
  <2>1. /\ sem[c] \in 0..gen /\ holds[c] \in 0..gen
        /\ gen \in Nat /\ gen <= MaxChanges + 1 /\ MaxChanges \in Nat
    BY <1>0
  <2> QED BY <2>1 DEF Generations
<1>1. ASSUME NEW to \in PCs, NEW from, Goto(c, from, to), UNCHANGED <<limit, semaphores, changes, sem>>,
             from # "idle",
             active' \in Nat, holds' \in [Calls -> 0..gen],
             allowed' \in Nat, overdue' \subseteq Calls, killed' \subseteq Calls
      PROVE  TypeOK'
  BY <1>1, GotoTypes DEF TypeOK, semaphores
<1>2. ASSUME holds' = [holds EXCEPT ![c] = 0]
      PROVE  holds' \in [Calls -> 0..gen]
  BY <1>0, <1>2 DEF TypeOK
<1>4. UNCHANGED holds => holds' \in [Calls -> 0..gen]
  BY DEF TypeOK
<1>5. UNCHANGED books => allowed' \in Nat /\ overdue' \subseteq Calls /\ killed' \subseteq Calls
  BY DEF books, TypeOK
<1>6. CASE Begin(c)
  <2>1. pc' \in [Calls -> PCs] /\ \A d \in Calls : pc'[d] # "idle" => d = c \/ pc[d] # "idle"
    BY <1>6, GotoTypes DEF Begin, PCs
  <2>2. /\ gen' \in Nat /\ gen' # 0 /\ gen <= gen' /\ gen' <= MaxChanges + 1 /\ gen' <= changes + 1
        /\ active' \in Nat
        /\ free' \in [Generations -> Nat] /\ bound' \in [Generations -> Nat]
        /\ \A g \in Generations : free'[g] <= bound'[g]
    BY <1>0, <1>6, Constants DEF Begin, CreateIfMissing, semaphores, TypeOK
  <2>3. sem' \in [Calls -> 0..gen'] /\ \A d \in Calls : pc'[d] # "idle" => sem'[d] # 0
    BY <1>0, <1>6, <2>1, <2>2 DEF Begin, TypeOK
  <2>4. holds' \in [Calls -> 0..gen']
    BY <1>6, <2>2, <1>0 DEF Begin, TypeOK
  <2> QED BY <1>0, <1>5, <1>6, <2>1, <2>2, <2>3, <2>4 DEF Begin, TypeOK
<1>7. CASE Acquire(c)
  <2>0. sem[c] \in Generations
    <3>1. pc[c] = "waiting"
      BY <1>7 DEF Acquire, Goto
    <3>2. sem[c] # 0
      BY <1>0, <3>1
    <3> QED BY <1>15, <3>2
  <2>1. free[sem[c]] \in Nat /\ free[sem[c]] > 0
    BY <1>0, <1>7, <2>0 DEF Acquire
  <2>2. /\ free' \in [Generations -> Nat]
        /\ \A g \in Generations : free'[g] <= bound'[g]
    BY <1>0, <1>7, <2>0, <2>1 DEF Acquire, TypeOK
  <2>3. holds' \in [Calls -> 0..gen]
    BY <1>0, <1>7 DEF Acquire, TypeOK
  <2>4. pc' \in [Calls -> PCs] /\ \A d \in Calls : pc'[d] # "idle" => pc[d] # "idle"
    BY <1>7, GotoTypes DEF Acquire, PCs
  <2> QED BY <1>0, <1>5, <1>7, <2>2, <2>3, <2>4 DEF Acquire, TypeOK
<1>8. CASE Count(c)
  BY <1>0, <1>1, <1>4, <1>5, <1>8 DEF Count, PCs
<1>9. CASE Spawn(c) \/ SpawnFails(c) \/ Exit(c)
  BY <1>0, <1>1, <1>4, <1>5, <1>9 DEF Spawn, SpawnFails, Exit, PCs
<1>3. CASE AcquireTimesOut(c)
  <2>1. allowed' \in Nat /\ overdue' \subseteq Calls /\ killed' \subseteq Calls
    BY <1>3 DEF AcquireTimesOut, TypeOK
  <2> QED BY <1>0, <1>1, <1>3, <1>4, <2>1 DEF AcquireTimesOut, PCs
<1>10. CASE Deadline(c)
  <2>1. allowed' \in Nat /\ overdue' \subseteq Calls /\ killed' \subseteq Calls
    BY <1>10 DEF Deadline, TypeOK
  <2> QED BY <1>0, <1>1, <1>2, <1>10, <2>1 DEF Deadline, PCs
<1>11. CASE LookUp(c)
  <2>1. pc' \in [Calls -> PCs] /\ \A d \in Calls : pc'[d] # "idle" => pc[d] # "idle"
    BY <1>11, GotoTypes DEF LookUp, PCs
  <2>2. sem[c] # 0 /\ gen # 0
    BY <1>0, <1>11 DEF LookUp, Goto
  <2>3. sem' \in [Calls -> 0..gen] /\ \A d \in Calls : pc'[d] # "idle" => sem'[d] # 0
    BY <1>0, <1>11, <2>1, <2>2 DEF LookUp, TypeOK
  <2> QED BY <1>0, <1>4, <1>5, <1>11, <2>1, <2>3 DEF LookUp, TypeOK, semaphores
<1>12. CASE GiveBack(c)
  <2>0. pc[c] = "returning" /\ free[sem[c]] < bound[sem[c]]
    BY <1>12 DEF GiveBack, Goto
  <2>1. sem[c] \in Generations /\ free[sem[c]] < bound[sem[c]]
    BY <1>0, <1>15, <2>0
  <2>2. /\ free' \in [Generations -> Nat]
        /\ \A g \in Generations : free'[g] <= bound'[g]
    BY <1>0, <1>12, <2>1 DEF GiveBack, TypeOK
  <2>3. holds' \in [Calls -> 0..gen]
    BY <1>2, <1>12 DEF GiveBack
  <2>4. pc' \in [Calls -> PCs] /\ \A d \in Calls : pc'[d] # "idle" => pc[d] # "idle"
    BY <1>12, GotoTypes DEF GiveBack, PCs
  <2> QED BY <1>0, <1>5, <1>12, <2>2, <2>3, <2>4 DEF GiveBack, TypeOK
<1>13. CASE GiveBackRefused(c)
  BY <1>0, <1>1, <1>2, <1>5, <1>13 DEF GiveBackRefused, PCs
<1>14. CASE Uncount(c)
  <2>1. active' \in Nat
    <3> DEFINE less == active - 1
               larger == Max({0, less})
    <3>1. active' = larger /\ less \in Int /\ 0 \in Int
      BY <1>0, <1>14 DEF Uncount
    <3> HIDE DEF less
    <3>2. larger \in {0, less} /\ larger >= 0
      BY <3>1, MaxOfTwo
    <3> HIDE DEF larger
    <3> QED BY <3>1, <3>2
  <2>2. /\ Goto(c, "uncounting", "done") /\ UNCHANGED <<limit, semaphores, changes, sem>>
        /\ UNCHANGED holds /\ UNCHANGED books
    BY <1>14 DEF Uncount
  <2>3. "done" \in PCs
    BY DEF PCs
  <2> QED BY <2>1, <2>2, <2>3, <1>1, <1>4, <1>5
<1> QED BY <1>3, <1>6, <1>7, <1>8, <1>9, <1>10, <1>11, <1>12, <1>13, <1>14
        DEF CallStep, AcquireStep, ProcessStep, ReleaseStep

(* So does a change of the limit.                                          *)
LEMMA SetLimitTypes ==
  ASSUME TypeOK, NEW n \in NewLimits, SetLimit(n)
  PROVE  TypeOK'
<1>0. /\ n \in Nat /\ gen \in Nat /\ MaxChanges \in Nat /\ changes \in Nat /\ gen <= changes + 1
      /\ free \in [Generations -> Nat] /\ allowed \in Nat
  BY Constants DEF TypeOK
<1>1. changes' \in Nat /\ limit' \in Nat /\ changes < MaxChanges /\ changes' = changes + 1
  BY <1>0 DEF SetLimit
<1>2. CASE gen = 0
  BY <1>0, <1>1, <1>2 DEF SetLimit, TypeOK, semaphores
<1>3. CASE gen # 0
  <2> DEFINE taken == Min({n, free[gen]})
  <2>1. gen \in Generations /\ gen + 1 \in Generations
    BY <1>0, <1>1, <1>3 DEF Generations
  <2>2. free[gen] \in Nat /\ taken \in Nat /\ n - taken \in Nat /\ n - taken <= n
    <3>1. free[gen] \in Nat /\ free[gen] \in Int /\ n \in Int
      BY <1>0, <2>1
    <3>2. taken \in {n, free[gen]} /\ taken <= n
      BY <3>1, MinOfTwo
    <3> HIDE DEF taken
    <3> QED BY <1>0, <3>1, <3>2
  <2>3. /\ gen' = gen + 1
        /\ free' = [free EXCEPT ![gen] = 0, ![gen + 1] = n - taken]
        /\ bound' = [bound EXCEPT ![gen + 1] = n]
        /\ allowed' = allowed + n
        /\ UNCHANGED <<active, pc, sem, holds, overdue, killed>>
    BY <1>3 DEF SetLimit
  <2> HIDE DEF taken
  <2>4. /\ free' \in [Generations -> Nat] /\ bound' \in [Generations -> Nat]
        /\ \A g \in Generations : free'[g] <= bound'[g]
    BY <1>0, <2>1, <2>2, <2>3 DEF TypeOK
  <2>5. sem' \in [Calls -> 0..gen'] /\ holds' \in [Calls -> 0..gen']
    BY <1>0, <2>3 DEF TypeOK
  <2> QED BY <1>0, <1>1, <2>1, <2>3, <2>4, <2>5 DEF TypeOK
<1> QED BY <1>2, <1>3

LEMMA TypesStep == TypeOK /\ [Next]_vars => TypeOK'
<1>1. ASSUME TypeOK, UNCHANGED vars PROVE TypeOK'
  BY <1>1 DEF TypeOK, vars, semaphores, books
<1> QED BY <1>1, CallTypes, SetLimitTypes DEF Next, AllDone

(* Every variable keeps its type; a semaphore never exceeds its bound      *)
(* (rate_limiter.py:103-190).                                              *)
THEOREM SlotsTyped == Spec => []TypeOK
<1>1. Init => TypeOK
  BY Constants DEF Init, TypeOK, PCs
<1> QED BY <1>1, TypesStep, PTL DEF Spec

-----------------------------------------------------------------------------
(* What is counted is finite.                                              *)
LEMMA SlotSizes ==
  ASSUME TypeOK
  PROVE  /\ IsFiniteSet(Holding) /\ Cardinality(Holding) \in Nat
         /\ IsFiniteSet(Strangers) /\ Cardinality(Strangers) \in Nat
         /\ IsFiniteSet(overdue) /\ Cardinality(overdue) \in Nat
         /\ IsFiniteSet(killed) /\ Cardinality(killed) \in Nat
         /\ Cardinality(Strangers) <= Cardinality(overdue)
<1>1. Holding \in SUBSET Calls /\ overdue \in SUBSET Calls /\ killed \in SUBSET Calls
      /\ Strangers \in SUBSET overdue /\ IsFiniteSet(Calls)
  BY SlotAssumption DEF TypeOK, Holding, Strangers
<1>2. IsFiniteSet(Holding) /\ IsFiniteSet(overdue) /\ IsFiniteSet(killed)
  BY <1>1, FS_Subset
<1>3. IsFiniteSet(Strangers) /\ Cardinality(Strangers) <= Cardinality(overdue)
  BY <1>1, <1>2, FS_Subset
<1> QED BY <1>2, <1>3, FS_CardinalityType

\* What a call's step does not make bigger stays in balance.
LEMMA Fewer ==
  ASSUME SlotInv, TypeOK',
         Holding' \subseteq Holding, Strangers' \subseteq Strangers,
         UNCHANGED <<limit, gen, free, allowed, overdue>>
  PROVE  Balance'
<1>1. FreeSlots' = FreeSlots
  BY DEF FreeSlots
<1>2. Cardinality(Holding') <= Cardinality(Holding) /\ Cardinality(Strangers') <= Cardinality(Strangers)
  BY SlotSizes, FS_Subset DEF SlotInv
<1>3. /\ Cardinality(Holding) \in Nat /\ Cardinality(Strangers) \in Nat
      /\ Cardinality(Holding') \in Nat /\ Cardinality(Strangers') \in Nat
      /\ Cardinality(overdue) \in Nat /\ allowed \in Nat
  <2>1. IsFiniteSet(Holding') /\ IsFiniteSet(Strangers')
    BY SlotSizes, FS_Subset DEF SlotInv
  <2> QED BY <2>1, SlotSizes, FS_CardinalityType DEF SlotInv, TypeOK
<1>4. Cardinality(FreeSlots) \in Nat
  BY FS_CardinalityType DEF SlotInv, Balance
<1> QED BY <1>1, <1>2, <1>3, <1>4 DEF SlotInv, Balance

(* One call more in a set of calls, or one less.                           *)
LEMMA OneMore ==
  ASSUME NEW S, IsFiniteSet(S), NEW x, x \notin S
  PROVE  /\ IsFiniteSet(S \cup {x}) /\ Cardinality(S) \in Nat
         /\ Cardinality(S \cup {x}) = Cardinality(S) + 1
BY FS_AddElement, FS_CardinalityType

LEMMA OneLess ==
  ASSUME NEW S, IsFiniteSet(S), NEW x \in S
  PROVE  /\ IsFiniteSet(S \ {x}) /\ Cardinality(S) \in Nat
         /\ Cardinality(S \ {x}) = Cardinality(S) - 1
BY FS_RemoveElement, FS_CardinalityType

(* The slots of a new semaphore.                                           *)
LEMMA NewSlots ==
  ASSUME NEW g, NEW n \in Nat
  PROVE  IsFiniteSet({g} \X (1..n)) /\ Cardinality({g} \X (1..n)) <= n
<1> DEFINE T == {g} \X (1..n)
           f == [i \in 1..n |-> <<g, i>>]
<1>1. IsFiniteSet(1..n) /\ Cardinality(1..n) = n
  <2>1. 1 \in Int /\ n \in Int
    OBVIOUS
  <2>2. IsFiniteSet(1..n) /\ Cardinality(1..n) = IF 1 > n THEN 0 ELSE n - 1 + 1
    BY <2>1, FS_Interval
  <2> QED BY <2>2
<1>2. f \in Surjection(1..n, T)
  <2>1. f \in [1..n -> T] /\ \A t \in T : \E i \in 1..n : f[i] = t
    OBVIOUS
  <2> HIDE DEF T, f
  <2> QED BY <2>1 DEF Surjection
<1> HIDE DEF T, f
<1>3. IsFiniteSet(T) /\ Cardinality(T) <= Cardinality(1..n)
  BY <1>1, <1>2, FS_Surjection
<1> QED BY <1>1, <1>3 DEF T

-----------------------------------------------------------------------------
(* The steps of a call.                                                    *)

\* What is used of the types again and again.
LEMMA CallFacts ==
  ASSUME SlotInv, NEW c \in Calls
  PROVE  /\ gen \in Nat /\ gen <= MaxChanges + 1 /\ MaxChanges \in Nat /\ allowed \in Nat
         /\ free \in [Generations -> Nat] /\ bound \in [Generations -> Nat]
         /\ holds \in [Calls -> Nat] /\ holds[c] \in 0..gen /\ sem[c] \in 0..gen
         /\ pc \in [Calls -> PCs] /\ overdue \subseteq Calls
         /\ pc[c] # "idle" => sem[c] # 0 /\ sem[c] \in Generations
<1>1. /\ gen \in Nat /\ gen <= MaxChanges + 1 /\ MaxChanges \in Nat /\ allowed \in Nat
      /\ free \in [Generations -> Nat] /\ bound \in [Generations -> Nat]
      /\ holds \in [Calls -> 0..gen] /\ sem[c] \in 0..gen
      /\ pc \in [Calls -> PCs] /\ overdue \subseteq Calls
      /\ pc[c] # "idle" => sem[c] # 0
  BY Constants DEF SlotInv, TypeOK
<1>2. holds \in [Calls -> Nat] /\ holds[c] \in 0..gen
  BY <1>1
<1>3. sem[c] # 0 => sem[c] \in Generations
  BY <1>1 DEF Generations
<1> QED BY <1>1, <1>2, <1>3

LEMMA CallHands ==
  ASSUME SlotInv, NEW c \in Calls, CallStep(c)
  PROVE  EmptyHanded'
<1>0. /\ holds \in [Calls -> Nat] /\ pc \in [Calls -> PCs]
      /\ pc[c] # "idle" => sem[c] # 0
      /\ sem[c] \in Nat
  BY CallFacts
<1>1. ASSUME NEW d \in Calls, d # c
      PROVE  holds'[d] = holds[d] /\ pc'[d] = pc[d] /\ (d \in overdue' <=> d \in overdue)
             /\ (d \in killed' <=> d \in killed)
  BY <1>0, <1>1 DEF CallStep, AcquireStep, ProcessStep, ReleaseStep, Begin, Acquire, Count,
     AcquireTimesOut, Spawn, SpawnFails, Exit, Deadline, LookUp, GiveBack, GiveBackRefused, Uncount,
     Goto, books
<1>2. /\ pc'[c] \in {"idle", "waiting", "uncounting", "done"} => holds'[c] = 0
      /\ c \in overdue' => holds'[c] = 0 /\ pc'[c] \notin {"idle", "waiting", "counting"}
      /\ pc'[c] \in {"spawning", "streaming", "releasing", "returning"} => holds'[c] # 0 \/ c \in overdue'
      /\ pc'[c] = "counting" => holds'[c] # 0
      /\ c \in killed' => pc'[c] = "done"
  <2>1. /\ pc[c] \in {"idle", "waiting", "uncounting", "done"} => holds[c] = 0
        /\ c \in overdue => holds[c] = 0 /\ pc[c] \notin {"idle", "waiting", "counting"}
        /\ pc[c] \in {"spawning", "streaming", "releasing", "returning"} => holds[c] # 0 \/ c \in overdue
        /\ pc[c] = "counting" => holds[c] # 0
        /\ c \in killed => pc[c] = "done"
    BY DEF SlotInv, EmptyHanded
  <2>2. CASE AcquireStep(c)
    BY <1>0, <2>1, <2>2 DEF AcquireStep, Begin, Acquire, Count, AcquireTimesOut, Goto, books
  <2>3. CASE ProcessStep(c)
    BY <1>0, <2>1, <2>3 DEF ProcessStep, Spawn, SpawnFails, Exit, Deadline, Goto, books
  <2>4. CASE ReleaseStep(c)
    BY <1>0, <2>1, <2>4 DEF ReleaseStep, LookUp, GiveBack, GiveBackRefused, Uncount, Goto, books
  <2> QED BY <2>2, <2>3, <2>4 DEF CallStep
<1>3. ASSUME NEW d \in Calls
      PROVE  /\ pc'[d] \in {"idle", "waiting", "uncounting", "done"} => holds'[d] = 0
             /\ d \in overdue' => holds'[d] = 0 /\ pc'[d] \notin {"idle", "waiting", "counting"}
             /\ pc'[d] \in {"spawning", "streaming", "releasing", "returning"}
                  => holds'[d] # 0 \/ d \in overdue'
             /\ pc'[d] = "counting" => holds'[d] # 0
             /\ d \in killed' => pc'[d] = "done"
  BY <1>1, <1>2 DEF SlotInv, EmptyHanded
<1> QED BY <1>3 DEF EmptyHanded

(* Begin may make the first semaphore.                                     *)
LEMMA BeginBalance ==
  ASSUME SlotInv, TypeOK', NEW c \in Calls, Begin(c)
  PROVE  Balance'
<1>1. /\ holds' = holds /\ UNCHANGED <<limit, books>> /\ Goto(c, "idle", "waiting")
  BY DEF Begin
<1>2. Holding' = Holding /\ Strangers' = Strangers
  <2>1. c \notin overdue
    BY <1>1 DEF Goto, SlotInv, EmptyHanded
  <2>2. \A d \in Calls : d # c => pc'[d] = pc[d]
    BY <1>1, CallFacts DEF Goto
  <2>3. overdue' = overdue /\ overdue \subseteq Calls
    BY <1>1, CallFacts DEF books
  <2> QED BY <1>1, <2>1, <2>2, <2>3 DEF Holding, Strangers
<1>3. CASE gen # 0
  BY <1>1, <1>2, <1>3, Fewer DEF Begin, CreateIfMissing, semaphores, books
<1>4. CASE gen = 0
  <2>1. /\ gen' = 1 /\ free' = [free EXCEPT ![1] = limit] /\ free \in [Generations -> Nat]
        /\ limit \in Nat /\ allowed' = allowed /\ overdue' = overdue
    BY <1>1, <1>4, CallFacts DEF Begin, CreateIfMissing, books, SlotInv, TypeOK
  <2>2. FreeSlots = {} /\ allowed = limit
    BY <1>4 DEF SlotInv, Balance
  <2>3. FreeSlots' \in SUBSET ({1} \X (1..limit))
    <3>1. ASSUME NEW x \in FreeSlots' PROVE x \in {1} \X (1..limit)
      <4>1. x \in Generations \X Nat /\ x[2] \in 1..free'[x[1]]
        BY DEF FreeSlots
      <4>2. CASE x[1] = 1
        BY <2>1, <4>1, <4>2, Constants
      <4>3. CASE x[1] # 1
        <5>1. x[2] \in 1..free[x[1]]
          BY <2>1, <4>1, <4>3
        <5>2. x \in FreeSlots
          BY <4>1, <5>1 DEF FreeSlots
        <5> QED BY <2>2, <5>2
      <4> QED BY <4>2, <4>3
    <3> QED BY <3>1
  <2>4. IsFiniteSet(FreeSlots') /\ Cardinality(FreeSlots') <= limit /\ Cardinality(FreeSlots') \in Nat
    <3>1. IsFiniteSet({1} \X (1..limit)) /\ Cardinality({1} \X (1..limit)) <= limit
      BY <2>1, NewSlots
    <3>2. IsFiniteSet(FreeSlots') /\ Cardinality(FreeSlots') <= Cardinality({1} \X (1..limit))
      BY <2>3, <3>1, FS_Subset
    <3>3. Cardinality(FreeSlots') \in Nat /\ Cardinality({1} \X (1..limit)) \in Nat
      BY <3>1, <3>2, FS_CardinalityType
    <3> QED BY <2>1, <3>1, <3>2, <3>3
  <2>5. Cardinality(Holding) = 0
    <3>1. Holding = {}
      BY <1>4 DEF Holding, SlotInv, TypeOK
    <3> QED BY <3>1, FS_EmptySet
  <2>6. /\ Cardinality(Strangers) <= Cardinality(overdue)
        /\ Cardinality(Strangers) \in Nat /\ Cardinality(overdue) \in Nat
    BY SlotSizes DEF SlotInv
  <2>7. Cardinality(FreeSlots') + Cardinality(Holding') + Cardinality(Strangers')
          <= allowed' + Cardinality(overdue')
    BY <1>2, <2>1, <2>2, <2>4, <2>5, <2>6
  <2> QED BY <2>1, <2>4, <2>7 DEF Balance
<1> QED BY <1>3, <1>4

(* A slot is taken.                                                        *)
LEMMA AcquireBalance ==
  ASSUME SlotInv, TypeOK', NEW c \in Calls, Acquire(c)
  PROVE  Balance'
<1>1. /\ pc[c] = "waiting" /\ UNCHANGED <<limit, gen, books>>
      /\ free' = [free EXCEPT ![sem[c]] = @ - 1] /\ free[sem[c]] > 0
      /\ holds' = [holds EXCEPT ![c] = sem[c]] /\ Goto(c, "waiting", "counting")
  BY DEF Acquire, Goto
<1>2. /\ free \in [Generations -> Nat] /\ sem[c] \in Generations /\ sem[c] # 0 /\ sem[c] <= gen
      /\ gen \in Nat /\ allowed \in Nat /\ holds \in [Calls -> Nat] /\ overdue \subseteq Calls
      /\ holds[c] = 0 /\ c \notin overdue /\ gen # 0
  BY <1>1, CallFacts DEF SlotInv, EmptyHanded
<1> DEFINE slot == <<sem[c], free[sem[c]]>>
<1>3. slot \in FreeSlots
  BY <1>1, <1>2 DEF FreeSlots
<1>4. FreeSlots' = FreeSlots \ {slot}
  <2>1. \A x \in Generations \X Nat : x[2] \in 1..free'[x[1]] <=> x[2] \in 1..free[x[1]] /\ x # slot
    <3> SUFFICES ASSUME NEW g \in Generations, NEW i \in Nat
                 PROVE  i \in 1..free'[g] <=> i \in 1..free[g] /\ <<g, i>> # slot
      OBVIOUS
    <3>1. CASE g = sem[c]
      <4>1. free'[g] = free[g] - 1 /\ free[g] \in Nat
        BY <1>1, <1>2, <3>1
      <4> QED BY <3>1, <4>1
    <3>2. CASE g # sem[c]
      BY <1>1, <1>2, <3>2
    <3> QED BY <3>1, <3>2
  <2> QED BY <2>1 DEF FreeSlots
<1>5. Holding' = Holding \cup {c} /\ c \notin Holding
  BY <1>1, <1>2 DEF Holding
<1>6. Strangers' = Strangers
  <2>1. \A d \in Calls : d # c => pc'[d] = pc[d]
    BY <1>1, CallFacts DEF Goto
  <2> QED BY <1>1, <1>2, <2>1 DEF Strangers, books
<1> HIDE DEF slot
<1>7. /\ IsFiniteSet(FreeSlots') /\ Cardinality(FreeSlots) \in Nat
      /\ Cardinality(FreeSlots') = Cardinality(FreeSlots) - 1
  BY <1>3, <1>4, OneLess DEF SlotInv, Balance
<1>8. Cardinality(Holding) \in Nat /\ Cardinality(Holding') = Cardinality(Holding) + 1
  BY <1>5, SlotSizes, OneMore DEF SlotInv
<1>9. Cardinality(Strangers) \in Nat /\ Cardinality(overdue) \in Nat
  BY SlotSizes DEF SlotInv
<1>10. Cardinality(FreeSlots') + Cardinality(Holding') + Cardinality(Strangers')
          <= allowed' + Cardinality(overdue')
  BY <1>1, <1>2, <1>6, <1>7, <1>8, <1>9 DEF SlotInv, Balance, books
<1> QED BY <1>1, <1>2, <1>7, <1>10 DEF Balance

(* A call goes on without one.                                             *)
LEMMA OverdueBalance ==
  ASSUME SlotInv, TypeOK', NEW c \in Calls, AcquireTimesOut(c)
  PROVE  Balance'
<1>1. /\ pc[c] = "waiting" /\ pc' = [pc EXCEPT ![c] = "spawning"] /\ overdue' = overdue \cup {c}
      /\ UNCHANGED <<limit, gen, free, holds, allowed>>
  BY DEF AcquireTimesOut, Goto, semaphores
<1>2. c \notin overdue /\ pc \in [Calls -> PCs] /\ overdue \subseteq Calls /\ allowed \in Nat
  BY <1>1, CallFacts DEF SlotInv, EmptyHanded
<1>3. FreeSlots' = FreeSlots /\ Holding' = Holding
  BY <1>1 DEF FreeSlots, Holding
<1>4. Strangers' = Strangers \cup {c} /\ c \notin Strangers
  BY <1>1, <1>2 DEF Strangers
<1>5. /\ Cardinality(Strangers') = Cardinality(Strangers) + 1
      /\ Cardinality(overdue') = Cardinality(overdue) + 1
      /\ Cardinality(Strangers) \in Nat /\ Cardinality(overdue) \in Nat /\ Cardinality(Holding) \in Nat
  BY <1>1, <1>2, <1>4, SlotSizes, OneMore DEF SlotInv
<1>6. Cardinality(FreeSlots) \in Nat
  BY FS_CardinalityType DEF SlotInv, Balance
<1> QED BY <1>1, <1>2, <1>3, <1>5, <1>6 DEF SlotInv, Balance

(* A slot is put back, by a holder or by a call that never had one.        *)
LEMMA GiveBackBalance ==
  ASSUME SlotInv, TypeOK', NEW c \in Calls, GiveBack(c)
  PROVE  Balance'
<1>1. /\ pc[c] = "returning" /\ UNCHANGED <<limit, gen, allowed, overdue>>
      /\ free' = [free EXCEPT ![sem[c]] = @ + 1]
      /\ holds' = [holds EXCEPT ![c] = 0] /\ pc' = [pc EXCEPT ![c] = "uncounting"]
  BY DEF GiveBack, Goto, books
<1>2. /\ free \in [Generations -> Nat] /\ sem[c] \in Generations /\ sem[c] # 0 /\ sem[c] <= gen
      /\ gen \in Nat /\ allowed \in Nat /\ holds \in [Calls -> Nat] /\ overdue \subseteq Calls
      /\ pc \in [Calls -> PCs]
      /\ holds[c] # 0 \/ c \in overdue
      /\ c \in overdue => holds[c] = 0
  BY <1>1, CallFacts DEF SlotInv, EmptyHanded
<1> DEFINE slot == <<sem[c], free[sem[c]] + 1>>
<1>3. slot \notin FreeSlots
  BY <1>1, <1>2 DEF FreeSlots
<1>4. FreeSlots' = FreeSlots \cup {slot}
  <2>1. \A x \in Generations \X Nat : x[2] \in 1..free'[x[1]] <=> x[2] \in 1..free[x[1]] \/ x = slot
    <3> SUFFICES ASSUME NEW g \in Generations, NEW i \in Nat
                 PROVE  i \in 1..free'[g] <=> i \in 1..free[g] \/ <<g, i>> = slot
      OBVIOUS
    <3>1. CASE g = sem[c]
      <4>1. free'[g] = free[g] + 1 /\ free[g] \in Nat
        BY <1>1, <1>2, <3>1
      <4> QED BY <3>1, <4>1
    <3>2. CASE g # sem[c]
      BY <1>1, <1>2, <3>2
    <3> QED BY <3>1, <3>2
  <2>2. slot \in Generations \X Nat
    BY <1>2
  <2> QED BY <2>1, <2>2 DEF FreeSlots
<1> HIDE DEF slot
<1>5. /\ IsFiniteSet(FreeSlots') /\ Cardinality(FreeSlots) \in Nat
      /\ Cardinality(FreeSlots') = Cardinality(FreeSlots) + 1
  BY <1>3, <1>4, OneMore DEF SlotInv, Balance
<1>6. /\ Cardinality(Holding) \in Nat /\ Cardinality(Strangers) \in Nat /\ Cardinality(overdue) \in Nat
      /\ IsFiniteSet(Holding) /\ IsFiniteSet(Strangers)
  BY SlotSizes DEF SlotInv
<1>7. Cardinality(Holding') + Cardinality(Strangers') = Cardinality(Holding) + Cardinality(Strangers) - 1
  <2>1. CASE holds[c] # 0
    <3>1. Holding' = Holding \ {c} /\ c \in Holding /\ Strangers' = Strangers
      BY <1>1, <1>2, <2>1 DEF Holding, Strangers
    <3> QED BY <1>6, <3>1, OneLess
  <2>2. CASE holds[c] = 0
    <3>1. Holding' = Holding /\ Strangers' = Strangers \ {c} /\ c \in Strangers
      BY <1>1, <1>2, <2>2 DEF Holding, Strangers
    <3> QED BY <1>6, <3>1, OneLess
  <2> QED BY <2>1, <2>2
<1>8. Cardinality(Holding') \in Nat /\ Cardinality(Strangers') \in Nat
  <2>1. Holding' \in SUBSET Calls /\ Strangers' \in SUBSET Calls
    BY <1>1, <1>2 DEF Holding, Strangers
  <2> QED BY <2>1, SlotAssumption, FS_Subset, FS_CardinalityType
<1>9. Cardinality(FreeSlots') + Cardinality(Holding') + Cardinality(Strangers')
         <= allowed' + Cardinality(overdue')
  <2>1. Cardinality(FreeSlots) + Cardinality(Holding) + Cardinality(Strangers)
          <= allowed + Cardinality(overdue)
    BY DEF SlotInv, Balance
  <2>2. allowed' = allowed /\ Cardinality(overdue') = Cardinality(overdue) /\ allowed \in Nat
    BY <1>1, <1>2
  <2>3. Cardinality(FreeSlots') = Cardinality(FreeSlots) + 1 /\ Cardinality(FreeSlots) \in Nat
    BY <1>5
  <2> QED BY <1>6, <1>7, <1>8, <2>1, <2>2, <2>3
<1>10. gen' # 0
  BY <1>1, <1>2, Constants
<1> QED BY <1>5, <1>9, <1>10 DEF Balance

LEMMA CallBalance ==
  ASSUME SlotInv, TypeOK', NEW c \in Calls, CallStep(c)
  PROVE  Balance'
<1>0. holds \in [Calls -> Nat] /\ pc \in [Calls -> PCs] /\ overdue \subseteq Calls
  BY CallFacts
<1>1. CASE Count(c) \/ Spawn(c) \/ SpawnFails(c) \/ Exit(c) \/ LookUp(c) \/ Uncount(c)
  <2>1. /\ holds' = holds /\ UNCHANGED <<limit, gen, free, allowed, overdue>>
        /\ \A d \in Calls : d # c => pc'[d] = pc[d]
        /\ pc[c] \in {"counting", "uncounting", "spawning", "streaming", "releasing"}
        /\ pc[c] = "counting" => c \notin overdue
        /\ pc[c] = "uncounting" => pc'[c] = "done"
    BY <1>0, <1>1 DEF Count, Spawn, SpawnFails, Exit, LookUp, Uncount, Goto, semaphores, books,
       SlotInv, EmptyHanded
  <2>2. Holding' = Holding /\ Strangers' \subseteq Strangers
    BY <1>0, <2>1 DEF Holding, Strangers
  <2> QED BY <2>1, <2>2, Fewer
<1>2. CASE Deadline(c) \/ GiveBackRefused(c)
  <2>1. /\ holds' = [holds EXCEPT ![c] = 0] /\ pc' = [pc EXCEPT ![c] = "done"]
        /\ UNCHANGED <<limit, gen, free, allowed, overdue>>
    BY <1>2 DEF Deadline, GiveBackRefused, Goto, semaphores, books
  <2>2. Holding' \subseteq Holding /\ Strangers' \subseteq Strangers
    BY <1>0, <2>1 DEF Holding, Strangers
  <2> QED BY <2>1, <2>2, Fewer
<1> QED BY <1>1, <1>2, BeginBalance, AcquireBalance, OverdueBalance, GiveBackBalance
        DEF CallStep, AcquireStep, ProcessStep, ReleaseStep

(* Before the limit is changed no slot goes missing but with a killed call.*)
LEMMA CallServed ==
  ASSUME SlotInv, TypeOK', NEW c \in Calls, CallStep(c)
  PROVE  Served'
<1> SUFFICES ASSUME changes' = 0
             PROVE  /\ gen' <= 1 /\ limit' = Limit
                    /\ gen' = 1 => /\ bound'[1] = Limit
                                   /\ free'[1] + Cardinality(Holding') + Cardinality(killed') >= Limit
  BY DEF Served
<1>1. changes' = changes /\ limit' = limit
  BY DEF CallStep, AcquireStep, ProcessStep, ReleaseStep, Begin, Acquire, Count,
     AcquireTimesOut, Spawn, SpawnFails, Exit, Deadline, LookUp, GiveBack, GiveBackRefused, Uncount
<1>2. /\ gen <= 1 /\ limit = Limit
      /\ gen = 1 => bound[1] = Limit /\ free[1] + Cardinality(Holding) + Cardinality(killed) >= Limit
  BY <1>1 DEF SlotInv, Served
<1>3. /\ gen \in Nat /\ free \in [Generations -> Nat] /\ bound \in [Generations -> Nat]
      /\ sem[c] \in 0..gen /\ holds \in [Calls -> Nat] /\ pc \in [Calls -> PCs]
      /\ pc[c] # "idle" => sem[c] # 0
      /\ Limit \in Nat /\ 1 \in Generations /\ free[1] \in Nat
  BY CallFacts, Constants
<1>4. /\ IsFiniteSet(Holding) /\ Cardinality(Holding) \in Nat
      /\ IsFiniteSet(killed) /\ Cardinality(killed) \in Nat
      /\ IsFiniteSet(Holding') /\ Cardinality(Holding') \in Nat
      /\ IsFiniteSet(killed') /\ Cardinality(killed') \in Nat
  <2>1. IsFiniteSet(Holding) /\ IsFiniteSet(killed)
    BY SlotSizes DEF SlotInv
  <2>2. IsFiniteSet(Holding') /\ IsFiniteSet(killed')
    <3>1. Holding' \in SUBSET Calls /\ killed' \in SUBSET Calls
      BY DEF Holding, TypeOK
    <3> QED BY <3>1, SlotAssumption, FS_Subset
  <2> QED BY <2>1, <2>2, FS_CardinalityType
<1>5. pc[c] # "idle" => gen = 1 /\ sem[c] = 1
  BY <1>2, <1>3
<1>6. CASE Begin(c)
  <2>1. Holding' = Holding /\ killed' = killed
    BY <1>6 DEF Begin, books, Holding
  <2>2. CASE gen = 0
    <3>1. gen' = 1 /\ free'[1] = Limit /\ bound'[1] = Limit
      BY <1>2, <1>3, <1>6, <2>2 DEF Begin, CreateIfMissing
    <3> QED BY <1>1, <1>2, <1>3, <1>4, <3>1
  <2>3. CASE gen # 0
    <3>1. UNCHANGED semaphores
      BY <1>6, <2>3 DEF Begin, CreateIfMissing
    <3> QED BY <1>1, <1>2, <2>1, <3>1 DEF semaphores
  <2> QED BY <2>2, <2>3
<1>7. CASE Acquire(c)
  <2>1. /\ pc[c] = "waiting" /\ gen' = gen /\ bound' = bound /\ killed' = killed
        /\ free' = [free EXCEPT ![sem[c]] = @ - 1]
        /\ holds' = [holds EXCEPT ![c] = sem[c]]
    BY <1>7 DEF Acquire, Goto, books
  <2>2. sem[c] = 1 /\ gen = 1 /\ holds[c] = 0
    BY <1>5, <2>1 DEF SlotInv, EmptyHanded
  <2>3. free'[1] = free[1] - 1
    BY <1>3, <2>1, <2>2
  <2>4. Holding' = Holding \cup {c} /\ c \notin Holding
    BY <1>3, <2>1, <2>2 DEF Holding
  <2>5. Cardinality(Holding') = Cardinality(Holding) + 1
    BY <1>4, <2>4, OneMore
  <2> QED BY <1>1, <1>2, <1>3, <1>4, <2>1, <2>2, <2>3, <2>5
<1>8. CASE GiveBack(c)
  <2>1. /\ pc[c] = "returning" /\ gen' = gen /\ bound' = bound /\ killed' = killed
        /\ free' = [free EXCEPT ![sem[c]] = @ + 1]
        /\ holds' = [holds EXCEPT ![c] = 0]
    BY <1>8 DEF GiveBack, Goto, books
  <2>2. free'[1] = free[1] + 1 /\ gen = 1
    BY <1>3, <1>5, <2>1
  <2>3. Holding' = Holding \ {c}
    BY <1>3, <2>1 DEF Holding
  <2>4. Cardinality(Holding') >= Cardinality(Holding) - 1
    BY <1>4, <2>3, FS_RemoveElement
  <2> QED BY <1>1, <1>2, <1>3, <1>4, <2>1, <2>2, <2>4
<1>9. CASE GiveBackRefused(c)
  <2>1. pc[c] = "returning" /\ UNCHANGED semaphores /\ killed' = killed /\ free[sem[c]] = bound[sem[c]]
    BY <1>9 DEF GiveBackRefused, Goto, books
  <2>2. gen = 1 /\ free[1] = Limit
    BY <1>2, <1>5, <2>1
  <2> QED BY <1>1, <1>2, <1>3, <1>4, <2>1, <2>2 DEF semaphores
<1>10. CASE Deadline(c)
  <2>1. /\ pc[c] = "streaming" /\ UNCHANGED semaphores /\ killed' = killed \cup {c}
        /\ holds' = [holds EXCEPT ![c] = 0]
    BY <1>10 DEF Deadline, Goto
  <2>2. Holding' = Holding \ {c}
    BY <1>3, <2>1 DEF Holding
  <2>3. c \notin killed
    BY <2>1 DEF SlotInv, EmptyHanded
  <2>4. Cardinality(Holding') >= Cardinality(Holding) - 1 /\ Cardinality(killed') = Cardinality(killed) + 1
    BY <1>4, <2>1, <2>2, <2>3, FS_RemoveElement, OneMore
  <2> QED BY <1>1, <1>2, <1>3, <1>4, <2>1, <2>4 DEF semaphores
<1>11. CASE Count(c) \/ AcquireTimesOut(c) \/ Spawn(c) \/ SpawnFails(c) \/ Exit(c) \/ LookUp(c) \/ Uncount(c)
  <2>1. UNCHANGED semaphores /\ killed' = killed /\ Holding' = Holding
    BY <1>11 DEF Count, AcquireTimesOut, Spawn, SpawnFails, Exit, LookUp, Uncount, books, Holding
  <2> QED BY <1>1, <1>2, <2>1 DEF semaphores
<1> QED BY <1>6, <1>7, <1>8, <1>9, <1>10, <1>11
        DEF CallStep, AcquireStep, ProcessStep, ReleaseStep

-----------------------------------------------------------------------------
(* A change of the limit adds at most its slots.                           *)
LEMMA SetLimitBalance ==
  ASSUME SlotInv, NEW n \in NewLimits, SetLimit(n)
  PROVE  Balance'
<1>0. /\ n \in Nat /\ gen \in Nat /\ MaxChanges \in Nat /\ gen <= changes + 1 /\ changes < MaxChanges
      /\ changes \in Nat /\ free \in [Generations -> Nat] /\ allowed \in Nat
      /\ limit' = n
      /\ UNCHANGED <<pc, holds, overdue>>
  BY Constants DEF SlotInv, TypeOK, SetLimit
<1>1. Holding' = Holding /\ Strangers' = Strangers
  BY <1>0 DEF Holding, Strangers
<1>2. /\ Cardinality(Holding) \in Nat /\ Cardinality(Strangers) \in Nat /\ Cardinality(overdue) \in Nat
      /\ Cardinality(Strangers) <= Cardinality(overdue)
  BY SlotSizes DEF SlotInv
<1>3. IsFiniteSet(FreeSlots) /\ Cardinality(FreeSlots) \in Nat
  BY FS_CardinalityType DEF SlotInv, Balance
<1>4. CASE gen = 0
  <2>1. gen' = 0 /\ FreeSlots' = FreeSlots /\ allowed' = n
    BY <1>4 DEF SetLimit, semaphores, FreeSlots
  <2>2. FreeSlots = {} /\ Holding = {}
    BY <1>4 DEF SlotInv, Balance, TypeOK, Holding
  <2>3. Cardinality(FreeSlots') = 0 /\ Cardinality(Holding') = 0
    BY <1>1, <2>1, <2>2, FS_EmptySet
  <2> QED BY <1>0, <1>1, <1>2, <1>3, <2>1, <2>2, <2>3 DEF Balance
<1>5. CASE gen # 0
  <2> DEFINE taken == Min({n, free[gen]})
             fresh == {gen + 1} \X (1..n)
  <2>1. gen \in Generations /\ gen + 1 \in Generations
    BY <1>0, <1>5 DEF Generations
  <2>2. taken \in Nat
    <3>1. free[gen] \in Nat /\ free[gen] \in Int /\ n \in Int
      BY <1>0, <2>1
    <3>2. taken \in {n, free[gen]}
      BY <3>1, MinOfTwo
    <3> HIDE DEF taken
    <3> QED BY <1>0, <3>1, <3>2
  <2>3. /\ gen' = gen + 1 /\ allowed' = allowed + n
        /\ free' = [free EXCEPT ![gen] = 0, ![gen + 1] = n - taken]
    BY <1>5 DEF SetLimit
  <2> HIDE DEF taken
  <2>4. FreeSlots' \in SUBSET (FreeSlots \cup fresh)
    <3>1. ASSUME NEW g \in Generations, NEW i \in Nat, i \in 1..free'[g]
          PROVE  <<g, i>> \in FreeSlots \cup fresh
      <4>1. CASE g = gen + 1
        <5>1. free'[g] = n - taken
          BY <1>0, <2>1, <2>3, <4>1
        <5>2. i \in 1..n
          BY <1>0, <2>2, <3>1, <5>1
        <5> QED BY <4>1, <5>2
      <4>2. CASE g = gen
        <5>1. free'[g] = 0
          BY <1>0, <2>1, <2>3, <4>2
        <5> QED BY <3>1, <5>1
      <4>3. CASE g # gen /\ g # gen + 1
        <5>1. free'[g] = free[g]
          BY <1>0, <2>3, <4>3
        <5> QED BY <3>1, <5>1 DEF FreeSlots
      <4> QED BY <4>1, <4>2, <4>3
    <3> QED BY <3>1 DEF FreeSlots
  <2>5. IsFiniteSet(fresh) /\ Cardinality(fresh) <= n
    BY <1>0, NewSlots
  <2> HIDE DEF fresh
  <2>6. /\ IsFiniteSet(FreeSlots \cup fresh)
        /\ Cardinality(FreeSlots \cup fresh) <= Cardinality(FreeSlots) + n
    <3>1. /\ IsFiniteSet(FreeSlots \cup fresh)
          /\ Cardinality(FreeSlots \cup fresh) =
               Cardinality(FreeSlots) + Cardinality(fresh) - Cardinality(FreeSlots \cap fresh)
      BY <1>3, <2>5, FS_Union
    <3>2. Cardinality(fresh) \in Nat /\ Cardinality(FreeSlots \cap fresh) \in Nat
      <4>1. IsFiniteSet(FreeSlots \cap fresh)
        BY <2>5, FS_Subset
      <4> QED BY <2>5, <4>1, FS_CardinalityType
    <3> QED BY <1>0, <1>3, <2>5, <3>1, <3>2
  <2>7. IsFiniteSet(FreeSlots') /\ Cardinality(FreeSlots') <= Cardinality(FreeSlots) + n
        /\ Cardinality(FreeSlots') \in Nat
    <3>1. IsFiniteSet(FreeSlots') /\ Cardinality(FreeSlots') <= Cardinality(FreeSlots \cup fresh)
      BY <2>4, <2>6, FS_Subset
    <3>2. Cardinality(FreeSlots') \in Nat /\ Cardinality(FreeSlots \cup fresh) \in Nat
      BY <2>6, <3>1, FS_CardinalityType
    <3> QED BY <1>0, <1>3, <2>6, <3>1, <3>2
  <2>8. Cardinality(FreeSlots') + Cardinality(Holding') + Cardinality(Strangers')
          <= allowed' + Cardinality(overdue')
    BY <1>0, <1>1, <1>2, <1>3, <2>3, <2>7 DEF SlotInv, Balance
  <2> QED BY <1>0, <2>3, <2>7, <2>8 DEF Balance
<1> QED BY <1>4, <1>5

LEMMA SlotStep == SlotInv /\ [Next]_vars => SlotInv'
<1> SUFFICES ASSUME SlotInv, [Next]_vars PROVE SlotInv'
  OBVIOUS
<1>1. TypeOK'
  BY TypesStep DEF SlotInv
<1>2. ASSUME UNCHANGED vars PROVE EmptyHanded' /\ Balance' /\ Served'
  BY <1>2 DEF vars, semaphores, books, SlotInv, EmptyHanded, Balance, Served, FreeSlots, Holding, Strangers
<1>3. ASSUME NEW c \in Calls, CallStep(c) PROVE EmptyHanded' /\ Balance' /\ Served'
  BY <1>1, <1>3, CallHands, CallBalance, CallServed
<1>4. ASSUME NEW n \in NewLimits, SetLimit(n) PROVE EmptyHanded' /\ Balance' /\ Served'
  <2>1. EmptyHanded'
    BY <1>4 DEF SetLimit, SlotInv, EmptyHanded
  <2>2. changes' # 0
    BY <1>4 DEF SetLimit, SlotInv, TypeOK
  <2> QED BY <1>4, <2>1, <2>2, SetLimitBalance DEF Served
<1> QED BY <1>1, <1>2, <1>3, <1>4 DEF Next, AllDone, SlotInv

LEMMA SlotInit == Init => SlotInv
<1> SUFFICES ASSUME Init PROVE SlotInv
  OBVIOUS
<1>1. TypeOK
  BY Constants DEF Init, TypeOK, PCs
<1>2. EmptyHanded /\ Served
  BY DEF Init, EmptyHanded, Served
<1>3. FreeSlots = {} /\ Holding = {} /\ Strangers = {}
  BY DEF Init, FreeSlots, Holding, Strangers
<1>4. Balance
  BY <1>3, FS_EmptySet, Constants DEF Init, Balance
<1> QED BY <1>1, <1>2, <1>4 DEF SlotInv

(* However calls, timeouts and changes of the limit interleave, a server   *)
(* has no more connections than the limits allow and one for each call     *)
(* that went on without a slot; and until the limit is changed its slots   *)
(* come back, but for one a killed call (rate_limiter.py:103-190,          *)
(* orchestrator.py:775-1199).                                              *)
THEOREM LimitIsKept == Spec => []LimitKept
<1>1. SlotInv => LimitKept
  <2> SUFFICES ASSUME SlotInv PROVE LimitKept
    OBVIOUS
  <2>1. /\ IsFiniteSet(Holding) /\ Cardinality(Holding) \in Nat
        /\ IsFiniteSet(Strangers) /\ Cardinality(Strangers) \in Nat
        /\ Cardinality(overdue) \in Nat /\ Cardinality(killed) \in Nat
        /\ Cardinality(FreeSlots) \in Nat /\ allowed \in Nat
    BY SlotSizes, FS_CardinalityType DEF SlotInv, Balance, TypeOK
  <2>2. Connected \in SUBSET (Holding \cup Strangers)
    BY DEF Connected, Holding, Strangers, SlotInv, EmptyHanded
  <2>3. Cardinality(Connected) <= Cardinality(Holding) + Cardinality(Strangers)
    <3>1. /\ IsFiniteSet(Holding \cup Strangers)
          /\ Cardinality(Holding \cup Strangers) =
               Cardinality(Holding) + Cardinality(Strangers) - Cardinality(Holding \cap Strangers)
      BY <2>1, FS_Union
    <3>2. Cardinality(Holding \cap Strangers) \in Nat
      <4>1. IsFiniteSet(Holding \cap Strangers)
        BY <2>1, FS_Subset
      <4> QED BY <4>1, FS_CardinalityType
    <3>3. IsFiniteSet(Connected) /\ Cardinality(Connected) <= Cardinality(Holding \cup Strangers)
      BY <2>2, <3>1, FS_Subset
    <3>4. Cardinality(Connected) \in Nat
      BY <3>3, FS_CardinalityType
    <3> QED BY <2>1, <3>1, <3>2, <3>3, <3>4
  <2>4. Cardinality(Connected) <= allowed + Cardinality(overdue)
    <3>1. Cardinality(Connected) \in Nat
      <4>1. IsFiniteSet(Connected)
        BY SlotAssumption, FS_Subset DEF Connected
      <4> QED BY <4>1, FS_CardinalityType
    <3> QED BY <2>1, <2>3, <3>1 DEF SlotInv, Balance
  <2>5. ASSUME Quiet, gen = 1, changes = 0
        PROVE  free[gen] + Cardinality(killed) >= Limit
    <3>1. Holding = {}
      BY <2>5 DEF Quiet, Holding, SlotInv, EmptyHanded
    <3>2. Cardinality(Holding) = 0
      BY <3>1, FS_EmptySet
    <3>3. free[1] + Cardinality(Holding) + Cardinality(killed) >= Limit
      BY <2>5 DEF SlotInv, Served
    <3>4. free[1] \in Nat
      BY Constants DEF SlotInv, TypeOK
    <3> QED BY <2>1, <2>5, <3>2, <3>3, <3>4
  <2> QED BY <2>4, <2>5 DEF LimitKept
<1> QED BY <1>1, SlotInit, SlotStep, PTL DEF Spec

-----------------------------------------------------------------------------
(* Operators: FailUp flags and files, the human gate (OperatorControl).    *)

\* A call inside a tier has one; FailUp moved it out of no more than it left.
TierInv ==
  \A c \in Threads :
    /\ at[c] \in {"unlink", "set", "look", "bump", "work", "opening", "writing", "waiting"}
         => tier[c] <= NumTiers
    /\ bumps[c] < tier[c]

\* Threads that took the signal file and have not set the flag yet.
Setters == {c \in Threads : at[c] = "set"}

\* A request stands in the file, with a thread that took the file, or in the
\* flag.  To one call the flag and its own decision to move are one request,
\* since it clears the flag as it moves.
Standing(c) == (IF failUp \/ at[c] = "bump" THEN 1 ELSE 0) + (IF upFile THEN 1 ELSE 0)

\* Where the environment asks for it, calls move without a request.
TokenInv ==
  /\ IsFiniteSet(Setters)
  /\ "up" \notin env => \A c \in Threads : bumps[c] + Standing(c) + Cardinality(Setters) <= requests.up

\* From the moment a call asked, a confirmation in its file is one written since.
AnswerInv ==
  \A c \in Threads :
    at[c] \in {"writing", "waiting"} /\ pending[TaskOf[c]] = "confirmed" => "confirmed" \in decided[c]

ControlInv == ControlTypeOK /\ TierInv /\ TokenInv /\ AnswerInv

-----------------------------------------------------------------------------
(* Types and tiers are kept.                                               *)
LEMMA SignalTypes ==
  ASSUME ControlTypeOK, TierInv, NEW c \in Threads, SignalStep(c)
  PROVE  ControlTypeOK' /\ TierInv'
<1> USE ControlAssumption DEF ControlTypeOK, TierInv, Moves, signals, gate, callVars, history, Ended
<1>1. CASE StartCall(c) BY <1>1 DEF StartCall
<1>2. CASE Shoot(c) BY <1>2 DEF Shoot
<1>3. CASE ShotAnswers(c) BY <1>3 DEF ShotAnswers
<1>4. CASE SeeFile(c) BY <1>4 DEF SeeFile
<1>5. CASE Unlink(c) BY <1>5 DEF Unlink
<1>6. CASE SetFailUp(c) BY <1>6 DEF SetFailUp
<1>7. CASE Look(c)
  <2>1. PICK t \in {"bump", "check", "work"} : at' = [at EXCEPT ![c] = t] /\ (t = "work" => retry[c] # 0)
    BY <1>7 DEF Look
  <2>2. PICK n \in {retry[c], 1} : retry' = [retry EXCEPT ![c] = n]
    BY <1>7 DEF Look
  <2> QED BY <1>7, <2>1, <2>2 DEF Look
<1>8. CASE Bump(c)
  <2> USE <1>8 DEF Bump, NextTier
  <2>1. tier[c] \in 1..NumTiers /\ bumps[c] \in 0..NumTiers /\ bumps[c] < tier[c]
    OBVIOUS
  <2>2. tier' \in [Threads -> 1..(NumTiers + 1)] /\ bumps' \in [Threads -> 0..NumTiers]
    BY <2>1
  <2>3. UNCHANGED <<failNow, upFile, env, pending, decided, op, requests>> /\ failUp' \in BOOLEAN
    OBVIOUS
  <2>4. at' = [at EXCEPT ![c] = "check"] /\ retry' = [retry EXCEPT ![c] = 0]
    OBVIOUS
  <2>5. ControlTypeOK'
    BY <2>2, <2>3, <2>4
  <2>6. TierInv'
    BY <2>1, <2>4
  <2> QED BY <2>5, <2>6
<1> QED BY <1>1, <1>2, <1>3, <1>4, <1>5, <1>6, <1>7, <1>8 DEF SignalStep

LEMMA TierTypes ==
  ASSUME ControlTypeOK, TierInv, NEW c \in Threads, TierStep(c)
  PROVE  ControlTypeOK' /\ TierInv'
<1> USE ControlAssumption DEF ControlTypeOK, TierInv, Moves, signals, gate, callVars, history, Ended
<1>1. CASE Succeed(c) BY <1>1 DEF Succeed
<1>2. CASE Fail(c) BY <1>2 DEF Fail, NextTier
<1>3. CASE TiersSpent(c) BY <1>3 DEF TiersSpent
<1> QED BY <1>1, <1>2, <1>3 DEF TierStep

LEMMA GateTypes ==
  ASSUME ControlTypeOK, TierInv, NEW c \in Threads, GateStep(c)
  PROVE  ControlTypeOK' /\ TierInv'
<1> USE ControlAssumption DEF ControlTypeOK, TierInv, Moves, signals, gate, callVars, history, Ended,
            Truncated, Files
<1>1. CASE OpenPending(c) BY <1>1 DEF OpenPending
<1>2. CASE WritePending(c) BY <1>2 DEF WritePending, Filled
<1>3. CASE PollConfirmed(c) BY <1>3 DEF PollConfirmed, NextTier
<1>4. CASE PollDenied(c) BY <1>4 DEF PollDenied
<1>5. CASE WaitTimesOut(c) BY <1>5 DEF WaitTimesOut
<1> QED BY <1>1, <1>2, <1>3, <1>4, <1>5 DEF GateStep

LEMMA OperatorTypes ==
  ASSUME ControlTypeOK, TierInv, NEW o \in Operators, OperatorStep(o)
  PROVE  ControlTypeOK' /\ TierInv'
<1> USE ControlAssumption DEF ControlTypeOK, TierInv, signals, gate, callVars, history,
            Truncated, Files, Decisions
<1>1. CASE ReadPending(o) BY <1>1 DEF ReadPending
<1>2. CASE OpenDecision(o) BY <1>2 DEF OpenDecision
<1>3. CASE WriteDecision(o)
  <2> USE <1>3 DEF WriteDecision
  <2>1. op[o] \in [step : {"idle", "read", "opened", "done"}, decision : {"confirmed", "denied"}, task : Tasks]
    OBVIOUS
  <2>2. pending' \in [Tasks -> Files]
    BY <2>1 DEF Filled
  <2>3. decided' \in [Threads -> SUBSET Decisions]
    BY <2>1
  <2>4. op' = [op EXCEPT ![o] = [op[o] EXCEPT !.step = "done"]]
    OBVIOUS
  <2>5. op' \in [Operators -> [step : {"idle", "read", "opened", "done"},
                              decision : Decisions, task : Tasks]]
    BY <2>1, <2>4
  <2>6. UNCHANGED <<failNow, failUp, upFile, env, at, tier, retry, requests, bumps>>
    OBVIOUS
  <2> QED BY <2>2, <2>3, <2>5, <2>6
<1> QED BY <1>1, <1>2, <1>3 DEF OperatorStep

LEMMA RequestTypes ==
  ASSUME ControlTypeOK, PostFailUp
  PROVE  requests' \in [now : 0..MaxRequests, up : 0..MaxRequests] /\ requests'.up = requests.up + 1
<1>1. requests \in [now : 0..MaxRequests, up : 0..MaxRequests] /\ MaxRequests \in Nat
  BY ControlAssumption DEF ControlTypeOK
<1>2. requests.up < MaxRequests /\ requests' = [requests EXCEPT !.up = requests.up + 1]
  BY DEF PostFailUp
<1>3. requests' = [now |-> requests.now, up |-> requests.up + 1]
  BY <1>1, <1>2
<1> QED BY <1>1, <1>2, <1>3

LEMMA TypesKept ==
  ASSUME ControlTypeOK, TierInv, [ControlNext]_controlVars
  PROVE  ControlTypeOK' /\ TierInv'
<1> USE ControlAssumption DEF ControlTypeOK, TierInv, signals, gate, callVars, history, controlVars
<1>1. CASE \E c \in Threads : ThreadStep(c)
  BY <1>1, SignalTypes, TierTypes, GateTypes DEF ThreadStep
<1>2. CASE \E o \in Operators : OperatorStep(o)
  BY <1>2, OperatorTypes
<1>3. CASE SetFailNow BY <1>3 DEF SetFailNow
<1>4. CASE PostFailUp
  <2>1. requests' \in [now : 0..MaxRequests, up : 0..MaxRequests]
    BY <1>4, RequestTypes
  <2>2. UNCHANGED <<failNow, env, pending, decided, at, tier, retry, op, bumps>>
    BY <1>4 DEF PostFailUp
  <2>3. failUp' \in BOOLEAN /\ upFile' \in BOOLEAN
    BY <1>4 DEF PostFailUp
  <2> QED BY <2>1, <2>2, <2>3
<1>5. CASE AllEnded \/ UNCHANGED controlVars BY <1>5 DEF AllEnded
<1> QED BY <1>1, <1>2, <1>3, <1>4, <1>5 DEF ControlNext

-----------------------------------------------------------------------------
(* A request is spent at most once by each call.                           *)

\* Nobody goes to or from "set": what stands to a call is all that counts.
LEMMA NoSetter ==
  ASSUME ControlTypeOK, ControlTypeOK', TokenInv, Setters' = Setters, requests'.up >= requests.up,
         env' = env,
         "up" \notin env =>
           \A c \in Threads : bumps'[c] + Standing(c)' - requests'.up <= bumps[c] + Standing(c) - requests.up
  PROVE  TokenInv'
<1>1. Cardinality(Setters) \in Nat /\ IsFiniteSet(Setters)
  BY FS_CardinalityType DEF TokenInv
<1>2. requests.up \in Nat /\ requests'.up \in Nat
  BY DEF ControlTypeOK
<1>3. \A c \in Threads : bumps[c] \in Nat /\ bumps'[c] \in Nat
  BY DEF ControlTypeOK
<1>4. \A c \in Threads : Standing(c) \in Nat /\ Standing(c)' \in Nat
  BY DEF Standing
<1>5. SUFFICES ASSUME NEW c \in Threads, "up" \notin env
               PROVE  bumps'[c] + Standing(c)' + Cardinality(Setters) <= requests'.up
  BY <1>1 DEF TokenInv
<1>6. bumps[c] + Standing(c) + Cardinality(Setters) <= requests.up
  BY <1>5 DEF TokenInv
<1> QED BY <1>1, <1>2, <1>3, <1>4, <1>5, <1>6

LEMMA SetterTakes ==
  ASSUME ControlTypeOK, ControlTypeOK', TokenInv, NEW c \in Threads, at[c] = "unlink", Unlink(c), upFile
  PROVE  TokenInv'
<1>1. at' = [at EXCEPT ![c] = "set"] /\ UNCHANGED <<failUp, bumps, requests, env>> /\ ~upFile'
  BY DEF Unlink, Moves, history
<1>2. Setters' = Setters \cup {c} /\ c \notin Setters
  BY <1>1 DEF Setters, ControlTypeOK
<1>3. IsFiniteSet(Setters') /\ Cardinality(Setters') = Cardinality(Setters) + 1
  BY <1>2, FS_AddElement DEF TokenInv
<1>4. \A d \in Threads : Standing(d)' = Standing(d) - 1
  BY <1>1 DEF Standing, ControlTypeOK
<1>5. Cardinality(Setters) \in Nat /\ requests.up \in Nat
  BY FS_CardinalityType DEF TokenInv, ControlTypeOK
<1>6. \A d \in Threads : bumps[d] \in Nat /\ Standing(d) \in Nat
  BY DEF ControlTypeOK, Standing
<1> QED BY <1>1, <1>3, <1>4, <1>5, <1>6 DEF TokenInv

LEMMA SetterSets ==
  ASSUME ControlTypeOK, ControlTypeOK', TokenInv, NEW c \in Threads, SetFailUp(c)
  PROVE  TokenInv'
<1>1. at[c] = "set" /\ at' = [at EXCEPT ![c] = "look"] /\ UNCHANGED <<upFile, bumps, requests, env>> /\ failUp'
  BY DEF SetFailUp, Moves, history
<1>2. Setters' = Setters \ {c} /\ c \in Setters
  BY <1>1 DEF Setters, ControlTypeOK
<1>3. IsFiniteSet(Setters') /\ Cardinality(Setters') = Cardinality(Setters) - 1
  BY <1>2, FS_RemoveElement DEF TokenInv
<1>4. \A d \in Threads : Standing(d)' <= Standing(d) + 1
  BY <1>1 DEF Standing, ControlTypeOK
<1>5. Cardinality(Setters) \in Nat /\ requests.up \in Nat
  BY FS_CardinalityType DEF TokenInv, ControlTypeOK
<1>6. \A d \in Threads : bumps[d] \in Nat /\ Standing(d) \in Nat /\ Standing(d)' \in Nat
  BY DEF ControlTypeOK, Standing
<1> QED BY <1>1, <1>3, <1>4, <1>5, <1>6 DEF TokenInv

LEMMA SignalTokens ==
  ASSUME ControlTypeOK, ControlTypeOK', TokenInv, NEW c \in Threads, SignalStep(c)
  PROVE  TokenInv'
<1>1. CASE Unlink(c) /\ upFile
  BY <1>1, SetterTakes DEF Unlink, Moves
<1>2. CASE SetFailUp(c)
  BY <1>2, SetterSets
<1>3. CASE Bump(c)
  <2>1. at[c] = "bump" /\ at' = [at EXCEPT ![c] = "check"] /\ ~failUp'
        /\ bumps' = [bumps EXCEPT ![c] = bumps[c] + 1] /\ UNCHANGED <<upFile, requests, env>>
    BY <1>3 DEF Bump, Moves
  <2>2. Setters' = Setters
    BY <2>1 DEF Setters, ControlTypeOK
  <2>3. bumps \in [Threads -> Int] /\ requests.up \in Nat /\ at = [d \in Threads |-> at[d]]
    BY DEF ControlTypeOK
  <2>4. ASSUME NEW d \in Threads
        PROVE  bumps'[d] + Standing(d)' <= bumps[d] + Standing(d)
    BY <2>1, <2>3 DEF Standing
  <2>5. \A d \in Threads : bumps[d] \in Int /\ bumps'[d] \in Int /\ Standing(d) \in Int /\ Standing(d)' \in Int
    BY <2>1, <2>3 DEF Standing
  <2> QED BY <2>1, <2>2, <2>3, <2>4, <2>5, NoSetter
<1>4. CASE Look(c) \/ StartCall(c) \/ Shoot(c) \/ ShotAnswers(c) \/ SeeFile(c) \/ (Unlink(c) /\ ~upFile)
  <2>1. UNCHANGED <<failUp, bumps, requests, env>> /\ upFile' = upFile
    BY <1>4 DEF Look, StartCall, Shoot, ShotAnswers, SeeFile, Unlink, signals, history, ControlTypeOK
  <2>2. PICK t \in {"shot", "check", "answering", "done", "unlink", "look", "bump", "work"} :
          at' = [at EXCEPT ![c] = t] /\ at[c] # "set" /\ at[c] # "bump" /\ (t = "bump" => FailUpActive)
    BY <1>4 DEF Look, StartCall, Shoot, ShotAnswers, SeeFile, Unlink, Moves
  <2>3. at = [d \in Threads |-> at[d]] /\ requests.up \in Nat
    BY DEF ControlTypeOK
  <2>4. Setters' = Setters
    BY <2>2, <2>3 DEF Setters
  <2>5. "up" \notin env => \A d \in Threads : Standing(d)' = Standing(d)
    BY <2>1, <2>2, <2>3 DEF Standing, FailUpActive
  <2>6. \A d \in Threads : bumps[d] \in Nat /\ Standing(d) \in Nat
    BY DEF ControlTypeOK, Standing
  <2> QED BY <2>1, <2>3, <2>4, <2>5, <2>6, NoSetter
<1> QED BY <1>1, <1>2, <1>3, <1>4 DEF SignalStep

LEMMA WorkTokens ==
  ASSUME ControlTypeOK, ControlTypeOK', TokenInv, NEW c \in Threads, TierStep(c) \/ GateStep(c)
  PROVE  TokenInv'
<1>1. UNCHANGED <<failUp, upFile, bumps, requests, env>>
  BY DEF TierStep, Succeed, Fail, TiersSpent, GateStep, OpenPending, WritePending, PollConfirmed,
         PollDenied, WaitTimesOut, signals, history
<1>2. PICK t \in {"done", "check", "opening", "writing", "waiting", "aborted"} :
        at' = [at EXCEPT ![c] = t] /\ at[c] # "set" /\ at[c] # "bump"
  BY DEF TierStep, Succeed, Fail, TiersSpent, GateStep, OpenPending, WritePending, PollConfirmed,
         PollDenied, WaitTimesOut, Moves
<1>3. at = [d \in Threads |-> at[d]] /\ requests.up \in Nat
  BY DEF ControlTypeOK
<1>4. Setters' = Setters
  BY <1>2, <1>3 DEF Setters
<1>5. \A d \in Threads : Standing(d)' = Standing(d)
  BY <1>1, <1>2, <1>3 DEF Standing
<1>6. \A d \in Threads : bumps[d] \in Nat /\ Standing(d) \in Nat
  BY DEF ControlTypeOK, Standing
<1> QED BY <1>1, <1>3, <1>4, <1>5, <1>6, NoSetter

LEMMA TokensKept ==
  ASSUME ControlTypeOK, ControlTypeOK', TokenInv, [ControlNext]_controlVars
  PROVE  TokenInv'
<1>1. CASE \E c \in Threads : ThreadStep(c)
  BY <1>1, SignalTokens, WorkTokens DEF ThreadStep
<1>2. CASE PostFailUp
  <2>1. requests'.up = requests.up + 1 /\ requests.up \in Nat
    BY <1>2, RequestTypes DEF ControlTypeOK
  <2>2. UNCHANGED <<at, bumps, env>> /\ (failUp' = failUp \/ upFile' = upFile)
    BY <1>2 DEF PostFailUp, callVars
  <2>3. Setters' = Setters
    BY <2>2 DEF Setters
  <2>4. \A d \in Threads : Standing(d)' <= Standing(d) + 1
    BY <1>2, <2>2 DEF Standing, PostFailUp, ControlTypeOK
  <2>5. \A d \in Threads : bumps[d] \in Nat /\ Standing(d) \in Nat /\ Standing(d)' \in Nat
    BY DEF ControlTypeOK, Standing
  <2> QED BY <2>1, <2>2, <2>3, <2>4, <2>5, NoSetter
<1>3. CASE (\E o \in Operators : OperatorStep(o)) \/ SetFailNow \/ AllEnded \/ UNCHANGED controlVars
  <2>1. UNCHANGED <<failUp, upFile, env, at, bumps>>
    BY <1>3 DEF OperatorStep, ReadPending, OpenDecision, WriteDecision, SetFailNow, AllEnded,
                controlVars, signals, callVars, history
  <2>2. requests'.up = requests.up
    BY <1>3 DEF OperatorStep, ReadPending, OpenDecision, WriteDecision, SetFailNow, AllEnded,
                controlVars, history, ControlTypeOK
  <2>3. Setters' = Setters /\ \A d \in Threads : Standing(d)' = Standing(d)
    BY <2>1 DEF Setters, Standing
  <2>4. \A d \in Threads : bumps[d] \in Nat /\ Standing(d) \in Nat
    BY DEF ControlTypeOK, Standing
  <2>5. requests.up \in Nat
    BY DEF ControlTypeOK
  <2> QED BY <2>1, <2>2, <2>3, <2>4, <2>5, NoSetter
<1> QED BY <1>1, <1>2, <1>3 DEF ControlNext

-----------------------------------------------------------------------------
(* A confirmation in the file of a question that stands was written since. *)
LEMMA CallAnswers ==
  ASSUME ControlTypeOK, AnswerInv, NEW c \in Threads, ThreadStep(c)
  PROVE  AnswerInv'
<1> USE ControlAssumption DEF ControlTypeOK, AnswerInv, Moves, Ended
<1>1. CASE SignalStep(c) \/ TierStep(c) \/ PollConfirmed(c) \/ PollDenied(c) \/ WaitTimesOut(c)
  <2>1. UNCHANGED <<pending, decided>>
    BY <1>1 DEF SignalStep, StartCall, Shoot, ShotAnswers, SeeFile, Unlink, SetFailUp, Look, Bump,
                TierStep, Succeed, Fail, TiersSpent, PollConfirmed, PollDenied, WaitTimesOut, gate
  <2>2. PICK t \in {"shot", "answering", "check", "unlink", "set", "look", "bump", "work",
                 "opening", "done", "aborted"} : at' = [at EXCEPT ![c] = t]
    BY <1>1 DEF SignalStep, StartCall, Shoot, ShotAnswers, SeeFile, Unlink, SetFailUp, Look, Bump,
                TierStep, Succeed, Fail, TiersSpent, PollConfirmed, PollDenied, WaitTimesOut
  <2> QED BY <2>1, <2>2
<1>2. CASE OpenPending(c)
  <2>1. at' = [at EXCEPT ![c] = "writing"] /\ pending' = [pending EXCEPT ![TaskOf[c]] = "torn"]
        /\ decided' = [decided EXCEPT ![c] = {}]
    BY <1>2 DEF OpenPending, Truncated
  <2> QED BY <2>1
<1>3. CASE WritePending(c)
  <2>1. PICK t \in {"undecided", "torn"} : pending' = [pending EXCEPT ![TaskOf[c]] = t]
    BY <1>3 DEF WritePending, Filled, Truncated
  <2>2. at[c] = "writing" /\ at' = [at EXCEPT ![c] = "waiting"] /\ UNCHANGED decided
    BY <1>3 DEF WritePending
  <2> QED BY <2>1, <2>2
<1> QED BY <1>1, <1>2, <1>3 DEF ThreadStep, GateStep

LEMMA OperatorAnswers ==
  ASSUME ControlTypeOK, AnswerInv, NEW o \in Operators, OperatorStep(o)
  PROVE  AnswerInv'
<1> USE ControlAssumption DEF ControlTypeOK, AnswerInv, callVars, gate
<1>1. CASE ReadPending(o) BY <1>1 DEF ReadPending
<1>2. CASE OpenDecision(o) BY <1>2 DEF OpenDecision, Truncated
<1>3. CASE WriteDecision(o)
  <2>1. PICK t \in {op[o].decision, "torn"} : pending' = [pending EXCEPT ![op[o].task] = t]
    BY <1>3 DEF WriteDecision, Filled, Truncated
  <2>2. decided' = [c \in Threads |-> IF TaskOf[c] = op[o].task
                                    THEN decided[c] \cup {op[o].decision} ELSE decided[c]]
    BY <1>3 DEF WriteDecision
  <2>3. UNCHANGED at
    BY <1>3 DEF WriteDecision
  <2> QED BY <2>1, <2>2, <2>3
<1> QED BY <1>1, <1>2, <1>3 DEF OperatorStep

LEMMA AnswersKept ==
  ASSUME ControlTypeOK, AnswerInv, [ControlNext]_controlVars
  PROVE  AnswerInv'
<1>1. CASE SetFailNow \/ PostFailUp \/ AllEnded \/ UNCHANGED controlVars
  BY <1>1 DEF SetFailNow, PostFailUp, AllEnded, controlVars, callVars, gate, AnswerInv
<1> QED BY <1>1, CallAnswers, OperatorAnswers DEF ControlNext

-----------------------------------------------------------------------------
LEMMA InitControlled == ControlInit => ControlInv
<1> SUFFICES ASSUME ControlInit PROVE ControlInv
  OBVIOUS
<1>1. IdleOp \in [step : {"idle", "read", "opened", "done"}, decision : Decisions, task : Tasks]
  BY ControlAssumption DEF IdleOp, Decisions
<1>2. ControlTypeOK
  <2>1. op \in [Operators -> [step : {"idle", "read", "opened", "done"}, decision : Decisions, task : Tasks]]
    BY <1>1 DEF ControlInit
  <2>2. requests \in [now : 0..MaxRequests, up : 0..MaxRequests]
    BY ControlAssumption DEF ControlInit
  <2>3. pending \in [Tasks -> Files] /\ decided \in [Threads -> SUBSET Decisions]
    BY DEF ControlInit, Files
  <2>4. tier \in [Threads -> 1..(NumTiers + 1)] /\ retry \in [Threads -> 0..MaxRetries]
        /\ bumps \in [Threads -> 0..NumTiers]
    BY ControlAssumption DEF ControlInit
  <2>5. at = [c \in Threads |-> "idle"] /\ failNow \in BOOLEAN /\ failUp \in BOOLEAN /\ upFile \in BOOLEAN
        /\ env \subseteq {"now", "up"}
    BY DEF ControlInit
  <2> QED BY <2>1, <2>2, <2>3, <2>4, <2>5 DEF ControlTypeOK
<1>3. TierInv
  BY ControlAssumption DEF TierInv, ControlInit
<1>4. Setters = {}
  BY DEF Setters, ControlInit
<1>5. TokenInv
  BY <1>4, FS_EmptySet DEF TokenInv, ControlInit, Standing
<1>6. AnswerInv
  BY DEF AnswerInv, ControlInit
<1> QED BY <1>2, <1>3, <1>5, <1>6 DEF ControlInv

LEMMA StepControlled == ControlInv /\ [ControlNext]_controlVars => ControlInv'
BY TypesKept, TokensKept, AnswersKept DEF ControlInv

LEMMA ControlInvHolds == ControlSpec => []ControlInv
BY InitControlled, StepControlled, PTL DEF ControlSpec

(* Every variable has its type: no call leaves more tiers than it has, and *)
(* no retry goes past its limit, whatever signals arrive.                  *)
THEOREM ControlTyped == ControlSpec => []ControlTypeOK
<1>1. ControlInv => ControlTypeOK
  BY DEF ControlInv
<1> QED BY <1>1, ControlInvHolds, PTL

(* The tiers a call was moved out of never outnumber the requests, through *)
(* flag, file and whichever threads took the file (fail_now.py:74-90).     *)
THEOREM FailUpsBounded == ControlSpec => []BumpsBounded
<1>1. ControlInv => BumpsBounded
  <2> SUFFICES ASSUME ControlInv, NEW c \in Threads, "up" \notin env PROVE bumps[c] <= requests.up
    BY DEF BumpsBounded
  <2>1. Cardinality(Setters) \in Nat /\ bumps[c] + Standing(c) + Cardinality(Setters) <= requests.up
    BY FS_CardinalityType DEF ControlInv, TokenInv
  <2>2. bumps[c] \in Nat /\ requests.up \in Nat /\ Standing(c) \in Nat
    BY DEF ControlInv, ControlTypeOK, Standing
  <2> QED BY <2>1, <2>2
<1> QED BY <1>1, ControlInvHolds, PTL

(* A call passes the gate only by a confirmation written after it asked,   *)
(* however writes of calls and operators interleave (human_gate.py:27-90). *)
THEOREM GateAsked == ControlSpec => DecisionFollowsQuestion
<1>1. ASSUME ControlInv, [ControlNext]_controlVars
      PROVE  [\A c \in Threads : (at[c] = "waiting" /\ at'[c] = "check") => "confirmed" \in decided[c]]_controlVars
  <2> SUFFICES ASSUME NEW c \in Threads, at[c] = "waiting", at'[c] = "check", ControlNext
               PROVE  "confirmed" \in decided[c]
    BY <1>1 DEF controlVars, callVars
  <2>1. at = [d \in Threads |-> at[d]]
    BY <1>1 DEF ControlInv, ControlTypeOK
  <2>2. \E d \in Threads : ThreadStep(d)
    BY <2>1 DEF ControlNext, OperatorStep, ReadPending, OpenDecision, WriteDecision, SetFailNow, PostFailUp,
                AllEnded, controlVars, callVars
  <2>3. PollConfirmed(c)
    BY <2>1, <2>2 DEF ThreadStep, SignalStep, StartCall, Shoot, ShotAnswers, SeeFile, Unlink, SetFailUp,
                      Look, Bump, TierStep, Succeed, Fail, TiersSpent, GateStep, OpenPending,
                      WritePending, PollConfirmed, PollDenied, WaitTimesOut, Moves
  <2> QED BY <1>1, <2>3 DEF PollConfirmed, ControlInv, AnswerInv
<1> QED BY <1>1, ControlInvHolds, PTL DEF ControlSpec, DecisionFollowsQuestion

-----------------------------------------------------------------------------
(***************************************************************************)
(* Why a call of execute_with_judge returns: its steps count down.  It     *)
(* takes at most eight for a retry, the gate's included, and starts one    *)
(* tier after the other.                                                   *)
(***************************************************************************)
RungSteps == 8 * (MaxRetries + 1)
RungsAhead(c) == (NumTiers + 1 - tier[c]) * RungSteps + 8 * (MaxRetries - retry[c])
PointsAhead(s) ==
  CASE s = "idle" -> 11 [] s = "shot" -> 10 [] s = "answering" -> 9
    [] s = "check" -> 8 [] s = "unlink" -> 7 [] s = "set" -> 6 [] s = "look" -> 5
    [] s = "work" -> 4 [] s = "opening" -> 3 [] s = "writing" -> 2 [] OTHER -> 1
ThreadLeft(c) == IF at[c] \in Ended THEN 0 ELSE RungsAhead(c) + PointsAhead(at[c])

LEMMA RungsCounted ==
  ASSUME ControlTypeOK, NEW c \in Threads
  PROVE  /\ RungsAhead(c) \in 0..(NumTiers * RungSteps + 8 * MaxRetries)
         /\ ThreadLeft(c) \in 0..((NumTiers + 1) * RungSteps + 3)
<1>0. /\ NumTiers \in Nat /\ MaxRetries \in Nat /\ RungSteps \in Nat
      /\ tier[c] \in 1..(NumTiers + 1) /\ retry[c] \in 0..MaxRetries
  BY ControlAssumption DEF ControlTypeOK, RungSteps
<1>1. PICK n \in 0..NumTiers, d \in Nat : n = NumTiers + 1 - tier[c] /\ NumTiers = n + d
  <2>1. NumTiers + 1 - tier[c] \in 0..NumTiers /\ tier[c] - 1 \in Nat
        /\ NumTiers = (NumTiers + 1 - tier[c]) + (tier[c] - 1)
    BY <1>0
  <2> QED BY <2>1
<1>2. NumTiers * RungSteps = n * RungSteps + d * RungSteps /\ n * RungSteps \in Nat /\ d * RungSteps \in Nat
  BY <1>0, <1>1
<1>3. RungsAhead(c) = n * RungSteps + 8 * (MaxRetries - retry[c])
  BY <1>1 DEF RungsAhead
<1>4. RungsAhead(c) \in 0..(NumTiers * RungSteps + 8 * MaxRetries)
  BY <1>0, <1>2, <1>3
<1>5. (NumTiers + 1) * RungSteps = NumTiers * RungSteps + RungSteps /\ NumTiers * RungSteps \in Nat
  BY <1>0
<1>6. RungSteps = 8 * MaxRetries + 8 /\ PointsAhead(at[c]) \in 0..11
  BY <1>0 DEF RungSteps, PointsAhead
<1> QED BY <1>0, <1>4, <1>5, <1>6 DEF ThreadLeft

\* In the next tier a call stands lower, wherever it was in this one.
LEMMA NextRung ==
  ASSUME ControlTypeOK, NEW c \in Threads, NextTier(c), at'[c] = "check", at[c] \notin Ended
  PROVE  ThreadLeft(c)' < ThreadLeft(c)
<1>0. /\ NumTiers \in Nat /\ MaxRetries \in Nat /\ RungSteps \in Nat /\ RungSteps = 8 * MaxRetries + 8
      /\ tier[c] \in 1..(NumTiers + 1) /\ retry[c] \in 0..MaxRetries
  BY ControlAssumption DEF ControlTypeOK, RungSteps
<1>1. tier'[c] = tier[c] + 1 /\ retry'[c] = 0
  BY DEF NextTier, ControlTypeOK
<1>2. PICK n \in Nat : n = NumTiers + 1 - tier[c] /\ n * RungSteps \in Nat
  BY <1>0
<1>3. NumTiers + 1 - tier'[c] = n - 1 /\ (n - 1) * RungSteps = n * RungSteps - RungSteps
  BY <1>0, <1>1, <1>2
<1>4. RungsAhead(c)' = n * RungSteps - RungSteps + 8 * MaxRetries
  BY <1>0, <1>1, <1>3 DEF RungsAhead
<1>5. RungsAhead(c) = n * RungSteps + 8 * (MaxRetries - retry[c])
  BY <1>2 DEF RungsAhead
<1>6. ThreadLeft(c)' = RungsAhead(c)' + 8
  BY DEF ThreadLeft, PointsAhead, Ended
<1>7. ThreadLeft(c) = RungsAhead(c) + PointsAhead(at[c]) /\ PointsAhead(at[c]) \in 1..11
  BY DEF ThreadLeft, PointsAhead
<1> QED BY <1>0, <1>2, <1>4, <1>5, <1>6, <1>7

LEMMA ThreadCounts ==
  ASSUME ControlTypeOK, NEW c \in Threads, ThreadStep(c)
  PROVE  ThreadLeft(c)' < ThreadLeft(c)
<1>0. at = [d \in Threads |-> at[d]] /\ retry \in [Threads -> 0..MaxRetries]
      /\ MaxRetries \in Nat /\ MaxRetries >= 1
  BY ControlAssumption DEF ControlTypeOK
<1>1. PICK n \in Nat : n = RungsAhead(c)
  BY RungsCounted
<1>2. CASE PollConfirmed(c) \/ Bump(c)
  <2>1. NextTier(c) /\ at[c] \in {"waiting", "bump"} /\ at'[c] = "check"
    BY <1>0, <1>2 DEF PollConfirmed, Bump, Moves
  <2> QED BY <2>1, NextRung DEF Ended
<1>3. CASE Fail(c)
  <2>1. CASE retry[c] < MaxRetries
    <3>1. at[c] = "work" /\ at'[c] = "check" /\ tier' = tier /\ retry'[c] = retry[c] + 1
      BY <1>0, <1>3, <2>1 DEF Fail
    <3>2. RungsAhead(c)' = n - 8
      <4>1. PICK m \in Int : m = (NumTiers + 1 - tier[c]) * RungSteps
        BY ControlAssumption DEF ControlTypeOK, RungSteps
      <4>2. RungsAhead(c)' = m + 8 * (MaxRetries - (retry[c] + 1)) /\ n = m + 8 * (MaxRetries - retry[c])
        BY <1>1, <3>1, <4>1 DEF RungsAhead
      <4> QED BY <1>0, <4>1, <4>2
    <3> QED BY <1>1, <3>1, <3>2 DEF ThreadLeft, PointsAhead, Ended
  <2>2. CASE ~(retry[c] < MaxRetries) /\ tier[c] \in WaitTiers
    <3>1. at[c] = "work" /\ at'[c] = "opening" /\ UNCHANGED <<tier, retry>>
      BY <1>0, <1>3, <2>2 DEF Fail
    <3>2. RungsAhead(c)' = n
      BY <1>1, <3>1 DEF RungsAhead
    <3> QED BY <1>1, <3>1, <3>2 DEF ThreadLeft, PointsAhead, Ended
  <2>3. CASE ~(retry[c] < MaxRetries) /\ tier[c] \notin WaitTiers
    <3>1. NextTier(c) /\ at[c] = "work" /\ at'[c] = "check"
      BY <1>0, <1>3, <2>3 DEF Fail
    <3> QED BY <3>1, NextRung DEF Ended
  <2> QED BY <2>1, <2>2, <2>3
<1>4. CASE Look(c) /\ ~FailUpActive /\ retry[c] = 0
  <2>1. at[c] = "look" /\ at'[c] = "check" /\ tier' = tier /\ retry'[c] = 1
    BY <1>0, <1>4 DEF Look, Moves
  <2>2. PICK m \in Int : m = (NumTiers + 1 - tier[c]) * RungSteps
    BY ControlAssumption DEF ControlTypeOK, RungSteps
  <2>3. RungsAhead(c)' = m + 8 * (MaxRetries - 1) /\ n = m + 8 * (MaxRetries - 0)
    BY <1>1, <1>4, <2>1, <2>2 DEF RungsAhead
  <2>4. RungsAhead(c)' = n - 8
    BY <1>0, <2>2, <2>3
  <2> QED BY <1>1, <2>1, <2>4 DEF ThreadLeft, PointsAhead, Ended
<1>5. CASE \/ StartCall(c) \/ Shoot(c) \/ ShotAnswers(c) \/ SeeFile(c) \/ Unlink(c) \/ SetFailUp(c)
           \/ (Look(c) /\ ~(~FailUpActive /\ retry[c] = 0)) \/ Succeed(c) \/ TiersSpent(c)
           \/ OpenPending(c) \/ WritePending(c) \/ PollDenied(c) \/ WaitTimesOut(c)
  <2>1. tier' = tier /\ retry'[c] = retry[c]
    BY <1>0, <1>5 DEF StartCall, Shoot, ShotAnswers, SeeFile, Unlink, SetFailUp, Look, Succeed,
                      TiersSpent, OpenPending, WritePending, PollDenied, WaitTimesOut
  <2>2. RungsAhead(c)' = n
    BY <1>1, <2>1 DEF RungsAhead
  <2>3. \/ at[c] = "idle" /\ at'[c] \in {"shot", "check"}
        \/ at[c] = "shot" /\ at'[c] = "answering"
        \/ at[c] = "answering" /\ at'[c] \in {"done", "check"}
        \/ at[c] = "check" /\ at'[c] \in {"unlink", "look", "done"}
        \/ at[c] = "unlink" /\ at'[c] \in {"set", "look"}
        \/ at[c] = "set" /\ at'[c] = "look"
        \/ at[c] = "look" /\ at'[c] \in {"bump", "work"}
        \/ at[c] = "work" /\ at'[c] = "done"
        \/ at[c] = "opening" /\ at'[c] = "writing"
        \/ at[c] = "writing" /\ at'[c] = "waiting"
        \/ at[c] = "waiting" /\ at'[c] = "aborted"
    BY <1>0, <1>5 DEF StartCall, Shoot, ShotAnswers, SeeFile, Unlink, SetFailUp, Look, Succeed,
                      TiersSpent, OpenPending, WritePending, PollDenied, WaitTimesOut, Moves
  <2> QED BY <1>1, <2>2, <2>3 DEF ThreadLeft, PointsAhead, Ended
<1> QED BY <1>2, <1>3, <1>4, <1>5 DEF ThreadStep, SignalStep, TierStep, GateStep

LEMMA ThreadsApart ==
  ASSUME ControlTypeOK, NEW d \in Threads, NEW c \in Threads \ {d}, ThreadStep(d)
  PROVE  ThreadLeft(c)' = ThreadLeft(c)
<1>0. /\ at = [e \in Threads |-> at[e]] /\ tier = [e \in Threads |-> tier[e]]
      /\ retry = [e \in Threads |-> retry[e]]
  BY DEF ControlTypeOK
<1>1. at'[c] = at[c] /\ tier'[c] = tier[c] /\ retry'[c] = retry[c]
  BY <1>0 DEF ThreadStep, SignalStep, StartCall, Shoot, ShotAnswers, SeeFile, Unlink, SetFailUp, Look,
              Bump, TierStep, Succeed, Fail, TiersSpent, GateStep, OpenPending, WritePending,
              PollConfirmed, PollDenied, WaitTimesOut, NextTier, Moves
<1> QED BY <1>1 DEF ThreadLeft, RungsAhead

(* However signals, files and decisions arrive, each step of a call brings *)
(* its return nearer, and neither a request, an operator nor another call  *)
(* sets it back (orchestrator.py:2068-2905, fail_now.py:74-90,             *)
(* human_gate.py:27-79): a call takes no more steps than its tiers and     *)
(* retries allow.                                                          *)
ThreadsAdvance ==
  [][\A c \in Threads : /\ ThreadStep(c) => ThreadLeft(c)' < ThreadLeft(c)
                        /\ ~ThreadStep(c) => ThreadLeft(c)' = ThreadLeft(c)]_controlVars
ThreadsAreCounted == \A c \in Threads : ThreadLeft(c) \in 0..((NumTiers + 1) * RungSteps + 3)
THEOREM ThreadsCountDown == ControlSpec => ThreadsAdvance /\ []ThreadsAreCounted
<1> DEFINE Advance == \A c \in Threads : /\ ThreadStep(c) => ThreadLeft(c)' < ThreadLeft(c)
                                         /\ ~ThreadStep(c) => ThreadLeft(c)' = ThreadLeft(c)
<1>1. ASSUME ControlTypeOK, ControlNext, NEW c \in Threads, ~ThreadStep(c)
      PROVE  ThreadLeft(c)' = ThreadLeft(c)
  <2>1. CASE \E d \in Threads : ThreadStep(d)
    BY <1>1, <2>1, ThreadsApart
  <2>2. CASE (\E o \in Operators : OperatorStep(o)) \/ SetFailNow \/ PostFailUp \/ AllEnded
    <3>1. UNCHANGED <<at, tier, retry>>
      BY <2>2 DEF OperatorStep, ReadPending, OpenDecision, WriteDecision, SetFailNow, PostFailUp, AllEnded,
                  controlVars, callVars
    <3> QED BY <3>1 DEF ThreadLeft, RungsAhead
  <2> QED BY <1>1, <2>1, <2>2 DEF ControlNext
<1>2. ControlTypeOK /\ [ControlNext]_controlVars => [Advance]_controlVars
  BY <1>1, ThreadCounts
<1>3. ControlTypeOK => ThreadsAreCounted
  BY RungsCounted DEF ThreadsAreCounted
<1> QED BY <1>2, <1>3, ControlTyped, PTL DEF ControlSpec, ThreadsAdvance
=============================================================================
