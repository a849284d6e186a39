-------------------------- MODULE WorkerPoolProofs --------------------------
(***************************************************************************)
(* Theorems about WorkerPool, for any gate size, any finite set of tasks   *)
(* however they are batched and named, and any number of shutdowns.        *)
(***************************************************************************)
EXTENDS WorkerPool, FiniteSetTheorems, TLAPS

Futures == {"none", "pending", "ended", "rejected", "cancelled"}
Closings == {"idle", "draining", "refilling", "stopping", "joining", "returned"}

(* The type invariant with the semaphore only known to be a number: that   *)
(* it stays within its size follows from the conservation of slots.        *)
Types ==
  /\ sent \in [Dispatchers -> Nat]
  /\ sender \in [Dispatchers -> {"submit", "register", "returned", "raised"}]
  /\ queue \in Seq(Tasks)
  /\ stage \in [Tasks -> Stages]
  /\ future \in [Tasks -> Futures]
  /\ slots \in Nat /\ closed \in BOOLEAN /\ stopped \in BOOLEAN
  /\ closer \in [Closers -> Closings]
  /\ permits \in [Closers -> 0..Max]
  /\ running \in [Ids -> Tasks \cup {NoTask}]
  /\ completed \subseteq Ids

-----------------------------------------------------------------------------
(* Cardinalities.                                                          *)

LEMMA MaxNat == Max \in Nat /\ Max > 0
BY PoolAssumption

(* The holders and the permits are finite sets.                            *)
LEMMA FiniteParts ==
  /\ IsFiniteSet(Holders) /\ Cardinality(Holders) \in Nat
  /\ IsFiniteSet(Permits) /\ Cardinality(Permits) \in Nat
<1>1. IsFiniteSet(Holders)
  <2>1. Holders \in SUBSET Tasks
    BY DEF Holders
  <2> QED BY <2>1, FS_Subset, PoolAssumption
<1>2. IsFiniteSet(Permits)
  <2>1. IsFiniteSet(1..Max)
    BY FS_Interval, MaxNat
  <2>2. IsFiniteSet(Closers \X (1..Max))
    BY <2>1, FS_Product, PoolAssumption
  <2>3. Permits \in SUBSET (Closers \X (1..Max))
    BY DEF Permits
  <2> QED BY <2>2, <2>3, FS_Subset
<1> QED BY <1>1, <1>2, FS_CardinalityType

(* The sum of the conserved quantity does not change if neither set does.  *)
LEMMA SameParts ==
  ASSUME SlotsConserved, slots' = slots, Holders' = Holders, Permits' = Permits
  PROVE  SlotsConserved'
BY DEF SlotsConserved

(* A task that changes stages outside the slot leaves the holders alone.   *)
LEMMA HoldersKept ==
  ASSUME stage \in [Tasks -> Stages], NEW t \in Tasks, NEW s \in Stages, Goto(t, s),
         stage[t] \in {"working", "releasing"} <=> s \in {"working", "releasing"}
  PROVE  Holders' = Holders
BY DEF Holders, Goto

(* A task that acquires a slot joins the holders.                          *)
LEMMA HoldersGrow ==
  ASSUME stage \in [Tasks -> Stages], NEW t \in Tasks, Goto(t, "working"),
         stage[t] = "acquiring"
  PROVE  Cardinality(Holders') = Cardinality(Holders) + 1
<1>1. t \notin Holders
  BY DEF Holders
<1>2. Holders' = Holders \cup {t}
  BY DEF Holders, Goto
<1> QED BY <1>1, <1>2, FiniteParts, FS_AddElement

(* A task that releases its slot leaves the holders.                       *)
LEMMA HoldersShrink ==
  ASSUME stage \in [Tasks -> Stages], NEW t \in Tasks, Goto(t, "leaving"),
         stage[t] = "releasing"
  PROVE  /\ Cardinality(Holders) >= 1
         /\ Cardinality(Holders') = Cardinality(Holders) - 1
<1>1. t \in Holders
  BY DEF Holders
<1>2. Holders' = Holders \ {t}
  BY DEF Holders, Goto
<1>3. Cardinality(Holders') = Cardinality(Holders) - 1
  BY <1>1, <1>2, FiniteParts, FS_RemoveElement
<1>4. Cardinality(Holders) # 0
  BY <1>1, FiniteParts, FS_EmptySet
<1> QED BY <1>3, <1>4, FiniteParts

(* Draining one slot adds one permit.                                      *)
LEMMA PermitsGrow ==
  ASSUME permits \in [Closers -> 0..Max], NEW c \in Closers, permits[c] < Max,
         permits' = [permits EXCEPT ![c] = @ + 1]
  PROVE  Cardinality(Permits') = Cardinality(Permits) + 1
<1> DEFINE n == permits[c] + 1
<1>1. n \in 1..Max /\ permits[c] \in 0..Max
  BY MaxNat
<1>2. <<c, n>> \notin Permits
  BY <1>1 DEF Permits
<1>3. Permits' = Permits \cup {<<c, n>>}
  <2>1. ASSUME NEW d \in Closers, NEW i \in 1..Max
        PROVE  i <= permits'[d] <=> i <= permits[d] \/ (d = c /\ i = n)
    BY <1>1, <2>1, MaxNat
  <2>2. Permits' = {p \in Closers \X (1..Max) : p[2] <= permits'[p[1]]}
    BY DEF Permits
  <2> HIDE DEF n
  <2>3. \A p \in Closers \X (1..Max) :
          p[2] <= permits'[p[1]] <=> p[2] <= permits[p[1]] \/ p = <<c, n>>
    BY <2>1
  <2>4. <<c, n>> \in Closers \X (1..Max)
    BY <1>1
  <2> QED BY <2>2, <2>3, <2>4 DEF Permits
<1> HIDE DEF n
<1> QED BY <1>2, <1>3, FiniteParts, FS_AddElement

(* Giving one slot back removes one permit.                                *)
LEMMA PermitsShrink ==
  ASSUME permits \in [Closers -> 0..Max], NEW c \in Closers, permits[c] > 0,
         permits' = [permits EXCEPT ![c] = @ - 1]
  PROVE  /\ Cardinality(Permits) >= 1
         /\ Cardinality(Permits') = Cardinality(Permits) - 1
<1> DEFINE n == permits[c]
<1>1. n \in 1..Max
  BY MaxNat
<1>2. <<c, n>> \in Permits
  BY <1>1 DEF Permits
<1>3. Permits' = Permits \ {<<c, n>>}
  <2>1. ASSUME NEW d \in Closers, NEW i \in 1..Max
        PROVE  i <= permits'[d] <=> i <= permits[d] /\ ~(d = c /\ i = n)
    BY <1>1, <2>1, MaxNat
  <2>2. Permits' = {p \in Closers \X (1..Max) : p[2] <= permits'[p[1]]}
    BY DEF Permits
  <2> HIDE DEF n
  <2>3. \A p \in Closers \X (1..Max) :
          p[2] <= permits'[p[1]] <=> p[2] <= permits[p[1]] /\ p # <<c, n>>
    BY <2>1
  <2> QED BY <2>2, <2>3 DEF Permits
<1> HIDE DEF n
<1>4. Cardinality(Permits') = Cardinality(Permits) - 1
  BY <1>2, <1>3, FiniteParts, FS_RemoveElement
<1>5. Cardinality(Permits) # 0
  BY <1>2, FiniteParts, FS_EmptySet
<1> QED BY <1>4, <1>5, FiniteParts

-----------------------------------------------------------------------------
(* Types.                                                                  *)

(* A dispatcher's next task is one of the tasks.                           *)
LEMMA NextOfBatch ==
  ASSUME Types, NEW d \in Dispatchers, sent[d] < Len(Batch[d])
  PROVE  Batch[d][sent[d] + 1] \in Tasks
<1>1. Batch[d] \in Seq(Tasks) /\ sent[d] \in Nat
  BY PoolAssumption DEF Types
<1>2. sent[d] + 1 \in 1..Len(Batch[d])
  BY <1>1
<1> QED BY <1>1, <1>2

(* Dispatching keeps the types, given that a registered task is one.       *)
LEMMA DispatchTypes ==
  ASSUME Types, NEW d \in Dispatchers, DispatchStep(d),
         sender[d] = "register" => sent[d] < Len(Batch[d])
  PROVE  Types'
<1>1. CASE Submit(d)
  <2> DEFINE t == Batch[d][sent[d] + 1]
  <2>1. t \in Tasks
    BY <1>1, NextOfBatch DEF Submit
  <2>2. /\ queue' = Append(queue, t) /\ stage' = [stage EXCEPT ![t] = "queued"]
        /\ future' = [future EXCEPT ![t] = "pending"]
    BY <1>1 DEF Submit
  <2> HIDE DEF t
  <2>3. queue' \in Seq(Tasks) /\ stage' \in [Tasks -> Stages] /\ future' \in [Tasks -> Futures]
    BY <2>1, <2>2 DEF Types, Stages, Futures
  <2> QED BY <1>1, <2>3 DEF Submit, Types, gateVars, closeVars, statusVars
<1>2. CASE Register(d)
  <2> DEFINE t == Batch[d][sent[d] + 1]
  <2>1. t \in Tasks
    BY <1>2, NextOfBatch DEF Register
  <2>2. running' = [running EXCEPT ![IdOf[t]] = t]
    BY <1>2 DEF Register
  <2> HIDE DEF t
  <2>3. running' \in [Ids -> Tasks \cup {NoTask}]
    BY <2>1, <2>2 DEF Types
  <2> QED BY <1>2, <2>3 DEF Register, Types, gateVars, closeVars
<1>3. CASE SubmitRaises(d)
  BY <1>3 DEF SubmitRaises, Types, gateVars, closeVars, statusVars
<1>4. CASE ReturnFutures(d)
  BY <1>4 DEF ReturnFutures, Types, gateVars, closeVars, statusVars
<1> QED BY <1>1, <1>2, <1>3, <1>4 DEF DispatchStep

(* So do the worker threads and cancellations.                             *)
LEMMA TaskTypes ==
  ASSUME Types, NEW t \in Tasks, TaskStep(t) \/ Cancel(t)
  PROVE  Types'
<1>1. ASSUME NEW s \in Stages, Goto(t, s) PROVE stage' \in [Tasks -> Stages]
  BY <1>1 DEF Types, Goto
<1>2. ASSUME NEW r \in Futures, Resolve(t, r) PROVE future' \in [Tasks -> Futures]
  BY <1>2 DEF Types, Resolve
<1>3. {"acquiring", "working", "releasing", "leaving", "done"} \subseteq Stages
      /\ {"rejected", "ended", "cancelled"} \subseteq Futures
  BY DEF Stages, Futures
<1>4. CASE GateOpen(t)
  BY <1>1, <1>3, <1>4 DEF GateOpen, Types, sendVars, gateVars, closeVars, statusVars
<1>5. CASE RejectedClosed(t)
  BY <1>1, <1>2, <1>3, <1>5 DEF RejectedClosed, Types, sendVars, gateVars, closeVars, statusVars
<1>6. CASE Acquire(t)
  BY <1>1, <1>3, <1>6 DEF Acquire, Types, sendVars, closeVars, statusVars
<1>7. CASE RejectedTimeout(t)
  BY <1>1, <1>2, <1>3, <1>7 DEF RejectedTimeout, Types, sendVars, gateVars, closeVars, statusVars
<1>8. CASE Work(t)
  BY <1>1, <1>2, <1>3, <1>8 DEF Work, Types, sendVars, gateVars, closeVars, statusVars
<1>9. CASE Release(t)
  BY <1>1, <1>3, <1>9 DEF Release, Types, sendVars, closeVars, statusVars
<1>10. CASE Leave(t)
  <2>1. IdOf[t] \in Ids
    BY PoolAssumption
  <2>2. running' \in [Ids -> Tasks \cup {NoTask}] /\ completed' \subseteq Ids
    BY <1>10, <2>1 DEF Leave, Types
  <2> QED BY <1>1, <1>3, <1>10, <2>2 DEF Leave, Types, sendVars, gateVars, closeVars
<1>11. CASE Cancel(t)
  <2>1. future' \in [Tasks -> Futures]
    BY <1>11, <1>3 DEF Cancel, Types
  <2> QED BY <1>11, <2>1 DEF Cancel, Types, sendVars, gateVars, closeVars, statusVars
<1> QED BY <1>4, <1>5, <1>6, <1>7, <1>8, <1>9, <1>10, <1>11 DEF TaskStep

(* So does taking a task from the queue.                                   *)
LEMMA StartTypes ==
  ASSUME Types, Start
  PROVE  Types' /\ Head(queue) \in Tasks
<1>1. Head(queue) \in Tasks /\ Tail(queue) \in Seq(Tasks)
  BY DEF Start, Types
<1>2. stage' \in [Tasks -> Stages]
  BY <1>1 DEF Start, Goto, Types, Stages
<1> QED BY <1>1, <1>2 DEF Start, Types, sendVars, gateVars, closeVars, statusVars

(* So does shutting the pool down.                                         *)
LEMMA CloseTypes ==
  ASSUME Types, NEW c \in Closers, CloseGate(c) \/ CloseStep(c)
  PROVE  Types'
<1> USE MaxNat DEF Closings
<1>1. CASE CloseGate(c)
  BY <1>1 DEF CloseGate, Types, sendVars, statusVars
<1>2. CASE DrainOne(c)
  BY <1>2 DEF DrainOne, Types, sendVars, statusVars
<1>3. CASE Drained(c)
  BY <1>3 DEF Drained, Types, sendVars, gateVars, statusVars
<1>4. CASE RefillOne(c)
  BY <1>4 DEF RefillOne, Types, sendVars, statusVars
<1>5. CASE Refilled(c)
  BY <1>5 DEF Refilled, Types, sendVars, gateVars, statusVars
<1>6. CASE StopExecutor(c)
  BY <1>6 DEF StopExecutor, Types, sendVars, gateVars, statusVars
<1>7. CASE JoinWorkers(c)
  BY <1>7 DEF JoinWorkers, Types, sendVars, gateVars, statusVars
<1> QED BY <1>1, <1>2, <1>3, <1>4, <1>5, <1>6, <1>7 DEF CloseStep, DrainStep

(* A dispatcher that is about to register a task has one to register.      *)
Registrable == \A d \in Dispatchers : sender[d] = "register" => sent[d] < Len(Batch[d])

TypesInv == Types /\ Registrable

(* A dispatcher registers the task it has just submitted.                  *)
LEMMA RegistrableStep ==
  ASSUME Types, Registrable, NEW d \in Dispatchers, DispatchStep(d)
  PROVE  Registrable'
BY DEF Types, Registrable, DispatchStep, Submit, SubmitRaises, Register, ReturnFutures

(* Every step keeps the types.                                             *)
LEMMA TypesStep == TypesInv /\ [Next]_vars => TypesInv'
<1> SUFFICES ASSUME TypesInv, [Next]_vars PROVE TypesInv'
  OBVIOUS
<1>0. Types /\ Registrable
  BY DEF TypesInv
<1>1. UNCHANGED sendVars => Registrable'
  BY <1>0 DEF sendVars, Registrable
<1>2. ASSUME NEW d \in Dispatchers, DispatchStep(d) PROVE TypesInv'
  BY <1>0, <1>2, DispatchTypes, RegistrableStep DEF TypesInv, Registrable
<1>3. ASSUME NEW t \in Tasks, TaskStep(t) \/ Cancel(t) PROVE TypesInv'
  <2>1. UNCHANGED sendVars
    BY <1>3 DEF TaskStep, GateOpen, RejectedClosed, Acquire, RejectedTimeout, Work, Release, Leave, Cancel
  <2> QED BY <1>0, <1>1, <1>3, <2>1, TaskTypes DEF TypesInv
<1>4. CASE Start
  BY <1>0, <1>1, <1>4, StartTypes DEF TypesInv, Start
<1>5. ASSUME NEW c \in Closers, CloseGate(c) \/ CloseStep(c) PROVE TypesInv'
  <2>1. UNCHANGED sendVars
    BY <1>5 DEF CloseGate, CloseStep, DrainStep, DrainOne, Drained, RefillOne, Refilled, StopExecutor, JoinWorkers
  <2> QED BY <1>0, <1>1, <1>5, <2>1, CloseTypes DEF TypesInv
<1>6. CASE UNCHANGED vars
  BY <1>0, <1>6 DEF TypesInv, Types, Registrable, vars, sendVars, gateVars, closeVars, statusVars
<1> QED BY <1>2, <1>3, <1>4, <1>5, <1>6 DEF Next, Rest

-----------------------------------------------------------------------------
(* Conservation of slots.                                                  *)

LEMMA SlotsTaskStep ==
  ASSUME Types, SlotsConserved, NEW t \in Tasks, TaskStep(t) \/ Cancel(t)
  PROVE  SlotsConserved'
<1>0. /\ stage \in [Tasks -> Stages] /\ slots \in Nat /\ Max \in Nat
      /\ Cardinality(Holders) \in Nat /\ Cardinality(Permits) \in Nat
      /\ slots + Cardinality(Holders) + Cardinality(Permits) = Max
  BY FiniteParts, MaxNat DEF Types, SlotsConserved
<1>1. UNCHANGED permits /\ Permits' = Permits
  <2>1. UNCHANGED permits
    BY DEF TaskStep, GateOpen, RejectedClosed, Acquire, RejectedTimeout, Work, Release, Leave, Cancel, closeVars
  <2> QED BY <2>1 DEF Permits
<1>2. CASE Acquire(t)
  <2>1. Cardinality(Holders') = Cardinality(Holders) + 1 /\ slots' = slots - 1
    BY <1>0, <1>2, HoldersGrow DEF Acquire
  <2> QED BY <1>0, <1>1, <2>1 DEF SlotsConserved
<1>3. CASE Release(t)
  <2>1. Cardinality(Holders') = Cardinality(Holders) - 1 /\ slots' = slots + 1
    BY <1>0, <1>3, HoldersShrink DEF Release
  <2> QED BY <1>0, <1>1, <2>1 DEF SlotsConserved
<1>4. ASSUME NEW s \in Stages, Goto(t, s), UNCHANGED slots,
             stage[t] \in {"working", "releasing"} <=> s \in {"working", "releasing"}
      PROVE  SlotsConserved'
  BY <1>0, <1>1, <1>4, HoldersKept, SameParts
<1>5. CASE GateOpen(t)
  BY <1>4, <1>5 DEF GateOpen, gateVars, Stages
<1>6. CASE RejectedClosed(t)
  BY <1>4, <1>6 DEF RejectedClosed, gateVars, Stages
<1>7. CASE RejectedTimeout(t)
  BY <1>4, <1>7 DEF RejectedTimeout, gateVars, Stages
<1>8. CASE Work(t)
  BY <1>4, <1>8 DEF Work, gateVars, Stages
<1>9. CASE Leave(t)
  BY <1>4, <1>9 DEF Leave, gateVars, Stages
<1>10. CASE Cancel(t)
  <2>1. Holders' = Holders /\ slots' = slots
    BY <1>10 DEF Cancel, Holders, gateVars
  <2> QED BY <1>1, <2>1, SameParts
<1> QED BY <1>2, <1>3, <1>5, <1>6, <1>7, <1>8, <1>9, <1>10 DEF TaskStep

(* A shutdown takes and gives back slots without making or losing any.     *)
LEMMA SlotsCloseStep ==
  ASSUME Types, SlotsConserved, NEW c \in Closers, CloseGate(c) \/ CloseStep(c)
  PROVE  SlotsConserved'
<1>0. /\ permits \in [Closers -> 0..Max] /\ slots \in Nat /\ Max \in Nat
      /\ Cardinality(Holders) \in Nat /\ Cardinality(Permits) \in Nat
      /\ slots + Cardinality(Holders) + Cardinality(Permits) = Max
  BY FiniteParts, MaxNat DEF Types, SlotsConserved
<1>1. UNCHANGED stage /\ Holders' = Holders
  <2>1. UNCHANGED stage
    BY DEF CloseGate, CloseStep, DrainStep, DrainOne, Drained, RefillOne, Refilled, StopExecutor, JoinWorkers
  <2> QED BY <2>1 DEF Holders
<1>2. CASE DrainOne(c)
  <2>1. Cardinality(Permits') = Cardinality(Permits) + 1 /\ slots' = slots - 1
    BY <1>0, <1>2, PermitsGrow DEF DrainOne
  <2> QED BY <1>0, <1>1, <2>1 DEF SlotsConserved
<1>3. CASE RefillOne(c)
  <2>1. Cardinality(Permits') = Cardinality(Permits) - 1 /\ slots' = slots + 1
    BY <1>0, <1>3, PermitsShrink DEF RefillOne
  <2> QED BY <1>0, <1>1, <2>1 DEF SlotsConserved
<1>4. CASE UNCHANGED <<permits, slots>>
  BY <1>1, <1>4, SameParts DEF Permits
<1>5. ~DrainOne(c) /\ ~RefillOne(c) => UNCHANGED <<permits, slots>>
  BY DEF CloseGate, CloseStep, DrainStep, Drained, Refilled, StopExecutor, JoinWorkers, gateVars
<1> QED BY <1>2, <1>3, <1>4, <1>5

-----------------------------------------------------------------------------
(* What is queued.  A task a dispatcher has yet to submit is new, and the  *)
(* queue holds exactly the queued tasks, each once: so no task is run      *)
(* twice, and a submitted task starts from outside the gate.               *)

Reached(d) == IF sender[d] = "register" THEN sent[d] + 1 ELSE sent[d]
Unsent ==
  \A d \in Dispatchers : \A i \in 1..Len(Batch[d]) :
    i > Reached(d) => stage[Batch[d][i]] = "new"
QueueIsQueued ==
  /\ \A i \in 1..Len(queue) : stage[queue[i]] = "queued"
  /\ \A i, j \in 1..Len(queue) : queue[i] = queue[j] => i = j
  /\ \A t \in Tasks : stage[t] = "queued" => \E i \in 1..Len(queue) : queue[i] = t
QueueInv == Unsent /\ QueueIsQueued

(* A new task joins the queue.                                             *)
LEMMA SubmitQueue ==
  ASSUME TypesInv, QueueInv, NEW d \in Dispatchers, Submit(d)
  PROVE  QueueInv' /\ stage[Batch[d][sent[d] + 1]] = "new"
<1> DEFINE t == Batch[d][sent[d] + 1]
<1>0. Types /\ Registrable /\ Unsent /\ QueueIsQueued
  BY DEF TypesInv, QueueInv
<1>1. /\ t \in Tasks /\ sent \in [Dispatchers -> Nat] /\ sender[d] = "submit"
      /\ sent[d] < Len(Batch[d])
      /\ queue \in Seq(Tasks) /\ stage \in [Tasks -> Stages] /\ Batch[d] \in Seq(Tasks)
  BY <1>0, NextOfBatch, PoolAssumption DEF Submit, Types
<1>2. /\ queue' = Append(queue, t) /\ stage' = [stage EXCEPT ![t] = "queued"]
      /\ sent' = sent /\ sender' = [sender EXCEPT ![d] = "register"]
  BY DEF Submit
<1>3. sent[d] + 1 \in 1..Len(Batch[d]) /\ sent[d] + 1 > Reached(d)
  BY <1>1 DEF Reached
<1>4. stage[t] = "new"
  BY <1>0, <1>3 DEF Unsent
<1>5. QueueIsQueued'
  <2> HIDE DEF t
  <2>1. /\ \A i \in 1..Len(queue) : queue[i] # t
        /\ \A i \in 1..Len(queue) : queue'[i] = queue[i]
        /\ Len(queue') = Len(queue) + 1 /\ queue'[Len(queue')] = t /\ Len(queue) \in Nat
    BY <1>0, <1>1, <1>2, <1>4 DEF QueueIsQueued
  <2>2. \A i \in 1..Len(queue') : i \in 1..Len(queue) \/ i = Len(queue')
    BY <2>1
  <2>3. \A i \in 1..Len(queue) : queue[i] \in Tasks
    BY <1>1
  <2>4. \A i \in 1..Len(queue') : stage'[queue'[i]] = "queued"
    BY <1>0, <1>1, <1>2, <2>1, <2>2, <2>3 DEF QueueIsQueued
  <2>5. \A i, j \in 1..Len(queue') : queue'[i] = queue'[j] => i = j
    BY <1>0, <2>1, <2>2 DEF QueueIsQueued
  <2>6. ASSUME NEW u \in Tasks, stage'[u] = "queued"
        PROVE  \E i \in 1..Len(queue') : queue'[i] = u
    <3>1. CASE u = t
      BY <2>1, <3>1
    <3>2. CASE u # t
      <4>1. stage[u] = "queued"
        BY <1>1, <1>2, <2>6, <3>2
      <4>2. PICK i \in 1..Len(queue) : queue[i] = u
        BY <1>0, <4>1 DEF QueueIsQueued
      <4> QED BY <2>1, <4>2
    <3> QED BY <3>1, <3>2
  <2> QED BY <2>4, <2>5, <2>6 DEF QueueIsQueued
<1>6. Unsent'
  <2>1. ASSUME NEW e \in Dispatchers, NEW i \in 1..Len(Batch[e]), i > Reached(e)'
        PROVE  stage'[Batch[e][i]] = "new"
    <3>1. Batch[e] \in Seq(Tasks) /\ Batch[e][i] \in Tasks
      BY PoolAssumption
    <3>2. i > Reached(e) /\ ~(e = d /\ i = sent[d] + 1)
      BY <1>0, <1>1, <1>2, <2>1 DEF Reached, Types
    <3>3. stage[Batch[e][i]] = "new"
      BY <1>0, <3>2 DEF Unsent
    <3>4. Batch[e][i] # t
      BY <1>3, <3>2, PoolAssumption
    <3> HIDE DEF t
    <3> QED BY <1>1, <1>2, <3>1, <3>3, <3>4
  <2> QED BY <2>1 DEF Unsent
<1> QED BY <1>4, <1>5, <1>6 DEF QueueInv

(* The head of the queue leaves it.                                        *)
LEMMA StartQueue ==
  ASSUME TypesInv, QueueInv, Start
  PROVE  QueueInv' /\ stage[Head(queue)] = "queued"
<1>0. /\ Unsent /\ QueueIsQueued /\ queue \in Seq(Tasks) /\ queue # <<>>
      /\ stage \in [Tasks -> Stages]
  BY DEF TypesInv, Types, QueueInv, Start
<1> DEFINE h == Head(queue)
<1>1. /\ h \in Tasks /\ h = queue[1] /\ Len(queue) \in Nat /\ Len(queue) > 0
      /\ Len(Tail(queue)) = Len(queue) - 1
      /\ \A i \in 1..Len(Tail(queue)) : Tail(queue)[i] = queue[i + 1] /\ i + 1 \in 1..Len(queue)
  BY <1>0
<1>2. stage[h] = "queued"
  BY <1>0, <1>1 DEF QueueIsQueued
<1>3. /\ queue' = Tail(queue) /\ stage' = [stage EXCEPT ![h] = "admitting"]
      /\ UNCHANGED <<sent, sender>>
  BY DEF Start, Goto, sendVars
<1> HIDE DEF h
<1>4. \A i \in 1..Len(queue) : queue[i] \in Tasks
  BY <1>0
<1>5. \A i \in 1..Len(queue') : stage'[queue'[i]] = "queued"
  <2>1. ASSUME NEW i \in 1..Len(queue') PROVE stage'[queue'[i]] = "queued"
    <3>1. queue'[i] = queue[i + 1] /\ i + 1 \in 1..Len(queue) /\ i + 1 # 1 /\ 1 \in 1..Len(queue)
      BY <1>1, <1>3
    <3>2. queue[i + 1] # h
      BY <1>0, <1>1, <3>1 DEF QueueIsQueued
    <3> QED BY <1>0, <1>3, <1>4, <3>1, <3>2 DEF QueueIsQueued
  <2> QED BY <2>1
<1>6. \A i, j \in 1..Len(queue') : queue'[i] = queue'[j] => i = j
  <2>1. ASSUME NEW i \in 1..Len(queue'), NEW j \in 1..Len(queue'), queue'[i] = queue'[j]
        PROVE  i = j
    <3>1. queue[i + 1] = queue[j + 1] /\ i + 1 \in 1..Len(queue) /\ j + 1 \in 1..Len(queue)
      BY <1>1, <1>3, <2>1
    <3>2. i + 1 = j + 1
      BY <1>0, <3>1 DEF QueueIsQueued
    <3> QED BY <3>2
  <2> QED BY <2>1
<1>7. ASSUME NEW u \in Tasks, stage'[u] = "queued"
      PROVE  \E i \in 1..Len(queue') : queue'[i] = u
  <2>1. u # h /\ stage[u] = "queued"
    BY <1>0, <1>1, <1>3, <1>7
  <2>2. PICK k \in 1..Len(queue) : queue[k] = u
    BY <1>0, <2>1 DEF QueueIsQueued
  <2>3. k # 1 /\ k - 1 \in 1..Len(queue') /\ (k - 1) + 1 = k
    BY <1>1, <1>3, <2>1, <2>2
  <2>4. queue'[k - 1] = u
    BY <1>1, <1>3, <2>2, <2>3
  <2> QED BY <2>3, <2>4
<1>8. Unsent'
  <2>1. ASSUME NEW e \in Dispatchers, NEW i \in 1..Len(Batch[e]), i > Reached(e)'
        PROVE  stage'[Batch[e][i]] = "new"
    <3>1. Batch[e][i] \in Tasks
      BY PoolAssumption
    <3>2. stage[Batch[e][i]] = "new"
      BY <1>0, <1>3, <2>1 DEF Unsent, Reached
    <3> QED BY <1>0, <1>2, <1>3, <3>1, <3>2
  <2> QED BY <2>1 DEF Unsent
<1> QED BY <1>2, <1>5, <1>6, <1>7, <1>8 DEF QueueInv, QueueIsQueued, h

(* A step of a task beyond the queue.                                      *)
LEMMA TaskQueue ==
  ASSUME TypesInv, QueueInv, NEW t \in Tasks, TaskStep(t) \/ Cancel(t)
  PROVE  QueueInv'
<1>0. Unsent /\ QueueIsQueued /\ stage \in [Tasks -> Stages] /\ queue \in Seq(Tasks)
  BY DEF TypesInv, Types, QueueInv
<1>1. UNCHANGED <<sent, sender, queue>>
  BY DEF TaskStep, GateOpen, RejectedClosed, Acquire, RejectedTimeout, Work, Release, Leave, Cancel, sendVars
<1>2. \A u \in Tasks : (stage[u] = "new" <=> stage'[u] = "new")
                       /\ (stage[u] = "queued" <=> stage'[u] = "queued")
  BY <1>0 DEF TaskStep, GateOpen, RejectedClosed, Acquire, RejectedTimeout, Work, Release, Leave, Cancel, Goto
<1>3. QueueIsQueued'
  <2>1. \A i \in 1..Len(queue) : queue[i] \in Tasks
    BY <1>0
  <2> QED BY <1>0, <1>1, <1>2, <2>1 DEF QueueIsQueued
<1>4. Unsent'
  <2>1. \A d \in Dispatchers : \A i \in 1..Len(Batch[d]) : Batch[d][i] \in Tasks
    BY PoolAssumption
  <2> QED BY <1>0, <1>1, <1>2, <2>1 DEF Unsent, Reached
<1> QED BY <1>3, <1>4 DEF QueueInv

(* Every step keeps the queue and the stages of tasks in agreement.        *)
LEMMA QueueStep == TypesInv /\ QueueInv /\ [Next]_vars => QueueInv'
<1> SUFFICES ASSUME TypesInv, QueueInv, [Next]_vars PROVE QueueInv'
  OBVIOUS
<1>1. ASSUME UNCHANGED <<sendVars, queue, stage>> PROVE QueueInv'
  BY <1>1 DEF sendVars, QueueInv, Unsent, QueueIsQueued, Reached
<1>2. ASSUME NEW d \in Dispatchers, DispatchStep(d) PROVE QueueInv'
  <2>1. CASE Submit(d)
    BY <2>1, SubmitQueue
  <2>2. CASE ~Submit(d)
    <3>1. UNCHANGED <<queue, stage>>
      BY <1>2, <2>2 DEF DispatchStep, SubmitRaises, Register, ReturnFutures
    <3>2. \A e \in Dispatchers : Reached(e)' >= Reached(e)
      BY <1>2, <2>2 DEF DispatchStep, SubmitRaises, Register, ReturnFutures, Reached, TypesInv, Types
    <3>3. \A e \in Dispatchers : Reached(e) \in Nat /\ Reached(e)' \in Nat
      BY TypesStep, <1>2 DEF Reached, TypesInv, Types, Next
    <3>4. ASSUME NEW e \in Dispatchers, NEW i \in 1..Len(Batch[e]), i > Reached(e)'
          PROVE  i > Reached(e)
      BY <3>2, <3>3, <3>4
    <3> QED BY <3>1, <3>4 DEF QueueInv, Unsent, QueueIsQueued
  <2> QED BY <2>1, <2>2
<1>3. ASSUME NEW t \in Tasks, TaskStep(t) \/ Cancel(t) PROVE QueueInv'
  BY <1>3, TaskQueue
<1>4. CASE Start
  BY <1>4, StartQueue
<1>5. ASSUME NEW c \in Closers, CloseGate(c) \/ CloseStep(c) PROVE QueueInv'
  BY <1>1, <1>5 DEF CloseGate, CloseStep, DrainStep, DrainOne, Drained, RefillOne, Refilled, StopExecutor, JoinWorkers
<1> QED BY <1>1, <1>2, <1>3, <1>4, <1>5 DEF Next, Rest, vars

(* Every step conserves the slots.                                         *)
LEMMA SlotsStep == TypesInv /\ QueueInv /\ SlotsConserved /\ [Next]_vars => SlotsConserved'
<1> SUFFICES ASSUME TypesInv, QueueInv, SlotsConserved, [Next]_vars PROVE SlotsConserved'
  OBVIOUS
<1>0. Types
  BY DEF TypesInv
<1>1. ASSUME UNCHANGED <<stage, slots, permits>> PROVE SlotsConserved'
  BY <1>1, SameParts DEF Holders, Permits
<1>2. ASSUME NEW d \in Dispatchers, DispatchStep(d) PROVE SlotsConserved'
  <2>1. CASE Submit(d)
    <3> DEFINE t == Batch[d][sent[d] + 1]
    <3>1. t \in Tasks /\ stage[t] = "new"
      BY <1>0, <2>1, SubmitQueue, NextOfBatch DEF Submit
    <3>2. Goto(t, "queued") /\ UNCHANGED <<slots, permits>>
      BY <2>1 DEF Submit, Goto, gateVars, closeVars
    <3> HIDE DEF t
    <3>3. Holders' = Holders
      BY <1>0, <3>1, <3>2, HoldersKept DEF Types, Stages
    <3> QED BY <3>2, <3>3, SameParts DEF Permits
  <2>2. CASE ~Submit(d)
    BY <1>1, <1>2, <2>2 DEF DispatchStep, SubmitRaises, Register, ReturnFutures, gateVars, closeVars
  <2> QED BY <2>1, <2>2
<1>3. CASE Start
  <2>1. Goto(Head(queue), "admitting") /\ UNCHANGED <<slots, permits>>
    BY <1>3 DEF Start, gateVars, closeVars
  <2>2. Head(queue) \in Tasks /\ stage[Head(queue)] = "queued"
    BY <1>0, <1>3, StartTypes, StartQueue
  <2>3. Holders' = Holders
    BY <1>0, <2>1, <2>2, HoldersKept DEF Types, Stages
  <2> QED BY <2>1, <2>3, SameParts DEF Permits
<1>4. ASSUME NEW t \in Tasks, TaskStep(t) \/ Cancel(t) PROVE SlotsConserved'
  BY <1>0, <1>4, SlotsTaskStep
<1>5. ASSUME NEW c \in Closers, CloseGate(c) \/ CloseStep(c) PROVE SlotsConserved'
  BY <1>0, <1>5, SlotsCloseStep
<1>6. CASE UNCHANGED vars
  BY <1>1, <1>6 DEF vars, gateVars, closeVars
<1> QED BY <1>2, <1>3, <1>4, <1>5, <1>6 DEF Next, Rest

(* The invariant the theorems below follow from.                           *)
PoolInv == TypesInv /\ QueueInv /\ SlotsConserved

(* The invariant holds of a new pool.                                      *)
LEMMA PoolInvInit == Init => PoolInv
<1> SUFFICES ASSUME Init PROVE PoolInv
  OBVIOUS
<1>1. TypesInv
  <2>1. closed \in BOOLEAN /\ stopped \in BOOLEAN
    BY DEF Init
  <2>2. /\ stage \in [Tasks -> Stages] /\ future \in [Tasks -> Futures]
        /\ closer \in [Closers -> Closings] /\ permits \in [Closers -> 0..Max]
    BY MaxNat DEF Init, Stages, Futures, Closings
  <2>3. /\ running \in [Ids -> Tasks \cup {NoTask}] /\ completed \subseteq Ids
        /\ queue \in Seq(Tasks) /\ slots \in Nat
    BY MaxNat DEF Init
  <2>4. /\ sent \in [Dispatchers -> Nat]
        /\ sender \in [Dispatchers -> {"submit", "register", "returned", "raised"}]
        /\ Registrable
    BY DEF Init, Registrable
  <2> QED BY <2>1, <2>2, <2>3, <2>4 DEF TypesInv, Types
<1>2. Unsent
  BY PoolAssumption DEF Init, Unsent, Reached
<1>3. QueueIsQueued
  BY DEF Init, QueueIsQueued
<1>4. Holders = {} /\ Permits = {}
  BY MaxNat DEF Init, Holders, Permits
<1>5. SlotsConserved
  BY <1>4, FS_EmptySet, MaxNat DEF Init, SlotsConserved
<1> QED BY <1>1, <1>2, <1>3, <1>5 DEF PoolInv, QueueInv

(* The invariant holds in every state of the pool.                         *)
LEMMA PoolInvHolds == Spec => []PoolInv
<1>1. PoolInv /\ [Next]_vars => PoolInv'
  BY TypesStep, QueueStep, SlotsStep DEF PoolInv
<1> QED BY <1>1, PoolInvInit, PTL DEF Spec

(* Slots are conserved (SlotsConserved): however tasks end and however     *)
(* many shutdowns drain the gate, no slot is lost and none is made.        *)
THEOREM SlotsKept == Spec => []SlotsConserved
BY PoolInvHolds, PTL DEF PoolInv

(* Every variable keeps its type (TypeOK); that the semaphore stays within *)
(* max_concurrent is the conservation of slots.                            *)
THEOREM TypeCorrect == Spec => []TypeOK
<1>1. PoolInv => TypeOK
  <2> SUFFICES ASSUME PoolInv PROVE TypeOK
    OBVIOUS
  <2>1. Types /\ SlotsConserved
    BY DEF PoolInv, TypesInv
  <2>2. slots \in 0..Max
    BY <2>1, FiniteParts, MaxNat DEF Types, SlotsConserved
  <2> QED BY <2>1, <2>2 DEF TypeOK, Types, Futures, Closings
<1> QED BY <1>1, PoolInvHolds, PTL

-----------------------------------------------------------------------------
(* A shutdown that waited is final.                                        *)

ResultKept ==
  \A t \in Tasks : stage[t] = "done" => (future[t] # "cancelled" => IdOf[t] \in completed)
JoinersStopped ==
  \A c \in Waits : closer[c] \in {"joining", "returned"} => stopped

(* A task that is over has its result recorded, unless it was cancelled.   *)
LEMMA ResultStep == TypesInv /\ QueueInv /\ ResultKept /\ [Next]_vars => ResultKept'
<1> SUFFICES ASSUME TypesInv, QueueInv, ResultKept, [Next]_vars PROVE ResultKept'
  OBVIOUS
<1>0. stage \in [Tasks -> Stages] /\ future \in [Tasks -> Futures]
  BY DEF TypesInv, Types
<1>1. ASSUME UNCHANGED <<stage, future, completed>> PROVE ResultKept'
  BY <1>1 DEF ResultKept
<1>2. ASSUME NEW d \in Dispatchers, DispatchStep(d) PROVE ResultKept'
  <2>1. CASE Submit(d)
    <3> DEFINE t == Batch[d][sent[d] + 1]
    <3>1. t \in Tasks /\ stage[t] = "new"
      BY <2>1, SubmitQueue, NextOfBatch DEF Submit, TypesInv
    <3>2. /\ stage' = [stage EXCEPT ![t] = "queued"] /\ future' = [future EXCEPT ![t] = "pending"]
          /\ UNCHANGED completed
      BY <2>1 DEF Submit, statusVars
    <3> HIDE DEF t
    <3> QED BY <1>0, <3>1, <3>2 DEF ResultKept
  <2>2. CASE ~Submit(d)
    BY <1>1, <1>2, <2>2 DEF DispatchStep, SubmitRaises, Register, ReturnFutures, statusVars
  <2> QED BY <2>1, <2>2
<1>3. ASSUME NEW t \in Tasks, TaskStep(t) PROVE ResultKept'
  <2>1. CASE Leave(t)
    <3>1. /\ stage' = [stage EXCEPT ![t] = "done"] /\ UNCHANGED future
          /\ completed \subseteq completed'
          /\ future[t] # "cancelled" => IdOf[t] \in completed'
      BY <2>1 DEF Leave, Goto
    <3> QED BY <1>0, <3>1 DEF ResultKept
  <2>2. CASE ~Leave(t)
    <3>1. UNCHANGED completed /\ stage[t] # "done"
      BY <1>3, <2>2 DEF TaskStep, GateOpen, RejectedClosed, Acquire, RejectedTimeout, Work, Release, statusVars
    <3>2. \A u \in Tasks : stage'[u] = "done" => stage[u] = "done"
      BY <1>0, <1>3, <2>2 DEF TaskStep, GateOpen, RejectedClosed, Acquire, RejectedTimeout, Work, Release, Goto
    <3>3. \A u \in Tasks : u # t => future'[u] = future[u]
      BY <1>0, <1>3, <2>2 DEF TaskStep, GateOpen, RejectedClosed, Acquire, RejectedTimeout, Work, Release, Resolve
    <3>4. stage'[t] # "done"
      BY <3>1, <3>2
    <3> QED BY <3>1, <3>2, <3>3, <3>4 DEF ResultKept
  <2> QED BY <2>1, <2>2
<1>4. ASSUME NEW t \in Tasks, Cancel(t) PROVE ResultKept'
  BY <1>0, <1>4 DEF Cancel, ResultKept, statusVars
<1>5. CASE Start
  <2>1. Head(queue) \in Tasks /\ stage' = [stage EXCEPT ![Head(queue)] = "admitting"]
        /\ UNCHANGED <<future, completed>>
    BY <1>5, StartTypes DEF TypesInv, Start, Goto, statusVars
  <2> QED BY <1>0, <2>1 DEF ResultKept
<1>6. ASSUME NEW c \in Closers, CloseGate(c) \/ CloseStep(c) PROVE ResultKept'
  BY <1>1, <1>6 DEF CloseGate, CloseStep, DrainStep, DrainOne, Drained, RefillOne, Refilled, StopExecutor, JoinWorkers, statusVars
<1>7. CASE UNCHANGED vars
  BY <1>1, <1>7 DEF vars, statusVars
<1> QED BY <1>2, <1>3, <1>4, <1>5, <1>6, <1>7 DEF Next, Rest

(* A shutdown that waits for the workers has stopped the executor.         *)
LEMMA JoinersStep == TypesInv /\ JoinersStopped /\ [Next]_vars => JoinersStopped'
<1> SUFFICES ASSUME TypesInv, JoinersStopped, [Next]_vars PROVE JoinersStopped'
  OBVIOUS
<1>1. closer \in [Closers -> Closings] /\ Waits \subseteq Closers
  BY PoolAssumption DEF TypesInv, Types
<1>2. CASE UNCHANGED <<closer, stopped>>
  BY <1>2 DEF JoinersStopped
<1>3. ASSUME NEW c \in Closers, CloseGate(c) \/ CloseStep(c) PROVE JoinersStopped'
  BY <1>1, <1>3 DEF JoinersStopped, CloseGate, CloseStep, DrainStep, DrainOne, Drained, RefillOne, Refilled, StopExecutor, JoinWorkers
<1>4. ASSUME NEW d \in Dispatchers, DispatchStep(d) PROVE UNCHANGED <<closer, stopped>>
  BY <1>4 DEF DispatchStep, Submit, SubmitRaises, Register, ReturnFutures, closeVars
<1>5. ASSUME NEW t \in Tasks, TaskStep(t) \/ Cancel(t) PROVE UNCHANGED <<closer, stopped>>
  BY <1>5 DEF TaskStep, GateOpen, RejectedClosed, Acquire, RejectedTimeout, Work, Release, Leave, Cancel, closeVars
<1> QED BY <1>2, <1>3, <1>4, <1>5 DEF Next, Start, Rest, vars, closeVars

(* Once a waiting shutdown has returned no step brings the pool back.      *)
LEMMA FinalStep ==
  PoolInv /\ JoinersStopped /\ ResultKept /\ ResultKept' /\ ShutdownIsFinal /\ [Next]_vars
  => ShutdownIsFinal'
<1> DEFINE Over == \E c \in Waits : closer[c] = "returned"
           Idle == stopped /\ queue = <<>> /\ \A t \in Tasks : stage[t] \in {"new", "done"}
<1> SUFFICES ASSUME PoolInv, JoinersStopped, ResultKept', ShutdownIsFinal, [Next]_vars, Over'
             PROVE  Idle'
  BY DEF ShutdownIsFinal, ResultKept
<1>0. /\ Types /\ QueueIsQueued
      /\ Over => Idle
      /\ closer \in [Closers -> Closings] /\ Waits \subseteq Closers
  BY PoolAssumption DEF PoolInv, TypesInv, Types, QueueInv, ShutdownIsFinal
<1>1. ASSUME Idle, UNCHANGED <<queue, stage>>, stopped' PROVE Idle'
  BY <1>1
<1>2. ASSUME NEW c \in Closers, CloseGate(c) \/ CloseStep(c) PROVE Idle'
  <2>1. UNCHANGED <<queue, stage>> /\ (stopped => stopped')
    BY <1>2 DEF CloseGate, CloseStep, DrainStep, DrainOne, Drained, RefillOne, Refilled, StopExecutor, JoinWorkers
  <2>2. CASE Over
    BY <1>0, <1>1, <2>1, <2>2
  <2>3. CASE ~Over
    <3>1. c \in Waits /\ closer'[c] = "returned" /\ closer[c] # "returned"
      BY <1>0, <1>2, <2>3 DEF CloseGate, CloseStep, DrainStep, DrainOne, Drained, RefillOne, Refilled, StopExecutor, JoinWorkers
    <3>2. JoinWorkers(c)
      BY <1>0, <1>2, <3>1 DEF CloseGate, CloseStep, DrainStep, DrainOne, Drained, RefillOne, Refilled, StopExecutor
    <3>3. stopped /\ queue = <<>> /\ Busy = {}
      BY <3>1, <3>2 DEF JoinWorkers, JoinersStopped
    <3>4. \A t \in Tasks : stage[t] # "queued"
      BY <1>0, <3>3 DEF QueueIsQueued
    <3>5. \A t \in Tasks : stage[t] \in {"new", "done"}
      BY <3>3, <3>4 DEF Busy
    <3> QED BY <1>1, <2>1, <3>3, <3>5
  <2> QED BY <2>2, <2>3
<1>3. CASE UNCHANGED closer
  <2>1. Over /\ Idle
    BY <1>0, <1>3
  <2>2. ASSUME NEW d \in Dispatchers, DispatchStep(d) PROVE UNCHANGED <<queue, stage, stopped>>
    BY <2>1, <2>2 DEF DispatchStep, Submit, SubmitRaises, Register, ReturnFutures, closeVars
  <2>3. ASSUME NEW t \in Tasks, TaskStep(t) \/ Cancel(t) PROVE UNCHANGED <<queue, stage, stopped>>
    <3>1. stage[t] \in {"new", "done"}
      BY <2>1
    <3> QED BY <2>3, <3>1 DEF TaskStep, GateOpen, RejectedClosed, Acquire, RejectedTimeout, Work, Release, Leave, Cancel, closeVars
  <2>4. ~Start
    BY <2>1 DEF Start
  <2>5. UNCHANGED vars => UNCHANGED <<queue, stage, stopped>>
    BY DEF vars, closeVars
  <2> QED BY <1>1, <1>2, <2>1, <2>2, <2>3, <2>4, <2>5 DEF Next, Rest
<1>4. ASSUME ~(\E c \in Closers : CloseGate(c) \/ CloseStep(c)) PROVE UNCHANGED closer
  <2>1. ASSUME NEW d \in Dispatchers, DispatchStep(d) PROVE UNCHANGED closer
    BY <2>1 DEF DispatchStep, Submit, SubmitRaises, Register, ReturnFutures, closeVars
  <2>2. ASSUME NEW t \in Tasks, TaskStep(t) \/ Cancel(t) PROVE UNCHANGED closer
    BY <2>2 DEF TaskStep, GateOpen, RejectedClosed, Acquire, RejectedTimeout, Work, Release, Leave, Cancel, closeVars
  <2>3. Start \/ UNCHANGED vars => UNCHANGED closer
    BY DEF Start, vars, closeVars
  <2> QED BY <1>4, <2>1, <2>2, <2>3 DEF Next, Rest
<1> QED BY <1>2, <1>3, <1>4

(* Nothing runs once a shutdown with wait=True has returned                *)
(* (ShutdownIsFinal), whatever was queued, blocked at the gate, dispatched *)
(* or cancelled meanwhile and however many threads shut the pool down.     *)
THEOREM ShutdownStays == Spec => []ShutdownIsFinal
<1> DEFINE FinalInv == PoolInv /\ ResultKept /\ JoinersStopped /\ ShutdownIsFinal
<1>1. Init => FinalInv
  <2>1. Init => ResultKept /\ JoinersStopped /\ ShutdownIsFinal
    BY PoolAssumption DEF Init, ResultKept, JoinersStopped, ShutdownIsFinal
  <2> QED BY <2>1, PoolInvInit
<1>2. FinalInv /\ [Next]_vars => FinalInv'
  <2> SUFFICES ASSUME FinalInv, [Next]_vars PROVE FinalInv'
    OBVIOUS
  <2>1. PoolInv'
    BY TypesStep, QueueStep, SlotsStep DEF PoolInv
  <2>2. ResultKept' /\ JoinersStopped'
    BY ResultStep, JoinersStep DEF PoolInv
  <2> QED BY <2>1, <2>2, FinalStep
<1>3. FinalInv => ShutdownIsFinal
  OBVIOUS
<1> QED BY <1>1, <1>2, <1>3, PTL DEF Spec
-----------------------------------------------------------------------------
(***************************************************************************)
(* Why futures resolve and shutdowns return: what is left of each task, of *)
(* each dispatch and of each shutdown never grows, each step makes one of  *)
(* these less, and no step is possible only when nothing is left, or when  *)
(* shutdowns hold the slots that others of them wait for.                  *)
(***************************************************************************)
StagesAhead(t) ==
  CASE stage[t] = "new" -> 7 [] stage[t] = "queued" -> 6 [] stage[t] = "admitting" -> 5
    [] stage[t] = "acquiring" -> 4 [] stage[t] = "working" -> 3 [] stage[t] = "releasing" -> 2
    [] stage[t] = "leaving" -> 1 [] OTHER -> 0
Unresolved(t) == IF future[t] \in {"none", "pending"} THEN 1 ELSE 0
TaskLeft(t) == StagesAhead(t) + Unresolved(t)
DispatchLeft(d) ==
  CASE sender[d] = "submit" -> 2 * (Len(Batch[d]) - sent[d]) + 1
    [] sender[d] = "register" -> 2 * (Len(Batch[d]) - sent[d])
    [] OTHER -> 0
CloseLeft(c) ==
  CASE closer[c] = "idle" -> 2 * Max + 5
    [] closer[c] = "draining" -> 2 * Max + 4 - permits[c]
    [] closer[c] = "refilling" -> 3 + permits[c]
    [] closer[c] = "stopping" -> 2
    [] closer[c] = "joining" -> 1
    [] OTHER -> 0

LeftIsCounted ==
  /\ \A t \in Tasks : TaskLeft(t) \in Nat
  /\ \A d \in Dispatchers : DispatchLeft(d) \in Nat
  /\ \A c \in Closers : CloseLeft(c) \in Nat

NothingGrows ==
  /\ \A t \in Tasks : TaskLeft(t)' <= TaskLeft(t)
  /\ \A d \in Dispatchers : DispatchLeft(d)' <= DispatchLeft(d)
  /\ \A c \in Closers : CloseLeft(c)' <= CloseLeft(c)
SomethingIsLess ==
  \/ \E t \in Tasks : TaskLeft(t)' < TaskLeft(t)
  \/ \E d \in Dispatchers : DispatchLeft(d)' < DispatchLeft(d)
  \/ \E c \in Closers : CloseLeft(c)' < CloseLeft(c)
PoolAdvances == [][NothingGrows /\ SomethingIsLess]_vars

AtRest ==
  /\ \A d \in Dispatchers : sender[d] \in {"returned", "raised"}
  /\ \A t \in Tasks : stage[t] \in {"new", "done"} /\ future[t] # "pending"
  /\ \A c \in Closers : closer[c] \in {"idle", "returned"}
  /\ slots = Max

\* The guards of the steps that need no caller: Cancel and CloseGate are not among them.
CanGoOn ==
  \/ \E d \in Dispatchers :
       sender[d] = "register" \/ (sender[d] = "submit" /\ sent[d] <= Len(Batch[d]))
  \/ \E t \in Tasks : stage[t] \in {"admitting", "acquiring", "working", "releasing", "leaving"}
  \/ queue # <<>> /\ Cardinality(Busy) < Workers
  \/ \E c \in Closers : \/ closer[c] = "draining" /\ (slots > 0 \/ permits[c] = Max)
                        \/ closer[c] \in {"refilling", "stopping"}
                        \/ closer[c] = "joining" /\ queue = <<>> /\ Busy = {}

DrainsCollide ==
  /\ slots = 0
  /\ \E c, d \in Waits : /\ c # d
                         /\ closer[c] = "draining" /\ 0 < permits[c]
                         /\ closer[d] = "draining" /\ 0 < permits[d]
NeverStuck == AtRest \/ CanGoOn \/ DrainsCollide

\* What the numbers rest on.
LeftInv ==
  /\ \A d \in Dispatchers : sent[d] <= Len(Batch[d])
  /\ \A t \in Tasks : /\ stage[t] = "new" => future[t] = "none"
                      /\ stage[t] \in {"releasing", "leaving", "done"} => future[t] \notin {"none", "pending"}
  /\ \A c \in Closers : /\ 0 < permits[c] => closer[c] \in {"draining", "refilling"}
                        /\ closer[c] \in {"draining", "refilling"} => c \in Waits

LEMMA BatchLengths == ASSUME NEW d \in Dispatchers PROVE Len(Batch[d]) \in Nat
<1>1. Batch[d] \in Seq(Tasks)
  BY PoolAssumption
<1> QED BY <1>1

\* What a step of each kind does to the variables of its actor and the others'.
LEMMA DispatchEffect ==
  ASSUME TypesInv, QueueInv, LeftInv, NEW d \in Dispatchers, DispatchStep(d)
  PROVE  LeftInv' /\ NothingGrows /\ DispatchLeft(d)' < DispatchLeft(d)
<1>0. /\ sent \in [Dispatchers -> Nat] /\ stage \in [Tasks -> Stages] /\ future \in [Tasks -> Futures]
      /\ sender \in [Dispatchers -> {"submit", "register", "returned", "raised"}] /\ Max \in Nat
      /\ permits \in [Closers -> 0..Max]
      /\ sender[d] = "register" => sent[d] < Len(Batch[d])
  BY MaxNat DEF TypesInv, Types, Registrable
<1>1. UNCHANGED <<closer, permits>>
  BY DEF DispatchStep, Submit, SubmitRaises, Register, ReturnFutures, closeVars
<1>2. \A c \in Closers : CloseLeft(c)' = CloseLeft(c)
  BY <1>1 DEF CloseLeft
<1>3. \A e \in Dispatchers \ {d} : sent'[e] = sent[e] /\ sender'[e] = sender[e]
  BY <1>0 DEF DispatchStep, Submit, SubmitRaises, Register, ReturnFutures
<1>4. \A e \in Dispatchers \ {d} : DispatchLeft(e)' = DispatchLeft(e)
  BY <1>3 DEF DispatchLeft
<1>5. /\ sent'[d] \in Nat /\ sent'[d] <= Len(Batch[d]) /\ DispatchLeft(d)' < DispatchLeft(d)
      /\ DispatchLeft(d)' \in Int /\ DispatchLeft(d) \in Int
  <2>0. Len(Batch[d]) \in Nat /\ sent[d] \in Nat /\ sent[d] <= Len(Batch[d])
    BY <1>0, BatchLengths DEF LeftInv
  <2>1. CASE Submit(d)
    <3>1. sender[d] = "submit" /\ sender'[d] = "register" /\ sent' = sent
      BY <1>0, <2>1 DEF Submit
    <3> QED BY <2>0, <3>1 DEF DispatchLeft
  <2>2. CASE SubmitRaises(d) \/ ReturnFutures(d)
    <3>1. sender[d] = "submit" /\ sender'[d] \in {"raised", "returned"} /\ sent' = sent
      BY <1>0, <2>2 DEF SubmitRaises, ReturnFutures
    <3> QED BY <2>0, <3>1 DEF DispatchLeft
  <2>3. CASE Register(d)
    <3>1. sender[d] = "register" /\ sender'[d] = "submit" /\ sent'[d] = sent[d] + 1
      BY <1>0, <2>3 DEF Register
    <3>2. sent[d] < Len(Batch[d])
      BY <1>0, <3>1
    <3> QED BY <2>0, <3>1, <3>2 DEF DispatchLeft
  <2> QED BY <2>1, <2>2, <2>3 DEF DispatchStep
<1>6. /\ \A t \in Tasks : /\ stage'[t] = "new" => future'[t] = "none"
                          /\ stage'[t] \in {"releasing", "leaving", "done"}
                               => future'[t] \notin {"none", "pending"}
      /\ \A t \in Tasks : TaskLeft(t)' <= TaskLeft(t)
  <2>1. CASE Submit(d)
    <3>1. PICK t \in Tasks : t = Batch[d][sent[d] + 1] /\ stage[t] = "new"
      BY <2>1, SubmitQueue, NextOfBatch DEF Submit, TypesInv
    <3>2. stage' = [stage EXCEPT ![t] = "queued"] /\ future' = [future EXCEPT ![t] = "pending"]
      BY <2>1, <3>1 DEF Submit
    <3>3. \A u \in Tasks \ {t} : stage'[u] = stage[u] /\ future'[u] = future[u]
      BY <1>0, <3>2
    <3>4. stage'[t] = "queued" /\ future'[t] = "pending" /\ future[t] = "none"
      BY <1>0, <3>1, <3>2 DEF LeftInv
    <3>5. \A u \in Tasks \ {t} : TaskLeft(u)' = TaskLeft(u) /\ TaskLeft(u) \in Nat
      BY <3>3 DEF TaskLeft, StagesAhead, Unresolved
    <3>6. TaskLeft(t)' = 7 /\ TaskLeft(t) = 8
      BY <3>1, <3>4 DEF TaskLeft, StagesAhead, Unresolved
    <3> QED BY <3>3, <3>4, <3>5, <3>6 DEF LeftInv
  <2>2. CASE ~Submit(d)
    <3>1. UNCHANGED <<stage, future>>
      BY <2>2 DEF DispatchStep, SubmitRaises, Register, ReturnFutures
    <3>2. \A t \in Tasks : TaskLeft(t)' = TaskLeft(t) /\ TaskLeft(t) \in Nat
      BY <3>1 DEF TaskLeft, StagesAhead, Unresolved
    <3> QED BY <3>1, <3>2 DEF LeftInv
  <2> QED BY <2>1, <2>2
<1>7. LeftInv'
  BY <1>1, <1>3, <1>5, <1>6 DEF LeftInv
<1>8. \A c \in Closers : CloseLeft(c) \in Int
  BY <1>0 DEF CloseLeft
<1>9. \A e \in Dispatchers \ {d} : DispatchLeft(e) \in Int
  <2>1. \A e \in Dispatchers : Len(Batch[e]) \in Nat
    BY BatchLengths
  <2> QED BY <1>0, <2>1 DEF DispatchLeft
<1>10. NothingGrows
  BY <1>2, <1>4, <1>5, <1>6, <1>8, <1>9 DEF NothingGrows
<1> QED BY <1>5, <1>7, <1>10

LEMMA OthersRest ==
  ASSUME TypesInv, UNCHANGED sendVars
  PROVE  \A d \in Dispatchers : DispatchLeft(d)' <= DispatchLeft(d)
<1>1. \A d \in Dispatchers : Len(Batch[d]) \in Nat /\ sent[d] \in Nat
  BY BatchLengths DEF TypesInv, Types
<1>2. \A d \in Dispatchers : DispatchLeft(d) \in Int /\ DispatchLeft(d)' = DispatchLeft(d)
  BY <1>1 DEF sendVars, DispatchLeft
<1> QED BY <1>2

LEMMA ClosersRest ==
  ASSUME TypesInv, UNCHANGED <<closer, permits>>
  PROVE  \A c \in Closers : CloseLeft(c)' <= CloseLeft(c)
<1>1. \A c \in Closers : CloseLeft(c) \in Int /\ CloseLeft(c)' = CloseLeft(c)
  BY MaxNat DEF TypesInv, Types, CloseLeft
<1> QED BY <1>1

\* One task moves; the others stay as they are.
LEMMA TaskMoves ==
  ASSUME TypesInv, LeftInv, UNCHANGED <<sendVars, closer, permits>>, NEW t \in Tasks,
         \A u \in Tasks \ {t} : stage'[u] = stage[u] /\ future'[u] = future[u],
         \/ /\ stage'[t] = stage[t] /\ stage[t] # "new"
            /\ future[t] = "pending" /\ future'[t] = "cancelled"
         \/ /\ <<stage[t], stage'[t]>> \in
                 {<<"queued", "admitting">>, <<"admitting", "acquiring">>, <<"acquiring", "working">>,
                  <<"releasing", "leaving">>, <<"leaving", "done">>}
            /\ future'[t] = future[t]
         \/ /\ <<stage[t], stage'[t]>> \in
                 {<<"admitting", "leaving">>, <<"acquiring", "leaving">>, <<"working", "releasing">>}
            /\ future'[t] \notin {"none", "pending"}
  PROVE  LeftInv' /\ NothingGrows /\ TaskLeft(t)' < TaskLeft(t)
<1>1. /\ \A u \in Tasks \ {t} : TaskLeft(u)' = TaskLeft(u) /\ TaskLeft(u) \in Nat
  BY DEF TaskLeft, StagesAhead, Unresolved
<1>2. /\ TaskLeft(t)' < TaskLeft(t)
      /\ TaskLeft(t)' \in Nat /\ TaskLeft(t) \in Nat
  <2>1. StagesAhead(t) \in Nat /\ StagesAhead(t)' \in Nat
    BY DEF StagesAhead
  <2>2. Unresolved(t) \in {0, 1} /\ Unresolved(t)' \in {0, 1}
    BY DEF Unresolved
  <2>3. \/ StagesAhead(t)' = StagesAhead(t) /\ Unresolved(t)' < Unresolved(t)
        \/ StagesAhead(t)' < StagesAhead(t) /\ Unresolved(t)' <= Unresolved(t)
    BY DEF StagesAhead, Unresolved
  <2> QED BY <2>1, <2>2, <2>3 DEF TaskLeft
<1>3. NothingGrows
  BY <1>1, <1>2, OthersRest, ClosersRest DEF NothingGrows
<1>4. /\ stage'[t] = "new" => future'[t] = "none"
      /\ stage'[t] \in {"releasing", "leaving", "done"} => future'[t] \notin {"none", "pending"}
  BY DEF LeftInv
<1>5. LeftInv'
  BY <1>4 DEF LeftInv, sendVars
<1> QED BY <1>2, <1>3, <1>5

LEMMA TaskEffect ==
  ASSUME TypesInv, LeftInv, NEW t \in Tasks, TaskStep(t) \/ Cancel(t), QueueInv
  PROVE  LeftInv' /\ NothingGrows /\ TaskLeft(t)' < TaskLeft(t)
<1>0. stage \in [Tasks -> Stages] /\ future \in [Tasks -> Futures]
  BY DEF TypesInv, Types
<1>1. UNCHANGED <<sendVars, closer, permits>>
  BY DEF TaskStep, GateOpen, RejectedClosed, Acquire, RejectedTimeout, Work, Release, Leave, Cancel, closeVars
<1> USE DEF Goto, Resolve
<1>2. \A u \in Tasks \ {t} : stage'[u] = stage[u] /\ future'[u] = future[u]
  BY <1>0 DEF TaskStep, GateOpen, RejectedClosed, Acquire, RejectedTimeout, Work, Release, Leave, Cancel
<1>3. CASE GateOpen(t) \/ Acquire(t) \/ Release(t) \/ Leave(t)
  <2>1. /\ <<stage[t], stage'[t]>> \in
             {<<"admitting", "acquiring">>, <<"acquiring", "working">>,
              <<"releasing", "leaving">>, <<"leaving", "done">>}
        /\ future'[t] = future[t]
    BY <1>0, <1>3 DEF GateOpen, Acquire, Release, Leave
  <2> QED BY <1>1, <1>2, <2>1, TaskMoves
<1>4. CASE RejectedClosed(t) \/ RejectedTimeout(t) \/ Work(t)
  <2>1. /\ <<stage[t], stage'[t]>> \in
             {<<"admitting", "leaving">>, <<"acquiring", "leaving">>, <<"working", "releasing">>}
        /\ future'[t] \notin {"none", "pending"}
    BY <1>0, <1>4 DEF RejectedClosed, RejectedTimeout, Work
  <2> QED BY <1>1, <1>2, <2>1, TaskMoves
<1>5. CASE Cancel(t)
  <2>1. stage'[t] = stage[t] /\ future[t] = "pending" /\ future'[t] = "cancelled"
    BY <1>0, <1>5 DEF Cancel
  <2>2. stage[t] # "new"
    BY <2>1 DEF LeftInv
  <2> QED BY <1>1, <1>2, <2>1, <2>2, TaskMoves
<1> QED BY <1>3, <1>4, <1>5 DEF TaskStep

LEMMA StartEffect ==
  ASSUME TypesInv, LeftInv, QueueInv, Start
  PROVE  LeftInv' /\ NothingGrows /\ SomethingIsLess
<1>0. stage \in [Tasks -> Stages]
  BY DEF TypesInv, Types
<1>1. PICK t \in Tasks : t = Head(queue)
  BY StartTypes DEF TypesInv
<1>2. stage' = [stage EXCEPT ![t] = "admitting"] /\ UNCHANGED <<sendVars, future, closer, permits>>
  BY <1>1 DEF Start, Goto, closeVars
<1>3. stage[t] = "queued"
  <2>1. queue \in Seq(Tasks) /\ queue # <<>>
    BY DEF TypesInv, Types, Start
  <2>2. t = queue[1] /\ 1 \in 1..Len(queue)
    BY <1>1, <2>1
  <2> QED BY <2>2 DEF QueueInv, QueueIsQueued
<1>4. /\ <<stage[t], stage'[t]>> = <<"queued", "admitting">>
      /\ \A u \in Tasks \ {t} : stage'[u] = stage[u] /\ future'[u] = future[u]
  BY <1>0, <1>1, <1>2, <1>3
<1>5. LeftInv' /\ NothingGrows /\ TaskLeft(t)' < TaskLeft(t)
  BY <1>1, <1>2, <1>4, TaskMoves
<1> QED BY <1>1, <1>5 DEF SomethingIsLess

LEMMA CloseEffect ==
  ASSUME TypesInv, LeftInv, NEW c \in Closers, CloseGate(c) \/ CloseStep(c)
  PROVE  LeftInv' /\ NothingGrows /\ CloseLeft(c)' < CloseLeft(c)
<1>0. /\ closer \in [Closers -> Closings] /\ permits \in [Closers -> 0..Max] /\ Max \in Nat /\ Max > 0
      /\ Waits \subseteq Closers
  BY MaxNat, PoolAssumption DEF TypesInv, Types
<1>1. UNCHANGED <<sendVars, stage, future>>
  BY DEF CloseGate, CloseStep, DrainStep, DrainOne, Drained, RefillOne, Refilled, StopExecutor, JoinWorkers
<1>2. \A d \in Closers \ {c} : closer'[d] = closer[d] /\ permits'[d] = permits[d]
  BY <1>0 DEF CloseGate, CloseStep, DrainStep, DrainOne, Drained, RefillOne, Refilled, StopExecutor, JoinWorkers
<1>3. \/ closer[c] = "idle" /\ closer'[c] \in {"draining", "stopping"} /\ permits'[c] = permits[c]
            /\ (closer'[c] = "draining" => c \in Waits)
      \/ closer[c] = "draining" /\ closer'[c] = "draining" /\ permits'[c] = permits[c] + 1
      \/ closer[c] = "draining" /\ closer'[c] = "refilling" /\ permits'[c] = permits[c] /\ permits[c] = Max
      \/ closer[c] = "refilling" /\ closer'[c] = "refilling" /\ permits'[c] = permits[c] - 1
      \/ closer[c] = "refilling" /\ closer'[c] = "stopping" /\ permits'[c] = permits[c] /\ permits[c] = 0
      \/ closer[c] = "stopping" /\ closer'[c] \in {"joining", "returned"} /\ permits'[c] = permits[c]
      \/ closer[c] = "joining" /\ closer'[c] = "returned" /\ permits'[c] = permits[c]
  <2>1. CASE CloseGate(c)
    BY <1>0, <2>1 DEF CloseGate
  <2>2. CASE DrainOne(c) \/ Drained(c)
    BY <1>0, <2>2 DEF DrainOne, Drained
  <2>3. CASE RefillOne(c) \/ Refilled(c)
    BY <1>0, <2>3 DEF RefillOne, Refilled
  <2>4. CASE StopExecutor(c) \/ JoinWorkers(c)
    BY <1>0, <2>4 DEF StopExecutor, JoinWorkers
  <2> QED BY <2>1, <2>2, <2>3, <2>4 DEF CloseStep, DrainStep
<1>4. permits[c] \in Nat /\ permits[c] <= Max /\ (0 < permits[c] => closer[c] \in {"draining", "refilling"})
  BY <1>0 DEF LeftInv
<1>5. CloseLeft(c)' < CloseLeft(c) /\ CloseLeft(c)' \in Int /\ CloseLeft(c) \in Int
  BY <1>0, <1>3, <1>4 DEF CloseLeft
<1>6. \A d \in Closers \ {c} : CloseLeft(d)' = CloseLeft(d) /\ CloseLeft(d) \in Int
  BY <1>0, <1>2 DEF CloseLeft
<1>7. \A t \in Tasks : TaskLeft(t)' = TaskLeft(t) /\ TaskLeft(t) \in Nat
  BY <1>1 DEF TaskLeft, StagesAhead, Unresolved
<1>8. NothingGrows
  BY <1>1, <1>5, <1>6, <1>7, OthersRest DEF NothingGrows
<1>9. /\ 0 < permits'[c] => closer'[c] \in {"draining", "refilling"}
      /\ closer'[c] \in {"draining", "refilling"} => c \in Waits
  BY <1>3, <1>4 DEF LeftInv
<1>10. LeftInv'
  BY <1>1, <1>2, <1>9 DEF LeftInv, sendVars
<1> QED BY <1>5, <1>8, <1>10

LEMMA LeftStarts == Init => LeftInv
<1> SUFFICES ASSUME Init PROVE LeftInv
  OBVIOUS
<1>1. \A d \in Dispatchers : sent[d] <= Len(Batch[d])
  BY BatchLengths DEF Init
<1> QED BY <1>1, MaxNat DEF Init, LeftInv

LEMMA LeftStep ==
  ASSUME PoolInv, LeftInv, Next
  PROVE  LeftInv' /\ (UNCHANGED vars \/ (NothingGrows /\ SomethingIsLess))
<1>1. TypesInv /\ QueueInv
  BY DEF PoolInv
<1> DEFINE Goal == LeftInv' /\ NothingGrows /\ SomethingIsLess
<1>2. ASSUME NEW d \in Dispatchers, DispatchStep(d) PROVE Goal
  BY <1>1, <1>2, DispatchEffect DEF SomethingIsLess
<1>3. ASSUME NEW t \in Tasks, TaskStep(t) \/ Cancel(t) PROVE Goal
  BY <1>1, <1>3, TaskEffect DEF SomethingIsLess
<1>4. Start => Goal
  BY <1>1, StartEffect
<1>5. ASSUME NEW c \in Closers, CloseGate(c) \/ CloseStep(c) PROVE Goal
  BY <1>1, <1>5, CloseEffect DEF SomethingIsLess
<1>6. UNCHANGED vars => LeftInv'
  BY DEF LeftInv, vars, sendVars, closeVars
<1> QED BY <1>2, <1>3, <1>4, <1>5, <1>6 DEF Next, Rest

LEMMA LeftHolds == Spec => []LeftInv
<1>1. UNCHANGED vars /\ LeftInv => LeftInv'
  BY DEF LeftInv, vars, sendVars, closeVars
<1>2. PoolInv /\ LeftInv /\ [Next]_vars => LeftInv'
  BY <1>1, LeftStep
<1> QED BY <1>2, LeftStarts, PoolInvHolds, PTL DEF Spec

(* Every step of the pool leaves some task, dispatch or shutdown with less *)
(* to do and none with more: nothing is retried, requeued or drained again,*)
(* whatever is rejected, cancelled or shut down (worker_pool.py:80-213,    *)
(* admission.py:74-131); what is left is a natural number for each.        *)
THEOREM PoolCountsDown == Spec => PoolAdvances /\ []LeftIsCounted
<1>1. PoolInv /\ LeftInv /\ [Next]_vars => [NothingGrows /\ SomethingIsLess]_vars
  BY LeftStep
<1>2. TypesInv /\ LeftInv => LeftIsCounted
  <2> SUFFICES ASSUME TypesInv, LeftInv PROVE LeftIsCounted
    OBVIOUS
  <2>1. \A t \in Tasks : TaskLeft(t) \in Nat
    BY DEF TaskLeft, StagesAhead, Unresolved
  <2>2. \A d \in Dispatchers : DispatchLeft(d) \in Nat
    <3>1. \A d \in Dispatchers : Len(Batch[d]) \in Nat /\ sent[d] \in Nat /\ sent[d] <= Len(Batch[d])
      BY BatchLengths DEF LeftInv, TypesInv, Types
    <3>2. \A d \in Dispatchers : Len(Batch[d]) - sent[d] \in Nat
      BY <3>1
    <3> QED BY <3>2 DEF DispatchLeft
  <2>3. \A c \in Closers : CloseLeft(c) \in Nat
    BY MaxNat DEF CloseLeft, TypesInv, Types
  <2> QED BY <2>1, <2>2, <2>3 DEF LeftIsCounted
<1> QED BY <1>1, <1>2, LeftHolds, PoolInvHolds, PTL DEF Spec, PoolAdvances, PoolInv

-----------------------------------------------------------------------------
\* One shutdown alone never holds every slot and waits for one more.
LEMMA AnotherHolds ==
  ASSUME Types, NEW d \in Closers, permits[d] < Cardinality(Permits)
  PROVE  \E e \in Closers : e # d /\ 0 < permits[e]
<1>1. permits \in [Closers -> 0..Max] /\ Max \in Nat /\ permits[d] \in 0..Max
  BY MaxNat DEF Types
<1>2. SUFFICES ASSUME \A e \in Closers : e # d => permits[e] = 0 PROVE FALSE
  BY <1>1
<1> DEFINE n == permits[d]
<1>3. Permits \subseteq {d} \X (1..n)
  BY <1>1, <1>2 DEF Permits
<1>4. IsFiniteSet({d} \X (1..n)) /\ Cardinality({d} \X (1..n)) = 1 * n
  <2>1. IsFiniteSet({d}) /\ Cardinality({d}) = 1
    BY FS_Singleton
  <2>2. n \in Nat
    BY <1>1
  <2>3. IsFiniteSet(1..n) /\ Cardinality(1..n) = n
    BY <2>2, FS_Interval
  <2> QED BY <2>1, <2>3, FS_Product
<1>5. Cardinality(Permits) <= n
  BY <1>1, <1>3, <1>4, FS_Subset
<1> QED BY <1>1, <1>5, FiniteParts

LEMMA StuckOnDrains ==
  ASSUME PoolInv, LeftInv, ~CanGoOn
  PROVE  AtRest \/ DrainsCollide
<1>0. Types /\ QueueIsQueued /\ SlotsConserved /\ Max \in Nat /\ Max > 0
  BY MaxNat DEF PoolInv, TypesInv, QueueInv
<1>1. \A d \in Dispatchers : sender[d] \in {"returned", "raised"}
  BY <1>0 DEF CanGoOn, LeftInv, Types
<1>2. \A t \in Tasks : stage[t] \in {"new", "queued", "done"}
  BY <1>0 DEF CanGoOn, Types, Stages
<1>3. Busy = {} /\ Holders = {}
  BY <1>2 DEF Busy, Holders
<1>4. queue = <<>>
  <2>1. Cardinality(Busy) = 0 /\ Workers > 0
    BY <1>0, <1>3, FS_EmptySet, PoolAssumption DEF Workers
  <2> QED BY <2>1 DEF CanGoOn
<1>5. \A t \in Tasks : stage[t] \in {"new", "done"} /\ future[t] # "pending"
  <2>1. \A t \in Tasks : stage[t] # "queued"
    <3>1. 1..Len(queue) = {}
      BY <1>4
    <3> QED BY <1>0, <3>1 DEF QueueIsQueued
  <2> QED BY <1>2, <2>1 DEF LeftInv
<1>6. \A c \in Closers : closer[c] \in {"idle", "returned", "draining"}
  BY <1>0, <1>3, <1>4 DEF CanGoOn, Types, Closings
<1>7. slots + Cardinality(Permits) = Max /\ slots \in Nat /\ Cardinality(Permits) \in Nat
  BY <1>0, <1>3, FS_EmptySet, FiniteParts DEF SlotsConserved, Types
<1>8. CASE \A c \in Closers : closer[c] # "draining"
  <2>1. Permits = {}
    <3>1. permits \in [Closers -> 0..Max]
      BY <1>0 DEF Types
    <3>2. \A c \in Closers : closer[c] \notin {"draining", "refilling"}
      BY <1>6, <1>8
    <3>3. \A c \in Closers : permits[c] \in Nat /\ ~(0 < permits[c])
      BY <1>0, <3>1, <3>2 DEF LeftInv
    <3> QED BY <3>3 DEF Permits
  <2>2. slots = Max
    BY <1>7, <2>1, FS_EmptySet
  <2> QED BY <1>1, <1>5, <1>6, <1>8, <2>2 DEF AtRest
<1>9. CASE \E c \in Closers : closer[c] = "draining"
  <2>1. slots = 0 /\ \A c \in Closers : closer[c] = "draining" => permits[c] < Max
    BY <1>0, <1>7, <1>9 DEF CanGoOn, Types
  <2>2. PICK c \in Closers : closer[c] = "draining"
    BY <1>9
  <2>3. PICK d \in Closers : 0 < permits[d]
    <3>1. CASE 0 < permits[c]
      BY <3>1
    <3>2. CASE ~(0 < permits[c])
      <4>1. permits[c] < Cardinality(Permits)
        BY <1>0, <1>7, <2>1, <3>2 DEF Types
      <4> QED BY <1>0, <4>1, AnotherHolds
    <3> QED BY <3>1, <3>2
  <2>4. \A e \in Closers : 0 < permits[e] => closer[e] = "draining" /\ e \in Waits
    BY <1>6 DEF LeftInv
  <2>5. PICK e \in Closers : e # d /\ 0 < permits[e]
    <3>1. permits[d] < Cardinality(Permits)
      BY <1>7, <2>1, <2>3, <2>4
    <3> QED BY <1>0, <3>1, AnotherHolds
  <2> QED BY <2>1, <2>3, <2>4, <2>5 DEF DrainsCollide
<1> QED BY <1>8, <1>9

(* Where no thread can go on, every future is resolved, every slot free    *)
(* and every shutdown that was called has returned, unless two shutdowns   *)
(* that wait drain the gate at once and each holds slots the other waits   *)
(* for (admission.py:112-131): the only way the pool hangs.                *)
THEOREM OnlyDrainsBlock == Spec => []NeverStuck
<1>1. PoolInv /\ LeftInv => NeverStuck
  BY StuckOnDrains DEF NeverStuck
<1> QED BY <1>1, PoolInvHolds, LeftHolds, PTL
=============================================================================
