----------------------------- MODULE WorkerPool -----------------------------
(***************************************************************************)
(* One WorkerPool (src/core/worker_pool.py) over one AdmissionGate         *)
(* (src/core/admission.py): threads that dispatch batches of tasks, the    *)
(* executor's worker threads that push each task through the gate, callers *)
(* that cancel the futures they were given, and threads that shut the pool *)
(* down, waiting or not.                                                   *)
(*                                                                         *)
(* A step is what a thread does between two points where another thread    *)
(* may come in: a lock section, a semaphore operation, an executor call.   *)
(* What execute_with_judge does is EscalationLoop's business; here it      *)
(* returns or raises.  The gate's metrics are written and never read by    *)
(* the pool, and left out.                                                 *)
(***************************************************************************)
EXTENDS Integers, FiniteSets, Sequences

CONSTANTS
  Max,          \* max_concurrent
  WorkerCap,    \* 32 in the code: the executor's largest number of threads
  Tasks,        \* TaskSpec objects
  Ids,          \* task_id values
  IdOf,         \* task -> its task_id; two tasks may have the same
  Dispatchers,  \* threads that call dispatch, each once
  Batch,        \* dispatcher -> the tasks it dispatches, in order
  Closers,      \* threads that call shutdown, each once
  Waits,        \* those that call it with wait=True
  NoTask        \* no task is registered

ASSUME PoolAssumption ==
  /\ Max \in Nat \ {0}
  /\ WorkerCap \in Nat \ {0}
  /\ IdOf \in [Tasks -> Ids]
  /\ Batch \in [Dispatchers -> Seq(Tasks)]
  /\ \A d, e \in Dispatchers : \A i \in 1..Len(Batch[d]), j \in 1..Len(Batch[e]) :
       Batch[d][i] = Batch[e][j] => d = e /\ i = j
  /\ IsFiniteSet(Tasks) /\ IsFiniteSet(Closers)
  /\ Waits \subseteq Closers /\ NoTask \notin Tasks

Workers == IF 4 * Max <= WorkerCap THEN 4 * Max ELSE WorkerCap

VARIABLES
  sent,       \* dispatcher -> tasks of its batch it is done with
  sender,     \* dispatcher -> what it does next
  queue,      \* the executor's queue
  stage,      \* task -> where its _run_task stands
  future,     \* task -> the future dispatch made for it
  slots,      \* the semaphore's value
  closed,     \* _shutdown is set: the gate rejects
  stopped,    \* the executor takes no more work
  closer,     \* closer -> what it does next
  permits,    \* closer -> slots it has acquired and not given back
  running,    \* _running: task_id -> the task registered under it
  completed   \* the keys of _completed

sendVars == <<sent, sender>>
gateVars == <<slots, closed>>
closeVars == <<stopped, closer, permits>>
statusVars == <<running, completed>>
vars == <<sendVars, queue, stage, future, gateVars, closeVars, statusVars>>

Init ==
  /\ sent = [d \in Dispatchers |-> 0]
  /\ sender = [d \in Dispatchers |-> "submit"]
  /\ queue = <<>>
  /\ stage = [t \in Tasks |-> "new"]
  /\ future = [t \in Tasks |-> "none"]
  /\ slots = Max /\ closed = FALSE
  /\ stopped = FALSE
  /\ closer = [c \in Closers |-> "idle"]
  /\ permits = [c \in Closers |-> 0]
  /\ running = [i \in Ids |-> NoTask]
  /\ completed = {}

\* Worker threads busy with a task, and tasks whose ticket was admitted.
Busy == {t \in Tasks : stage[t] \notin {"new", "queued", "done"}}
Holders == {t \in Tasks : stage[t] \in {"working", "releasing"}}

-----------------------------------------------------------------------------
(* dispatch: submit a task, then register it; the futures are returned     *)
(* after the whole batch.                                                  *)

Submit(d) ==
  /\ sender[d] = "submit"
  /\ sent[d] < Len(Batch[d])
  /\ ~stopped
  /\ LET t == Batch[d][sent[d] + 1]
     IN  /\ queue' = Append(queue, t)
         /\ stage' = [stage EXCEPT ![t] = "queued"]
         /\ future' = [future EXCEPT ![t] = "pending"]
  /\ sender' = [sender EXCEPT ![d] = "register"]
  /\ UNCHANGED <<sent, gateVars, closeVars, statusVars>>

\* The executor raises: the futures of the tasks already sent are lost.
SubmitRaises(d) ==
  /\ sender[d] = "submit"
  /\ sent[d] < Len(Batch[d])
  /\ stopped
  /\ sender' = [sender EXCEPT ![d] = "raised"]
  /\ UNCHANGED <<sent, queue, stage, future, gateVars, closeVars, statusVars>>

Register(d) ==
  /\ sender[d] = "register"
  /\ LET t == Batch[d][sent[d] + 1]
     IN  running' = [running EXCEPT ![IdOf[t]] = t]
  /\ sent' = [sent EXCEPT ![d] = @ + 1]
  /\ sender' = [sender EXCEPT ![d] = "submit"]
  /\ UNCHANGED <<queue, stage, future, gateVars, closeVars, completed>>

ReturnFutures(d) ==
  /\ sender[d] = "submit"
  /\ sent[d] = Len(Batch[d])
  /\ sender' = [sender EXCEPT ![d] = "returned"]
  /\ UNCHANGED <<sent, queue, stage, future, gateVars, closeVars, statusVars>>

\* The future is never marked as running, so its owner can always cancel it.
Cancel(t) ==
  /\ \E d \in Dispatchers :
       sender[d] = "returned" /\ \E i \in 1..Len(Batch[d]) : Batch[d][i] = t
  /\ future[t] = "pending"
  /\ future' = [future EXCEPT ![t] = "cancelled"]
  /\ UNCHANGED <<sendVars, queue, stage, gateVars, closeVars, statusVars>>

-----------------------------------------------------------------------------
(* _run_task, on a thread of the executor.                                 *)

Goto(t, s) == stage' = [stage EXCEPT ![t] = s]

\* set_result raises on a cancelled future, twice; the result is dropped.
Resolve(t, r) ==
  future' = [future EXCEPT ![t] = IF @ = "cancelled" THEN @ ELSE r]

Start ==
  /\ queue # <<>>
  /\ Cardinality(Busy) < Workers
  /\ queue' = Tail(queue)
  /\ Goto(Head(queue), "admitting")
  /\ UNCHANGED <<sendVars, future, gateVars, closeVars, statusVars>>

GateOpen(t) ==
  /\ stage[t] = "admitting"
  /\ ~closed
  /\ Goto(t, "acquiring")
  /\ UNCHANGED <<sendVars, queue, future, gateVars, closeVars, statusVars>>

RejectedClosed(t) ==
  /\ stage[t] = "admitting"
  /\ closed
  /\ Resolve(t, "rejected")
  /\ Goto(t, "leaving")
  /\ UNCHANGED <<sendVars, queue, gateVars, closeVars, statusVars>>

\* The gate may have closed since the task looked.
Acquire(t) ==
  /\ stage[t] = "acquiring"
  /\ slots > 0
  /\ slots' = slots - 1
  /\ Goto(t, "working")
  /\ UNCHANGED <<sendVars, queue, future, closed, closeVars, statusVars>>

\* Mutant of RejectedTimeout: the rejected ticket is returned, no result set.
RejectedTimeoutUnresolved(t) ==
  /\ stage[t] = "acquiring"
  /\ slots = 0
  /\ Goto(t, "leaving")
  /\ UNCHANGED <<sendVars, queue, future, gateVars, closeVars, statusVars>>

RejectedTimeout(t) ==
  /\ stage[t] = "acquiring"
  /\ slots = 0
  /\ Resolve(t, "rejected")
  /\ Goto(t, "leaving")
  /\ UNCHANGED <<sendVars, queue, gateVars, closeVars, statusVars>>

\* Mutant of Work: a task that raises keeps its slot.
WorkLeaks(t) ==
  /\ stage[t] = "working"
  /\ Resolve(t, "ended")
  /\ Goto(t, "releasing") \/ Goto(t, "leaving")
  /\ UNCHANGED <<sendVars, queue, gateVars, closeVars, statusVars>>

\* execute_with_judge returns or raises: either way a result is set.
Work(t) ==
  /\ stage[t] = "working"
  /\ Resolve(t, "ended")
  /\ Goto(t, "releasing")
  /\ UNCHANGED <<sendVars, queue, gateVars, closeVars, statusVars>>

Release(t) ==
  /\ stage[t] = "releasing"
  /\ slots' = slots + 1
  /\ Goto(t, "leaving")
  /\ UNCHANGED <<sendVars, queue, future, closed, closeVars, statusVars>>

\* Whatever is registered under the task_id goes, this task or not.
Leave(t) ==
  /\ stage[t] = "leaving"
  /\ running' = [running EXCEPT ![IdOf[t]] = NoTask]
  /\ completed' = IF future[t] = "cancelled" THEN completed ELSE completed \cup {IdOf[t]}
  /\ Goto(t, "done")
  /\ UNCHANGED <<sendVars, queue, future, gateVars, closeVars>>

-----------------------------------------------------------------------------
(* shutdown(wait): close the gate, take every slot and give it back, stop  *)
(* the executor, wait for its threads.                                     *)

CloseGate(c) ==
  /\ closer[c] = "idle"
  /\ closed' = TRUE
  /\ closer' = [closer EXCEPT ![c] = IF c \in Waits THEN "draining" ELSE "stopping"]
  /\ UNCHANGED <<sendVars, queue, stage, future, slots, stopped, permits, statusVars>>

DrainOne(c) ==
  /\ closer[c] = "draining"
  /\ permits[c] < Max
  /\ slots > 0
  /\ slots' = slots - 1
  /\ permits' = [permits EXCEPT ![c] = @ + 1]
  /\ UNCHANGED <<sendVars, queue, stage, future, closed, stopped, closer, statusVars>>

Drained(c) ==
  /\ closer[c] = "draining"
  /\ permits[c] = Max
  /\ closer' = [closer EXCEPT ![c] = "refilling"]
  /\ UNCHANGED <<sendVars, queue, stage, future, gateVars, stopped, permits, statusVars>>

RefillOne(c) ==
  /\ closer[c] = "refilling"
  /\ permits[c] > 0
  /\ slots' = slots + 1
  /\ permits' = [permits EXCEPT ![c] = @ - 1]
  /\ UNCHANGED <<sendVars, queue, stage, future, closed, stopped, closer, statusVars>>

Refilled(c) ==
  /\ closer[c] = "refilling"
  /\ permits[c] = 0
  /\ closer' = [closer EXCEPT ![c] = "stopping"]
  /\ UNCHANGED <<sendVars, queue, stage, future, gateVars, stopped, permits, statusVars>>

StopExecutor(c) ==
  /\ closer[c] = "stopping"
  /\ stopped' = TRUE
  /\ closer' = [closer EXCEPT ![c] = IF c \in Waits THEN "joining" ELSE "returned"]
  /\ UNCHANGED <<sendVars, queue, stage, future, gateVars, permits, statusVars>>

\* Mutant of JoinWorkers: a drained gate is taken for an idle pool.
JoinHolders(c) ==
  /\ closer[c] = "joining"
  /\ Holders = {}
  /\ closer' = [closer EXCEPT ![c] = "returned"]
  /\ UNCHANGED <<sendVars, queue, stage, future, gateVars, stopped, permits, statusVars>>

JoinWorkers(c) ==
  /\ closer[c] = "joining"
  /\ queue = <<>> /\ Busy = {}
  /\ closer' = [closer EXCEPT ![c] = "returned"]
  /\ UNCHANGED <<sendVars, queue, stage, future, gateVars, stopped, permits, statusVars>>

-----------------------------------------------------------------------------
DispatchStep(d) == Submit(d) \/ SubmitRaises(d) \/ Register(d) \/ ReturnFutures(d)
TaskStep(t) ==
  \/ GateOpen(t) \/ RejectedClosed(t) \/ Acquire(t) \/ RejectedTimeout(t)
  \/ Work(t) \/ Release(t) \/ Leave(t)
DrainStep(c) == DrainOne(c) \/ Drained(c) \/ RefillOne(c) \/ Refilled(c)
CloseStep(c) == DrainStep(c) \/ StopExecutor(c) \/ JoinWorkers(c)

\* All threads have ended.
Rest ==
  /\ \A d \in Dispatchers : sender[d] \in {"returned", "raised"}
  /\ queue = <<>> /\ Busy = {}
  /\ \A c \in Closers : closer[c] = "returned"
  /\ UNCHANGED vars

Next ==
  \/ \E d \in Dispatchers : DispatchStep(d)
  \/ \E t \in Tasks : TaskStep(t) \/ Cancel(t)
  \/ Start
  \/ \E c \in Closers : CloseGate(c) \/ CloseStep(c)
  \/ Rest

Spec == Init /\ [][Next]_vars

\* Threads run.  acquire has a timeout, execute_with_judge returns (CallReturns
\* of EscalationLoop), and a semaphore that stays free is eventually acquired;
\* nobody has to cancel a future or to call shutdown.
FairSpec ==
  /\ Spec
  /\ \A d \in Dispatchers : WF_vars(DispatchStep(d))
  /\ \A t \in Tasks : WF_vars(TaskStep(t))
  /\ WF_vars(Start)
  /\ \A c \in Closers : WF_vars(CloseStep(c))

-----------------------------------------------------------------------------
Stages == {"new", "queued", "admitting", "acquiring", "working", "releasing",
           "leaving", "done"}

(* The type of every variable; the semaphore never exceeds its size.       *)
TypeOK ==
  /\ sent \in [Dispatchers -> Nat]
  /\ sender \in [Dispatchers -> {"submit", "register", "returned", "raised"}]
  /\ queue \in Seq(Tasks)
  /\ stage \in [Tasks -> Stages]
  /\ future \in [Tasks -> {"none", "pending", "ended", "rejected", "cancelled"}]
  /\ slots \in 0..Max /\ closed \in BOOLEAN /\ stopped \in BOOLEAN
  /\ closer \in [Closers -> {"idle", "draining", "refilling", "stopping", "joining", "returned"}]
  /\ permits \in [Closers -> 0..Max]
  /\ running \in [Ids -> Tasks \cup {NoTask}]
  /\ completed \subseteq Ids

(* Slots are neither lost nor made: those free, those of tasks and those a *)
(* draining shutdown holds add up to max_concurrent, whether tasks return, *)
(* raise, are rejected or cancelled, before, during and after a shutdown.  *)
Permits == {p \in Closers \X (1..Max) : p[2] <= permits[p[1]]}
SlotsConserved == slots + Cardinality(Holders) + Cardinality(Permits) = Max

(* When a shutdown that waits has returned, nothing runs and nothing will: *)
(* no task is queued or on a worker, not even one that passed the gate's   *)
(* check before it closed and took a slot after the drain, and every task  *)
(* sent but cancelled has its result in the status.                        *)
ShutdownIsFinal ==
  (\E c \in Waits : closer[c] = "returned") =>
    /\ stopped /\ queue = <<>>
    /\ \A t \in Tasks :
         \/ stage[t] = "new"
         \/ stage[t] = "done" /\ (future[t] # "cancelled" => IdOf[t] \in completed)

(* Every future resolves, whichever way its task goes, also when the pool  *)
(* is shut down while the task is queued, blocked at the gate or running.  *)
EveryFutureResolves ==
  \A t \in Tasks : (future[t] = "pending") ~> (future[t] \notin {"none", "pending"})

(* A shutdown that was called returns, although waiting tasks compete with *)
(* it for the slots it drains.                                             *)
ShutdownReturns ==
  \A c \in Closers : (closer[c] # "idle") ~> (closer[c] = "returned")

=============================================================================
