--------------------------- MODULE CircuitBreaker ---------------------------
(***************************************************************************)
(* One CircuitBreaker of src/core/circuit_breaker.py, shared by concurrent *)
(* callers.  Every method holds the breaker's lock from its first to its   *)
(* last statement, so a method is one step; what interleaves is the time   *)
(* between a caller's can_execute and the result it records, if it ever    *)
(* records one.                                                            *)
(*                                                                         *)
(* A ticket is history: what can_execute admitted the caller as, and       *)
(* `_half_open_epoch` at that moment.  A caller that dies, or whose tier   *)
(* the loop leaves, keeps its ticket and never records.                    *)
(***************************************************************************)
EXTENDS Integers, FiniteSets

CONSTANTS
  Callers,       \* threads that use the breaker
  RateNum,       \* failure_threshold as the fraction RateNum / RateDen
  RateDen,
  SampleSize,    \* sample_size
  HalfOpenMax,   \* half_open_max
  MaxTotal,      \* bound: results counted, and calls under way, while closed
  MaxEpoch       \* bound: _half_open_epoch

ASSUME BreakerAssumption ==
  /\ IsFiniteSet(Callers)
  /\ RateNum \in Nat \ {0} /\ RateDen \in Nat \ {0}
  /\ SampleSize \in Nat \ {0}
  /\ HalfOpenMax \in Nat \ {0}
  /\ MaxTotal \in Nat /\ MaxEpoch \in Nat

VARIABLES
  state,      \* _state
  failures,   \* _failures
  successes,  \* _successes
  total,      \* _total
  inFlight,   \* _half_open_in_flight
  epoch,      \* _half_open_epoch
  cooled,     \* cooldown_seconds have passed since _opened_at
  ticket      \* caller -> the admission it has not reported on

counters == <<failures, successes, total, inFlight>>
breaker == <<state, counters, epoch, cooled>>
vars == <<breaker, ticket>>

States == {"closed", "open", "half_open"}
NoTicket == [as |-> "none", epoch |-> 0]

Init ==
  /\ state = "closed"
  /\ failures = 0 /\ successes = 0 /\ total = 0 /\ inFlight = 0
  /\ epoch = 0 /\ cooled = FALSE
  /\ ticket = [c \in Callers |-> NoTicket]

Waiting(c) == ticket[c].as # "none"
UnderWay == {c \in Callers : Waiting(c)}

-----------------------------------------------------------------------------
(* Transitions, taken with the lock held.                                  *)

ResetCounters == failures' = 0 /\ successes' = 0 /\ total' = 0 /\ inFlight' = 0

Open == state' = "open" /\ cooled' = FALSE /\ ResetCounters /\ UNCHANGED epoch

\* Mutant of ToHalfOpen: the epoch is not advanced.
ToHalfOpenSameEpoch ==
  /\ state = "open" /\ cooled /\ epoch < MaxEpoch
  /\ state' = "half_open"
  /\ ResetCounters
  /\ UNCHANGED <<epoch, cooled>>

ToHalfOpen ==
  /\ state = "open" /\ cooled /\ epoch < MaxEpoch
  /\ state' = "half_open"
  /\ epoch' = epoch + 1
  /\ ResetCounters
  /\ UNCHANGED cooled

Close == state' = "closed" /\ cooled' = FALSE /\ ResetCounters /\ UNCHANGED epoch

\* The failure rate of a large enough sample reaches the threshold.
TooManyFailures(f, t) == t >= SampleSize /\ f * RateDen >= RateNum * t

Count(f, s) ==
  IF TooManyFailures(f, f + s)
  THEN Open
  ELSE /\ failures' = f /\ successes' = s /\ total' = f + s
       /\ UNCHANGED <<state, inFlight, epoch, cooled>>

-----------------------------------------------------------------------------
(* can_execute, by the branch that returns True.                           *)

Admit(c, how, e) ==
  /\ ~Waiting(c)
  /\ ticket' = [ticket EXCEPT ![c] = [as |-> how, epoch |-> e]]

AdmitClosed(c) ==
  /\ state = "closed"
  /\ total + Cardinality(UnderWay) < MaxTotal
  /\ Admit(c, "call", epoch)
  /\ UNCHANGED breaker

\* The caller that finds the cooldown over: let through, but not counted.
AdmitFirst(c) == ToHalfOpen /\ Admit(c, "first", epoch + 1)

AdmitProbe(c) ==
  /\ state = "half_open"
  /\ inFlight < HalfOpenMax
  /\ inFlight' = inFlight + 1
  /\ Admit(c, "probe", epoch)
  /\ UNCHANGED <<state, failures, successes, total, epoch, cooled>>

-----------------------------------------------------------------------------
(* record_success and record_failure: a result is taken at face value,     *)
(* whichever epoch the call it belongs to was admitted in.                 *)

Report(c) == Waiting(c) /\ ticket' = [ticket EXCEPT ![c] = NoTicket]
ReleaseSlot == inFlight' = IF inFlight = 0 THEN 0 ELSE inFlight - 1

\* Mutant of RecordSuccess: the slot of a successful probe is not released.
RecordSuccessKeepsSlot(c) ==
  /\ Report(c)
  /\ \/ state = "open" /\ UNCHANGED breaker
     \/ state = "half_open" /\ successes + 1 >= HalfOpenMax /\ Close
     \/ /\ state = "half_open" /\ successes + 1 < HalfOpenMax
        /\ successes' = successes + 1
        /\ UNCHANGED <<state, failures, total, inFlight, epoch, cooled>>
     \/ state = "closed" /\ Count(failures, successes + 1)

RecordSuccess(c) ==
  /\ Report(c)
  /\ \/ state = "open" /\ UNCHANGED breaker
     \/ state = "half_open" /\ successes + 1 >= HalfOpenMax /\ Close
     \/ /\ state = "half_open" /\ successes + 1 < HalfOpenMax
        /\ successes' = successes + 1
        /\ ReleaseSlot
        /\ UNCHANGED <<state, failures, total, epoch, cooled>>
     \/ state = "closed" /\ Count(failures, successes + 1)

\* Mutant of RecordFailure: the threshold is only looked at on a success.
RecordFailureUnchecked(c) ==
  /\ Report(c)
  /\ \/ state = "open" /\ UNCHANGED breaker
     \/ state = "half_open" /\ Open
     \/ /\ state = "closed"
        /\ failures' = failures + 1 /\ total' = total + 1
        /\ UNCHANGED <<state, successes, inFlight, epoch, cooled>>

RecordFailure(c) ==
  /\ Report(c)
  /\ \/ state = "open" /\ UNCHANGED breaker
     \/ state = "half_open" /\ Open
     \/ state = "closed" /\ Count(failures + 1, successes)

-----------------------------------------------------------------------------
CooldownElapses == state = "open" /\ ~cooled /\ cooled' = TRUE
                   /\ UNCHANGED <<state, counters, epoch, ticket>>

\* The property `state` moves an open breaker on without admitting anyone.
ReadState == ToHalfOpen /\ UNCHANGED ticket

Reset == Close /\ UNCHANGED ticket

Call(c) == AdmitClosed(c) \/ AdmitFirst(c) \/ AdmitProbe(c) \/ RecordSuccess(c) \/ RecordFailure(c)

Next == (\E c \in Callers : Call(c)) \/ CooldownElapses \/ ReadState \/ Reset

Spec == Init /\ [][Next]_vars

-----------------------------------------------------------------------------
(* The type of every variable.                                             *)
TypeOK ==
  /\ state \in States
  /\ failures \in Nat /\ successes \in Nat /\ total \in Nat
  /\ inFlight \in 0..HalfOpenMax
  /\ epoch \in Nat /\ cooled \in BOOLEAN
  /\ ticket \in [Callers -> [as : {"none", "call", "first", "probe"}, epoch : Nat]]

\* Calls under way that this half-open episode let through.
Probes == {c \in Callers : ticket[c].as = "probe" /\ ticket[c].epoch = epoch}
Firsts == {c \in Callers : ticket[c].as = "first" /\ ticket[c].epoch = epoch}

(* A breaker that is closed has never let a sample of sample_size results  *)
(* with too many failures pass, whichever of the callers' results came     *)
(* last; and the three counters tell the same story.                       *)
ClosedOnGoodSample ==
  state = "closed" => total = failures + successes /\ ~TooManyFailures(failures, total)

(* No slot is lost: a slot counted as in flight belongs to a call of this  *)
(* episode that is still under way, although results of calls from before  *)
(* the outage come in between.                                             *)
NoPhantomSlot == state = "half_open" => inFlight <= Cardinality(Probes)

(* Late results free slots that are not theirs, and the call that finds    *)
(* the cooldown over holds none; still an episode never has more than      *)
(* 2 * half_open_max calls under way.                                      *)
ProbesBounded ==
  state = "half_open" =>
    Cardinality(Probes) + Cardinality(Firsts) <= HalfOpenMax + successes + 1

(* "stale results from previous epochs are discarded": the result of a     *)
(* call from before this half-open episode changes nothing in the breaker. *)
StaleResultsDiscarded ==
  [][\A c \in Callers :
       state = "half_open" /\ Waiting(c) /\ ticket[c].epoch < epoch /\ ticket'[c] = NoTicket
       => UNCHANGED breaker]_vars
=============================================================================
