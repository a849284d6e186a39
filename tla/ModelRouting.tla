----------------------------- MODULE ModelRouting -----------------------------
(***************************************************************************)
(* SmartRouter.select (src/adapters/routing_strategies/smart_router.py)    *)
(* over the circuit breakers of the adapters (circuit_breaker.py there),   *)
(* used by several callers at a time.  A caller looks at the breaker and   *)
(* the price of one provider after the other, filters and ranks them, and  *)
(* sends its request to the first; by then the breaker may have tripped.   *)
(* Time is events: a failure leaves the window, a cooldown elapses.        *)
(***************************************************************************)
EXTENDS Integers, Sequences, FiniteSets, Functions

CONSTANTS
  Providers,        \* the argument `providers`: a sequence of provider+model pairs
  Price,            \* provider -> estimate_cost(...).expected_cost
  Budgets,          \* values of budget_remaining
  Strategies,       \* "cost_aware", "latency_aware", "smart" or "round_robin"
  Routers,          \* callers
  FailureThreshold, \* CircuitBreakerConfig
  SuccessThreshold,
  MaxRequests       \* bound: requests sent

\* A breaker closes after one success at least, and names of providers are
\* not those of a caller that waits.
ASSUME RouterAssumption ==
  /\ Providers \in Seq(STRING)
  /\ Range(Providers) \cap {"idle", "looking"} = {}
  /\ IsFiniteSet(Routers)
  /\ FailureThreshold \in Nat \ {0} /\ SuccessThreshold \in Nat \ {0}
  /\ MaxRequests \in Nat

VARIABLES
  breaker,     \* provider -> [state, recent, failures, successes, cooled]
  seen,        \* caller -> for each provider it looked at, whether it was healthy
  routing,     \* caller -> "idle", "looking", or the provider its request is with
  counter,     \* _round_robin_counters["default"]
  requests,    \* history: requests sent
  streak,      \* history: provider -> successes since it last failed or went half-open
  late         \* history: provider -> requests sent to it since its breaker opened

routerVars == <<breaker, seen, routing, counter, requests, streak, late>>

Models == Range(Providers)

NewBreaker ==
  [state |-> "closed", recent |-> 0, failures |-> 0, successes |-> 0, cooled |-> FALSE]

RouterInit ==
  /\ breaker = [p \in Models |-> NewBreaker]
  /\ seen = [c \in Routers |-> <<>>]
  /\ routing = [c \in Routers |-> "idle"]
  /\ counter = 0 /\ requests = 0
  /\ streak = [p \in Models |-> 0]
  /\ late = [p \in Models |-> 0]

-----------------------------------------------------------------------------
(* One breaker.                                                            *)

Trip(b) == [b EXCEPT !.state = "open", !.cooled = FALSE]

Restore(b) == [b EXCEPT !.state = "closed", !.failures = 0, !.recent = 0]

MaybeTransition(b) ==
  IF b.state = "open" /\ b.cooled THEN [b EXCEPT !.state = "half_open", !.successes = 0] ELSE b

Succeeded(b) ==
  CASE b.state = "half_open" ->
         IF b.successes + 1 >= SuccessThreshold
           THEN Restore([b EXCEPT !.successes = @ + 1])
           ELSE [b EXCEPT !.successes = @ + 1]
    [] b.state = "closed" -> [b EXCEPT !.failures = 0, !.successes = @ + 1]
    [] OTHER -> b
RecordSuccess(b) == Succeeded(MaybeTransition(b))

\* Mutant of RecordFailure: a failure between two probes is not held against them.
RecordFailureForgives(b) ==
  LET c == [b EXCEPT !.recent = @ + 1, !.failures = @ + 1]
      trips == c.recent >= FailureThreshold \/ c.failures >= FailureThreshold
  IN  IF b.state = "closed" /\ trips THEN Trip([c EXCEPT !.successes = 0]) ELSE c

\* The state is not brought up to date first, and only a closed breaker trips.
RecordFailure(b) ==
  LET c == [b EXCEPT !.recent = @ + 1, !.failures = @ + 1, !.successes = 0]
      trips == c.recent >= FailureThreshold \/ c.failures >= FailureThreshold
  IN  IF b.state = "closed" /\ trips THEN Trip(c) ELSE c

Becomes(p, b) ==
  /\ breaker' = [breaker EXCEPT ![p] = b]
  /\ late' = [late EXCEPT ![p] = IF b.state = "open" THEN @ ELSE 0]

\* Counters matter up to the thresholds only.
Capped(b) ==
  [b EXCEPT !.recent = IF @ > FailureThreshold THEN FailureThreshold ELSE @,
            !.failures = IF @ > FailureThreshold THEN FailureThreshold ELSE @,
            !.successes = IF @ > SuccessThreshold THEN SuccessThreshold ELSE @]

-----------------------------------------------------------------------------
(* One selection.                                                          *)

\* _build_candidates asks for one breaker after the other; asking brings it
\* up to date.
Look(c) ==
  /\ routing[c] \in {"idle", "looking"} /\ requests < MaxRequests
  /\ Len(seen[c]) < Len(Providers)
  /\ LET p == Providers[Len(seen[c]) + 1]
         b == MaybeTransition(breaker[p])
     IN  /\ Becomes(p, b)
         /\ seen' = [seen EXCEPT ![c] = Append(@, b.state # "open")]
         /\ streak' = [streak EXCEPT ![p] = IF b.state # breaker[p].state THEN 0 ELSE @]
  /\ routing' = [routing EXCEPT ![c] = "looking"]
  /\ UNCHANGED <<counter, requests>>

\* Mutant of Candidates: the health found is not used.
CandidatesAll(c, budget) == {i \in DOMAIN Providers : Price[Providers[i]] <= budget}

\* Places in the list, which the code's list of candidates keeps in order.
Candidates(c, budget) ==
  {i \in DOMAIN Providers : seen[c][i] /\ Price[Providers[i]] <= budget}

\* With one latency and one capability for everybody, latency_aware and
\* smart rank by price as cost_aware does; sorts are stable.
Cheapest(i, candidates) ==
  \A j \in candidates :
    \/ Price[Providers[i]] < Price[Providers[j]]
    \/ Price[Providers[i]] = Price[Providers[j]] /\ i <= j

Send(c, p) ==
  /\ routing' = [routing EXCEPT ![c] = p]
  /\ seen' = [seen EXCEPT ![c] = <<>>]
  /\ requests' = requests + 1
  /\ late' = [late EXCEPT ![p] = IF breaker[p].state = "open" THEN @ + 1 ELSE @]
  /\ UNCHANGED <<breaker, streak>>

AllSeen(c) ==
  routing[c] = "looking" /\ Len(seen[c]) = Len(Providers) /\ requests < MaxRequests

SelectBest(c) ==
  /\ AllSeen(c)
  /\ Strategies \ {"round_robin"} # {}
  /\ \E budget \in Budgets : \E i \in Candidates(c, budget) :
       /\ Cheapest(i, Candidates(c, budget))
       /\ Send(c, Providers[i])
  /\ UNCHANGED counter

\* The counter is kept modulo the length of today's list.
SelectNext(c) ==
  /\ AllSeen(c)
  /\ "round_robin" \in Strategies
  /\ \E budget \in Budgets : \E i \in Candidates(c, budget) :
       LET candidates == Candidates(c, budget)
           turn == counter % Cardinality(candidates)
       IN  /\ Cardinality({j \in candidates : j < i}) = turn
           /\ Send(c, Providers[i])
           /\ counter' = turn + 1

RouteExhausted(c) ==
  /\ AllSeen(c)
  /\ \E budget \in Budgets : Candidates(c, budget) = {}
  /\ routing' = [routing EXCEPT ![c] = "idle"]
  /\ seen' = [seen EXCEPT ![c] = <<>>]
  /\ UNCHANGED <<breaker, counter, requests, streak, late>>

-----------------------------------------------------------------------------
(* What becomes of a request, and time.                                    *)

Done(c) ==
  /\ routing[c] \in Models
  /\ routing' = [routing EXCEPT ![c] = "idle"]
  /\ UNCHANGED <<seen, counter, requests>>

ReportSuccess(c) ==
  /\ Done(c)
  /\ LET p == routing[c]
         b == MaybeTransition(breaker[p])
     IN  /\ Becomes(p, Capped(RecordSuccess(breaker[p])))
         /\ streak' = [streak EXCEPT ![p] =
              IF b.state # breaker[p].state THEN 1
              ELSE IF @ < SuccessThreshold THEN @ + 1 ELSE @]

ReportFailure(c) ==
  /\ Done(c)
  /\ LET p == routing[c]
     IN  /\ Becomes(p, Capped(RecordFailure(breaker[p])))
         /\ streak' = [streak EXCEPT ![p] = 0]

\* A bad request, a refused key, an exhausted budget: not the breaker's.
ReportIrrelevant(c) == Done(c) /\ UNCHANGED <<breaker, streak, late>>

CooldownElapses(p) ==
  /\ breaker[p].state = "open" /\ ~breaker[p].cooled
  /\ breaker' = [breaker EXCEPT ![p].cooled = TRUE]
  /\ UNCHANGED <<seen, routing, counter, requests, streak, late>>

\* Old failures leave the window when a failure is recorded.
LeaveWindow(p) ==
  /\ breaker[p].recent > 0
  /\ breaker' = [breaker EXCEPT ![p].recent = @ - 1]
  /\ UNCHANGED <<seen, routing, counter, requests, streak, late>>

SelectStep(c) == Look(c) \/ SelectBest(c) \/ SelectNext(c) \/ RouteExhausted(c)
ReportStep(c) == ReportSuccess(c) \/ ReportFailure(c) \/ ReportIrrelevant(c)
Spent == requests = MaxRequests /\ UNCHANGED routerVars

RouterNext ==
  \/ \E c \in Routers : SelectStep(c) \/ ReportStep(c)
  \/ \E p \in Models : CooldownElapses(p) \/ LeaveWindow(p)
  \/ Spent

RouterSpec == RouterInit /\ [][RouterNext]_routerVars

-----------------------------------------------------------------------------
Breakers ==
  [state : {"closed", "open", "half_open"}, recent : 0..FailureThreshold,
   failures : 0..FailureThreshold, successes : 0..SuccessThreshold, cooled : BOOLEAN]

(* The type of every variable; a closed breaker is below its thresholds.   *)
RouterTypeOK ==
  /\ breaker \in [Models -> Breakers]
  /\ seen \in [Routers -> Seq(BOOLEAN)] /\ \A c \in Routers : Len(seen[c]) <= Len(Providers)
  /\ routing \in [Routers -> {"idle", "looking"} \cup Models]
  /\ counter \in 0..Len(Providers) /\ requests \in 0..MaxRequests
  /\ streak \in [Models -> 0..SuccessThreshold] /\ late \in [Models -> Nat]
  /\ \A p \in Models :
       breaker[p].state = "closed" => breaker[p].failures < FailureThreshold
                                      /\ breaker[p].recent < FailureThreshold

(* A breaker that went half-open closes on success_threshold successes in  *)
(* a row, whichever callers report them and however long their requests    *)
(* were under way; a failure in between starts the count again.            *)
ClosesOnStreak ==
  [][\A p \in Models :
       breaker[p].state # "closed" /\ breaker'[p].state = "closed" => streak'[p] >= SuccessThreshold]_routerVars

(* An open breaker keeps requests away: only a caller that looked before   *)
(* it opened still sends one, so there are at most as many as callers.     *)
LateRequestsBounded ==
  \A p \in Models : late[p] <= Cardinality(Routers)
=============================================================================
