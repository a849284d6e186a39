----------------------------- MODULE CostBudget -----------------------------
(***************************************************************************)
(* The budget of a process: the CostTracker of src/core/cost.py that all   *)
(* calls of ask() (src/__init__.py) share, on threads of their own.  A     *)
(* call runs in one of three modes: on a single tier, up the ladder of     *)
(* coder tiers (the deprecated helper), or through the judge, where an     *)
(* LLMOrchestrator of its own keeps a tracker of its own.                  *)
(*                                                                         *)
(* A method of the tracker holds its lock throughout and is one action;    *)
(* calls interleave between methods and while models answer.  Decimal      *)
(* amounts are natural numbers of some unit.  Prices, prompts and tokens   *)
(* are abstracted to the cost they lead to: any member of Costs, for an    *)
(* estimate and for what the answer really cost.                           *)
(***************************************************************************)
EXTENDS Integers, FiniteSets

CONSTANTS
  Asks,         \* calls of ask(), each once
  ModesOf,      \* call -> the modes it may be made in
  Tiers,        \* coder tiers on the ladder
  Costs,        \* what an estimate or an answer may cost
  Limit,        \* daily_limit_usd
  TaskLimit,    \* task_limit_usd
  Levels,       \* warn_thresholds, in percent
  WarnAt,       \* warning_threshold, in percent
  MaxDay,       \* bound on the changes of date
  MaxCalls      \* bound on the coder calls of a judged ask

Modes == {"single", "ladder", "judge"}

ASSUME BudgetAssumption ==
  /\ IsFiniteSet(Asks) /\ ModesOf \in [Asks -> SUBSET Modes]
  /\ Tiers \in Nat \ {0} /\ Costs \subseteq Nat
  /\ Limit \in Nat /\ TaskLimit \in Nat
  /\ IsFiniteSet(Levels) /\ Levels \subseteq Nat /\ WarnAt \in Nat
  /\ MaxDay \in Nat /\ MaxCalls \in Nat

VARIABLES
  \* the tracker
  daily_total, reserved_total,
  reservations,   \* the ids in _reservations
  task_totals,    \* scope -> spent; scope 0 is "ask", scope i that of tier i
  levels_shown,   \* _warning_levels_shown
  flags_date,     \* _current_date
  date,           \* the date of the clock
  \* the calls
  pc, mode,
  tier,           \* tier it is on, or 0
  amount,         \* amount of the reservation it took last
  actual,         \* actual_cost of the answer it got last
  own,            \* daily_total of its orchestrator's tracker
  calls,          \* coder calls made in judge mode
  \* history
  spent,          \* what the answers of its models cost
  overrun,        \* by how much answers cost more than was reserved for them
  alerts          \* <<level, date>> -> how often it was raised

ledgerVars == <<daily_total, reserved_total, reservations, task_totals, overrun>>
alertVars == <<levels_shown, flags_date, alerts>>
judgeVars == <<own, calls>>
planVars == <<mode, tier, amount>>
vars == <<ledgerVars, alertVars, date, pc, planVars, actual, judgeVars, spent>>

Scopes == 0..Tiers
Id(a) == <<a, tier[a]>>
Ids == Asks \X Scopes

Init ==
  /\ daily_total = 0 /\ reserved_total = 0 /\ reservations = {}
  /\ task_totals = [s \in Scopes |-> 0]
  /\ levels_shown = {} /\ flags_date = 0 /\ date = 0
  /\ pc = [a \in Asks |-> "idle"]
  /\ mode = [a \in Asks |-> "none"]
  /\ tier = [a \in Asks |-> 0]
  /\ amount = [a \in Asks |-> 0]
  /\ actual = [a \in Asks |-> 0]
  /\ own = [a \in Asks |-> 0] /\ calls = [a \in Asks |-> 0]
  /\ spent = [a \in Asks |-> 0]
  /\ overrun = 0
  /\ alerts = [l \in Levels \X (0..MaxDay) |-> 0]

Goto(a, p) == pc' = [pc EXCEPT ![a] = p]

-----------------------------------------------------------------------------
(* What ask does before it reserves.                                       *)

\* No API key, or an estimate above max_cost.
RefuseEarly(a) ==
  /\ pc[a] = "idle"
  /\ Goto(a, "raised")
  /\ UNCHANGED <<ledgerVars, alertVars, date, planVars, actual, judgeVars, spent>>

Start(a, m) ==
  /\ pc[a] = "idle"
  /\ mode' = [mode EXCEPT ![a] = m]
  /\ tier' = [tier EXCEPT ![a] = IF m = "ladder" THEN 1 ELSE 0]
  /\ Goto(a, IF m = "judge" THEN "judging" ELSE "reserving")
  /\ UNCHANGED <<ledgerVars, alertVars, date, amount, actual, judgeVars, spent>>

-----------------------------------------------------------------------------
(* reserve_budget.  It is called outside the `try` of its callers, so that *)
(* its exception ends the call.                                            *)

\* Mutant of Affordable: money others have reserved is not counted.
AffordableUnreserved(c) == c <= TaskLimit /\ daily_total + c <= Limit

Affordable(c) == c <= TaskLimit /\ daily_total + reserved_total + c <= Limit

Reserve(a, c) ==
  /\ pc[a] = "reserving"
  /\ Affordable(c)
  /\ reservations' = reservations \cup {Id(a)}
  /\ reserved_total' = reserved_total + c
  /\ amount' = [amount EXCEPT ![a] = c]
  /\ Goto(a, "calling")
  /\ UNCHANGED <<daily_total, task_totals, overrun, alertVars, date, mode, tier,
                 actual, judgeVars, spent>>

ReserveRaises(a, c) ==
  /\ pc[a] = "reserving"
  /\ ~Affordable(c)
  /\ Goto(a, "raised")
  /\ UNCHANGED <<ledgerVars, alertVars, date, planVars, actual, judgeVars, spent>>

-----------------------------------------------------------------------------
(* The model answers, or call_llm_with_retry gives up or raises.           *)

Answer(a, c) ==
  /\ pc[a] = "calling"
  /\ actual' = [actual EXCEPT ![a] = c]
  /\ spent' = [spent EXCEPT ![a] = @ + c]
  /\ Goto(a, "finalizing")
  /\ UNCHANGED <<ledgerVars, alertVars, date, planVars, judgeVars>>

\* On a single tier the reservation of a failed call is released once where
\* the failure is seen and once more by the handler of the exception it raises.
Fail(a) ==
  /\ pc[a] = "calling"
  /\ Goto(a, IF mode[a] = "single" THEN "releasing" ELSE "leaving_tier")
  /\ UNCHANGED <<ledgerVars, alertVars, date, planVars, actual, judgeVars, spent>>

CallRaises(a) ==
  /\ pc[a] = "calling"
  /\ Goto(a, IF mode[a] = "single" THEN "raising" ELSE "leaving_tier")
  /\ UNCHANGED <<ledgerVars, alertVars, date, planVars, actual, judgeVars, spent>>

-----------------------------------------------------------------------------
(* _emit_warning("warning"): once a day and level.                         *)

Reached(percent, total) == 100 * total >= Limit * percent

\* The highest level reached, as a set of at most one.
WarningLevel(total) ==
  {l \in Levels : Reached(l, total) /\ \A k \in Levels : Reached(k, total) => k <= l}

\* Mutant of ShownToday: the date of the flags is not looked at.
ShownEver == levels_shown

ShownToday == IF flags_date = date THEN levels_shown ELSE {}

Warn(total) ==
  LET new == WarningLevel(total) \ ShownToday
  IN  /\ flags_date' = date
      /\ levels_shown' = ShownToday \cup new
      /\ alerts' = [l \in DOMAIN alerts |->
                      IF l \in new \X {date} THEN alerts[l] + 1 ELSE alerts[l]]

NewDay ==
  /\ date < MaxDay
  /\ date' = date + 1
  /\ UNCHANGED <<ledgerVars, alertVars, pc, planVars, actual, judgeVars, spent>>

-----------------------------------------------------------------------------
(* finalize_spending: the actual cost is booked, then the total compared   *)
(* with the limit; the exception comes after the booking.                  *)

Excess(a) == IF actual[a] > amount[a] THEN actual[a] - amount[a] ELSE 0

\* Mutant of Book: what was reserved is booked in place of what was spent.
BookEstimate(a) ==
  /\ reservations' = reservations \ {Id(a)}
  /\ reserved_total' = reserved_total - amount[a]
  /\ daily_total' = daily_total + amount[a]
  /\ task_totals' = [task_totals EXCEPT ![tier[a]] = @ + amount[a]]
  /\ overrun' = overrun + Excess(a)

Book(a) ==
  /\ reservations' = reservations \ {Id(a)}
  /\ reserved_total' = reserved_total - amount[a]
  /\ daily_total' = daily_total + actual[a]
  /\ task_totals' = [task_totals EXCEPT ![tier[a]] = @ + actual[a]]
  /\ overrun' = overrun + Excess(a)

\* The answer has been paid for and is not returned.
FinalizeRaises(a) ==
  /\ pc[a] = "finalizing"
  /\ daily_total + actual[a] >= Limit
  /\ Book(a)
  /\ Goto(a, "raising")
  /\ UNCHANGED <<alertVars, date, planVars, actual, judgeVars, spent>>

\* Above the limit the exception comes first: the emergency alert, which asks
\* for more than the limit, is never raised here.  Callbacks are left out.
Finalize(a) ==
  /\ pc[a] = "finalizing"
  /\ daily_total + actual[a] < Limit
  /\ Book(a)
  /\ IF Reached(WarnAt, daily_total + actual[a])
       THEN Warn(daily_total + actual[a])
       ELSE UNCHANGED alertVars
  /\ Goto(a, "answered")
  /\ UNCHANGED <<date, planVars, actual, judgeVars, spent>>

-----------------------------------------------------------------------------
(* release_reservation: an id that is not there any more is ignored.       *)

GiveBack(a) ==
  /\ reservations' = reservations \ {Id(a)}
  /\ reserved_total' = IF Id(a) \in reservations THEN reserved_total - amount[a]
                       ELSE reserved_total
  /\ UNCHANGED <<daily_total, task_totals, overrun>>

Release(a) ==
  /\ pc[a] = "releasing"
  /\ GiveBack(a)
  /\ Goto(a, "raising")
  /\ UNCHANGED <<alertVars, date, planVars, actual, judgeVars, spent>>

\* The handler of ask, and that of the ladder for an exceeded budget.
ReleaseAndRaise(a) ==
  /\ pc[a] = "raising"
  /\ GiveBack(a)
  /\ Goto(a, "raised")
  /\ UNCHANGED <<alertVars, date, planVars, actual, judgeVars, spent>>

\* Mutant of NextTier: the reservation of a tier that failed stays.
NextTierKeeps(a) ==
  /\ pc[a] = "leaving_tier"
  /\ UNCHANGED ledgerVars
  /\ IF tier[a] < Tiers
       THEN Goto(a, "reserving") /\ tier' = [tier EXCEPT ![a] = @ + 1]
       ELSE Goto(a, "answered") /\ UNCHANGED tier
  /\ UNCHANGED <<alertVars, date, mode, amount, actual, judgeVars, spent>>

\* Mutant of NextTier: a tier that failed is tried again.
NextTierAgain(a) ==
  /\ pc[a] = "leaving_tier"
  /\ GiveBack(a)
  /\ Goto(a, IF tier[a] < Tiers THEN "reserving" ELSE "answered")
  /\ UNCHANGED <<alertVars, date, planVars, actual, judgeVars, spent>>

\* The ladder goes on; after the last tier it returns that all failed.
NextTier(a) ==
  /\ pc[a] = "leaving_tier"
  /\ GiveBack(a)
  /\ IF tier[a] < Tiers
       THEN Goto(a, "reserving") /\ tier' = [tier EXCEPT ![a] = @ + 1]
       ELSE Goto(a, "answered") /\ UNCHANGED tier
  /\ UNCHANGED <<alertVars, date, mode, amount, actual, judgeVars, spent>>

-----------------------------------------------------------------------------
(* Judge mode: execute_with_judge records every coder call in the tracker  *)
(* of its own orchestrator and ignores what record raises.                 *)

\* calculate_cost returns.  With a calculator it calls get_pricing with one
\* argument of two and raises before anything is booked; an orchestrator has
\* one, the default tracker has none.
Prices(calculator) == ~calculator

JudgedCall(a, c) ==
  /\ pc[a] = "judging"
  /\ calls[a] < MaxCalls
  /\ calls' = [calls EXCEPT ![a] = @ + 1]
  /\ spent' = [spent EXCEPT ![a] = @ + c]
  /\ own' = IF Prices(TRUE) THEN [own EXCEPT ![a] = @ + c] ELSE own
  /\ UNCHANGED <<ledgerVars, alertVars, date, pc, planVars, actual>>

JudgeReturns(a) ==
  /\ pc[a] = "judging"
  /\ Goto(a, "answered")
  /\ UNCHANGED <<ledgerVars, alertVars, date, planVars, actual, judgeVars, spent>>

-----------------------------------------------------------------------------
ReserveStep(a) == \E c \in Costs : Reserve(a, c) \/ ReserveRaises(a, c)
CallStep(a) == (\E c \in Costs : Answer(a, c)) \/ Fail(a) \/ CallRaises(a)
FinalStep(a) ==
  Finalize(a) \/ FinalizeRaises(a) \/ Release(a) \/ ReleaseAndRaise(a) \/ NextTier(a)
JudgeStep(a) == (\E c \in Costs : JudgedCall(a, c)) \/ JudgeReturns(a)
AskStep(a) == ReserveStep(a) \/ CallStep(a) \/ FinalStep(a) \/ JudgeStep(a)

Ended == {"answered", "raised"}

Rest == (\A a \in Asks : pc[a] \in Ended) /\ UNCHANGED vars

Next ==
  \/ \E a \in Asks : RefuseEarly(a) \/ (\E m \in ModesOf[a] : Start(a, m)) \/ AskStep(a)
  \/ NewDay
  \/ Rest

Spec == Init /\ [][Next]_vars

\* Threads run, a model call ends (its retries and its HTTP timeouts are
\* bounded); nobody has to call ask, and no particular answer is promised.
FairSpec == Spec /\ \A a \in Asks : WF_vars(AskStep(a))

-----------------------------------------------------------------------------
Steps == {"idle", "reserving", "calling", "finalizing", "releasing", "raising",
          "leaving_tier", "judging"} \cup Ended

(* The type of every variable; what is reserved is never negative.         *)
TypeOK ==
  /\ daily_total \in Nat /\ reserved_total \in Nat /\ overrun \in Nat
  /\ reservations \subseteq Ids
  /\ task_totals \in [Scopes -> Nat]
  /\ levels_shown \subseteq Levels
  /\ date \in 0..MaxDay /\ flags_date \in 0..MaxDay
  /\ pc \in [Asks -> Steps] /\ mode \in [Asks -> Modes \cup {"none"}]
  /\ tier \in [Asks -> Scopes]
  /\ amount \in [Asks -> Nat] /\ actual \in [Asks -> Nat]
  /\ own \in [Asks -> Nat] /\ calls \in [Asks -> 0..MaxCalls]
  /\ spent \in [Asks -> Nat]
  /\ alerts \in [Levels \X (0..MaxDay) -> Nat]

\* The amounts f[x] of the members of H, laid out unit by unit: their sum is
\* the number of units.
UnitsOf(H, f) == UNION {{x} \X (1..f[x]) : x \in H}

(* What is reserved is the sum of the live reservations, counted unit by   *)
(* unit: a failed call that releases twice, or releases after it was       *)
(* booked, gives its money back once.                                      *)
Held == {a \in Asks : Id(a) \in reservations}
Units == UnitsOf(Held, amount)
ReservedIsSum == reserved_total = Cardinality(Units)

(* A call holds its reservation exactly while its model works or its       *)
(* outcome is being settled: finalize_spending finds the id it is given,   *)
(* and no way out of a call leaves money reserved.                         *)
Holding == {"calling", "finalizing", "releasing", "leaving_tier"}
ReservationsOwned ==
  /\ \A a \in Asks : pc[a] \in Holding => Id(a) \in reservations
  /\ \A r \in reservations : r = Id(r[1]) /\ pc[r[1]] \in Holding \cup {"raising"}

(* The limit is exceeded by no more than the answers cost beyond what was  *)
(* reserved for them, however many calls reserve, settle and fail at once. *)
OverrunBounded == daily_total + reserved_total <= Limit + overrun

(* Every answer of a reserved call is booked once, whether its caller gets *)
(* it or finalize_spending raises: what models were paid is the total plus *)
(* the answers not booked yet, and the total is the sum over the scopes.   *)
Unjudged == {a \in Asks : mode[a] # "judge"}
Unbooked == {a \in Asks : pc[a] = "finalizing"}
SpendingBooked ==
  /\ Cardinality(UnitsOf(Unjudged, spent)) =
       daily_total + Cardinality(UnitsOf(Unbooked, actual))
  /\ daily_total = Cardinality(UnitsOf(Scopes, task_totals))

(* "Only show each level once per day": when a caller gets an answer that  *)
(* brings the total to the warning threshold, the level reached has been   *)
(* raised exactly once on that date, by this call or one before it, also   *)
(* when the clock has passed midnight since the last alert.                *)
LevelWarned(a) ==
  pc[a] = "finalizing" /\ pc'[a] = "answered" /\ Reached(WarnAt, daily_total')
    => \A l \in WarningLevel(daily_total') : alerts'[<<l, date>>] = 1
WarnedOnceToday == [][\A a \in Asks : LevelWarned(a)]_vars
=============================================================================
