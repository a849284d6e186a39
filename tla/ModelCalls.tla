------------------------------ MODULE ModelCalls ------------------------------
(***************************************************************************)
(* The HTTP calls of a task: execute_task enters a TaskTimeout             *)
(* (src/core/timeout.py) and makes calls of call_llm_with_retry            *)
(* (src/core/orchestrator.py), each some attempts of call_llm with a       *)
(* backoff between them.  In the main thread the time limit of the task is *)
(* SIGALRM, whose handler raises wherever the task is; in a worker thread  *)
(* it is a threading.Timer, whose exception ends the timer's own thread.   *)
(***************************************************************************)
EXTENDS Integers

CONSTANTS
  Callers,     \* tasks that make calls, each in its thread
  MainTask,    \* the one in the main thread, if there is one
  MaxRetries,  \* MAX_RETRIES: attempts of a call
  TimeLimit,   \* effective_timeout of a call, in seconds
  LongestCall, \* the provider answers or fails within this time
  BaseDelay,   \* RateLimitConfig
  MaxDelay,
  Lines,       \* lengths of prompts, in lines
  MaxCalls     \* bound: calls a task makes

\* A time limit of no time is taken for the default.
ASSUME CallsAssumption ==
  /\ MaxRetries \in Nat \ {0} /\ TimeLimit \in Nat \ {0}
  /\ LongestCall \in Nat /\ BaseDelay \in Nat /\ MaxDelay \in Nat
  /\ Lines \subseteq Nat /\ MaxCalls \in Nat

VARIABLES
  phase,    \* task -> "idle", "between", "attempt", "asking", "sleeping" or "left"
  attempt,  \* task -> attempts of this call that failed
  elapsed,  \* task -> time since this call began
  prompt,   \* task -> lines of the call's prompt
  sent,     \* task -> lines of the prompt last sent
  called,   \* task -> calls made
  result,   \* task -> of the last call
  overdue,  \* task -> _timeout_occurred
  outcome   \* task -> how execute_task ended

callVars == <<phase, attempt, elapsed, prompt, sent, called, result, overdue, outcome>>

CallsInit ==
  /\ phase = [t \in Callers |-> "idle"]
  /\ attempt = [t \in Callers |-> 0] /\ elapsed = [t \in Callers |-> 0]
  /\ prompt = [t \in Callers |-> 0] /\ sent = [t \in Callers |-> 0]
  /\ called = [t \in Callers |-> 0]
  /\ result = [t \in Callers |-> "none"]
  /\ overdue = [t \in Callers |-> FALSE]
  /\ outcome = [t \in Callers |-> "none"]

Bigger(a, b) == IF a >= b THEN a ELSE b
Lesser(a, b) == IF a <= b THEN a ELSE b

\* CONTEXT_SIMPLIFICATION, in tenths.
Multiplier(n) == CASE n = 0 -> 10 [] n = 1 -> 7 [] OTHER -> 4

\* The first lines are kept, and an empty line and a note are added.
Simplified(lines, n) ==
  IF n = 0 \/ lines <= 20 THEN lines
  ELSE Lesser(lines, Bigger((lines * Multiplier(n)) \div 10, 20)) + 2

\* base * 2^n, give or take a quarter, cut off at the maximum.
Delays(n) ==
  LET d == BaseDelay * 2^n
  IN  {Bigger(0, Lesser(x, MaxDelay)) : x \in (d - d \div 4)..(d + d \div 4)}

-----------------------------------------------------------------------------
Enter(t) ==
  /\ phase[t] = "idle"
  /\ phase' = [phase EXCEPT ![t] = "between"]
  /\ UNCHANGED <<attempt, elapsed, prompt, sent, called, result, overdue, outcome>>

StartCall(t) ==
  /\ phase[t] = "between" /\ called[t] < MaxCalls
  /\ phase' = [phase EXCEPT ![t] = "attempt"]
  /\ attempt' = [attempt EXCEPT ![t] = 0]
  /\ elapsed' = [elapsed EXCEPT ![t] = 0]
  /\ prompt' \in {[prompt EXCEPT ![t] = n] : n \in Lines}
  /\ sent' = [sent EXCEPT ![t] = 0]
  /\ result' = [result EXCEPT ![t] = "none"]
  /\ called' = [called EXCEPT ![t] = @ + 1]
  /\ UNCHANGED <<overdue, outcome>>

Return(t, r) ==
  /\ phase' = [phase EXCEPT ![t] = "between"]
  /\ result' = [result EXCEPT ![t] = r]

OutOfTime(t) ==
  /\ phase[t] = "attempt"
  /\ elapsed[t] >= TimeLimit
  /\ Return(t, "timed_out")
  /\ UNCHANGED <<attempt, elapsed, prompt, sent, called, overdue, outcome>>

\* Mutant of Ask: the time is looked at before the first attempt only.
AskOutOfTime(t) ==
  /\ phase[t] = "attempt"
  /\ attempt[t] = 0 => elapsed[t] < TimeLimit
  /\ phase' = [phase EXCEPT ![t] = "asking"]
  /\ sent' = [sent EXCEPT ![t] = Simplified(prompt[t], attempt[t])]
  /\ UNCHANGED <<attempt, elapsed, prompt, called, result, overdue, outcome>>

Ask(t) ==
  /\ phase[t] = "attempt"
  /\ elapsed[t] < TimeLimit
  /\ phase' = [phase EXCEPT ![t] = "asking"]
  /\ sent' = [sent EXCEPT ![t] = Simplified(prompt[t], attempt[t])]
  /\ UNCHANGED <<attempt, elapsed, prompt, called, result, overdue, outcome>>

Takes(t, T) == elapsed' \in {[elapsed EXCEPT ![t] = @ + d] : d \in T}

Answers(t) ==
  /\ phase[t] = "asking"
  /\ Takes(t, {0, LongestCall})
  /\ Return(t, "answer")
  /\ UNCHANGED <<attempt, prompt, sent, called, overdue, outcome>>

\* The handler of `except Exception` in call_llm_with_retry.
Failed(t) ==
  /\ attempt' = [attempt EXCEPT ![t] = @ + 1]
  /\ IF attempt[t] + 1 < MaxRetries
       THEN phase' = [phase EXCEPT ![t] = "sleeping"] /\ UNCHANGED result
       ELSE Return(t, "failed")

\* Mutant of AttemptFails: an attempt without an adapter does not count.
AttemptFailsUncounted(t) ==
  /\ phase[t] = "asking"
  /\ Takes(t, {0, LongestCall})
  /\ phase' = [phase EXCEPT ![t] = "attempt"]
  /\ elapsed[t] = 0 /\ elapsed' = elapsed
  /\ UNCHANGED <<attempt, result, prompt, sent, called, overdue, outcome>>

\* Also when the tier has no adapter: no time passes.
AttemptFails(t) ==
  /\ phase[t] = "asking"
  /\ Takes(t, {0, LongestCall})
  /\ Failed(t)
  /\ UNCHANGED <<prompt, sent, called, overdue, outcome>>

Wake(t) ==
  /\ phase[t] = "sleeping"
  /\ Takes(t, Delays(attempt[t] - 1))
  /\ phase' = [phase EXCEPT ![t] = "attempt"]
  /\ UNCHANGED <<attempt, prompt, sent, called, result, overdue, outcome>>

-----------------------------------------------------------------------------
Leave(t, o) ==
  /\ phase' = [phase EXCEPT ![t] = "left"]
  /\ outcome' = [outcome EXCEPT ![t] = o]

\* Leaving the TaskTimeout raises when the time was up, whatever the task
\* has come to.
ExitTask(t) ==
  /\ phase[t] = "between" /\ called[t] > 0
  /\ Leave(t, IF overdue[t] THEN "raised" ELSE "returned")
  /\ UNCHANGED <<attempt, elapsed, prompt, sent, called, result, overdue>>

Started(t) == t \in Callers /\ phase[t] \notin {"idle", "left"} /\ ~overdue[t]
Rings(t) == overdue' = [overdue EXCEPT ![t] = TRUE]

\* Raised while the provider is asked, the exception is one more failed
\* attempt; between calls another handler of every exception may take it (the
\* judge's, the verifier's), and the task goes on.
AlarmSwallowed ==
  /\ Started(MainTask)
  /\ Rings(MainTask)
  /\ \/ /\ phase[MainTask] = "asking"
        /\ Takes(MainTask, {0, LongestCall})
        /\ Failed(MainTask)
     \/ /\ phase[MainTask] = "between"
        /\ UNCHANGED <<phase, attempt, elapsed, result>>
  /\ UNCHANGED <<prompt, sent, called, outcome>>

AlarmRaises ==
  /\ Started(MainTask) /\ phase[MainTask] # "asking"
  /\ Rings(MainTask)
  /\ Leave(MainTask, "raised")
  /\ UNCHANGED <<attempt, elapsed, prompt, sent, called, result>>

TimerFires(t) ==
  /\ t # MainTask /\ Started(t)
  /\ Rings(t)
  /\ UNCHANGED <<phase, attempt, elapsed, prompt, sent, called, result, outcome>>

CallStep(t) ==
  \/ Enter(t) \/ StartCall(t) \/ OutOfTime(t) \/ Ask(t) \/ Answers(t)
  \/ AttemptFails(t) \/ Wake(t) \/ ExitTask(t)
Left == (\A t \in Callers : phase[t] = "left") /\ UNCHANGED callVars

CallsNext == (\E t \in Callers : CallStep(t) \/ TimerFires(t)) \/ AlarmSwallowed \/ AlarmRaises \/ Left

\* A thread goes on; the HTTP client gives up a request after LongestCall.
CallsFairness == \A t \in Callers : WF_callVars(CallStep(t))

CallsSpec == CallsInit /\ [][CallsNext]_callVars
CallsFairSpec == CallsSpec /\ CallsFairness

-----------------------------------------------------------------------------
(* The type of every variable.                                             *)
CallsTypeOK ==
  /\ phase \in [Callers -> {"idle", "between", "attempt", "asking", "sleeping", "left"}]
  /\ attempt \in [Callers -> 0..MaxRetries] /\ elapsed \in [Callers -> Nat]
  /\ prompt \in [Callers -> Lines \cup {0}] /\ sent \in [Callers -> Nat]
  /\ called \in [Callers -> 0..MaxCalls]
  /\ result \in [Callers -> {"none", "answer", "failed", "timed_out"}]
  /\ overdue \in [Callers -> BOOLEAN]
  /\ outcome \in [Callers -> {"none", "returned", "raised"}]

(* The time limit of a call is looked at before each attempt only: a call  *)
(* is over at most one request and one backoff after it.                   *)
OverByOneAttempt ==
  \A t \in Callers : elapsed[t] < TimeLimit + LongestCall + MaxDelay

(* A prompt sent again is no longer than it was, but for the two lines of  *)
(* the note on a prompt of little over twenty.                             *)
RetriesShrink ==
  \A t \in Callers : sent[t] <= Bigger(prompt[t], 22)

(* Together: retrying costs bounded time and does not make a request grow  *)
(* (orchestrator.py:383-455).                                              *)
RetriesBounded == OverByOneAttempt /\ RetriesShrink

(* Whatever provider and clock do, execute_task ends.                      *)
TasksEnd == \A t \in Callers : (phase[t] # "idle") ~> (phase[t] = "left")

(* "Context manager that raises TaskTimeoutError after                     *)
(* max_duration_seconds" (timeout.py): a task that is out of time asks no  *)
(* provider any more.                                                      *)
TimeoutEndsTask ==
  [][\A t \in Callers : overdue[t] /\ phase'[t] = "asking" => phase[t] = "asking"]_callVars
=============================================================================
