--------------------------- MODULE ServicesProofs ---------------------------
(***************************************************************************)
(* Theorems about what lies outside the process, for any tasks, providers, *)
(* ports and bounds that satisfy CallsAssumption, RouterAssumption and     *)
(* ChecksAssumption: the calls of a task, the router and its breakers, the *)
(* projects under test.                                                    *)
(***************************************************************************)
EXTENDS ModelCalls, ModelRouting, ProjectChecks, FiniteSetTheorems, TLAPS

-----------------------------------------------------------------------------
(* Calls under a time limit (ModelCalls).                                  *)

\* How far over its time limit a call can be, by where it stands.
TimeLeft ==
  \A t \in Callers :
    /\ phase[t] = "asking" => elapsed[t] < TimeLimit
    /\ phase[t] = "sleeping" => elapsed[t] < TimeLimit + LongestCall /\ attempt[t] < MaxRetries
    /\ phase[t] = "attempt" => attempt[t] < MaxRetries
    /\ phase[t] = "asking" => attempt[t] < MaxRetries

CallsInv == CallsTypeOK /\ TimeLeft /\ OverByOneAttempt /\ RetriesShrink

-----------------------------------------------------------------------------
(* What the code computes with: a prompt made simpler, a backoff.          *)
LEMMA SimplifiedBound ==
  ASSUME NEW lines \in Nat, NEW n \in Nat
  PROVE  Simplified(lines, n) \in Nat /\ Simplified(lines, n) <= Bigger(lines, 22)
<1>1. CASE n = 0 \/ lines <= 20
  BY <1>1 DEF Simplified, Bigger
<1>2. CASE n > 0 /\ lines > 20
  <2> DEFINE kept == (lines * Multiplier(n)) \div 10
  <2>1. Multiplier(n) \in {4, 7}
    BY <1>2 DEF Multiplier
  <2>2. kept \in Nat /\ kept + 2 <= Bigger(lines, 22)
    <3>1. CASE Multiplier(n) = 4
      BY <1>2, <3>1 DEF Bigger
    <3>2. CASE Multiplier(n) = 7
      BY <1>2, <3>2 DEF Bigger
    <3> QED BY <2>1, <3>1, <3>2
  <2>3. Simplified(lines, n) = Lesser(lines, Bigger(kept, 20)) + 2
    BY <1>2 DEF Simplified
  <2> HIDE DEF kept
  <2> QED BY <2>2, <2>3, <1>2 DEF Lesser, Bigger
<1> QED BY <1>1, <1>2

LEMMA LengthOfPrompt ==
  ASSUME NEW lines \in Lines \cup {0}
  PROVE  lines \in Nat
<1>1. Lines \subseteq Nat
  BY CallsAssumption
<1> QED BY <1>1

LEMMA DelayBound ==
  ASSUME NEW n, NEW d \in Delays(n)
  PROVE  d \in 0..MaxDelay
<1> DEFINE base == BaseDelay * 2^n
<1>1. PICK x \in (base - base \div 4)..(base + base \div 4) : d = Bigger(0, Lesser(x, MaxDelay))
  BY DEF Delays
<1>2. x \in Int
  BY <1>1
<1> HIDE DEF base
<1> QED BY <1>1, <1>2, CallsAssumption DEF Bigger, Lesser

-----------------------------------------------------------------------------
(* A step of a caller keeps the invariant.                                 *)
LEMMA AttemptCounted ==
  ASSUME CallsInv, NEW t \in Callers, phase[t] = "asking",
         Takes(t, {0, LongestCall}), Failed(t),
         UNCHANGED <<prompt, sent, called>>, overdue' \in [Callers -> BOOLEAN], UNCHANGED outcome
  PROVE  CallsInv'
<1> USE CallsAssumption DEF CallsInv, CallsTypeOK
<1>1. PICK d \in {0, LongestCall} : elapsed' = [elapsed EXCEPT ![t] = @ + d]
  BY DEF Takes
<1>2. elapsed[t] < TimeLimit /\ attempt[t] < MaxRetries /\ d \in Nat /\ d <= LongestCall
  BY <1>1 DEF TimeLeft
<1>3. attempt' = [attempt EXCEPT ![t] = @ + 1] /\ attempt' \in [Callers -> 0..MaxRetries]
  BY <1>2 DEF Failed
<1>4. \/ /\ phase' = [phase EXCEPT ![t] = "sleeping"] /\ result' = result /\ attempt[t] + 1 < MaxRetries
      \/ /\ phase' = [phase EXCEPT ![t] = "between"] /\ result' = [result EXCEPT ![t] = "failed"]
  BY DEF Failed, Return
<1>5. CallsTypeOK'
  <2>1. elapsed' \in [Callers -> Nat]
    BY <1>1, <1>2
  <2>2. phase' \in [Callers -> {"idle", "between", "attempt", "asking", "sleeping", "left"}]
    BY <1>4
  <2>3. result' \in [Callers -> {"none", "answer", "failed", "timed_out"}]
    BY <1>4
  <2> QED BY <1>3, <2>1, <2>2, <2>3
<1>6. TimeLeft'
  <2> SUFFICES ASSUME NEW u \in Callers
               PROVE  /\ phase'[u] = "asking" => elapsed'[u] < TimeLimit
                      /\ phase'[u] = "sleeping" => elapsed'[u] < TimeLimit + LongestCall /\ attempt'[u] < MaxRetries
                      /\ phase'[u] = "attempt" => attempt'[u] < MaxRetries
                      /\ phase'[u] = "asking" => attempt'[u] < MaxRetries
    BY DEF TimeLeft
  <2>1. CASE u # t
    BY <2>1, <1>1, <1>3, <1>4 DEF TimeLeft
  <2>2. CASE u = t
    BY <2>2, <1>1, <1>2, <1>3, <1>4
  <2> QED BY <2>1, <2>2
<1>7. OverByOneAttempt'
  BY <1>1, <1>2 DEF OverByOneAttempt
<1>8. RetriesShrink'
  BY DEF RetriesShrink
<1> QED BY <1>5, <1>6, <1>7, <1>8

LEMMA CallStepKept ==
  ASSUME CallsInv, NEW t \in Callers, CallStep(t)
  PROVE  CallsInv'
<1> USE CallsAssumption DEF CallsInv, CallsTypeOK
<1>1. CASE Enter(t)
  BY <1>1 DEF Enter, TimeLeft, OverByOneAttempt, RetriesShrink
<1>2. CASE StartCall(t)
  <2> USE <1>2 DEF StartCall
  <2>1. PICK n \in Lines : prompt' = [prompt EXCEPT ![t] = n]
    OBVIOUS
  <2>2. CallsTypeOK'
    BY <2>1
  <2>3. TimeLeft'
    BY DEF TimeLeft
  <2>4. OverByOneAttempt'
    BY DEF OverByOneAttempt
  <2>5. RetriesShrink'
    BY <2>1 DEF RetriesShrink, Bigger
  <2> QED BY <2>2, <2>3, <2>4, <2>5
<1>3. CASE OutOfTime(t)
  BY <1>3 DEF OutOfTime, Return, TimeLeft, OverByOneAttempt, RetriesShrink
<1>4. CASE Ask(t)
  <2>1. prompt[t] \in Lines \cup {0} /\ attempt[t] \in Nat
    OBVIOUS
  <2>2. prompt[t] \in Nat
    BY <2>1, LengthOfPrompt
  <2> USE <1>4 DEF Ask
  <2>3. sent' = [sent EXCEPT ![t] = Simplified(prompt[t], attempt[t])]
    OBVIOUS
  <2>4. Simplified(prompt[t], attempt[t]) \in Nat
        /\ Simplified(prompt[t], attempt[t]) <= Bigger(prompt[t], 22)
    BY <2>1, <2>2, SimplifiedBound
  <2>5. CallsTypeOK'
    BY <2>3, <2>4
  <2>6. TimeLeft' /\ OverByOneAttempt'
    BY DEF TimeLeft, OverByOneAttempt
  <2>7. RetriesShrink'
    BY <2>3, <2>4 DEF RetriesShrink
  <2> QED BY <2>5, <2>6, <2>7
<1>5. CASE Answers(t)
  <2> USE <1>5 DEF Answers, Return
  <2>1. PICK d \in {0, LongestCall} : elapsed' = [elapsed EXCEPT ![t] = @ + d]
    BY DEF Takes
  <2>2. elapsed[t] < TimeLimit /\ d \in Nat /\ d <= LongestCall
    BY <2>1 DEF TimeLeft
  <2>3. CallsTypeOK'
    BY <2>1, <2>2
  <2>4. TimeLeft' /\ OverByOneAttempt'
    BY <2>1, <2>2 DEF TimeLeft, OverByOneAttempt
  <2>5. RetriesShrink'
    BY DEF RetriesShrink
  <2> QED BY <2>3, <2>4, <2>5
<1>6. CASE AttemptFails(t)
  BY <1>6, AttemptCounted DEF AttemptFails
<1>7. CASE Wake(t)
  <2> USE <1>7 DEF Wake
  <2>1. PICK d \in Delays(attempt[t] - 1) : elapsed' = [elapsed EXCEPT ![t] = @ + d]
    BY DEF Takes
  <2>2. elapsed[t] < TimeLimit + LongestCall /\ d \in 0..MaxDelay /\ attempt[t] < MaxRetries
    BY <2>1, DelayBound DEF TimeLeft
  <2>3. CallsTypeOK'
    BY <2>1, <2>2
  <2>4. TimeLeft' /\ OverByOneAttempt'
    BY <2>1, <2>2 DEF TimeLeft, OverByOneAttempt
  <2>5. RetriesShrink'
    BY DEF RetriesShrink
  <2> QED BY <2>3, <2>4, <2>5
<1>8. CASE ExitTask(t)
  BY <1>8 DEF ExitTask, Leave, TimeLeft, OverByOneAttempt, RetriesShrink
<1> QED BY <1>1, <1>2, <1>3, <1>4, <1>5, <1>6, <1>7, <1>8 DEF CallStep

(* So does the end of a time limit, in the main thread or in another.      *)
LEMMA TimeoutKept ==
  ASSUME CallsInv,
         AlarmSwallowed \/ AlarmRaises \/ \E t \in Callers : TimerFires(t)
  PROVE  CallsInv'
<1> USE CallsAssumption DEF CallsInv, CallsTypeOK, Rings
<1>1. CASE AlarmSwallowed
  <2>1. CASE phase[MainTask] = "asking"
    BY <1>1, <2>1, AttemptCounted DEF AlarmSwallowed, Started
  <2>2. CASE phase[MainTask] = "between"
    BY <1>1, <2>2 DEF AlarmSwallowed, Started, TimeLeft, OverByOneAttempt, RetriesShrink
  <2> QED BY <1>1, <2>1, <2>2 DEF AlarmSwallowed
<1>2. CASE AlarmRaises
  BY <1>2 DEF AlarmRaises, Started, Leave, TimeLeft, OverByOneAttempt, RetriesShrink
<1>3. ASSUME NEW t \in Callers, TimerFires(t) PROVE CallsInv'
  BY <1>3 DEF TimerFires, TimeLeft, OverByOneAttempt, RetriesShrink
<1> QED BY <1>1, <1>2, <1>3

LEMMA CallsInvHolds == CallsSpec => []CallsInv
<1>1. CallsInit => CallsInv
  BY CallsAssumption DEF CallsInit, CallsInv, CallsTypeOK, TimeLeft, OverByOneAttempt, RetriesShrink, Bigger
<1>2. CallsInv /\ [CallsNext]_callVars => CallsInv'
  <2> SUFFICES ASSUME CallsInv, [CallsNext]_callVars PROVE CallsInv'
    OBVIOUS
  <2>1. CASE UNCHANGED callVars
    BY <2>1 DEF callVars, CallsInv, CallsTypeOK, TimeLeft, OverByOneAttempt, RetriesShrink
  <2>2. CASE CallsNext
    BY <2>1, <2>2, CallStepKept, TimeoutKept DEF CallsNext, Left
  <2> QED BY <2>1, <2>2
<1> QED BY <1>1, <1>2, PTL DEF CallsSpec

(* Every variable of the calls keeps its type.                             *)
THEOREM CallsTyped == CallsSpec => []CallsTypeOK
<1>1. CallsInv => CallsTypeOK
  BY DEF CallsInv
<1> QED BY <1>1, CallsInvHolds, PTL

(* However often providers fail and however the delays fall, a call of     *)
(* call_llm_with_retry ends within its time limit, one request and one     *)
(* backoff, and no attempt sends more than the prompt, or 22 lines.        *)
THEOREM CallsBounded == CallsSpec => []RetriesBounded
<1>1. CallsInv => RetriesBounded
  BY DEF CallsInv, RetriesBounded
<1> QED BY <1>1, CallsInvHolds, PTL

-----------------------------------------------------------------------------
(***************************************************************************)
(* Why execute_task ends: its steps count down.  A call takes at most      *)
(* three steps an attempt, and one to begin.                               *)
(***************************************************************************)
CallSteps == 3 * MaxRetries + 1
AttemptsAhead(t) == 3 * (MaxRetries - attempt[t])
StepsOfTask(t) ==
  CASE phase[t] = "left" -> 0
    [] phase[t] = "idle" -> (MaxCalls - called[t]) * CallSteps + 2
    [] phase[t] = "between" -> (MaxCalls - called[t]) * CallSteps + 1
    [] phase[t] = "attempt" -> (MaxCalls - called[t]) * CallSteps + AttemptsAhead(t) + 1
    [] phase[t] = "asking" -> (MaxCalls - called[t]) * CallSteps + AttemptsAhead(t)
    [] OTHER -> (MaxCalls - called[t]) * CallSteps + AttemptsAhead(t) + 2

\* What the steps are counted from.
LEMMA CallsAhead ==
  ASSUME CallsInv, NEW t \in Callers
  PROVE  /\ MaxCalls - called[t] \in 0..MaxCalls /\ CallSteps \in Nat
         /\ (MaxCalls - called[t]) * CallSteps \in 0..(MaxCalls * CallSteps)
         /\ AttemptsAhead(t) \in 0..(CallSteps - 1)
         /\ phase[t] \in {"attempt", "asking"} => AttemptsAhead(t) >= 3
<1> DEFINE c == MaxCalls - called[t]
<1>1. c \in 0..MaxCalls /\ MaxCalls \in Nat /\ MaxRetries \in Nat /\ attempt[t] \in 0..MaxRetries
  BY CallsAssumption DEF CallsInv, CallsTypeOK
<1>2. CallSteps \in Nat
  BY <1>1 DEF CallSteps
<1>3. c * CallSteps \in Nat
  <2> HIDE DEF c
  <2> QED BY <1>1, <1>2
<1>4. c * CallSteps <= MaxCalls * CallSteps
  <2> HIDE DEF c
  <2>1. PICK d \in Nat : MaxCalls = c + d
    <3>1. MaxCalls = c + (MaxCalls - c) /\ MaxCalls - c \in Nat
      BY <1>1
    <3> QED BY <3>1
  <2>2. MaxCalls * CallSteps = c * CallSteps + d * CallSteps /\ d * CallSteps \in Nat
    BY <1>1, <1>2, <2>1
  <2> QED BY <1>3, <2>2
<1>5. AttemptsAhead(t) \in 0..(CallSteps - 1)
  BY <1>1 DEF AttemptsAhead, CallSteps
<1>6. phase[t] \in {"attempt", "asking"} => AttemptsAhead(t) >= 3
  BY <1>1 DEF AttemptsAhead, CallsInv, TimeLeft
<1> QED BY <1>1, <1>2, <1>3, <1>4, <1>5, <1>6

LEMMA FailureCounts ==
  ASSUME CallsInv, NEW t \in Callers, phase[t] = "asking", Failed(t), UNCHANGED called
  PROVE  StepsOfTask(t)' < StepsOfTask(t)
<1>1. attempt[t] \in 0..MaxRetries /\ MaxRetries \in Nat /\ attempt'[t] = attempt[t] + 1
  BY CallsAssumption DEF CallsInv, CallsTypeOK, Failed
<1>2. AttemptsAhead(t)' = AttemptsAhead(t) - 3
  BY <1>1 DEF AttemptsAhead
<1>3. phase'[t] \in {"sleeping", "between"}
  BY DEF CallsInv, CallsTypeOK, Failed, Return
<1>4. (MaxCalls - called'[t]) * CallSteps = (MaxCalls - called[t]) * CallSteps
  OBVIOUS
<1> DEFINE m == (MaxCalls - called[t]) * CallSteps
           n == AttemptsAhead(t)
<1>5. m \in Nat /\ n \in Nat /\ n >= 3
  BY CallsAhead
<1>6. StepsOfTask(t) = m + n
  BY DEF StepsOfTask
<1>7. StepsOfTask(t)' = m + (n - 3) + 2 \/ StepsOfTask(t)' = m + 1
  BY <1>2, <1>3, <1>4 DEF StepsOfTask
<1> HIDE DEF m, n
<1> QED BY <1>5, <1>6, <1>7

LEMMA CallCounts ==
  ASSUME CallsInv, NEW t \in Callers, CallStep(t)
  PROVE  StepsOfTask(t)' < StepsOfTask(t)
<1>0. /\ phase \in [Callers -> {"idle", "between", "attempt", "asking", "sleeping", "left"}]
      /\ attempt \in [Callers -> 0..MaxRetries] /\ called \in [Callers -> 0..MaxCalls]
      /\ MaxRetries \in Nat /\ MaxCalls \in Nat
  BY CallsAssumption DEF CallsInv, CallsTypeOK
<1>1. PICK m \in Nat : m = (MaxCalls - called[t]) * CallSteps
  BY CallsAhead
<1>2. PICK n \in Nat : n = AttemptsAhead(t) /\ (phase[t] \in {"attempt", "asking"} => n >= 3)
  BY CallsAhead
<1>3. CASE StartCall(t)
  <2>1. /\ phase[t] = "between" /\ phase'[t] = "attempt" /\ attempt'[t] = 0
        /\ called'[t] = called[t] + 1
    BY <1>0, <1>3 DEF StartCall
  <2>2. PICK c \in Int : c = MaxCalls - called[t]
    BY <1>0
  <2>3. MaxCalls - called'[t] = c - 1
    BY <1>0, <2>1, <2>2
  <2>4. CallSteps \in Nat /\ (c - 1) * CallSteps = m - CallSteps
    BY <1>0, <1>1, <2>2 DEF CallSteps
  <2>5. AttemptsAhead(t)' = CallSteps - 1
    BY <1>0, <2>1 DEF AttemptsAhead, CallSteps
  <2>6. StepsOfTask(t) = m + 1
    BY <1>1, <2>1 DEF StepsOfTask
  <2>7. StepsOfTask(t)' = (m - CallSteps) + (CallSteps - 1) + 1
    BY <2>1, <2>3, <2>4, <2>5 DEF StepsOfTask
  <2> QED BY <1>1, <2>4, <2>6, <2>7
<1>4. CASE AttemptFails(t)
  BY <1>4, FailureCounts DEF AttemptFails
<1>5. CASE Enter(t) \/ OutOfTime(t) \/ Ask(t) \/ Answers(t) \/ Wake(t) \/ ExitTask(t)
  <2>1. UNCHANGED <<called, attempt>>
    BY <1>5 DEF Enter, OutOfTime, Ask, Answers, Wake, ExitTask
  <2>2. AttemptsAhead(t)' = n /\ (MaxCalls - called'[t]) * CallSteps = m
    BY <1>1, <1>2, <2>1 DEF AttemptsAhead
  <2>3. \/ phase[t] = "idle" /\ phase'[t] = "between"
        \/ phase[t] = "attempt" /\ phase'[t] \in {"between", "asking"}
        \/ phase[t] = "asking" /\ phase'[t] = "between"
        \/ phase[t] = "sleeping" /\ phase'[t] = "attempt"
        \/ phase[t] = "between" /\ phase'[t] = "left"
    BY <1>0, <1>5 DEF Enter, OutOfTime, Ask, Answers, Wake, ExitTask, Return, Leave
  <2>4. /\ phase[t] = "idle" => StepsOfTask(t) = m + 2
        /\ phase[t] = "between" => StepsOfTask(t) = m + 1
        /\ phase[t] = "attempt" => StepsOfTask(t) = m + n + 1
        /\ phase[t] = "asking" => StepsOfTask(t) = m + n
        /\ phase[t] = "sleeping" => StepsOfTask(t) = m + n + 2
    BY <1>1, <1>2 DEF StepsOfTask
  <2>5. /\ phase'[t] = "left" => StepsOfTask(t)' = 0
        /\ phase'[t] = "between" => StepsOfTask(t)' = m + 1
        /\ phase'[t] = "attempt" => StepsOfTask(t)' = m + n + 1
        /\ phase'[t] = "asking" => StepsOfTask(t)' = m + n
    BY <2>2 DEF StepsOfTask
  <2> QED BY <1>1, <1>2, <2>3, <2>4, <2>5
<1> QED BY <1>3, <1>4, <1>5 DEF CallStep

LEMMA TasksApart ==
  ASSUME CallsInv, NEW u \in Callers, NEW t \in Callers \ {u}, CallStep(u) \/ TimerFires(u)
  PROVE  StepsOfTask(t)' = StepsOfTask(t)
<1>0. /\ phase \in [Callers -> {"idle", "between", "attempt", "asking", "sleeping", "left"}]
      /\ attempt \in [Callers -> 0..MaxRetries] /\ called \in [Callers -> 0..MaxCalls]
  BY DEF CallsInv, CallsTypeOK
<1>1. phase'[t] = phase[t] /\ attempt'[t] = attempt[t] /\ called'[t] = called[t]
  BY <1>0 DEF CallStep, Enter, StartCall, OutOfTime, Ask, Answers, AttemptFails, Failed, Wake,
              ExitTask, Return, Leave, TimerFires
<1> QED BY <1>1 DEF StepsOfTask, AttemptsAhead

\* Whatever a signal handler or a timer does, no task has more left for it.
LEMMA TimeoutCounts ==
  ASSUME CallsInv, NEW t \in Callers,
         AlarmSwallowed \/ AlarmRaises \/ \E u \in Callers : TimerFires(u)
  PROVE  StepsOfTask(t)' <= StepsOfTask(t)
<1>0. /\ phase \in [Callers -> {"idle", "between", "attempt", "asking", "sleeping", "left"}]
      /\ attempt \in [Callers -> 0..MaxRetries] /\ called \in [Callers -> 0..MaxCalls]
  BY DEF CallsInv, CallsTypeOK
<1>1. (MaxCalls - called[t]) * CallSteps \in Nat /\ AttemptsAhead(t) \in Nat
  BY CallsAhead
<1>2. StepsOfTask(t) \in Nat
  BY <1>1 DEF StepsOfTask
<1>6. CASE AlarmSwallowed /\ phase[MainTask] = "between"
  <2>1. phase'[t] = phase[t] /\ attempt'[t] = attempt[t] /\ called'[t] = called[t]
    BY <1>6 DEF AlarmSwallowed
  <2> QED BY <1>2, <2>1 DEF StepsOfTask, AttemptsAhead
<1>3. CASE t = MainTask /\ AlarmSwallowed /\ phase[t] = "asking"
  <2>1. StepsOfTask(t)' < StepsOfTask(t)
    BY <1>3, FailureCounts DEF AlarmSwallowed
  <2>2. StepsOfTask(t)' \in Int
    <3>1. called'[t] = called[t] /\ attempt'[t] = attempt[t] + 1 /\ phase'[t] \in {"sleeping", "between"}
      BY <1>0, <1>3 DEF AlarmSwallowed, Failed, Return
    <3>2. (MaxCalls - called'[t]) * CallSteps \in Nat /\ AttemptsAhead(t)' \in Int
      BY <1>0, <1>1, <3>1, CallsAssumption DEF AttemptsAhead
    <3> QED BY <3>1, <3>2 DEF StepsOfTask
  <2> QED BY <1>2, <2>1, <2>2
<1>4. CASE t = MainTask /\ AlarmRaises
  <2>1. phase'[t] = "left"
    BY <1>0, <1>4 DEF AlarmRaises, Leave
  <2> QED BY <1>2, <2>1 DEF StepsOfTask
<1>5. CASE (t # MainTask /\ (AlarmSwallowed \/ AlarmRaises)) \/ \E u \in Callers : TimerFires(u)
  <2>1. phase'[t] = phase[t] /\ attempt'[t] = attempt[t] /\ called'[t] = called[t]
    BY <1>0, <1>5 DEF AlarmSwallowed, AlarmRaises, Failed, Return, Leave, TimerFires
  <2> QED BY <1>2, <2>1 DEF StepsOfTask, AttemptsAhead
<1> QED BY <1>3, <1>4, <1>5, <1>6 DEF AlarmSwallowed

(* Each step a task takes among its calls brings execute_task nearer its   *)
(* end, and no time limit, alarm or other task sets it back                *)
(* (orchestrator.py:369-426, timeout.py:22-72): however providers fail, a  *)
(* task with MaxCalls calls takes no more steps than counted here.         *)
CallsAdvance ==
  [][\A t \in Callers : /\ CallStep(t) => StepsOfTask(t)' < StepsOfTask(t)
                        /\ ~CallStep(t) => StepsOfTask(t)' <= StepsOfTask(t)]_callVars
CallsAreCounted == \A t \in Callers : StepsOfTask(t) \in 0..((MaxCalls + 1) * CallSteps + 1)
THEOREM CallsCountDown == CallsSpec => CallsAdvance /\ []CallsAreCounted
<1> DEFINE Advance == \A t \in Callers : /\ CallStep(t) => StepsOfTask(t)' < StepsOfTask(t)
                                         /\ ~CallStep(t) => StepsOfTask(t)' <= StepsOfTask(t)
<1>1. CallsInv => CallsAreCounted
  <2> SUFFICES ASSUME CallsInv, NEW t \in Callers
               PROVE  StepsOfTask(t) \in 0..((MaxCalls + 1) * CallSteps + 1)
    BY DEF CallsAreCounted
  <2>1. PICK m \in Nat : m = (MaxCalls - called[t]) * CallSteps /\ m <= MaxCalls * CallSteps
    BY CallsAhead
  <2>2. PICK n \in Nat : n = AttemptsAhead(t) /\ n <= CallSteps - 1
    BY CallsAhead
  <2>3. CallSteps \in Nat /\ CallSteps >= 4 /\ MaxCalls * CallSteps \in Nat
        /\ (MaxCalls + 1) * CallSteps = MaxCalls * CallSteps + CallSteps
    BY CallsAssumption DEF CallSteps
  <2>4. StepsOfTask(t) \in Nat /\ StepsOfTask(t) <= m + n + 2
    BY <2>1, <2>2 DEF StepsOfTask
  <2> QED BY <2>1, <2>2, <2>3, <2>4
<1>2. ASSUME CallsInv, CallsNext, NEW t \in Callers, ~CallStep(t)
      PROVE  StepsOfTask(t)' <= StepsOfTask(t)
  <2>1. CASE \E u \in Callers : TimerFires(u)
    BY <1>2, <2>1, TimeoutCounts
  <2>2. CASE AlarmSwallowed \/ AlarmRaises
    BY <1>2, <2>2, TimeoutCounts
  <2>3. StepsOfTask(t) \in Nat
    BY <1>2, <1>1, CallsAhead DEF CallsAreCounted
  <2>4. ASSUME NEW u \in Callers, CallStep(u) PROVE StepsOfTask(t)' <= StepsOfTask(t)
    BY <1>2, <2>3, <2>4, TasksApart
  <2>5. CASE UNCHANGED callVars
    BY <2>3, <2>5 DEF callVars, StepsOfTask, AttemptsAhead
  <2> QED BY <1>2, <2>1, <2>2, <2>4, <2>5 DEF CallsNext, Left
<1>3. CallsInv /\ [CallsNext]_callVars => [Advance]_callVars
  BY <1>2, CallCounts
<1> QED BY <1>1, <1>3, CallsInvHolds, PTL DEF CallsSpec, CallsAdvance

-----------------------------------------------------------------------------
(* The router and its breakers (ModelRouting).                             *)

\* Callers that saw provider p healthy and have not sent their request yet.
Hopeful(p) == {c \in Routers : \E i \in DOMAIN seen[c] : seen[c][i] /\ Providers[i] = p}

\* Each of them may still send one late request.
LateInv ==
  \A p \in Models :
    IF breaker[p].state = "open"
      THEN late[p] + Cardinality(Hopeful(p)) <= Cardinality(Routers)
      ELSE late[p] = 0

\* What a half-open breaker counts happened in a row.
StreakInv ==
  \A p \in Models : breaker[p].state = "half_open" => breaker[p].successes <= streak[p]

RouterInv == RouterTypeOK /\ LateInv /\ StreakInv

-----------------------------------------------------------------------------
(* One breaker: what the operations return.                                *)
BelowThresholds(b) ==
  b.state = "closed" => b.failures < FailureThreshold /\ b.recent < FailureThreshold

LEMMA Thresholds ==
  FailureThreshold \in Nat /\ FailureThreshold > 0 /\ SuccessThreshold \in Nat /\ SuccessThreshold > 0
BY RouterAssumption

LEMMA LookedAt ==
  ASSUME NEW b \in Breakers, BelowThresholds(b)
  PROVE  /\ MaybeTransition(b) \in Breakers /\ BelowThresholds(MaybeTransition(b))
         /\ (b.state = "closed") <=> (MaybeTransition(b).state = "closed")
         /\ \/ MaybeTransition(b) = b
            \/ b.state = "open" /\ MaybeTransition(b).state = "half_open"
                                /\ MaybeTransition(b).successes = 0
<1>1. CASE b.state = "open" /\ b.cooled
  <2>1. MaybeTransition(b) = [b EXCEPT !.state = "half_open", !.successes = 0]
    BY <1>1 DEF MaybeTransition
  <2>2. MaybeTransition(b) = [state |-> "half_open", recent |-> b.recent, failures |-> b.failures,
                              successes |-> 0, cooled |-> b.cooled]
    BY <2>1 DEF Breakers
  <2>3. MaybeTransition(b) \in Breakers
    BY <2>2, Thresholds DEF Breakers
  <2> QED BY <2>2, <2>3, <1>1 DEF BelowThresholds
<1>2. CASE ~(b.state = "open" /\ b.cooled)
  <2>1. MaybeTransition(b) = b
    BY <1>2 DEF MaybeTransition
  <2> QED BY <2>1
<1> QED BY <1>1, <1>2

\* A breaker before its counters are cut off.
RawBreakers ==
  [state : {"closed", "open", "half_open"}, recent : Nat, failures : Nat, successes : Nat,
   cooled : BOOLEAN]

LEMMA CutOff ==
  ASSUME NEW r \in RawBreakers
  PROVE  /\ Capped(r) \in Breakers /\ Capped(r).state = r.state
         /\ Capped(r).recent <= r.recent /\ Capped(r).failures <= r.failures
         /\ Capped(r).successes =
              IF r.successes > SuccessThreshold THEN SuccessThreshold ELSE r.successes
<1> DEFINE x == IF r.recent > FailureThreshold THEN FailureThreshold ELSE r.recent
           y == IF r.failures > FailureThreshold THEN FailureThreshold ELSE r.failures
           z == IF r.successes > SuccessThreshold THEN SuccessThreshold ELSE r.successes
<1>1. Capped(r) = [r EXCEPT !.recent = x, !.failures = y, !.successes = z]
  BY DEF Capped, RawBreakers
<1>2. r.recent \in Nat /\ r.failures \in Nat /\ r.successes \in Nat
  BY DEF RawBreakers
<1>3. /\ x \in 0..FailureThreshold /\ y \in 0..FailureThreshold /\ z \in 0..SuccessThreshold
      /\ x <= r.recent /\ y <= r.failures
  BY <1>2, Thresholds
<1> HIDE DEF x, y
<1>4. Capped(r) = [state |-> r.state, recent |-> x, failures |-> y, successes |-> z, cooled |-> r.cooled]
  BY <1>1 DEF RawBreakers
<1>5. r.state \in {"closed", "open", "half_open"} /\ r.cooled \in BOOLEAN
  BY DEF RawBreakers
<1>6. Capped(r) \in Breakers
  <2> HIDE DEF z
  <2> QED BY <1>3, <1>4, <1>5 DEF Breakers
<1> QED BY <1>3, <1>4, <1>6

LEMMA BreakersAreRaw ==
  ASSUME NEW b \in Breakers
  PROVE  b \in RawBreakers /\ b.successes \in Nat /\ b.successes <= SuccessThreshold
<1>1. 0..FailureThreshold \subseteq Nat /\ 0..SuccessThreshold \subseteq Nat
  BY Thresholds
<1>2. b \in RawBreakers
  BY <1>1 DEF Breakers, RawBreakers
<1> QED BY <1>2, Thresholds DEF Breakers

LEMMA AfterSuccess ==
  ASSUME NEW b \in Breakers, BelowThresholds(b)
  PROVE  LET c == Capped(RecordSuccess(b))
             d == MaybeTransition(b)
         IN  /\ c \in Breakers /\ BelowThresholds(c)
             /\ (c.state = "open") <=> (d.state = "open")
             /\ c.state = "half_open" => d.state = "half_open" /\ c.successes = d.successes + 1
             /\ c.state = "closed" /\ b.state # "closed"
                  => d.state = "half_open" /\ d.successes + 1 >= SuccessThreshold
<1> DEFINE d == MaybeTransition(b)
           e == RecordSuccess(b)
<1>1. d \in Breakers /\ BelowThresholds(d) /\ ((b.state = "closed") <=> (d.state = "closed"))
  BY LookedAt
<1>2. e = Succeeded(d)
  BY DEF RecordSuccess
<1> HIDE DEF d, e
<1>3. d \in RawBreakers /\ d.successes \in Nat /\ d.successes <= SuccessThreshold
  BY <1>1, BreakersAreRaw
<1>4. CASE d.state = "open"
  <2>1. e = d
    BY <1>2, <1>4 DEF Succeeded
  <2>2. Capped(e) \in Breakers /\ Capped(e).state = "open"
    BY <2>1, <1>3, <1>4, CutOff
  <2> QED BY <1>1, <1>4, <2>2 DEF d, e, BelowThresholds
<1>5. CASE d.state = "closed"
  <2>1. e = [d EXCEPT !.failures = 0, !.successes = @ + 1]
    BY <1>2, <1>5 DEF Succeeded
  <2>2. e = [state |-> "closed", recent |-> d.recent, failures |-> 0,
             successes |-> d.successes + 1, cooled |-> d.cooled]
    BY <2>1, <1>3, <1>5 DEF RawBreakers
  <2>3. d.recent < FailureThreshold /\ d.recent \in Nat /\ d.cooled \in BOOLEAN
    BY <1>1, <1>3, <1>5 DEF RawBreakers, BelowThresholds
  <2>4. e \in RawBreakers
    BY <2>2, <2>3, <1>3 DEF RawBreakers
  <2>5. /\ Capped(e) \in Breakers /\ Capped(e).state = "closed"
        /\ Capped(e).failures <= 0 /\ Capped(e).recent <= d.recent
    BY <2>2, <2>4, CutOff
  <2>6. BelowThresholds(Capped(e))
    BY <2>3, <2>5, Thresholds DEF BelowThresholds, Breakers
  <2> QED BY <1>1, <1>5, <2>5, <2>6 DEF d, e
<1>6. CASE d.state = "half_open" /\ d.successes + 1 >= SuccessThreshold
  <2>1. e = [d EXCEPT !.state = "closed", !.failures = 0, !.recent = 0, !.successes = @ + 1]
    BY <1>2, <1>3, <1>6 DEF Succeeded, Restore, RawBreakers
  <2>2. e \in RawBreakers /\ e.state = "closed" /\ e.failures = 0 /\ e.recent = 0
    <3>1. e = [state |-> "closed", recent |-> 0, failures |-> 0,
               successes |-> d.successes + 1, cooled |-> d.cooled]
      BY <2>1, <1>3 DEF RawBreakers
    <3>2. d.cooled \in BOOLEAN
      BY <1>3 DEF RawBreakers
    <3> QED BY <3>1, <3>2, <1>3 DEF RawBreakers
  <2>3. Capped(e) \in Breakers /\ Capped(e).state = "closed"
        /\ Capped(e).failures <= 0 /\ Capped(e).recent <= 0
    BY <2>2, CutOff
  <2>4. BelowThresholds(Capped(e))
    BY <2>3, Thresholds DEF BelowThresholds, Breakers
  <2> QED BY <1>6, <2>3, <2>4 DEF d, e
<1>7. CASE d.state = "half_open" /\ ~(d.successes + 1 >= SuccessThreshold)
  <2>1. e = [d EXCEPT !.successes = @ + 1]
    BY <1>2, <1>7 DEF Succeeded
  <2>2. e \in RawBreakers /\ e.state = "half_open" /\ e.successes = d.successes + 1
    BY <2>1, <1>3, <1>7 DEF RawBreakers
  <2>3. Capped(e) \in Breakers /\ Capped(e).state = "half_open" /\ Capped(e).successes = d.successes + 1
    BY <2>2, <1>3, <1>7, Thresholds, CutOff
  <2> QED BY <1>7, <2>3 DEF d, e, BelowThresholds
<1>8. d.state \in {"closed", "open", "half_open"}
  BY <1>1 DEF Breakers
<1> QED BY <1>4, <1>5, <1>6, <1>7, <1>8

LEMMA AfterFailure ==
  ASSUME NEW b \in Breakers, BelowThresholds(b)
  PROVE  LET c == Capped(RecordFailure(b))
         IN  /\ c \in Breakers /\ BelowThresholds(c)
             /\ b.state = "open" => c.state = "open"
             /\ c.state = "half_open" => c.successes = 0
             /\ c.state = "closed" => b.state = "closed"
<1> DEFINE r == [b EXCEPT !.recent = @ + 1, !.failures = @ + 1, !.successes = 0]
           e == RecordFailure(b)
           trips == r.recent >= FailureThreshold \/ r.failures >= FailureThreshold
<1>1. b \in RawBreakers
  BY BreakersAreRaw
<1>2. r \in RawBreakers /\ r.state = b.state /\ r.successes = 0
  <2>1. b.recent \in Nat /\ b.failures \in Nat
    BY <1>1 DEF RawBreakers
  <2>2. b.recent + 1 \in Nat /\ b.failures + 1 \in Nat /\ 0 \in Nat
    BY <2>1
  <2>3. r \in RawBreakers
    BY <1>1, <2>2 DEF RawBreakers
  <2> QED BY <1>1, <2>3 DEF RawBreakers
<1>3. e = IF b.state = "closed" /\ trips THEN Trip(r) ELSE r
  BY DEF RecordFailure
<1> HIDE DEF r, e
<1>4. CASE b.state = "closed" /\ trips
  <2>1. e = [r EXCEPT !.state = "open", !.cooled = FALSE]
    BY <1>3, <1>4 DEF Trip
  <2>2. e \in RawBreakers /\ e.state = "open"
    BY <2>1, <1>2 DEF RawBreakers
  <2>3. Capped(e) \in Breakers /\ Capped(e).state = "open"
    BY <2>2, CutOff
  <2> QED BY <1>4, <2>3 DEF e, BelowThresholds
<1>5. CASE ~(b.state = "closed" /\ trips)
  <2>1. e = r
    BY <1>3, <1>5
  <2>2. /\ Capped(r) \in Breakers /\ Capped(r).state = b.state /\ Capped(r).successes = 0
        /\ Capped(r).recent <= r.recent /\ Capped(r).failures <= r.failures
    BY <1>2, Thresholds, CutOff
  <2>3. b.state = "closed" => r.recent < FailureThreshold /\ r.failures < FailureThreshold
    BY <1>5, <1>2, Thresholds DEF RawBreakers
  <2>4. BelowThresholds(Capped(r))
    BY <2>2, <2>3, <1>2, Thresholds DEF BelowThresholds, Breakers, RawBreakers
  <2> QED BY <2>1, <2>2, <2>4 DEF e
<1> QED BY <1>4, <1>5

LEMMA FewHopeful ==
  ASSUME NEW p
  PROVE  /\ IsFiniteSet(Hopeful(p)) /\ IsFiniteSet(Hopeful(p)')
         /\ Cardinality(Hopeful(p)) \in Nat /\ Cardinality(Hopeful(p))' \in Nat
         /\ Cardinality(Routers) \in Nat
         /\ Cardinality(Hopeful(p)) <= Cardinality(Routers)
         /\ Cardinality(Hopeful(p)') <= Cardinality(Routers)
         /\ Hopeful(p)' \subseteq Hopeful(p) => Cardinality(Hopeful(p)') <= Cardinality(Hopeful(p))
<1>1. Hopeful(p) \subseteq Routers /\ Hopeful(p)' \subseteq Routers
  BY DEF Hopeful
<1>2. IsFiniteSet(Routers)
  BY RouterAssumption
<1>3. IsFiniteSet(Hopeful(p)) /\ IsFiniteSet(Hopeful(p)')
  BY <1>1, <1>2, FS_Subset
<1> QED BY <1>1, <1>2, <1>3, FS_Subset, FS_CardinalityType

-----------------------------------------------------------------------------
(* A selection, step by step.                                              *)
LEMMA ProviderAt ==
  ASSUME NEW i \in 1..Len(Providers)
  PROVE  Providers[i] \in Models
BY RouterAssumption DEF Models, Range

LEMMA LookKept ==
  ASSUME RouterInv, NEW c \in Routers, Look(c)
  PROVE  RouterInv'
<1> DEFINE p == Providers[Len(seen[c]) + 1]
           b == MaybeTransition(breaker[p])
<1>1. p \in Models /\ Len(seen[c]) \in Nat /\ Len(seen[c]) + 1 <= Len(Providers)
  <2>1. Len(seen[c]) + 1 \in 1..Len(Providers) /\ Len(seen[c]) \in Nat
    BY RouterAssumption DEF Look, RouterInv, RouterTypeOK
  <2> QED BY <2>1, ProviderAt, RouterAssumption
<1>2. /\ Becomes(p, b)
      /\ seen' = [seen EXCEPT ![c] = Append(@, b.state # "open")]
      /\ streak' = [streak EXCEPT ![p] = IF b.state # breaker[p].state THEN 0 ELSE @]
      /\ routing' = [routing EXCEPT ![c] = "looking"]
      /\ UNCHANGED <<counter, requests>>
  BY DEF Look
<1>3. /\ breaker[p] \in Breakers /\ BelowThresholds(breaker[p])
      /\ b \in Breakers /\ BelowThresholds(b)
      /\ b = breaker[p] \/ (breaker[p].state = "open" /\ b.state = "half_open" /\ b.successes = 0)
  <2>1. breaker[p] \in Breakers /\ BelowThresholds(breaker[p])
    BY <1>1 DEF RouterInv, RouterTypeOK, BelowThresholds
  <2> QED BY <2>1, LookedAt
<1> HIDE DEF p, b
<1>4. RouterTypeOK'
  <2> USE RouterAssumption, <1>2 DEF RouterInv, RouterTypeOK
  <2>1. breaker' \in [Models -> Breakers] /\ late' \in [Models -> Nat]
    BY <1>1, <1>3 DEF Becomes
  <2>2. streak' \in [Models -> 0..SuccessThreshold]
    <3>1. 0 \in 0..SuccessThreshold
      BY Thresholds
    <3> QED BY <3>1
  <2>5. routing' \in [Routers -> {"idle", "looking"} \cup Models]
    OBVIOUS
  <2>3. seen' \in [Routers -> Seq(BOOLEAN)] /\ \A d \in Routers : Len(seen'[d]) <= Len(Providers)
    <3>1. Append(seen[c], b.state # "open") \in Seq(BOOLEAN)
          /\ Len(Append(seen[c], b.state # "open")) = Len(seen[c]) + 1
      BY <1>1
    <3> QED BY <1>1, <3>1
  <2>4. \A q \in Models : breaker'[q].state = "closed" => breaker'[q].failures < FailureThreshold
                                      /\ breaker'[q].recent < FailureThreshold
    BY <1>1, <1>3 DEF Becomes, BelowThresholds
  <2> QED BY <2>1, <2>2, <2>3, <2>4, <2>5
<1>5. StreakInv'
  <2> SUFFICES ASSUME NEW q \in Models, breaker'[q].state = "half_open"
               PROVE  breaker'[q].successes <= streak'[q]
    BY DEF StreakInv
  <2>1. CASE q = p
    BY <2>1, <1>1, <1>2, <1>3 DEF Becomes, RouterInv, RouterTypeOK, StreakInv
  <2>2. CASE q # p
    BY <2>2, <1>1, <1>2 DEF Becomes, RouterInv, RouterTypeOK, StreakInv
  <2> QED BY <2>1, <2>2
<1>6. LateInv'
  <2> SUFFICES ASSUME NEW q \in Models
               PROVE  IF breaker'[q].state = "open"
                        THEN late'[q] + Cardinality(Hopeful(q)') <= Cardinality(Routers)
                        ELSE late'[q] = 0
    BY DEF LateInv
  <2>0. \A d \in Routers \ {c} : seen'[d] = seen[d]
    BY <1>2 DEF RouterInv, RouterTypeOK
  <2>00. /\ seen'[c] = Append(seen[c], b.state # "open") /\ seen[c] \in Seq(BOOLEAN)
         /\ DOMAIN seen'[c] = 1..(Len(seen[c]) + 1)
         /\ \A i \in 1..Len(seen[c]) : seen'[c][i] = seen[c][i]
         /\ seen'[c][Len(seen[c]) + 1] = (b.state # "open")
         /\ DOMAIN seen[c] = 1..Len(seen[c])
    BY <1>1, <1>2 DEF RouterInv, RouterTypeOK
  <2>1. CASE q # p
    <3>1. Hopeful(q)' \subseteq Hopeful(q)
      <4> SUFFICES ASSUME NEW d \in Routers, NEW i \in DOMAIN seen'[d], seen'[d][i], Providers[i] = q
                   PROVE  \E j \in DOMAIN seen[d] : seen[d][j] /\ Providers[j] = q
        BY DEF Hopeful
      <4>1. CASE d # c
        BY <4>1, <2>0
      <4>2. CASE d = c
        <5>1. i # Len(seen[c]) + 1
          BY <2>1 DEF p
        <5>2. i \in 1..Len(seen[c])
          BY <5>1, <4>2, <2>00, <1>1
        <5> QED BY <5>2, <4>2, <2>00
      <4> QED BY <4>1, <4>2
    <3>2. late'[q] = late[q] /\ breaker'[q] = breaker[q]
      BY <2>1, <1>2 DEF Becomes, RouterInv, RouterTypeOK
    <3>3. late[q] \in Nat
      BY DEF RouterInv, RouterTypeOK
    <3> QED BY <3>1, <3>2, <3>3, FewHopeful DEF RouterInv, LateInv
  <2>2. CASE q = p /\ b.state = "open"
    <3>1. Hopeful(q)' \subseteq Hopeful(q)
      <4> SUFFICES ASSUME NEW d \in Routers, NEW i \in DOMAIN seen'[d], seen'[d][i], Providers[i] = q
                   PROVE  \E j \in DOMAIN seen[d] : seen[d][j] /\ Providers[j] = q
        BY DEF Hopeful
      <4>1. CASE d # c
        BY <4>1, <2>0
      <4>2. CASE d = c
        <5>1. i # Len(seen[c]) + 1
          BY <2>2, <2>00, <4>2
        <5>2. i \in 1..Len(seen[c])
          BY <5>1, <4>2, <2>00, <1>1
        <5> QED BY <5>2, <4>2, <2>00
      <4> QED BY <4>1, <4>2
    <3>2. late'[q] = late[q] /\ breaker'[q] = b /\ breaker[q].state = "open"
      BY <2>2, <1>2, <1>3 DEF Becomes, RouterInv, RouterTypeOK
    <3>3. late[q] \in Nat
      BY DEF RouterInv, RouterTypeOK
    <3>4. late[q] + Cardinality(Hopeful(q)) <= Cardinality(Routers)
      BY <3>2 DEF RouterInv, LateInv
    <3> QED BY <2>2, <3>1, <3>2, <3>3, <3>4, FewHopeful
  <2>3. CASE q = p /\ b.state # "open"
    BY <2>3, <1>1, <1>2 DEF Becomes, RouterInv, RouterTypeOK
  <2> QED BY <2>1, <2>2, <2>3
<1> QED BY <1>4, <1>5, <1>6 DEF RouterInv

LEMMA SendKept ==
  ASSUME RouterInv, NEW c \in Routers, AllSeen(c), NEW budget,
         NEW i \in Candidates(c, budget), Send(c, Providers[i]), counter' \in 0..Len(Providers)
  PROVE  RouterInv'
<1> DEFINE p == Providers[i]
<1>1. /\ i \in 1..Len(Providers) /\ i \in DOMAIN seen[c] /\ seen[c][i]
  BY RouterAssumption DEF AllSeen, Candidates, RouterInv, RouterTypeOK
<1>2. p \in Models /\ c \in Hopeful(p)
  BY <1>1, ProviderAt DEF Hopeful
<1>3. /\ routing' = [routing EXCEPT ![c] = p]
      /\ seen' = [seen EXCEPT ![c] = <<>>]
      /\ requests' = requests + 1
      /\ late' = [late EXCEPT ![p] = IF breaker[p].state = "open" THEN @ + 1 ELSE @]
      /\ UNCHANGED <<breaker, streak>>
  BY DEF Send
<1>4. requests < MaxRequests
  BY DEF AllSeen
<1> HIDE DEF p
<1>5. RouterTypeOK'
  <2> USE RouterAssumption, <1>2, <1>3, <1>4 DEF RouterInv, RouterTypeOK
  <2>1. seen' \in [Routers -> Seq(BOOLEAN)] /\ \A d \in Routers : Len(seen'[d]) <= Len(Providers)
    OBVIOUS
  <2>2. routing' \in [Routers -> {"idle", "looking"} \cup Models] /\ late' \in [Models -> Nat]
        /\ requests' \in 0..MaxRequests
    OBVIOUS
  <2> QED BY <2>1, <2>2
<1>6. StreakInv'
  BY <1>3 DEF RouterInv, StreakInv
<1>7. LateInv'
  <2> SUFFICES ASSUME NEW q \in Models
               PROVE  IF breaker'[q].state = "open"
                        THEN late'[q] + Cardinality(Hopeful(q)') <= Cardinality(Routers)
                        ELSE late'[q] = 0
    BY DEF LateInv
  <2>1. Hopeful(q)' = Hopeful(q) \ {c}
    <3>1. seen'[c] = <<>> /\ \A d \in Routers \ {c} : seen'[d] = seen[d]
      BY <1>3 DEF RouterInv, RouterTypeOK
    <3> QED BY <3>1 DEF Hopeful
  <2>2. late[q] \in Nat /\ breaker' = breaker
    BY <1>3 DEF RouterInv, RouterTypeOK
  <2>3. CASE q # p
    <3>1. late'[q] = late[q]
      BY <2>3, <1>3 DEF RouterInv, RouterTypeOK
    <3>2. Cardinality(Hopeful(q)') <= Cardinality(Hopeful(q))
      BY <2>1, FewHopeful
    <3>3. IF breaker[q].state = "open" THEN late[q] + Cardinality(Hopeful(q)) <= Cardinality(Routers)
          ELSE late[q] = 0
      BY DEF RouterInv, LateInv
    <3> QED BY <2>2, <3>1, <3>2, <3>3, FewHopeful
  <2>4. CASE q = p
    <3>1. Cardinality(Hopeful(q)') = Cardinality(Hopeful(q)) - 1
      BY <2>1, <2>4, <1>2, FewHopeful, FS_RemoveElement
    <3>2. late'[q] = IF breaker[q].state = "open" THEN late[q] + 1 ELSE late[q]
      BY <2>4, <1>2, <1>3 DEF RouterInv, RouterTypeOK
    <3> QED BY <2>2, <3>1, <3>2, FewHopeful DEF RouterInv, LateInv
  <2> QED BY <2>3, <2>4
<1> QED BY <1>5, <1>6, <1>7 DEF RouterInv

LEMMA SelectStepKept ==
  ASSUME RouterInv, NEW c \in Routers, SelectStep(c)
  PROVE  RouterInv'
<1>1. CASE Look(c) BY <1>1, LookKept
<1>2. CASE SelectBest(c)
  <2>1. PICK budget \in Budgets : \E i \in Candidates(c, budget) : Send(c, Providers[i])
    BY <1>2 DEF SelectBest
  <2>2. PICK i \in Candidates(c, budget) : Send(c, Providers[i])
    BY <2>1
  <2>3. counter' \in 0..Len(Providers) /\ AllSeen(c)
    BY <1>2 DEF SelectBest, RouterInv, RouterTypeOK
  <2> QED BY <2>2, <2>3, SendKept
<1>3. CASE SelectNext(c)
  <2>1. PICK budget \in Budgets : \E i \in Candidates(c, budget) :
          /\ Send(c, Providers[i])
          /\ counter' = (counter % Cardinality(Candidates(c, budget))) + 1
    BY <1>3 DEF SelectNext
  <2>2. PICK i \in Candidates(c, budget) :
          /\ Send(c, Providers[i])
          /\ counter' = (counter % Cardinality(Candidates(c, budget))) + 1
    BY <2>1
  <2> DEFINE n == Cardinality(Candidates(c, budget))
  <2>3. n \in 1..Len(Providers)
    <3>1. Candidates(c, budget) \subseteq 1..Len(Providers) /\ Len(Providers) \in Nat
      BY RouterAssumption DEF Candidates
    <3>2. IsFiniteSet(1..Len(Providers)) /\ Cardinality(1..Len(Providers)) = Len(Providers)
      <4>1. 1 \in Int /\ Len(Providers) \in Int
        BY <3>1
      <4>2. /\ IsFiniteSet(1..Len(Providers))
            /\ Cardinality(1..Len(Providers)) = IF 1 > Len(Providers) THEN 0 ELSE Len(Providers) - 1 + 1
        BY <4>1, FS_Interval
      <4> QED BY <3>1, <4>2
    <3>3. IsFiniteSet(Candidates(c, budget)) /\ n <= Len(Providers)
      BY <3>1, <3>2, FS_Subset
    <3>4. n \in Nat /\ n # 0
      BY <3>3, <2>2, FS_CardinalityType, FS_EmptySet
    <3> QED BY <3>1, <3>3, <3>4
  <2>4. counter \in Nat
    BY DEF RouterInv, RouterTypeOK
  <2>5. counter' = (counter % n) + 1
    BY <2>2
  <2> HIDE DEF n
  <2>6. counter' \in 0..Len(Providers)
    BY <2>3, <2>4, <2>5, RouterAssumption
  <2> QED BY <2>2, <2>6, <1>3, SendKept DEF SelectNext
<1>4. CASE RouteExhausted(c)
  <2> USE <1>4 DEF RouteExhausted
  <2>1. RouterTypeOK'
    BY DEF RouterInv, RouterTypeOK
  <2>2. StreakInv'
    BY DEF RouterInv, StreakInv
  <2>3. ASSUME NEW q \in Models PROVE Hopeful(q)' \subseteq Hopeful(q)
    <3>1. seen'[c] = <<>> /\ \A d \in Routers \ {c} : seen'[d] = seen[d]
      BY DEF RouterInv, RouterTypeOK
    <3> QED BY <3>1 DEF Hopeful
  <2>4. LateInv'
    <3> SUFFICES ASSUME NEW q \in Models
                 PROVE  IF breaker'[q].state = "open"
                          THEN late'[q] + Cardinality(Hopeful(q)') <= Cardinality(Routers)
                          ELSE late'[q] = 0
      BY DEF LateInv
    <3>1. late[q] \in Nat /\ late' = late /\ breaker' = breaker
      BY DEF RouterInv, RouterTypeOK
    <3> QED BY <3>1, <2>3, FewHopeful DEF RouterInv, LateInv
  <2> QED BY <2>1, <2>2, <2>4 DEF RouterInv
<1> QED BY <1>1, <1>2, <1>3, <1>4 DEF SelectStep

-----------------------------------------------------------------------------
(* What becomes of a request, and time.                                    *)
LEMMA BecomesKept ==
  ASSUME RouterInv, NEW p \in Models, NEW b \in Breakers, BelowThresholds(b), Becomes(p, b),
         breaker[p].state = "open" \/ b.state = "open" \/ late[p] = 0,
         UNCHANGED <<seen, counter, requests>>,
         routing' \in [Routers -> {"idle", "looking"} \cup Models],
         NEW n \in 0..SuccessThreshold, streak' = [streak EXCEPT ![p] = n],
         b.state = "half_open" => b.successes <= n
  PROVE  RouterInv'
<1>1. RouterTypeOK'
  BY DEF RouterInv, RouterTypeOK, Becomes, BelowThresholds
<1>2. StreakInv'
  BY DEF RouterInv, RouterTypeOK, Becomes, StreakInv
<1>3. LateInv'
  <2> SUFFICES ASSUME NEW q \in Models
               PROVE  IF breaker'[q].state = "open"
                        THEN late'[q] + Cardinality(Hopeful(q)') <= Cardinality(Routers)
                        ELSE late'[q] = 0
    BY DEF LateInv
  <2>1. Hopeful(q)' = Hopeful(q) /\ late[q] \in Nat
    BY DEF Hopeful, RouterInv, RouterTypeOK
  <2>2. CASE q # p
    BY <2>1, <2>2 DEF RouterInv, RouterTypeOK, Becomes, LateInv
  <2>3. CASE q = p
    <3>1. breaker'[q] = b /\ late'[q] = IF b.state = "open" THEN late[q] ELSE 0
      BY <2>3 DEF RouterInv, RouterTypeOK, Becomes
    <3> QED BY <2>1, <2>3, <3>1, FewHopeful DEF RouterInv, LateInv
  <2> QED BY <2>2, <2>3
<1> QED BY <1>1, <1>2, <1>3 DEF RouterInv

LEMMA ReportStepKept ==
  ASSUME RouterInv, NEW c \in Routers, ReportStep(c)
  PROVE  RouterInv'
<1> DEFINE p == routing[c]
<1>1. /\ p \in Models /\ UNCHANGED <<seen, counter, requests>>
      /\ routing' \in [Routers -> {"idle", "looking"} \cup Models]
  BY DEF ReportStep, ReportSuccess, ReportFailure, ReportIrrelevant, Done, RouterInv, RouterTypeOK
<1>2. /\ breaker[p] \in Breakers /\ BelowThresholds(breaker[p])
      /\ streak[p] \in 0..SuccessThreshold
      /\ breaker[p].state # "open" => late[p] = 0
      /\ breaker[p].state = "half_open" => breaker[p].successes <= streak[p]
  BY <1>1 DEF RouterInv, RouterTypeOK, LateInv, StreakInv, BelowThresholds
<1>3. CASE ReportSuccess(c)
  <2> DEFINE b == MaybeTransition(breaker[p])
             d == Capped(RecordSuccess(breaker[p]))
             n == IF b.state # breaker[p].state THEN 1
                  ELSE IF streak[p] < SuccessThreshold THEN streak[p] + 1 ELSE streak[p]
  <2>1. Becomes(p, d) /\ streak' = [streak EXCEPT ![p] = n]
    BY <1>3 DEF ReportSuccess
  <2>2. /\ d \in Breakers /\ BelowThresholds(d)
        /\ d.state = "half_open" => b.state = "half_open" /\ d.successes = b.successes + 1
    BY <1>2, AfterSuccess
  <2>3. b = breaker[p] \/ (breaker[p].state = "open" /\ b.state = "half_open" /\ b.successes = 0)
    <3> HIDE DEF p
    <3> QED BY <1>2, LookedAt
  <2>4. n \in 0..SuccessThreshold
    BY <1>2, RouterAssumption
  <2>5. d.successes <= SuccessThreshold /\ d.successes \in Nat /\ breaker[p].successes \in Nat
    BY <1>2, <2>2, RouterAssumption DEF Breakers
  <2> HIDE DEF d, b
  <2>6. d.state = "half_open" => d.successes <= n
    BY <1>2, <2>2, <2>3, <2>5, RouterAssumption
  <2> HIDE DEF n, p
  <2> QED BY <1>1, <1>2, <2>1, <2>2, <2>4, <2>6, BecomesKept
<1>4. CASE ReportFailure(c)
  <2> DEFINE d == Capped(RecordFailure(breaker[p]))
  <2>1. Becomes(p, d) /\ streak' = [streak EXCEPT ![p] = 0]
    BY <1>4 DEF ReportFailure
  <2>2. d \in Breakers /\ BelowThresholds(d) /\ (d.state = "half_open" => d.successes = 0)
    BY <1>2, AfterFailure
  <2>3. 0 \in 0..SuccessThreshold
    BY Thresholds
  <2>4. breaker[p].state = "open" \/ d.state = "open" \/ late[p] = 0
    BY <1>2
  <2>5. d.state = "half_open" => d.successes <= 0
    BY <2>2
  <2> HIDE DEF d, p
  <2> QED BY <1>1, <2>1, <2>2, <2>3, <2>4, <2>5, BecomesKept
<1>5. CASE ReportIrrelevant(c)
  <2>1. UNCHANGED <<breaker, streak, late>>
    BY <1>5 DEF ReportIrrelevant
  <2> QED BY <1>1, <2>1 DEF RouterInv, RouterTypeOK, LateInv, StreakInv, Hopeful
<1> QED BY <1>3, <1>4, <1>5 DEF ReportStep

LEMMA Cooled ==
  ASSUME NEW b \in Breakers
  PROVE  LET c == [b EXCEPT !.cooled = TRUE]
         IN  /\ c \in Breakers /\ c.state = b.state /\ c.successes = b.successes
             /\ BelowThresholds(b) => BelowThresholds(c)
BY DEF Breakers, BelowThresholds

LEMMA OutOfWindow ==
  ASSUME NEW b \in Breakers, b.recent > 0
  PROVE  LET c == [b EXCEPT !.recent = @ - 1]
         IN  /\ c \in Breakers /\ c.state = b.state /\ c.successes = b.successes
             /\ BelowThresholds(b) => BelowThresholds(c)
<1>1. b.recent \in 0..FailureThreshold
  BY DEF Breakers
<1>2. b.recent - 1 \in 0..FailureThreshold /\ b.recent - 1 < b.recent
  BY <1>1, Thresholds
<1> QED BY <1>1, <1>2, Thresholds DEF Breakers, BelowThresholds

\* A breaker as time leaves it.
SameBut(p, b) ==
  /\ breaker' = [breaker EXCEPT ![p] = b]
  /\ b \in Breakers /\ b.state = breaker[p].state /\ b.successes = breaker[p].successes
  /\ BelowThresholds(breaker[p]) => BelowThresholds(b)

LEMMA ClockTicks ==
  ASSUME RouterInv, NEW p \in Models, CooldownElapses(p) \/ LeaveWindow(p)
  PROVE  \E b : SameBut(p, b)
<1>1. breaker[p] \in Breakers
  BY DEF RouterInv, RouterTypeOK
<1>2. CASE CooldownElapses(p)
  <2>1. breaker' = [breaker EXCEPT ![p] = [breaker[p] EXCEPT !.cooled = TRUE]]
    BY <1>2 DEF CooldownElapses
  <2> QED BY <1>1, <2>1, Cooled DEF SameBut
<1>3. CASE LeaveWindow(p)
  <2>1. breaker' = [breaker EXCEPT ![p] = [breaker[p] EXCEPT !.recent = @ - 1]] /\ breaker[p].recent > 0
    BY <1>3 DEF LeaveWindow
  <2> QED BY <1>1, <2>1, OutOfWindow DEF SameBut
<1> QED BY <1>2, <1>3

LEMMA ClockKept ==
  ASSUME RouterInv, NEW p \in Models, CooldownElapses(p) \/ LeaveWindow(p)
  PROVE  RouterInv'
<1>1. UNCHANGED <<seen, routing, counter, requests, streak, late>>
  BY DEF CooldownElapses, LeaveWindow
<1>2. PICK b : SameBut(p, b)
  BY ClockTicks
<1>3. \A q \in Models : BelowThresholds(breaker[q])
  BY DEF RouterInv, RouterTypeOK, BelowThresholds
<1>4. /\ breaker' \in [Models -> Breakers]
      /\ \A q \in Models : /\ breaker'[q].state = breaker[q].state
                           /\ breaker'[q].successes = breaker[q].successes
                           /\ BelowThresholds(breaker'[q])
  BY <1>2, <1>3 DEF SameBut, RouterInv, RouterTypeOK
<1>5. RouterTypeOK'
  BY <1>1, <1>4 DEF RouterInv, RouterTypeOK, BelowThresholds
<1>6. StreakInv'
  BY <1>1, <1>4 DEF RouterInv, StreakInv
<1>7. LateInv'
  BY <1>1, <1>4 DEF RouterInv, LateInv, Hopeful
<1> QED BY <1>5, <1>6, <1>7 DEF RouterInv

LEMMA RouterInvHolds == RouterSpec => []RouterInv
<1>1. RouterInit => RouterInv
  <2> SUFFICES ASSUME RouterInit PROVE RouterInv
    OBVIOUS
  <2>1. RouterTypeOK
    BY RouterAssumption DEF RouterInit, RouterTypeOK, NewBreaker, Breakers
  <2>2. StreakInv /\ LateInv
    BY DEF RouterInit, StreakInv, LateInv, NewBreaker
  <2> QED BY <2>1, <2>2 DEF RouterInv
<1>2. RouterInv /\ [RouterNext]_routerVars => RouterInv'
  <2> SUFFICES ASSUME RouterInv, [RouterNext]_routerVars PROVE RouterInv'
    OBVIOUS
  <2>1. CASE UNCHANGED routerVars
    BY <2>1 DEF routerVars, RouterInv, RouterTypeOK, LateInv, StreakInv, Hopeful
  <2>2. CASE RouterNext
    BY <2>1, <2>2, SelectStepKept, ReportStepKept, ClockKept DEF RouterNext, Spent
  <2> QED BY <2>1, <2>2
<1> QED BY <1>1, <1>2, PTL DEF RouterSpec

(* However many callers share the breakers: at most as many requests reach *)
(* a provider behind an open breaker as there are callers.                 *)
THEOREM LateBounded == RouterSpec => []LateRequestsBounded
<1>1. RouterInv => LateRequestsBounded
  <2> SUFFICES ASSUME RouterInv, NEW p \in Models PROVE late[p] <= Cardinality(Routers)
    BY DEF LateRequestsBounded
  <2>1. late[p] \in Nat
    BY DEF RouterInv, RouterTypeOK
  <2> QED BY <2>1, FewHopeful DEF RouterInv, LateInv
<1> QED BY <1>1, RouterInvHolds, PTL

(* A breaker closes again only on success_threshold successes in a row,    *)
(* whichever callers report them.                                          *)
THEOREM StreakCloses == RouterSpec => ClosesOnStreak
<1>1. RouterInv /\ [RouterNext]_routerVars
        => [\A p \in Models : breaker[p].state # "closed" /\ breaker'[p].state = "closed"
                                => streak'[p] >= SuccessThreshold]_routerVars
  <2> SUFFICES ASSUME RouterInv, RouterNext, NEW q \in Models,
                      breaker[q].state # "closed", breaker'[q].state = "closed"
               PROVE  streak'[q] >= SuccessThreshold
    OBVIOUS
  <2>1. ASSUME NEW c \in Routers, Look(c) PROVE FALSE
    <3> DEFINE p == Providers[Len(seen[c]) + 1]
               b == MaybeTransition(breaker[p])
    <3>1. breaker' = [breaker EXCEPT ![p] = b]
      BY <2>1 DEF Look, Becomes
    <3>2. q = p
      BY <3>1 DEF RouterInv, RouterTypeOK
    <3>3. b.state = "closed" => breaker[p].state = "closed"
      BY <3>2, LookedAt DEF RouterInv, RouterTypeOK, BelowThresholds
    <3> HIDE DEF p, b
    <3> QED BY <3>1, <3>2, <3>3 DEF RouterInv, RouterTypeOK
  <2>2. ASSUME NEW c \in Routers, ReportSuccess(c) PROVE streak'[q] >= SuccessThreshold
    <3> DEFINE p == routing[c]
               b == MaybeTransition(breaker[p])
               d == Capped(RecordSuccess(breaker[p]))
    <3>1. /\ breaker' = [breaker EXCEPT ![p] = d]
          /\ streak' = [streak EXCEPT ![p] = IF b.state # breaker[p].state THEN 1
               ELSE IF @ < SuccessThreshold THEN @ + 1 ELSE @]
      BY <2>2 DEF ReportSuccess, Becomes
    <3>2. q = p
      BY <3>1 DEF RouterInv, RouterTypeOK
    <3>3. breaker[q] \in Breakers /\ BelowThresholds(breaker[q]) /\ streak[q] \in 0..SuccessThreshold
      BY DEF RouterInv, RouterTypeOK, BelowThresholds
    <3>4. d.state = "closed" /\ breaker[q].state # "closed"
            => b.state = "half_open" /\ b.successes + 1 >= SuccessThreshold
      BY <3>2, <3>3, AfterSuccess
    <3>5. b = breaker[q] \/ b.successes = 0
      BY <3>2, <3>3, LookedAt
    <3>6. breaker'[q] = d
      BY <3>1, <3>2 DEF RouterInv, RouterTypeOK
    <3>7. breaker[q].state = "half_open" => breaker[q].successes <= streak[q]
      BY DEF RouterInv, StreakInv
    <3>8. streak'[q] = IF b.state # breaker[q].state THEN 1
               ELSE IF streak[q] < SuccessThreshold THEN streak[q] + 1 ELSE streak[q]
      BY <3>1, <3>2 DEF RouterInv, RouterTypeOK
    <3>9. breaker[q].successes \in Nat /\ (b = breaker[q] \/ breaker[q].state = "open")
      BY <3>2, <3>3, LookedAt DEF Breakers
    <3> HIDE DEF p, b, d
    <3> QED BY <3>3, <3>4, <3>5, <3>6, <3>7, <3>8, <3>9, RouterAssumption
  <2>3. ASSUME NEW c \in Routers, ReportFailure(c) PROVE FALSE
    <3> DEFINE p == routing[c]
               d == Capped(RecordFailure(breaker[p]))
    <3>1. breaker' = [breaker EXCEPT ![p] = d]
      BY <2>3 DEF ReportFailure, Becomes
    <3>2. q = p
      BY <3>1 DEF RouterInv, RouterTypeOK
    <3>3. d.state = "closed" => breaker[p].state = "closed"
      BY <3>2, AfterFailure DEF RouterInv, RouterTypeOK, BelowThresholds
    <3> HIDE DEF p, d
    <3> QED BY <3>1, <3>2, <3>3 DEF RouterInv, RouterTypeOK
  <2>4. ASSUME NEW c \in Routers, SelectBest(c) \/ SelectNext(c) \/ RouteExhausted(c) \/ ReportIrrelevant(c)
        PROVE  breaker' = breaker
    BY <2>4 DEF SelectBest, SelectNext, Send, RouteExhausted, ReportIrrelevant
  <2>5. ASSUME NEW p \in Models, CooldownElapses(p) \/ LeaveWindow(p)
        PROVE  breaker'[q].state = breaker[q].state
    BY <2>5, ClockTicks DEF SameBut, RouterInv, RouterTypeOK
  <2> QED BY <2>1, <2>2, <2>3, <2>4, <2>5 DEF RouterNext, SelectStep, ReportStep, Spent, routerVars
<1> QED BY <1>1, RouterInvHolds, PTL DEF RouterSpec, ClosesOnStreak

-----------------------------------------------------------------------------
(* The projects under test (ProjectChecks).                                *)

\* A process belongs to the suite or the verification under way of its task, or
\* to a project with background processes, or a wait out of time has left it.
Attended(p) ==
  /\ p.run = run[p.task]
  /\ HasCommand(p.task) \/ (p.task \in InSuite /\ p.tie = "group")
Explained(p) ==
  /\ p.run <= run[p.task]
  /\ p.run = run[p.task] /\ stage[p.task] # "idle" => p.project = project[p.task]
  /\ Attended(p) \/ p.tie = "lost" \/ p.project.strays
Owned == \A p \in procs : Explained(p)

\* Tests not run are those of one suite, in a check that began.
FewTests ==
  \A t \in Tasks :
    /\ stage[t] # "idle" => run[t] > 0
    /\ IsFiniteSet(left[t])
    /\ stage[t] \in {"starting", "warming", "testing", "classifying"} => Cardinality(left[t]) <= 2
    /\ stage[t] \in {"warming", "testing"} => project[t].entry # "none"

-----------------------------------------------------------------------------
LEMMA TwoTests ==
  ASSUME NEW p, p.entry \in {"server", "script", "none"},
         NEW T \in Written \cup (Guessed(p) \ {{}})
  PROVE  /\ IsFiniteSet(T) /\ Cardinality(T) \in 0..2
         /\ T \subseteq {"home", "page", "run", "blank", "odd"}
<1>1. ASSUME NEW x, NEW y, x # y
      PROVE  IsFiniteSet({x, y}) /\ Cardinality({x, y}) = 2
  <2>1. IsFiniteSet({x}) /\ Cardinality({x}) = 1
    BY FS_Singleton
  <2>2. {x, y} = {x} \cup {y} /\ y \notin {x}
    BY <1>1
  <2> QED BY <2>1, <2>2, FS_AddElement
<1>2. T \in {{"page", "run"}, {"blank", "odd"}, {"home"}, {"run"}, {}}
  <2>1. CASE T \in Written
    BY <2>1 DEF Written
  <2>2. CASE T \in Guessed(p) \ {{}}
    BY <2>2 DEF Guessed
  <2> QED BY <2>1, <2>2
<1>3. ASSUME NEW x PROVE IsFiniteSet({x}) /\ Cardinality({x}) \in 0..2
  <2>1. IsFiniteSet({x}) /\ Cardinality({x}) = 1
    BY FS_Singleton
  <2> QED BY <2>1
<1>4. CASE T \in {{"home"}, {"run"}}
  BY <1>3, <1>4
<1>5. CASE T \in {{"page", "run"}, {"blank", "odd"}}
  <2>1. 2 \in 0..2
    OBVIOUS
  <2>2. "page" # "run" /\ "blank" # "odd"
    OBVIOUS
  <2>3. IsFiniteSet(T) /\ Cardinality(T) = 2
    <3>1. /\ IsFiniteSet({"page", "run"}) /\ Cardinality({"page", "run"}) = 2
          /\ IsFiniteSet({"blank", "odd"}) /\ Cardinality({"blank", "odd"}) = 2
      BY <1>1, <2>2
    <3> QED BY <3>1, <1>5
  <2>4. T \subseteq {"home", "page", "run", "blank", "odd"}
    BY <1>5
  <2> QED BY <2>1, <2>3, <2>4
<1>6. CASE T = {}
  <2>1. IsFiniteSet(T) /\ Cardinality(T) = 0
    BY <1>6, FS_EmptySet
  <2> QED BY <2>1, <1>6
<1> QED BY <1>2, <1>4, <1>5, <1>6

LEMMA FewerTests ==
  ASSUME NEW T, IsFiniteSet(T), NEW x \in T
  PROVE  IsFiniteSet(T \ {x}) /\ Cardinality(T \ {x}) = Cardinality(T) - 1
         /\ Cardinality(T) \in Nat /\ Cardinality(T \ {x}) \in Nat
BY FS_RemoveElement, FS_CardinalityType

-----------------------------------------------------------------------------
(* The type invariant, with the number of tests it needs.                  *)
Counts == TypeOK /\ FewTests

Process == [task : Tasks, run : Nat, project : Projects, up : BOOLEAN, tie : Ties]
ProcsOK(ps) == ps \subseteq Process /\ \A p \in ps : p.run \in 1..Len(Produced[p.task])

\* The processes that a step can add to those there are, and those it changes.
LEMMA FreshProcess ==
  ASSUME Counts, NEW t \in Tasks, NEW tie \in Ties, stage[t] # "idle", project[t].entry # "none"
  PROVE  ProcsOK(procs \cup {Fresh(t, tie)})
<1>1. project[t] \in Projects
  BY DEF Counts, TypeOK, NoProject
<1>2. run[t] \in 1..Len(Produced[t]) /\ run[t] \in Nat
  <2>1. run[t] \in Nat /\ run[t] <= Len(Produced[t]) /\ run[t] > 0 /\ Len(Produced[t]) \in Nat
    BY ChecksAssumption DEF Counts, TypeOK, FewTests
  <2> QED BY <2>1
<1>3. Fresh(t, tie) \in Process /\ Fresh(t, tie).run = run[t] /\ Fresh(t, tie).task = t
  BY <1>1, <1>2 DEF Fresh, Process
<1>4. ProcsOK(procs)
  BY DEF Counts, TypeOK, ProcsOK, Process
<1> HIDE DEF Process
<1> QED BY <1>2, <1>3, <1>4 DEF ProcsOK

LEMMA ChangedProcess ==
  ASSUME ProcsOK(procs), NEW p \in procs, NEW q,
         \/ \E tie \in Ties : q = [p EXCEPT !.tie = tie]
         \/ q = [p EXCEPT !.up = TRUE]
  PROVE  /\ q \in Process /\ q.run \in 1..Len(Produced[q.task])
         /\ q.task = p.task /\ q.run = p.run /\ q.project = p.project
BY DEF ProcsOK, Process

LEMMA LostProcesses ==
  ASSUME ProcsOK(procs), NEW S \in SUBSET procs, Lose(S)
  PROVE  /\ ProcsOK(procs')
         /\ \A q \in procs' : q.tie = "lost" \/ q \in procs \ S
<1>1. ASSUME NEW q \in procs'
      PROVE  /\ q \in Process /\ q.run \in 1..Len(Produced[q.task])
             /\ q.tie = "lost" \/ q \in procs \ S
  <2>1. CASE q \in procs \ S
    BY <2>1 DEF ProcsOK
  <2>2. CASE q \notin procs \ S
    <3>1. PICK p \in S : q = [p EXCEPT !.tie = "lost"]
      BY <2>2 DEF Lose
    <3>2. p \in procs /\ "lost" \in Ties
      BY DEF Ties
    <3>3. p \in Process
      BY <3>2 DEF ProcsOK
    <3> QED BY <3>1, <3>2, <3>3, ChangedProcess DEF Process
  <2> QED BY <2>1, <2>2
<1> QED BY <1>1 DEF ProcsOK

\* The types of what a check keeps, apart from the processes.
LEMMA StageTypes ==
  ASSUME Counts, NEW t \in Tasks, CheckStep(t)
  PROVE  /\ stage' \in [Tasks -> Stages] /\ project' \in [Tasks -> Projects \cup {NoProject}]
         /\ run' = run
         /\ left' \in [Tasks -> SUBSET {"home", "page", "run", "blank", "odd"}]
         /\ failed' \in [Tasks -> BOOLEAN]
         /\ \A u \in Tasks : stage'[u] = "classifying" => left'[u] = {}
         /\ FewTests'
<1> USE DEF Counts, TypeOK, Stages, Go
<1>0. IsFiniteSet({}) /\ Cardinality({}) = 0
  BY FS_EmptySet
<1>1. CASE VerifyFails(t) \/ VerifyTimesOut(t) \/ NothingToTest(t) \/ AllPassed(t) \/ SomeFailed(t)
  <2>1. End(t)
    BY <1>1 DEF VerifyFails, VerifyTimesOut, NothingToTest, AllPassed, SomeFailed
  <2> QED BY <1>0, <2>1 DEF End, FewTests
<1>2. CASE NoEntryPoint(t) \/ ExitedImmediately(t) \/ HealthCheckTimesOut(t)
  <2>1. NotStarted(t) /\ stage[t] # "idle" /\ UNCHANGED <<run, project>>
    BY <1>2 DEF NoEntryPoint, ExitedImmediately, HealthCheckTimesOut
  <2> QED BY <1>0, <2>1 DEF NotStarted, FewTests
<1>3. CASE SyntaxCheck(t) \/ VerifyPasses(t)
  BY <1>3 DEF SyntaxCheck, VerifyPasses, HasCommand, suiteVars, FewTests
<1>4. CASE GenerateTests(t)
  <2>1. PICK T \in Written \cup (Guessed(project[t]) \ {{}}) : left' = [left EXCEPT ![t] = T]
    BY <1>4 DEF GenerateTests
  <2>2. project[t].entry \in {"server", "script", "none"}
    BY ChecksAssumption DEF NoProject
  <2>3. IsFiniteSet(T) /\ Cardinality(T) \in 0..2 /\ T \subseteq {"home", "page", "run", "blank", "odd"}
    BY <2>2, TwoTests
  <2>4. /\ failed' = [failed EXCEPT ![t] = FALSE] /\ stage' = [stage EXCEPT ![t] = "starting"]
        /\ stage[t] = "generating" /\ UNCHANGED <<run, project, procs>>
    BY <1>4 DEF GenerateTests
  <2> QED BY <2>1, <2>3, <2>4 DEF FewTests
<1>5. CASE Launch(t) \/ StartSucceeds(t)
  BY <1>5 DEF Launch, StartSucceeds, suiteVars, FewTests
<1>6. CASE RunTest(t) \/ TestTimesOut(t)
  <2>1. PICK x \in left[t], b \in BOOLEAN :
          left' = [left EXCEPT ![t] = left[t] \ {x}] /\ failed' = [failed EXCEPT ![t] = b]
    BY <1>6 DEF RunTest, TestTimesOut
  <2>2. stage[t] = "testing" /\ UNCHANGED <<stage, run, project>>
    BY <1>6 DEF RunTest, TestTimesOut
  <2>3. /\ IsFiniteSet(left[t] \ {x}) /\ Cardinality(left[t] \ {x}) = Cardinality(left[t]) - 1
        /\ Cardinality(left[t]) \in Nat /\ Cardinality(left[t] \ {x}) \in Nat
    BY FewerTests DEF FewTests
  <2>4. Cardinality(left[t]) <= 2
    BY <2>2 DEF FewTests
  <2> QED BY <2>1, <2>2, <2>3, <2>4 DEF FewTests
<1>8. CASE Stop(t)
  BY <1>8 DEF Stop, suiteVars, FewTests
<1> QED BY <1>1, <1>2, <1>3, <1>4, <1>5, <1>6, <1>8
        DEF CheckStep, VerifyStep, SuiteStep, QAStep

LEMMA StageProcs ==
  ASSUME Counts, NEW t \in Tasks, CheckStep(t)
  PROVE  ProcsOK(procs')
<1>0. ProcsOK(procs)
  BY DEF Counts, TypeOK, ProcsOK, Process
<1>1. CASE procs' \subseteq procs
  BY <1>0, <1>1 DEF ProcsOK
<1>2. CASE VerifyTimesOut(t) \/ HealthCheckTimesOut(t)
  <2>1. PICK S \in SUBSET procs : Lose(S)
    BY <1>2 DEF VerifyTimesOut, HealthCheckTimesOut, Own, Group
  <2> QED BY <1>0, <2>1, LostProcesses
<1>3. CASE RunTest(t) \/ TestTimesOut(t) \/ Launch(t)
  <2>1. stage[t] # "idle" /\ project[t].entry # "none"
    BY <1>3 DEF RunTest, TestTimesOut, Launch, Counts, FewTests
  <2>2. procs' = procs \/ \E tie \in Ties : procs' = procs \cup {Fresh(t, tie)}
    BY <1>3 DEF RunTest, TestTimesOut, Launch, Ties
  <2> QED BY <1>0, <2>1, <2>2, FreshProcess
<1> QED BY <1>1, <1>2, <1>3
        DEF CheckStep, VerifyStep, SuiteStep, QAStep, SyntaxCheck, VerifyPasses, VerifyFails, CommandEnds,
            NothingToTest, AllPassed, SomeFailed, NoEntryPoint, ExitedImmediately, StartSucceeds, Stop,
            GenerateTests

LEMMA CountsKept ==
  ASSUME Counts, [Next]_vars
  PROVE  Counts'
<1>0. ProcsOK(procs) /\ (ProcsOK(procs') => procs' \subseteq Process)
  BY DEF Counts, TypeOK, ProcsOK, Process
<1>1. CASE UNCHANGED vars
  BY <1>1 DEF vars, suiteVars, Counts, TypeOK, FewTests
<1>2. ASSUME NEW t \in Tasks, Check(t) PROVE Counts'
  <2>1. /\ stage' = [stage EXCEPT ![t] = "verifying"] /\ stage[t] = "idle"
        /\ UNCHANGED <<procs, left, failed>>
        /\ run' = [run EXCEPT ![t] = run[t] + 1] /\ run[t] < Len(Produced[t])
    BY <1>2 DEF Check, Go, suiteVars
  <2>2. PICK p \in Produced[t][run[t] + 1] : project' = [project EXCEPT ![t] = p]
    BY <1>2 DEF Check
  <2>3. \A u \in Tasks : run[u] \in Nat /\ run[u] <= Len(Produced[u]) /\ Len(Produced[u]) \in Nat
    BY ChecksAssumption DEF Counts, TypeOK
  <2>4. p \in Projects
    <3>1. run[t] + 1 \in 1..Len(Produced[t])
      BY <2>1, <2>3
    <3>2. Produced[t] \in Seq(SUBSET Projects)
      BY ChecksAssumption
    <3>3. Produced[t][run[t] + 1] \in SUBSET Projects
      BY <3>1, <3>2
    <3> QED BY <2>2, <3>3
  <2>5. run' \in [Tasks -> Nat] /\ \A u \in Tasks : run'[u] <= Len(Produced[u]) /\ run'[u] >= run[u]
    BY <2>1, <2>3 DEF Counts, TypeOK
  <2>6. run'[t] > 0
    BY <2>1, <2>3 DEF Counts, TypeOK
  <2>7. TypeOK'
    BY <2>1, <2>2, <2>4, <2>5 DEF Counts, TypeOK, Stages
  <2>8. FewTests'
    BY <2>1, <2>2, <2>3, <2>5, <2>6 DEF Counts, TypeOK, FewTests
  <2> QED BY <2>7, <2>8 DEF Counts
<1>3. ASSUME NEW t \in Tasks, CheckStep(t) PROVE Counts'
  BY <1>0, <1>3, StageTypes, StageProcs DEF Counts, TypeOK, ProcsOK, Process
<1>4. ASSUME UNCHANGED <<stage, run, project, suiteVars>>, ProcsOK(procs') PROVE Counts'
  BY <1>4 DEF Counts, TypeOK, ProcsOK, Process, FewTests, suiteVars
<1>5. ASSUME NEW t \in Tasks, CommandStarts(t) PROVE Counts'
  <2>1. stage[t] # "idle" /\ project[t].entry # "none" /\ procs' = procs \cup {Fresh(t, "none")}
    BY <1>5 DEF CommandStarts, HasCommand
  <2>2. ProcsOK(procs')
    BY <2>1, FreshProcess DEF Ties
  <2> QED BY <1>4, <1>5, <2>2 DEF CommandStarts
<1>6. ASSUME NEW p \in procs, ProcessStep(p) PROVE Counts'
  <2>1. PICK q : /\ procs' \subseteq procs \cup {q}
                 /\ \/ \E tie \in Ties : q = [p EXCEPT !.tie = tie]
                    \/ q = [p EXCEPT !.up = TRUE]
    BY <1>6 DEF ProcessStep, Bind, Exit, Detach, Ties
  <2>2. ProcsOK(procs')
    BY <1>0, <2>1, ChangedProcess DEF ProcsOK
  <2> QED BY <1>4, <1>6, <2>2 DEF ProcessStep, Bind, Exit, Detach
<1> QED BY <1>1, <1>2, <1>3, <1>5, <1>6 DEF Next, Rest

-----------------------------------------------------------------------------
(* Who may be listening.                                                   *)

\* What a step of a check leaves as it was.
LEMMA OthersApart ==
  ASSUME Counts, NEW t \in Tasks, CheckStep(t), NEW u \in Tasks \ {t}
  PROVE  stage'[u] = stage[u] /\ left'[u] = left[u] /\ project'[u] = project[u]
<1> USE DEF Counts, TypeOK, Go
<1>1. CASE VerifyStep(t) \/ QAStep(t)
  BY <1>1 DEF VerifyStep, SyntaxCheck, VerifyPasses, VerifyFails, VerifyTimesOut, QAStep, GenerateTests,
              NothingToTest, AllPassed, SomeFailed, End, suiteVars
<1>2. CASE SuiteStep(t)
  BY <1>2 DEF SuiteStep, NoEntryPoint, Launch, ExitedImmediately, StartSucceeds,
              HealthCheckTimesOut, RunTest, TestTimesOut, Stop, NotStarted, suiteVars
<1> QED BY <1>1, <1>2 DEF CheckStep

\* Where a process alive after a step of the check of t comes from.
LEMMA Origin ==
  ASSUME Counts, NEW t \in Tasks, CheckStep(t), NEW p \in procs', p \notin procs
  PROVE  \/ \E q \in Own(t) : p = [q EXCEPT !.tie = "lost"]
         \/ Launch(t) /\ p = Fresh(t, "group")
         \/ RunTest(t) /\ project[t].strays /\ p = Fresh(t, "none")
         \/ TestTimesOut(t) /\ p = Fresh(t, "lost")
<1>1. CASE VerifyStep(t)
  BY <1>1 DEF VerifyStep, SyntaxCheck, VerifyPasses, VerifyFails, VerifyTimesOut, CommandEnds, Lose
<1>2. CASE QAStep(t)
  BY <1>2 DEF QAStep, GenerateTests, NothingToTest, AllPassed, SomeFailed
<1>3. CASE SuiteStep(t)
  BY <1>3 DEF SuiteStep, NoEntryPoint, Launch, ExitedImmediately, StartSucceeds,
              HealthCheckTimesOut, RunTest, TestTimesOut, Stop, Lose, Group
<1> QED BY <1>1, <1>2, <1>3 DEF CheckStep

\* Why a process of the check of t that outlives a step is no longer attended.
LEMMA Survivor ==
  ASSUME Counts, Owned, NEW t \in Tasks, CheckStep(t), NEW p \in procs' \cap Own(t)
  PROVE  \/ p.tie = "lost" \/ p.project.strays
         \/ p.tie = "group" /\ t \in InSuite /\ stage'[t] \in {"warming", "testing"}
<1>1. p \in procs /\ p.task = t /\ p.run = run[t] /\ Explained(p)
  BY DEF Own, Owned
<1>2. CASE stage[t] = "verifying"
  <2>1. p.project = project[t]
    BY <1>1, <1>2 DEF Explained
  <2>2. CASE SyntaxCheck(t)
    BY <1>1, <1>2, <2>2 DEF SyntaxCheck, Explained, Attended, HasCommand, InSuite
  <2>3. CASE VerifyPasses(t) \/ VerifyFails(t)
    BY <2>1, <2>3 DEF VerifyPasses, VerifyFails, CommandEnds
  <2>4. CASE VerifyTimesOut(t)
    <3>1. ProcsOK(procs) /\ Own(t) \in SUBSET procs /\ Lose(Own(t))
      BY <2>4 DEF VerifyTimesOut, Counts, TypeOK, ProcsOK, Process, Own
    <3> QED BY <3>1, LostProcesses
  <2> QED BY <1>2, <2>2, <2>3, <2>4
          DEF CheckStep, VerifyStep, SuiteStep, QAStep, GenerateTests, NothingToTest, AllPassed, SomeFailed,
              NoEntryPoint, Launch, ExitedImmediately, StartSucceeds, HealthCheckTimesOut, RunTest,
              TestTimesOut, Stop
<1>3. CASE t \notin InSuite /\ stage[t] # "verifying"
  BY <1>1, <1>3 DEF Explained, Attended, HasCommand
<1>4. CASE t \in InSuite /\ ~(p.tie = "lost" \/ p.project.strays)
  <2>1. p.tie = "group" /\ p \in Group(t)
    BY <1>1, <1>4 DEF Explained, Attended, HasCommand, InSuite, Group, Own
  <2>2. ~ExitedImmediately(t) /\ ~Stop(t)
    BY <2>1 DEF ExitedImmediately, Stop
  <2>3. ~HealthCheckTimesOut(t)
    <3>1. ProcsOK(procs) /\ Group(t) \in SUBSET procs
      BY DEF Counts, TypeOK, ProcsOK, Process, Group, Own
    <3> QED BY <1>4, <2>1, <3>1, LostProcesses DEF HealthCheckTimesOut
  <2>4. StartSucceeds(t) \/ RunTest(t) \/ TestTimesOut(t)
    BY <1>4, <2>2, <2>3
       DEF InSuite, CheckStep, VerifyStep, SuiteStep, QAStep, SyntaxCheck, VerifyPasses, VerifyFails,
           VerifyTimesOut, HasCommand, GenerateTests, NothingToTest, AllPassed, SomeFailed, NoEntryPoint, Launch
  <2>5. stage'[t] = "testing"
    BY <1>4, <2>4 DEF StartSucceeds, RunTest, TestTimesOut, Go, Counts, TypeOK
  <2> QED BY <1>4, <2>1, <2>5
<1> QED BY <1>2, <1>3, <1>4

LEMMA OwnedStep ==
  ASSUME Counts, Owned, NEW t \in Tasks, CheckStep(t), NEW p \in procs'
  PROVE  Explained(p)'
<1>0. run' = run /\ (stage'[t] # "idle" => project'[t] = project[t])
  <2>1. CASE VerifyStep(t) \/ QAStep(t)
    BY <2>1 DEF VerifyStep, SyntaxCheck, VerifyPasses, VerifyFails, VerifyTimesOut, QAStep, GenerateTests,
                NothingToTest, AllPassed, SomeFailed, End, Go, Counts, TypeOK
  <2>2. CASE SuiteStep(t)
    BY <2>2 DEF SuiteStep, NoEntryPoint, Launch, ExitedImmediately, StartSucceeds,
                HealthCheckTimesOut, RunTest, TestTimesOut, Stop, NotStarted
  <2> QED BY <2>1, <2>2 DEF CheckStep
<1>1. \A q \in procs : q.task \in Tasks
  BY DEF Counts, TypeOK
<1>2. CASE p \in procs /\ p.task # t
  <2>1. /\ stage'[p.task] = stage[p.task] /\ project'[p.task] = project[p.task]
        /\ Explained(p) /\ p.task \in Tasks
    BY <1>1, <1>2, OthersApart DEF Owned
  <2> QED BY <1>0, <2>1 DEF Explained, Attended, HasCommand, InSuite
<1>3. CASE p \in procs /\ p.task = t /\ p.run # run[t]
  BY <1>0, <1>3 DEF Owned, Explained, Attended
<1>4. CASE p \in procs' \cap Own(t)
  <2>1. /\ \/ p.tie = "lost" \/ p.project.strays
           \/ p.tie = "group" /\ stage'[t] \in {"warming", "testing"}
        /\ p.task = t /\ p.run = run[t] /\ Explained(p)
    BY <1>4, Survivor DEF Owned, Own
  <2>2. stage[t] # "idle"
    BY DEF CheckStep, VerifyStep, SuiteStep, QAStep, SyntaxCheck, VerifyPasses, VerifyFails,
           VerifyTimesOut, HasCommand, GenerateTests, NothingToTest, AllPassed, SomeFailed, NoEntryPoint,
           Launch, ExitedImmediately, StartSucceeds, HealthCheckTimesOut, RunTest, TestTimesOut, Stop
  <2> QED BY <1>0, <2>1, <2>2 DEF Explained, Attended, InSuite
<1>5. ASSUME NEW q \in Own(t), p = [q EXCEPT !.tie = "lost"]
      PROVE  Explained(p)'
  <2>1. q \in procs /\ q.task = t /\ q.run = run[t] /\ Explained(q) /\ stage[t] # "idle"
    BY DEF Own, Owned, CheckStep, VerifyStep, SuiteStep, QAStep, SyntaxCheck, VerifyPasses, VerifyFails,
           VerifyTimesOut, HasCommand, GenerateTests, NothingToTest, AllPassed, SomeFailed, NoEntryPoint,
           Launch, ExitedImmediately, StartSucceeds, HealthCheckTimesOut, RunTest, TestTimesOut, Stop
  <2>2. p.task = q.task /\ p.run = q.run /\ p.project = q.project /\ p.tie = "lost"
    BY <1>5, <2>1 DEF Counts, TypeOK
  <2> QED BY <1>0, <2>1, <2>2 DEF Explained
<1>6. ASSUME NEW tie \in Ties, p = Fresh(t, tie),
             \/ tie = "lost" \/ project[t].strays
             \/ tie = "group" /\ stage'[t] = "warming"
      PROVE  Explained(p)'
  <2>1. p.task = t /\ p.run = run[t] /\ p.project = project[t] /\ p.tie = tie
    BY <1>6 DEF Fresh
  <2>2. run[t] \in Nat
    BY DEF Counts, TypeOK
  <2> QED BY <1>0, <1>6, <2>1, <2>2 DEF Explained, Attended, InSuite
<1>7. Launch(t) => stage'[t] = "warming"
  BY DEF Launch, Go, Counts, TypeOK
<1> QED BY <1>2, <1>3, <1>4, <1>5, <1>6, <1>7, Origin DEF Own, Ties

LEMMA OwnedKept ==
  ASSUME Counts, Owned, [Next]_vars
  PROVE  Owned'
<1>0. \A p \in procs : p.task \in Tasks /\ Explained(p)
  BY DEF Counts, TypeOK, Owned
<1>1. CASE UNCHANGED vars
  BY <1>0, <1>1 DEF vars, Owned, Explained, Attended, HasCommand, InSuite
<1>2. ASSUME NEW t \in Tasks, Check(t) PROVE Owned'
  <2>1. /\ stage' = [stage EXCEPT ![t] = "verifying"] /\ stage[t] = "idle"
        /\ procs' = procs /\ run' = [run EXCEPT ![t] = run[t] + 1] /\ run[t] \in Nat
        /\ \A u \in Tasks \ {t} : project'[u] = project[u]
    BY <1>2 DEF Check, Go, Counts, TypeOK
  <2>2. ASSUME NEW p \in procs PROVE Explained(p)'
    <3>1. Explained(p) /\ p.task \in Tasks /\ p.run \in Nat
      BY <1>0 DEF Counts, TypeOK
    <3>2. CASE p.task # t
      <4>1. /\ stage'[p.task] = stage[p.task] /\ run'[p.task] = run[p.task]
            /\ project'[p.task] = project[p.task]
        BY <2>1, <3>1, <3>2 DEF Counts, TypeOK
      <4> QED BY <3>1, <4>1 DEF Explained, Attended, HasCommand, InSuite
    <3>3. CASE p.task = t
      <4>1. p.run <= run[t] /\ (p.tie = "lost" \/ p.project.strays)
        BY <2>1, <3>1, <3>3 DEF Explained, Attended, HasCommand, InSuite
      <4>2. run'[t] = run[t] + 1
        BY <2>1 DEF Counts, TypeOK
      <4> QED BY <2>1, <3>1, <3>3, <4>1, <4>2 DEF Explained
    <3> QED BY <3>2, <3>3
  <2> QED BY <2>1, <2>2 DEF Owned
<1>3. ASSUME NEW t \in Tasks, CheckStep(t) PROVE Owned'
  BY <1>3, OwnedStep DEF Owned
<1>4. ASSUME UNCHANGED <<stage, run, project>>, NEW p, Explained(p) PROVE Explained(p)'
  BY <1>4 DEF Explained, Attended, HasCommand, InSuite
<1>5. ASSUME NEW t \in Tasks, CommandStarts(t) PROVE Owned'
  <2>1. /\ UNCHANGED <<stage, run, project>> /\ procs' = procs \cup {Fresh(t, "none")}
        /\ HasCommand(t) /\ run[t] \in Nat
    BY <1>5 DEF CommandStarts, Counts, TypeOK
  <2>2. Explained(Fresh(t, "none"))
    BY <2>1 DEF Explained, Attended, Fresh
  <2> QED BY <1>0, <1>4, <2>1, <2>2 DEF Owned
<1>6. ASSUME NEW p \in procs, ProcessStep(p) PROVE Owned'
  <2>1. UNCHANGED <<stage, run, project>>
    BY <1>6 DEF ProcessStep, Bind, Exit, Detach
  <2>2. PICK q : /\ procs' \subseteq procs \cup {q}
                 /\ \/ q = [p EXCEPT !.up = TRUE]
                    \/ p.project.strays /\ \E tie \in Ties : q = [p EXCEPT !.tie = tie]
    BY <1>6 DEF ProcessStep, Bind, Exit, Detach, Ties
  <2>3. /\ q.task = p.task /\ q.run = p.run /\ q.project = p.project
        /\ q.tie = p.tie \/ q.project.strays
    BY <2>2 DEF Counts, TypeOK
  <2>4. Explained(q)
    BY <1>0, <2>3 DEF Explained, Attended
  <2> QED BY <1>0, <1>4, <2>1, <2>2, <2>4 DEF Owned
<1> QED BY <1>1, <1>2, <1>3, <1>5, <1>6 DEF Next, Rest

(* Every variable of the checks keeps its type, and a suite counts at most *)
(* two tests.                                                              *)
THEOREM ChecksTyped == Spec => []Counts
<1>1. Init => Counts
  <2>1. Init => TypeOK
    BY ChecksAssumption DEF Init, TypeOK, Stages
  <2>2. Init => FewTests
    BY FS_EmptySet DEF Init, FewTests
  <2> QED BY <2>1, <2>2 DEF Counts
<1> QED BY <1>1, CountsKept, PTL DEF Spec

(* What answers the tests of a suite belongs to a check under way, or was  *)
(* left by a wait out of time, or is of a project that puts processes in   *)
(* the background: stop() (behavioral_runner.py:260-279) and the end of a  *)
(* command (verifier.py:132-158) leave nothing else.                       *)
THEOREM TestsAskTheirOwn == Spec => []AskedAreOwn
<1>1. Init => Owned
  BY DEF Init, Owned
<1>2. Counts /\ Owned => AskedAreOwn
  <2> SUFFICES ASSUME Counts, Owned, NEW p \in Asked
               PROVE  \/ p.run = run[p.task] /\ p.task \in Running
                      \/ p.tie = "lost"
                      \/ p.project.strays
    BY DEF AskedAreOwn
  <2>1. p \in procs /\ p.task \in Tasks /\ Explained(p)
    BY DEF Asked, Listening, Owned, Counts, TypeOK
  <2> QED BY <2>1 DEF Explained, Attended, HasCommand, Running
<1> QED BY <1>1, <1>2, OwnedKept, ChecksTyped, PTL DEF Spec

-----------------------------------------------------------------------------
(***************************************************************************)
(* Why a check ends: its steps count down, whatever the processes under    *)
(* test and the other suites do.                                           *)
(***************************************************************************)
StagesLeft(t) ==
  CASE stage[t] = "idle" -> 0
    [] stage[t] = "verifying" -> 8
    [] stage[t] = "generating" -> 7
    [] stage[t] = "starting" -> 4 + Cardinality(left[t])
    [] stage[t] = "warming" -> 3 + Cardinality(left[t])
    [] stage[t] = "testing" -> 2 + Cardinality(left[t])
    [] OTHER -> 1

LEMMA StagesCounted ==
  ASSUME Counts, NEW t \in Tasks
  PROVE  StagesLeft(t) \in 0..8 /\ Cardinality(left[t]) \in Nat
<1>1. Cardinality(left[t]) \in Nat
  BY FS_CardinalityType DEF Counts, TypeOK, FewTests
<1>2. stage[t] \in {"starting", "warming", "testing"} => Cardinality(left[t]) <= 2
  BY DEF Counts, FewTests
<1> QED BY <1>1, <1>2 DEF StagesLeft

LEMMA CheckCounts ==
  ASSUME Counts, NEW t \in Tasks, CheckStep(t)
  PROVE  StagesLeft(t)' < StagesLeft(t)
<1>0. stage \in [Tasks -> Stages] /\ left \in [Tasks -> SUBSET {"home", "page", "run", "blank", "odd"}]
  BY DEF Counts, TypeOK
<1>1. PICK n \in Nat : n = Cardinality(left[t])
  BY StagesCounted
<1>2. CASE VerifyStep(t) \/ NothingToTest(t) \/ AllPassed(t) \/ SomeFailed(t)
  <2>1. \/ stage[t] = "verifying" /\ stage'[t] \in {"generating", "idle"}
        \/ stage[t] \in {"generating", "classifying"} /\ stage'[t] = "idle"
    BY <1>0, <1>2 DEF VerifyStep, SyntaxCheck, VerifyPasses, VerifyFails, VerifyTimesOut, HasCommand,
                      NothingToTest, AllPassed, SomeFailed, End, Go
  <2> QED BY <2>1 DEF StagesLeft
<1>3. CASE GenerateTests(t)
  <2>1. PICK T \in Written \cup (Guessed(project[t]) \ {{}}) : left' = [left EXCEPT ![t] = T]
    BY <1>3 DEF GenerateTests
  <2>2. project[t].entry \in {"server", "script", "none"}
    BY ChecksAssumption DEF NoProject, Counts, TypeOK
  <2>3. Cardinality(T) \in 0..2
    BY <2>1, <2>2, TwoTests
  <2>4. stage[t] = "generating" /\ stage'[t] = "starting" /\ left'[t] = T
    BY <1>0, <1>3, <2>1 DEF GenerateTests, Go
  <2> QED BY <2>3, <2>4 DEF StagesLeft
<1>4. CASE Launch(t) \/ StartSucceeds(t)
  <2>1. /\ left'[t] = left[t]
        /\ \/ stage[t] = "starting" /\ stage'[t] = "warming"
           \/ stage[t] = "warming" /\ stage'[t] = "testing"
    BY <1>0, <1>4 DEF Launch, StartSucceeds, Go, suiteVars
  <2> QED BY <1>1, <2>1 DEF StagesLeft
<1>5. CASE NoEntryPoint(t) \/ ExitedImmediately(t) \/ HealthCheckTimesOut(t) \/ Stop(t)
  <2>1. stage[t] \in {"starting", "warming", "testing"} /\ stage'[t] = "classifying"
    BY <1>0, <1>5 DEF NoEntryPoint, ExitedImmediately, HealthCheckTimesOut, NotStarted, Stop, Go
  <2> QED BY <1>1, <2>1 DEF StagesLeft
<1>6. CASE RunTest(t) \/ TestTimesOut(t)
  <2>1. PICK x \in left[t] : left' = [left EXCEPT ![t] = left[t] \ {x}]
    BY <1>6 DEF RunTest, TestTimesOut
  <2>2. Cardinality(left[t] \ {x}) = n - 1
    BY <1>1, FewerTests DEF Counts, FewTests
  <2>3. stage[t] = "testing" /\ stage'[t] = "testing" /\ left'[t] = left[t] \ {x}
    BY <1>0, <1>6, <2>1 DEF RunTest, TestTimesOut
  <2> QED BY <1>1, <2>2, <2>3 DEF StagesLeft
<1> QED BY <1>2, <1>3, <1>4, <1>5, <1>6 DEF CheckStep, SuiteStep, QAStep

LEMMA ChecksApart ==
  ASSUME Counts, NEW u \in Tasks, NEW t \in Tasks \ {u}, Check(u) \/ CheckStep(u)
  PROVE  StagesLeft(t)' = StagesLeft(t)
<1>0. stage \in [Tasks -> Stages] /\ left \in [Tasks -> SUBSET {"home", "page", "run", "blank", "odd"}]
  BY DEF Counts, TypeOK
<1>1. stage'[t] = stage[t] /\ left'[t] = left[t]
  <2>1. CASE Check(u)
    BY <1>0, <2>1 DEF Check, Go, suiteVars
  <2> QED BY <2>1, OthersApart
<1> QED BY <1>1 DEF StagesLeft

(* Each step of a check brings its end nearer and nothing else sets it     *)
(* back: neither the processes of its project, whatever they do, nor the   *)
(* suites beside it (qa_loop.py:153-219, behavioral_runner.py:453-507).    *)
(* With two tests there are eight at most.  That the next one comes is not *)
(* said: two reads of the runner may wait for ever.                        *)
ChecksAdvance ==
  [][\A t \in Tasks : /\ CheckStep(t) => StagesLeft(t)' < StagesLeft(t)
                      /\ stage[t] # "idle" /\ ~CheckStep(t) => StagesLeft(t)' = StagesLeft(t)]_vars
ChecksAreCounted == \A t \in Tasks : StagesLeft(t) \in 0..8
THEOREM ChecksCountDown == Spec => ChecksAdvance /\ []ChecksAreCounted
<1> DEFINE Advance == \A t \in Tasks : /\ CheckStep(t) => StagesLeft(t)' < StagesLeft(t)
                                       /\ stage[t] # "idle" /\ ~CheckStep(t) => StagesLeft(t)' = StagesLeft(t)
<1>1. ASSUME Counts, Next, NEW t \in Tasks, stage[t] # "idle", ~CheckStep(t)
      PROVE  StagesLeft(t)' = StagesLeft(t)
  <2>1. CASE (\E p \in procs : ProcessStep(p)) \/ (\E u \in Tasks : CommandStarts(u)) \/ UNCHANGED vars
    <3>1. UNCHANGED <<stage, left>>
      BY <2>1 DEF ProcessStep, Bind, Exit, Detach, CommandStarts, vars, suiteVars
    <3> QED BY <3>1 DEF StagesLeft
  <2>2. ASSUME NEW u \in Tasks, Check(u) \/ CheckStep(u)
        PROVE  StagesLeft(t)' = StagesLeft(t)
    <3>1. t # u
      BY <1>1, <2>2 DEF Check
    <3> QED BY <1>1, <2>2, <3>1, ChecksApart
  <2> QED BY <1>1, <2>1, <2>2 DEF Next, Rest
<1>2. Counts /\ [Next]_vars => [Advance]_vars
  BY <1>1, CheckCounts
<1>3. Counts => ChecksAreCounted
  BY StagesCounted DEF ChecksAreCounted
<1> QED BY <1>2, <1>3, ChecksTyped, PTL DEF Spec, ChecksAdvance
=============================================================================
