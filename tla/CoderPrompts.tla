----------------------------- MODULE CoderPrompts -----------------------------
(***************************************************************************)
(* What a coder is told: execute_with_judge (src/core/orchestrator.py)     *)
(* seen from the prompts it sends.  It keeps the judge's critiques of a    *)
(* task and tier in _feedback_history, puts findings and errors in front   *)
(* of the task's specification, lets compress_history                      *)
(* (context_compressor.py) make a prompt of at most Cap of it, and tells   *)
(* the PipelineMonitor what happens.  An orchestrator makes several calls, *)
(* one after the other; the calls here have one task id, as a part of a    *)
(* task that is split again or a task a user repeats.                      *)
(***************************************************************************)
EXTENDS PipelineMonitor

CONSTANTS
  Tiers,       \* sequence of tiers; after the last comes the principal
  BackendOf,     \* tier -> "coder" (OpenCode, PI) or "http"
  MaxRetries,  \* max_retries_per_tier
  VerifyMax,   \* verify_config.max_retries
  Threshold,   \* acceptance_threshold, in tenths
  Replies,     \* what the judge's model may reply: [kind, score, critique, provisional]
  SpecSize,    \* sizes: of the specification, of a text put in front of it,
  FixSize,     \*   of a critique; the prompt is cut at Cap
  CritiqueSize,
  Cap,
  MaxCalls     \* bound: calls

ASSUME PromptsAssumption ==
  /\ Tiers \in Seq(DOMAIN BackendOf) /\ Len(Tiers) > 0
  /\ MaxRetries \in Nat /\ MaxCalls \in Nat /\ WindowSize \in Nat \ {0} /\ LowScores \in Nat \ {0}
  /\ \A r \in Replies : r.score \in Int

VARIABLES
  calls,       \* calls made
  phase,       \* "idle", "tier", "retry", "coding", "judging", "reported", "exhausted"
  tier,        \* index of the tier
  retry,       \* retry_num
  retries,     \* the tier's max_retries_per_tier, with the provisional bonus
  bonus,       \* provisional_bonus
  feedback,    \* the local variable, "" for none
  history,     \* tier -> _feedback_history[task:tier]
  spec,        \* context["task_spec"]: texts, the task itself last
  prompt,      \* what the coder was last sent: [seen, newest]
  verdict,     \* of the last evaluation
  actions,     \* monitor.actions
  alarms,      \* what check_health found after the last verdict
  told,        \* history: critiques of this call on this tier
  endedOn,     \* history: tiers on which a call returned with a result
  latest       \* history: the last verdicts, [score, age in recorded actions]

loopVars == <<tier, retry, retries, bonus>>
textVars == <<feedback, history, spec, prompt>>
monitorVars == <<actions, alarms, latest>>
historyVars == <<told, endedOn>>
promptVars == <<calls, phase, loopVars, textVars, verdict, monitorVars, historyVars>>

NoVerdict == [accepted |-> FALSE, provisional |-> FALSE, score |-> 0, critique |-> ""]
NoPrompt == [seen |-> {}, newest |-> ""]

PromptsInit ==
  /\ calls = 0 /\ phase = "idle"
  /\ tier = 1 /\ retry = 1 /\ retries = MaxRetries /\ bonus = FALSE
  /\ feedback = "" /\ history = [t \in Range(Tiers) |-> <<>>]
  /\ spec = <<"task">> /\ prompt = NoPrompt
  /\ verdict = NoVerdict
  /\ actions = <<>> /\ alarms = {} /\ latest = <<>>
  /\ told = {} /\ endedOn = {}

Now == Tiers[tier]
IsCoder == BackendOf[Now] = "coder"

-----------------------------------------------------------------------------
(* The judge's verdict and the prompt.                                     *)

Clamp(score) == CASE score < 0 -> 0 [] score > 10 -> 10 [] OTHER -> score

\* JSON is found in a fence, with line breaks in its strings, and with single
\* quotes.
Parses(reply) == reply.kind \in {"json", "fenced", "broken_lines", "single_quotes"}

\* A reply that is no JSON is its own critique; no reply, and one with an
\* unusable score, has the error's text as critique.
Evaluate(reply) ==
  IF Parses(reply)
    THEN [accepted |-> reply.score >= Threshold, provisional |-> reply.provisional,
          score |-> Clamp(reply.score), critique |-> reply.critique]
    ELSE [NoVerdict EXCEPT !.critique = reply.critique]

\* The size of the first n critiques: the older ones are a line each once there
\* are more than two.
FixesSize(fixes, n) ==
  IF Len(fixes) <= 2 \/ n = 0 THEN n * CritiqueSize
  ELSE IF n < Len(fixes) THEN n ELSE n - 1 + CritiqueSize

\* The texts of a prompt in their order: findings and the task, then the
\* critiques.  What does not fit is cut off at the end; the last critique is the
\* one the coder is asked to act on now.
Compressed(s, fixes) ==
  LET Size(x) == IF x = "task" THEN SpecSize ELSE FixSize
      Total[i \in 0..Len(s)] == IF i = 0 THEN 0 ELSE Total[i - 1] + Size(s[i])
      full == Total[Len(s)] + FixesSize(fixes, Len(fixes)) <= Cap
      fits == IF full THEN Cap ELSE Cap - 1
      shown == {n \in 1..Len(fixes) : Total[Len(s)] + FixesSize(fixes, n) <= fits}
  IN  [seen |-> {s[i] : i \in {j \in 1..Len(s) : Total[j] <= fits}} \cup {fixes[n] : n \in shown},
       newest |-> IF Len(fixes) \in shown THEN fixes[Len(fixes)] ELSE ""]

Remembered(h) ==
  IF feedback # "" /\ feedback \notin Range(h) THEN Append(h, feedback) ELSE h

Grown(i) == [k \in DOMAIN latest |-> [latest[k] EXCEPT !.age =
               IF @ + i > WindowSize THEN WindowSize ELSE @ + i]]

\* An action is recorded that is no verdict.
Note(a) == actions' = Record(actions, a) /\ latest' = Grown(1)

-----------------------------------------------------------------------------
(* The calls and their tiers.                                              *)

StartCall ==
  /\ phase = "idle" /\ calls < MaxCalls
  /\ calls' = calls + 1
  /\ phase' = "tier"
  /\ UNCHANGED <<loopVars, textVars, verdict, monitorVars, historyVars>>

\* The locals of a call are gone.
Leave ==
  /\ phase' = "idle"
  /\ tier' = 1 /\ retry' = 1 /\ retries' = MaxRetries /\ bonus' = FALSE
  /\ feedback' = "" /\ spec' = <<"task">> /\ told' = {}

\* The bonus of a provisional verdict stays for the tiers that follow.
NextTier ==
  /\ tier < Len(Tiers)
  /\ phase' = "tier"
  /\ tier' = tier + 1 /\ retry' = 1 /\ bonus' = FALSE
  /\ feedback' = "" /\ told' = {}
  /\ UNCHANGED <<retries, spec>>

\* An open circuit breaker or a FailUp skips the tier; after the last one the
\* principal gets the monitor's health and actions.
SkipTier ==
  /\ phase = "tier"
  /\ NextTier \/ (tier = Len(Tiers) /\ Leave)
  /\ UNCHANGED <<calls, history, prompt, verdict, monitorVars, endedOn>>

EnterTier ==
  /\ phase = "tier"
  /\ phase' = "retry"
  /\ UNCHANGED <<calls, loopVars, textVars, verdict, monitorVars, historyVars>>

Forget == history' = [history EXCEPT ![Now] = <<>>]

\* Mutant of Exhaust: the critiques of a tier that is left are kept.
ExhaustKeeps ==
  /\ phase = "exhausted" \/ (phase = "retry" /\ retry > retries)
  /\ Note(Escalation)
  /\ NextTier \/ Leave
  /\ UNCHANGED <<calls, history, prompt, verdict, alarms, endedOn>>

\* To the next tier, or out of the call: no tier is left, a human said no, or
\* three tiers failed alike.
Exhaust ==
  /\ phase = "exhausted" \/ (phase = "retry" /\ retry > retries)
  /\ Forget
  /\ Note(Escalation)
  /\ NextTier \/ Leave
  /\ UNCHANGED <<calls, prompt, verdict, alarms, endedOn>>

\* A FailUp between two attempts is not recorded as an escalation.
FailUp ==
  /\ phase = "retry" /\ retry <= retries
  /\ Forget
  /\ NextTier \/ Leave
  /\ UNCHANGED <<calls, prompt, verdict, monitorVars, endedOn>>

-----------------------------------------------------------------------------
(* An attempt.                                                             *)

Assemble ==
  /\ phase = "retry" /\ retry <= retries
  /\ LET h == Remembered(history[Now])
     IN  /\ history' = [history EXCEPT ![Now] = h]
         /\ prompt' = Compressed(spec, h)
  /\ Note(ContextFill)
  /\ phase' = "coding"
  /\ UNCHANGED <<calls, loopVars, feedback, spec, verdict, alarms, historyVars>>

Told(c) == feedback' = c /\ told' = told \cup {c}

\* OpenCode or PI fails: the coder is told so, if there is another attempt.
ProcessFails ==
  /\ phase = "coding" /\ IsCoder
  /\ Note(CoderOutput("empty", FALSE))
  /\ retry' = retry + 1
  /\ IF retry + 1 <= retries
       THEN Told("crashed") /\ phase' = "retry"
       ELSE phase' = "exhausted" /\ UNCHANGED <<feedback, told>>
  /\ prompt' = NoPrompt
  /\ UNCHANGED <<calls, tier, retries, bonus, history, spec, verdict, alarms, endedOn>>

\* An HTTP call that failed, or a backend that is not installed.
GivesUp ==
  /\ phase = "coding"
  /\ phase' = "exhausted"
  /\ prompt' = NoPrompt
  /\ UNCHANGED <<calls, loopVars, feedback, history, spec, verdict, monitorVars, historyVars>>

\* What an HTTP coder sends is not recorded.
Delivers ==
  /\ phase = "coding"
  /\ retry' = retry + 1
  /\ IF IsCoder
       THEN \E truncated \in BOOLEAN : Note(CoderOutput("sane", truncated))
       ELSE UNCHANGED <<actions, latest>>
  /\ phase' = "judging"
  /\ prompt' = NoPrompt
  /\ UNCHANGED <<calls, tier, retries, bonus, feedback, history, spec, verdict, alarms, historyVars>>

\* The findings are put in front of the specification.
AuditFails ==
  /\ phase = "judging" /\ IsCoder
  /\ IF retry <= retries
       THEN spec' = <<"findings">> \o spec /\ phase' = "retry"
       ELSE phase' = "exhausted" /\ UNCHANGED spec
  /\ UNCHANGED <<calls, loopVars, feedback, history, prompt, verdict, monitorVars, historyVars>>

Judged ==
  /\ phase = "judging"
  /\ \E r \in Replies :
       /\ verdict' = Evaluate(r)
       /\ actions' = Record(actions, JudgeVerdict(Evaluate(r).score))
       /\ latest' = Latest(Append(Grown(1), [score |-> Evaluate(r).score, age |-> 0]), LowScores)
  /\ alarms' = Errors(actions') \cup Warnings(actions')
  /\ phase' = "reported"
  /\ UNCHANGED <<calls, loopVars, textVars, historyVars>>

Decided == verdict' = NoVerdict /\ alarms' = {} /\ UNCHANGED <<actions, latest>>

AcceptResult ==
  /\ phase = "reported" /\ verdict.accepted
  /\ Leave
  /\ endedOn' = endedOn \cup {Now}
  /\ Decided
  /\ UNCHANGED <<calls, history, prompt>>

\* The errors are put in front of the specification, and the attempt counts
\* twice.
VerificationFails ==
  /\ phase = "reported" /\ verdict.accepted /\ retry < VerifyMax
  /\ spec' = <<"errors">> \o spec
  /\ retry' = retry + 1
  /\ phase' = "retry"
  /\ Decided
  /\ UNCHANGED <<calls, tier, retries, bonus, feedback, history, prompt, historyVars>>

Provisional ==
  /\ phase = "reported" /\ ~verdict.accepted /\ verdict.provisional
  /\ retries' = IF bonus THEN retries ELSE retries + 1
  /\ bonus' = TRUE
  /\ retry' = retry + 1
  /\ Told(verdict.critique)
  /\ phase' = "retry"
  /\ Decided
  /\ UNCHANGED <<calls, tier, history, spec, prompt, endedOn>>

RejectResult ==
  /\ phase = "reported" /\ ~verdict.accepted /\ ~verdict.provisional
  /\ Told(verdict.critique)
  /\ phase' = "retry"
  /\ Decided
  /\ UNCHANGED <<calls, loopVars, history, spec, prompt, endedOn>>

TierStep == SkipTier \/ EnterTier \/ Exhaust \/ FailUp
AttemptStep == Assemble \/ ProcessFails \/ GivesUp \/ Delivers \/ AuditFails \/ Judged
VerdictStep == AcceptResult \/ VerificationFails \/ Provisional \/ RejectResult
CallsMade == phase = "idle" /\ calls = MaxCalls /\ UNCHANGED promptVars

PromptsNext == StartCall \/ TierStep \/ AttemptStep \/ VerdictStep \/ CallsMade

PromptsSpec == PromptsInit /\ [][PromptsNext]_promptVars

-----------------------------------------------------------------------------
Phases == {"idle", "tier", "retry", "coding", "judging", "reported", "exhausted"}

(* The type of every variable; the window keeps its size, and no critique  *)
(* is remembered twice.                                                    *)
PromptsTypeOK ==
  /\ calls \in 0..MaxCalls /\ phase \in Phases
  /\ tier \in 1..Len(Tiers) /\ retries \in MaxRetries..(MaxRetries + Len(Tiers))
  /\ retry \in 1..(retries + 2) /\ bonus \in BOOLEAN
  /\ Len(actions) <= WindowSize
  /\ \A t \in Range(Tiers) : Len(history[t]) = Cardinality(Range(history[t]))
  /\ spec[Len(spec)] = "task"
  /\ verdict.score \in 0..10

(* A critique of an earlier call comes back to the coder of a later one    *)
(* only from a tier on which a call ended with a result: leaving a tier in *)
(* any other way -- exhausted, bumped up, denied -- forgets its critiques. *)
OldFixesOnlyAfterResult ==
  \A f \in prompt.seen \ ({"task", "findings", "errors"} \cup told) : Now \in endedOn

(* check_health reports low scores exactly when the last three verdicts    *)
(* are below 0.5 and not more than a window apart, whichever tiers and     *)
(* calls they came from and whatever was recorded in between.              *)
LowScoresReported ==
  phase = "reported" =>
    ("low_scores" \in alarms <=>
       /\ Len(latest) = LowScores
       /\ \A i \in DOMAIN latest : latest[i].score < 5 /\ latest[i].age < WindowSize)

=============================================================================
