--------------------------- MODULE EscalationLoop ---------------------------
(***************************************************************************)
(* One call of Orchestrator.execute_with_judge (src/core/orchestrator.py): *)
(* the ladder of tiers, the retry loop of each tier, and the gates an      *)
(* output must pass (audit, judge, runtime verification, behavioural QA)   *)
(* before the call returns success.  The coder, the auditor, the judge,    *)
(* the verifier, QA and the human answer with any result they can give;    *)
(* FailUp signals arrive at any time; the process may crash and the caller *)
(* may submit the same task again.                                         *)
(*                                                                         *)
(* Tiers are their positions 1..NumTiers in the list `tiers` (the names    *)
(* are distinct).  Prompts, critiques and file contents are abstracted to  *)
(* what later control flow reads from them.                                *)
(***************************************************************************)
EXTENDS Integers, Sequences

CONSTANTS
  NumTiers,       \* length of the list `tiers`
  Principals,     \* positions whose role is "principal"
  Agents,         \* positions with an OpenCode or PI backend; the others call the LLM
  FailureAction,  \* position -> get_tier_failure_action(tier)
  MaxRetries,     \* the argument max_retries_per_tier
  VerifyEnabled,  \* self.verify_enabled
  VerifyMax,      \* verify_config.max_retries
  QAEnabled,      \* self.qa_enabled
  Files,          \* paths a coder may write
  Clears,         \* path -> paths whose name ends with that path's base name
  Critiques,      \* categories _categorize_error may give to a critique here
  OpenBreakers,   \* positions whose circuit breaker the application may have opened
  EnvFailUp,      \* MRKRABS_FAIL_UP is set in the environment
  MaxSignals,     \* bound: FailUp signals posted
  MaxCrashes      \* bound: crashes of the process

Categories == {"empty_output", "truncation", "wrong_approach",
               "syntax_error", "missing_files", "unknown"}
Actions == {"log_only", "notify_and_escalate", "notify_and_wait"}
Tiers == 1..NumTiers

ASSUME LadderAssumption ==
  /\ NumTiers \in Nat \ {0}
  /\ Principals \subseteq Tiers
  /\ Agents \subseteq Tiers
  /\ OpenBreakers \subseteq Tiers
  /\ FailureAction \in [Tiers -> Actions]
  /\ MaxRetries \in Nat
  /\ VerifyEnabled \in BOOLEAN /\ QAEnabled \in BOOLEAN /\ EnvFailUp \in BOOLEAN
  /\ VerifyMax \in Nat
  /\ Clears \in [Files -> SUBSET Files]
  /\ Critiques \subseteq Categories
  /\ MaxSignals \in Nat /\ MaxCrashes \in Nat

MaxConsecutiveFailures == 3

(***************************************************************************)
(* State.  A verdict is what the judge said and, as history, the tier and  *)
(* the number of the coder call it was said of.  A rejection is silent     *)
(* when its critique is the empty string, which the judge may send.        *)
(***************************************************************************)
Rulings == {"accepted", "provisional", "rejected"}
NoVerdict == [ruling |-> "none", category |-> "unknown", silent |-> FALSE,
              tier |-> 0, call |-> 0]
Verdicts(t, n) ==
  {v \in [ruling : Rulings, category : Critiques \cup {"empty_output"},
          silent : BOOLEAN, tier : {t}, call : {n}] :
     /\ v.ruling = "accepted" => v.category # "empty_output"
     /\ v.silent => v.ruling = "rejected" /\ v.category \in {"empty_output", "unknown"}}

NoResult == [outcome |-> "none", tier |-> 0, context |-> FALSE, best |-> 0]
\* The file is "torn" from its truncation until its text is written.
NoCheckpoint == [state |-> "none", path |-> <<>>, attempts |-> 0,
                 retries |-> [t \in Tiers |-> 0], files |-> {}, best |-> 0]
TornCheckpoint == [NoCheckpoint EXCEPT !.state = "torn"]
NoOutput == [written |-> {}, read |-> {}]

VARIABLES
  pc,            \* where the call stands
  tier,          \* position in `tiers`
  retry,         \* retry_num
  maxRetries,    \* the local max_retries_per_tier, which a provisional verdict raises
  bonus,         \* provisional_bonus
  feedback,      \* which feedback the next prompt carries
  aborted,       \* fail_up_aborted
  attempts,      \* attempts_total
  retries,       \* retries_per_tier
  path,          \* escalation_path
  verdict,       \* verdict, shared by all tiers
  lastCategory,  \* last_error_category
  streak,        \* consecutive_failures
  truncated,     \* any_truncation
  output,        \* files of the coder call under evaluation
  accumulated,   \* accumulated_files
  best,          \* best_output: the tier it came from, 0 while empty
  failNow,       \* FailNow requests standing: the module flag, the mesh file
  signals,       \* FailUp requests standing: the module flag, the mesh file
  posted,        \* history: FailUp requests made
  bumps,         \* history: tiers a FailUp request moved the call out of
  checkpoint,    \* <task_id>_checkpoint.json
  unsaved,       \* history: verdicts given since a checkpoint was last completed
  result,        \* what the call returned
  crashes        \* history: crashes so far

tierVars    == <<tier, retry, maxRetries, bonus, feedback, aborted>>
countVars   == <<attempts, retries, path>>
streakVars  == <<lastCategory, streak, truncated>>
workVars    == <<output, accumulated, best>>
signalVars  == <<failNow, signals, posted, bumps>>
diskVars    == <<checkpoint, unsaved>>
vars == <<pc, tierVars, countVars, streakVars, workVars, verdict, signalVars,
          diskVars, result, crashes>>

Init ==
  /\ pc = "start"
  /\ tier = 1 /\ retry = 1 /\ maxRetries = MaxRetries
  /\ bonus = FALSE /\ feedback = "none" /\ aborted = FALSE
  /\ attempts = 0 /\ retries = [t \in Tiers |-> 0] /\ path = <<>>
  /\ verdict = NoVerdict
  /\ lastCategory = "none" /\ streak = 0 /\ truncated = FALSE
  /\ output = NoOutput /\ accumulated = {} /\ best = 0
  /\ result = NoResult
  /\ failNow \in SUBSET {"flag", "file"}
  /\ signals = {} /\ posted = 0 /\ bumps = 0
  /\ checkpoint = NoCheckpoint /\ unsaved = 0
  /\ crashes = 0

FailUpActive == EnvFailUp \/ signals # {}

\* A return: tier_used, and whether an escalation_context with the best
\* output comes with it.
Return(outcome, used, context) ==
  /\ pc' = "done"
  /\ result' = [outcome |-> outcome, tier |-> used, context |-> context,
                best |-> IF context THEN best ELSE 0]

\* Mutant of NextTier: a branch that leaves a tier without recording it.
NextTierUnrecorded ==
  /\ pc' = "tier"
  /\ tier' = tier + 1
  /\ UNCHANGED path

\* `continue` of the loop over tiers, after escalation_path.append(tier).
NextTier ==
  /\ pc' = "tier"
  /\ tier' = tier + 1
  /\ path' = Append(path, tier)

-----------------------------------------------------------------------------
(* FailNow: one shot without judge.  The module flag is looked at first;   *)
(* the mesh file only once the flag is known to be set.                    *)

FailNowShot ==
  /\ pc = "start"
  /\ "flag" \in failNow
  /\ failNow' = {}
  /\ \/ Return("fail_now", 0, FALSE)
     \/ pc' = "tier" /\ UNCHANGED result
  /\ UNCHANGED <<tierVars, countVars, streakVars, workVars, verdict,
                 signals, posted, bumps, diskVars, crashes>>

NoFailNow ==
  /\ pc = "start"
  /\ "flag" \notin failNow
  /\ pc' = "tier"
  /\ UNCHANGED <<tierVars, countVars, streakVars, workVars, verdict,
                 signalVars, diskVars, result, crashes>>

-----------------------------------------------------------------------------
(* Top of the loop over tiers.                                             *)

EnterTier ==
  /\ pc = "tier"
  /\ tier \in Tiers
  /\ feedback' = "none"
  /\ aborted' = FALSE
  /\ retries' = [retries EXCEPT ![tier] = 0]

\* The principal is the caller itself: the call returns its context.
ReachPrincipal ==
  /\ EnterTier
  /\ tier \in Principals
  /\ Return("principal", 0, TRUE)
  /\ UNCHANGED <<tier, retry, maxRetries, bonus, attempts, path, streakVars,
                 workVars, verdict, signalVars, diskVars, crashes>>

SkipOpenCircuit ==
  /\ EnterTier
  /\ tier \in OpenBreakers \ Principals
  /\ NextTier
  /\ UNCHANGED <<retry, maxRetries, bonus, attempts, streakVars, workVars,
                 verdict, signalVars, diskVars, result, crashes>>

FailUpAtEntry ==
  /\ EnterTier
  /\ tier \notin Principals
  /\ FailUpActive
  /\ signals' = {}
  /\ bumps' = bumps + 1
  /\ NextTier
  /\ UNCHANGED <<retry, maxRetries, bonus, attempts, streakVars, workVars,
                 verdict, failNow, posted, diskVars, result, crashes>>

BeginTier ==
  /\ EnterTier
  /\ tier \notin Principals
  /\ ~FailUpActive
  /\ retry' = 1
  /\ bonus' = FALSE
  /\ pc' = "retry"
  /\ UNCHANGED <<tier, maxRetries, attempts, path, streakVars, workVars,
                 verdict, signalVars, diskVars, result, crashes>>

TiersSpent ==
  /\ pc = "tier"
  /\ tier \notin Tiers
  /\ Return("failed", 0, FALSE)
  /\ UNCHANGED <<tierVars, countVars, streakVars, workVars, verdict,
                 signalVars, diskVars, crashes>>

-----------------------------------------------------------------------------
(* Top of the retry loop of a tier.                                        *)

RetriesSpent ==
  /\ pc = "retry"
  /\ retry > maxRetries
  /\ pc' = "exhausted"
  /\ UNCHANGED <<tierVars, countVars, streakVars, workVars, verdict,
                 signalVars, diskVars, result, crashes>>

FailUpMidRetry ==
  /\ pc = "retry"
  /\ retry <= maxRetries
  /\ FailUpActive
  /\ signals' = {}
  /\ bumps' = bumps + 1
  /\ aborted' = TRUE
  /\ retries' = [retries EXCEPT ![tier] = retry - 1]
  /\ pc' = "exhausted"
  /\ UNCHANGED <<tier, retry, maxRetries, bonus, feedback, attempts, path,
                 streakVars, workVars, verdict, failNow, posted, diskVars,
                 result, crashes>>

CallCoder ==
  /\ pc = "retry"
  /\ retry <= maxRetries
  /\ ~FailUpActive
  /\ pc' = "coding"
  /\ UNCHANGED <<tierVars, countVars, streakVars, workVars, verdict,
                 signalVars, diskVars, result, crashes>>

-----------------------------------------------------------------------------
(* The coder's answer.                                                     *)

CountCall ==
  /\ pc = "coding"
  /\ attempts' = attempts + 1
  /\ retries' = [retries EXCEPT ![tier] = @ + 1]
  /\ retry' = retry + 1

\* Mutant of CoderNotInstalled: the uncounted failure is tried again.
CoderNotInstalledRetried ==
  /\ pc = "coding"
  /\ tier \in Agents
  /\ pc' = "retry"
  /\ UNCHANGED <<tierVars, countVars, streakVars, workVars, verdict,
                 signalVars, diskVars, result, crashes>>

CoderNotInstalled ==
  /\ pc = "coding"
  /\ tier \in Agents
  /\ pc' = "exhausted"
  /\ UNCHANGED <<tierVars, countVars, streakVars, workVars, verdict,
                 signalVars, diskVars, result, crashes>>

CoderProcessFails ==
  /\ CountCall
  /\ tier \in Agents
  /\ \/ retry' <= maxRetries /\ feedback' = "process" /\ pc' = "retry"
     \/ retry' > maxRetries /\ UNCHANGED feedback /\ pc' = "exhausted"
  /\ UNCHANGED <<tier, maxRetries, bonus, aborted, path, streakVars, workVars,
                 verdict, signalVars, diskVars, result, crashes>>

CoderHttpFails ==
  /\ CountCall
  /\ tier \notin Agents
  /\ pc' = "exhausted"
  /\ UNCHANGED <<tier, maxRetries, bonus, feedback, aborted, path, streakVars,
                 workVars, verdict, signalVars, diskVars, result, crashes>>

\* An agent's files are read back from disk (a read may fail); a plain LLM
\* answer has no written_paths, only the files its tool calls report.
Outputs ==
  {o \in [written : SUBSET Files, read : SUBSET Files] :
     IF tier \in Agents THEN o.read \subseteq o.written ELSE o.written = {}}

CoderProduces ==
  /\ CountCall
  /\ \E o \in Outputs : output' = o
  /\ pc' = "auditing"
  /\ UNCHANGED <<tier, maxRetries, bonus, feedback, aborted, path, streakVars,
                 accumulated, best, verdict, signalVars, diskVars, result, crashes>>

-----------------------------------------------------------------------------
(* The gates: integration audit, judge, runtime verification, QA.          *)

AuditFails ==
  /\ pc = "auditing"
  /\ output.read # {}
  /\ pc' = IF retry <= maxRetries THEN "retry" ELSE "exhausted"
  /\ UNCHANGED <<tierVars, countVars, streakVars, workVars, verdict,
                 signalVars, diskVars, result, crashes>>

AuditPasses ==
  /\ pc = "auditing"
  /\ pc' = "judging"
  /\ UNCHANGED <<tierVars, countVars, streakVars, workVars, verdict,
                 signalVars, diskVars, result, crashes>>

\* Mutant of JudgeRules: an unreachable judge leaves the last verdict standing.
JudgeRulesOrKeeps ==
  /\ pc = "judging"
  /\ verdict' \in Verdicts(tier, attempts) \cup {verdict}
  /\ unsaved' = unsaved + 1
  /\ pc' = "judged"
  /\ UNCHANGED <<tierVars, countVars, streakVars, workVars, signalVars,
                 checkpoint, result, crashes>>

\* An unreachable judge counts as a rejection with score 0.
JudgeRules ==
  /\ pc = "judging"
  /\ verdict' \in Verdicts(tier, attempts)
  /\ unsaved' = unsaved + 1
  /\ pc' = "judged"
  /\ UNCHANGED <<tierVars, countVars, streakVars, workVars, signalVars,
                 checkpoint, result, crashes>>

\* write_text truncates the checkpoint in place ...
OpenCheckpoint ==
  /\ pc = "judged"
  /\ checkpoint' = TornCheckpoint
  /\ pc' = "saving"
  /\ UNCHANGED <<tierVars, countVars, streakVars, workVars, verdict,
                 signalVars, unsaved, result, crashes>>

\* Mutant of SaveCheckpoint: the checkpoint leaves out the tier just judged.
SaveCheckpointShortPath ==
  /\ pc = "saving"
  /\ checkpoint' = [state |-> "whole", path |-> path, attempts |-> attempts,
                    retries |-> retries, files |-> accumulated, best |-> best]
  /\ unsaved' = 0
  /\ pc' = "ruled"
  /\ UNCHANGED <<tierVars, countVars, streakVars, workVars, verdict,
                 signalVars, result, crashes>>

\* ... and then writes its text.
SaveCheckpoint ==
  /\ pc = "saving"
  /\ checkpoint' = [state |-> "whole", path |-> Append(path, tier), attempts |-> attempts,
                    retries |-> retries, files |-> accumulated, best |-> best]
  /\ unsaved' = 0
  /\ pc' = "ruled"
  /\ UNCHANGED <<tierVars, countVars, streakVars, workVars, verdict,
                 signalVars, result, crashes>>

Accept ==
  /\ pc = "ruled"
  /\ verdict.ruling = "accepted"
  /\ accumulated' = accumulated \cup output.written
  /\ best' = tier
  /\ pc' = "verifying"
  /\ UNCHANGED <<tierVars, countVars, streakVars, output, verdict, signalVars,
                 diskVars, result, crashes>>

\* Mutant of Provisional: every provisional verdict earns a bonus retry.
ProvisionalAlwaysBonus ==
  /\ pc = "ruled"
  /\ verdict.ruling = "provisional"
  /\ maxRetries' = maxRetries + 1
  /\ bonus' = TRUE
  /\ feedback' = "provisional"
  /\ retry' = retry + 1
  /\ pc' = "retry"
  /\ UNCHANGED <<tier, aborted, countVars, streakVars, workVars, verdict,
                 signalVars, diskVars, result, crashes>>

Provisional ==
  /\ pc = "ruled"
  /\ verdict.ruling = "provisional"
  /\ maxRetries' = IF bonus THEN maxRetries ELSE maxRetries + 1
  /\ bonus' = TRUE
  /\ feedback' = "provisional"
  /\ retry' = retry + 1
  /\ pc' = "retry"
  /\ UNCHANGED <<tier, aborted, countVars, streakVars, workVars, verdict,
                 signalVars, diskVars, result, crashes>>

\* Mutant of Reject: an empty critique does not replace the feedback before it.
RejectKeepsIfSilent ==
  /\ pc = "ruled"
  /\ verdict.ruling = "rejected"
  /\ feedback' = IF verdict.silent THEN feedback ELSE "critique"
  /\ pc' = "retry"
  /\ UNCHANGED <<tier, retry, maxRetries, bonus, aborted, countVars, streakVars,
                 workVars, verdict, signalVars, diskVars, result, crashes>>

\* An empty critique is copied too, and counts as no feedback.
Reject ==
  /\ pc = "ruled"
  /\ verdict.ruling = "rejected"
  /\ feedback' = IF verdict.silent THEN "none" ELSE "critique"
  /\ pc' = "retry"
  /\ UNCHANGED <<tier, retry, maxRetries, bonus, aborted, countVars, streakVars,
                 workVars, verdict, signalVars, diskVars, result, crashes>>

VerifyPasses ==
  /\ pc = "verifying"
  /\ pc' = "qa"
  /\ UNCHANGED <<tierVars, countVars, streakVars, workVars, verdict,
                 signalVars, diskVars, result, crashes>>

VerifyFailsRetry ==
  /\ pc = "verifying"
  /\ VerifyEnabled
  /\ retry < VerifyMax
  /\ accumulated' = accumulated \ UNION {Clears[f] : f \in output.read}
  /\ retry' = retry + 1
  /\ retries' = [retries EXCEPT ![tier] = @ + 1]
  /\ pc' = "retry"
  /\ UNCHANGED <<tier, maxRetries, bonus, feedback, aborted, attempts, path,
                 streakVars, output, best, verdict, signalVars, diskVars,
                 result, crashes>>

VerifyFailsForGood ==
  /\ pc = "verifying"
  /\ VerifyEnabled
  /\ retry >= VerifyMax
  /\ Return("verify_failed", tier, FALSE)
  /\ UNCHANGED <<tierVars, countVars, streakVars, workVars, verdict,
                 signalVars, diskVars, crashes>>

\* With QA enabled every path of QALoop.evaluate, the passing one included,
\* ends in an AttributeError, which leaves the call.
QARaises ==
  /\ pc = "qa"
  /\ QAEnabled
  /\ Return("raised", tier, FALSE)
  /\ UNCHANGED <<tierVars, countVars, streakVars, workVars, verdict,
                 signalVars, diskVars, crashes>>

Deliver ==
  /\ pc = "qa"
  /\ ~QAEnabled
  /\ checkpoint' = NoCheckpoint
  /\ Return("success", tier, FALSE)
  /\ UNCHANGED <<tierVars, countVars, streakVars, workVars, verdict,
                 signalVars, unsaved, crashes>>

-----------------------------------------------------------------------------
(* After the retry loop of a tier: the streak of equal error categories,   *)
(* then the failure action of the tier.                                    *)

Categorize ==
  /\ pc = "exhausted"
  /\ lastCategory' = verdict.category
  /\ truncated' = (truncated \/ verdict.category = "truncation")
  /\ streak' = IF verdict.category = lastCategory THEN streak + 1 ELSE 1

SkipToPrincipal ==
  /\ Categorize
  /\ streak' >= MaxConsecutiveFailures
  /\ path' = Append(path, tier)
  /\ Return("consecutive", 0, FALSE)
  /\ UNCHANGED <<tierVars, attempts, retries, workVars, verdict, signalVars,
                 diskVars, crashes>>

Escalate ==
  /\ Categorize
  /\ streak' < MaxConsecutiveFailures
  /\ aborted \/ FailureAction[tier] # "notify_and_wait"
  /\ NextTier
  /\ UNCHANGED <<retry, maxRetries, bonus, feedback, aborted, attempts, retries,
                 workVars, verdict, signalVars, diskVars, result, crashes>>

\* Mutant of AskHuman: every failure action waits for the human.
AskHumanAlways ==
  /\ Categorize
  /\ streak' < MaxConsecutiveFailures
  /\ ~aborted
  /\ path' = Append(path, tier)
  /\ pc' = "waiting"
  /\ UNCHANGED <<tierVars, attempts, retries, workVars, verdict, signalVars,
                 diskVars, result, crashes>>

AskHuman ==
  /\ Categorize
  /\ streak' < MaxConsecutiveFailures
  /\ ~aborted /\ FailureAction[tier] = "notify_and_wait"
  /\ path' = Append(path, tier)
  /\ pc' = "waiting"
  /\ UNCHANGED <<tierVars, attempts, retries, workVars, verdict, signalVars,
                 diskVars, result, crashes>>

HumanConfirms ==
  /\ pc = "waiting"
  /\ tier' = tier + 1
  /\ pc' = "tier"
  /\ UNCHANGED <<retry, maxRetries, bonus, feedback, aborted, countVars,
                 streakVars, workVars, verdict, signalVars, diskVars,
                 result, crashes>>

\* Denied, or no decision within the 15 minutes.
HumanRefuses ==
  /\ pc = "waiting"
  /\ Return("aborted", 0, FALSE)
  /\ UNCHANGED <<tierVars, countVars, streakVars, workVars, verdict,
                 signalVars, diskVars, crashes>>

-----------------------------------------------------------------------------
(* The surroundings: FailUp requests, crashes, a second submission.        *)

PostFailUp ==
  /\ posted < MaxSignals
  /\ \E s \in {"flag", "file"} : signals' = signals \cup {s}
  /\ posted' = posted + 1
  /\ UNCHANGED <<pc, tierVars, countVars, streakVars, workVars, verdict,
                 failNow, bumps, diskVars, result, crashes>>

Crash ==
  /\ pc \notin {"done", "crashed"}
  /\ crashes < MaxCrashes
  /\ crashes' = crashes + 1
  /\ pc' = "crashed"
  /\ signals' = signals \ {"flag"}
  /\ failNow' = failNow \ {"flag"}
  /\ UNCHANGED <<tierVars, countVars, streakVars, workVars, verdict, posted,
                 bumps, diskVars, result>>

Resubmit ==
  /\ pc = "crashed"
  /\ pc' = "start"
  /\ tier' = 1 /\ retry' = 1 /\ maxRetries' = MaxRetries
  /\ bonus' = FALSE /\ feedback' = "none" /\ aborted' = FALSE
  /\ attempts' = 0 /\ retries' = [t \in Tiers |-> 0] /\ path' = <<>>
  /\ verdict' = NoVerdict
  /\ lastCategory' = "none" /\ streak' = 0 /\ truncated' = FALSE
  /\ output' = NoOutput /\ accumulated' = {} /\ best' = 0
  /\ UNCHANGED <<signalVars, diskVars, result, crashes>>

Returned == pc = "done" /\ UNCHANGED vars

TierStep == ReachPrincipal \/ SkipOpenCircuit \/ FailUpAtEntry \/ BeginTier \/ TiersSpent
RetryStep == RetriesSpent \/ FailUpMidRetry \/ CallCoder
CoderStep == CoderNotInstalled \/ CoderProcessFails \/ CoderHttpFails \/ CoderProduces
GateStep ==
  \/ AuditFails \/ AuditPasses
  \/ JudgeRules \/ OpenCheckpoint \/ SaveCheckpoint
  \/ Accept \/ Provisional \/ Reject
  \/ VerifyPasses \/ VerifyFailsRetry \/ VerifyFailsForGood
  \/ QARaises \/ Deliver
FailureStep == SkipToPrincipal \/ Escalate \/ AskHuman \/ HumanConfirms \/ HumanRefuses

CallStep ==
  FailNowShot \/ NoFailNow \/ TierStep \/ RetryStep \/ CoderStep \/ GateStep \/ FailureStep

Next == CallStep \/ PostFailUp \/ Crash \/ Resubmit \/ Returned

Spec == Init /\ [][Next]_vars

\* The calling thread keeps running: every external call it waits for (coder,
\* judge, verifier, human gate) has a timeout.  A crashed process need not be
\* started again.
FairSpec == Spec /\ WF_vars(CallStep)

-----------------------------------------------------------------------------
PCs == {"start", "tier", "retry", "coding", "auditing", "judging", "judged",
        "saving", "ruled", "verifying", "qa", "exhausted", "waiting", "done", "crashed"}
Outcomes == {"none", "success", "fail_now", "principal", "consecutive", "aborted",
             "verify_failed", "raised", "failed"}
Feedbacks == {"none", "process", "critique", "provisional"}

ControlOK ==
  /\ pc \in PCs
  /\ tier \in 1..(NumTiers + 1)
  /\ pc \notin {"start", "tier", "done", "crashed"} => tier \in Tiers
  /\ retry \in Nat \ {0} /\ maxRetries \in Nat
  /\ feedback \in Feedbacks
FlagsOK == bonus \in BOOLEAN /\ aborted \in BOOLEAN /\ truncated \in BOOLEAN
CountersOK ==
  /\ attempts \in Nat /\ retries \in [Tiers -> Nat] /\ path \in Seq(Tiers)
  /\ lastCategory \in Categories \cup {"none"} /\ streak \in Nat
VerdictOK ==
  verdict \in [ruling : Rulings \cup {"none"}, category : Categories,
               silent : BOOLEAN, tier : 0..NumTiers, call : Nat]
FilesOK ==
  /\ output \in [written : SUBSET Files, read : SUBSET Files]
  /\ accumulated \subseteq Files /\ best \in 0..NumTiers
SignalsOK ==
  /\ failNow \subseteq {"flag", "file"} /\ signals \subseteq {"flag", "file"}
  /\ posted \in Nat /\ bumps \in Nat /\ crashes \in Nat
EndOK ==
  /\ checkpoint \in [state : {"none", "torn", "whole"}, path : Seq(Tiers), attempts : Nat,
                    retries : [Tiers -> Nat], files : SUBSET Files, best : 0..NumTiers]
  /\ unsaved \in Nat
  /\ result \in [outcome : Outcomes, tier : 0..NumTiers, context : BOOLEAN,
                 best : 0..NumTiers]

(* The type of every variable.                                             *)
TypeOK ==
  ControlOK /\ FlagsOK /\ CountersOK /\ VerdictOK /\ FilesOK /\ SignalsOK /\ EndOK

(* The escalation path is the list of tiers left behind, in order and      *)
(* without gaps, whichever of the branches (open circuit, FailUp before or *)
(* during the tier, exhausted retries, human gate, consecutive errors) the *)
(* call left each tier by.                                                 *)
PathIsTiersLeft ==
  LET current == pc = "waiting" \/ result.outcome \in {"consecutive", "aborted"}
  IN  /\ \A i \in 1..Len(path) : path[i] = i
      /\ \/ Len(path) = IF current THEN tier ELSE tier - 1
         \/ pc = "crashed" /\ Len(path) = tier

(* The verdict is shared by all tiers and calls and survives audits that   *)
(* fail, backends that are missing and retry loops that run out, yet an    *)
(* output is verified, delivered or reported as failing a gate only on the *)
(* verdict given to that very coder call.                                  *)
NoStaleApproval ==
  \/ pc \in {"judged", "saving", "ruled", "verifying", "qa"}
  \/ result.outcome \in {"success", "verify_failed", "raised"}
  => /\ verdict.tier = tier /\ verdict.call = attempts
     /\ pc \notin {"judged", "saving", "ruled"} => verdict.ruling = "accepted" /\ best = tier

(* Bonus retries are added to a variable all later tiers use, and a        *)
(* verification failure spends a retry of its own; still the coder calls   *)
(* are bounded: tier i makes at most MaxRetries + (i - 1) of them, tiers   *)
(* 1..t together half of TwiceCalls(t).                                    *)
TwiceCalls(t) == 2 * (t * MaxRetries) + t * (t - 1)
CallBudget == 2 * attempts <= TwiceCalls(tier)

(* Once a verdict is acted upon the checkpoint on disk is that verdict's,  *)
(* through failed audits, missing backends, later tiers and a resubmission *)
(* that is judged anew.  Between the verdict and the end of the write a    *)
(* crash loses it, with the checkpoint before it if the file was already   *)
(* truncated, but no crash loses more than the one verdict; a delivered    *)
(* task leaves no checkpoint behind, whole or torn, not even one from      *)
(* before a crash.                                                         *)
InSaving == pc \in {"judged", "saving"}
CheckpointFollowsVerdict ==
  /\ verdict # NoVerdict /\ result.outcome # "success"
       /\ (unsaved = 0 \/ (~InSaving /\ pc # "crashed"))
     => /\ checkpoint.state = "whole"
        /\ checkpoint.attempts = verdict.call
        /\ Len(checkpoint.path) = verdict.tier
        /\ \A i \in 1..Len(checkpoint.path) : checkpoint.path[i] = i
  /\ unsaved <= crashes + (IF InSaving THEN 1 ELSE 0)
  /\ checkpoint.state = "torn" => unsaved > 0
  /\ result.outcome = "success" => checkpoint.state = "none"

(* After a call the judge did not accept, the feedback that the next       *)
(* prompt of the tier is put together from answers that very call: the     *)
(* critique of its rejection, none at all when the critique was empty, the *)
(* corrections of a provisional verdict, and never a remark about an       *)
(* earlier call.  A new tier never starts with the feedback of the tier    *)
(* before it.  (What the cap on the prompt leaves of it is CoderPrompts'.) *)
FeedbackOf(v) ==
  IF v.ruling = "provisional" THEN "provisional" ELSE IF v.silent THEN "none" ELSE "critique"
FeedbackFollowsVerdict ==
  pc = "coding" =>
    /\ verdict.call = attempts /\ attempts > 0 /\ verdict.tier = tier
         /\ verdict.ruling # "accepted"
       => feedback = FeedbackOf(verdict)
    /\ feedback # "none" => retries[tier] > 0

(* A posted FailUp request moves the call out of at most one tier, also    *)
(* when it arrives through both channels or in the middle of a retry.      *)
OneBumpPerRequest == ~EnvFailUp => bumps <= posted

(* The call returns, whatever coder, judge, verifier and human answer and  *)
(* whenever FailUp requests arrive, unless its process crashes.            *)
CallReturns == (pc = "start") ~> (pc \in {"done", "crashed"})

-----------------------------------------------------------------------------
(***************************************************************************)
(* What a caller is promised, and the mapping that shows the loop keeps    *)
(* the promise.                                                            *)
(***************************************************************************)
Approval == IF pc = "verifying" THEN "judge" ELSE IF pc = "qa" THEN "verified" ELSE "none"

Contract == INSTANCE EscalationContract
              WITH level <- tier, approval <- Approval, outcome <- result.outcome

(* Every step of the loop is a step the contract allows, or none of it.    *)
ImplementsContract == Contract!Spec
=============================================================================
