------------------------ MODULE EscalationLoopProofs ------------------------
(***************************************************************************)
(* Theorems about EscalationLoop, for every ladder, budget and set of      *)
(* files.                                                                  *)
(***************************************************************************)
EXTENDS EscalationLoop, TLAPS

(* The next tier is still a position of the ladder or just past it.        *)
LEMMA NextPosition ==
  ASSUME tier \in Tiers PROVE tier + 1 \in 1..(NumTiers + 1) /\ tier \in 0..NumTiers
BY LadderAssumption DEF Tiers

(* A return ends the call with one of the known outcomes.                  *)
LEMMA ReturnType ==
  ASSUME TypeOK, NEW o \in Outcomes, NEW used \in 0..NumTiers, NEW context \in BOOLEAN,
         Return(o, used, context)
  PROVE  /\ pc' = "done"
         /\ result' \in [outcome : Outcomes, tier : 0..NumTiers, context : BOOLEAN,
                          best : 0..NumTiers]
<1>1. (IF context THEN best ELSE 0) \in 0..NumTiers
  BY LadderAssumption DEF TypeOK, ControlOK, FlagsOK, CountersOK, VerdictOK, FilesOK, SignalsOK, EndOK
<1> QED BY <1>1 DEF Return

(* Entering a tier keeps the types of what it resets.                      *)
LEMMA EnterTierType ==
  ASSUME TypeOK, EnterTier
  PROVE  /\ tier \in Tiers /\ pc = "tier" /\ aborted' \in BOOLEAN
         /\ feedback' \in Feedbacks /\ retries' \in [Tiers -> Nat]
BY DEF TypeOK, ControlOK, FlagsOK, CountersOK, VerdictOK, FilesOK, SignalsOK, EndOK, EnterTier, Feedbacks

(* Leaving a tier keeps the path a sequence of tiers.                      *)
LEMMA NextTierType ==
  ASSUME TypeOK, tier \in Tiers, NextTier
  PROVE  pc' = "tier" /\ tier' \in 1..(NumTiers + 1) /\ path' \in Seq(Tiers)
BY NextPosition DEF TypeOK, ControlOK, FlagsOK, CountersOK, VerdictOK, FilesOK, SignalsOK, EndOK, NextTier

(* Counting the streak of error categories keeps its types.                *)
LEMMA CategorizeType ==
  ASSUME TypeOK, Categorize
  PROVE  /\ tier \in Tiers /\ pc = "exhausted"
         /\ lastCategory' \in Categories \cup {"none"}
         /\ streak' \in Nat /\ truncated' \in BOOLEAN
BY DEF TypeOK, ControlOK, FlagsOK, CountersOK, VerdictOK, FilesOK, SignalsOK, EndOK, Categorize

(* The types hold when the call starts.                                    *)
LEMMA InitTypeOK == Init => TypeOK
<1> SUFFICES ASSUME Init PROVE TypeOK
  OBVIOUS
<1>1. 1 \in 1..(NumTiers + 1) /\ 0 \in 0..NumTiers
  BY LadderAssumption
<1>2. NoVerdict \in [ruling : Rulings \cup {"none"}, category : Categories,
                     silent : BOOLEAN, tier : 0..NumTiers, call : Nat]
  BY <1>1 DEF NoVerdict, Categories
<1>3. NoCheckpoint \in [state : {"none", "torn", "whole"}, path : Seq(Tiers), attempts : Nat,
                        retries : [Tiers -> Nat], files : SUBSET Files, best : 0..NumTiers]
  BY <1>1 DEF NoCheckpoint
<1>4. NoResult \in [outcome : Outcomes, tier : 0..NumTiers, context : BOOLEAN,
                    best : 0..NumTiers]
  BY <1>1 DEF NoResult, Outcomes
<1>5. QED
  <2>1. MaxRetries \in Nat /\ NoOutput \in [written : SUBSET Files, read : SUBSET Files]
    BY LadderAssumption DEF NoOutput
  <2>2. ControlOK /\ CountersOK
    BY <1>1, <2>1 DEF Init, ControlOK, CountersOK, PCs, Feedbacks
  <2>3. FlagsOK
    BY DEF Init, FlagsOK
  <2>4. VerdictOK /\ FilesOK
    BY <1>1, <1>2, <2>1 DEF Init, VerdictOK, FilesOK
  <2>5. SignalsOK
    BY DEF Init, SignalsOK
  <2>6. EndOK
    BY <1>3, <1>4 DEF Init, EndOK
  <2> QED BY <2>2, <2>3, <2>4, <2>5, <2>6 DEF TypeOK

(* Every step of the loop, of the signals and of a crash keeps the types.  *)
LEMMA StepTypeOK == TypeOK /\ [Next]_vars => TypeOK'
<1> USE DEF TypeOK, ControlOK, FlagsOK, CountersOK, VerdictOK, FilesOK, SignalsOK, EndOK,
            PCs, tierVars, countVars, streakVars, workVars, signalVars, diskVars
<1> SUFFICES ASSUME TypeOK, [Next]_vars PROVE TypeOK'
  OBVIOUS
<1>0. 0 \in 0..NumTiers
  BY LadderAssumption
<1>1. CASE FailNowShot
  <2>1. CASE Return("fail_now", 0, FALSE)
    <3> "fail_now" \in Outcomes
      BY DEF Outcomes
    <3> QED BY <1>1, <2>1, <1>0, ReturnType DEF FailNowShot
  <2>2. CASE pc' = "tier" /\ UNCHANGED result
    BY <1>1, <2>2 DEF FailNowShot
  <2> QED BY <1>1, <2>1, <2>2 DEF FailNowShot
<1>2. CASE NoFailNow
  BY <1>2 DEF NoFailNow
<1>3. CASE TierStep
  <2>1. CASE ReachPrincipal
    <3> "principal" \in Outcomes
      BY DEF Outcomes
    <3> QED BY <2>1, <1>0, ReturnType, EnterTierType DEF ReachPrincipal
  <2>2. CASE SkipOpenCircuit
    BY <2>2, EnterTierType, NextTierType DEF SkipOpenCircuit
  <2>3. CASE FailUpAtEntry
    <3>1. ControlOK'
      BY <2>3, EnterTierType, NextTierType DEF FailUpAtEntry
    <3>2. CountersOK'
      BY <2>3, EnterTierType, NextTierType DEF FailUpAtEntry
    <3>3. FlagsOK'
      BY <2>3, EnterTierType, NextTierType DEF FailUpAtEntry
    <3>4. (VerdictOK /\ FilesOK /\ SignalsOK /\ EndOK)'
      BY SMTT(30), <2>3, EnterTierType, NextTierType DEF FailUpAtEntry
    <3> HIDE DEF ControlOK, FlagsOK, CountersOK, VerdictOK, FilesOK, SignalsOK, EndOK
    <3> QED BY <3>1, <3>2, <3>3, <3>4
  <2>4. CASE BeginTier
    <3>1. FlagsOK'
      BY <2>4, EnterTierType DEF BeginTier
    <3>2. (ControlOK /\ CountersOK)'
      BY <2>4, EnterTierType DEF BeginTier
    <3>3. (VerdictOK /\ FilesOK /\ SignalsOK /\ EndOK)'
      BY <2>4 DEF BeginTier
    <3> HIDE DEF ControlOK, FlagsOK, CountersOK, VerdictOK, FilesOK, SignalsOK, EndOK
    <3> QED BY <3>1, <3>2, <3>3
  <2>5. CASE TiersSpent
    BY <2>5, <1>0 DEF TiersSpent, Return, Outcomes
  <2> QED BY <1>3, <2>1, <2>2, <2>3, <2>4, <2>5 DEF TierStep
<1>4. CASE RetryStep
  <2>1. CASE RetriesSpent
    BY <2>1 DEF RetriesSpent
  <2>2. CASE FailUpMidRetry
    BY SMTT(30), <2>2 DEF FailUpMidRetry
  <2>3. CASE CallCoder
    BY <2>3 DEF CallCoder
  <2> QED BY <1>4, <2>1, <2>2, <2>3 DEF RetryStep
<1>5. CASE CoderStep
  <2>1. CASE CoderNotInstalled
    BY <2>1 DEF CoderNotInstalled
  <2>2. CASE CoderProcessFails
    <3>1. feedback' \in Feedbacks /\ pc' \in {"retry", "exhausted"}
      BY <2>2 DEF CoderProcessFails, Feedbacks
    <3>2. attempts' \in Nat /\ retries' \in [Tiers -> Nat] /\ retry' \in Nat \ {0}
      BY <2>2 DEF CoderProcessFails, CountCall
    <3> QED BY <2>2, <3>1, <3>2 DEF CoderProcessFails, CountCall
  <2>3. CASE CoderHttpFails
    <3>1. ControlOK'
      BY <2>3 DEF CoderHttpFails, CountCall
    <3>2. CountersOK'
      BY <2>3 DEF CoderHttpFails, CountCall
    <3>3. FlagsOK'
      BY <2>3 DEF CoderHttpFails, CountCall
    <3>4. (VerdictOK /\ FilesOK /\ SignalsOK /\ EndOK)'
      BY <2>3 DEF CoderHttpFails, CountCall
    <3> HIDE DEF ControlOK, FlagsOK, CountersOK, VerdictOK, FilesOK, SignalsOK, EndOK
    <3> QED BY <3>1, <3>2, <3>3, <3>4
  <2>4. CASE CoderProduces
    BY SMTT(30), <2>4 DEF CoderProduces, CountCall, Outputs
  <2> QED BY <1>5, <2>1, <2>2, <2>3, <2>4 DEF CoderStep
<1>6. CASE GateStep
  <2>1. CASE AuditFails
    BY <2>1 DEF AuditFails
  <2>2. CASE AuditPasses
    BY <2>2 DEF AuditPasses
  <2>3. CASE JudgeRules
    <3>1. verdict' \in [ruling : Rulings \cup {"none"}, category : Categories,
                        silent : BOOLEAN, tier : 0..NumTiers, call : Nat]
      BY ZenonT(60), <2>3, NextPosition, LadderAssumption DEF JudgeRules, Verdicts, Categories
    <3> QED BY <2>3, <3>1 DEF JudgeRules
  <2>12. CASE OpenCheckpoint
    <3>1. TornCheckpoint \in [state : {"none", "torn", "whole"}, path : Seq(Tiers), attempts : Nat,
                              retries : [Tiers -> Nat], files : SUBSET Files, best : 0..NumTiers]
      <4>1. NoCheckpoint \in [state : {"none", "torn", "whole"}, path : Seq(Tiers), attempts : Nat,
                              retries : [Tiers -> Nat], files : SUBSET Files, best : 0..NumTiers]
        BY <1>0 DEF NoCheckpoint
      <4> QED BY <4>1 DEF TornCheckpoint
    <3>2. EndOK'
      BY <2>12, <3>1 DEF OpenCheckpoint
    <3>3. (ControlOK /\ FlagsOK)'
      BY <2>12 DEF OpenCheckpoint
    <3>4. (CountersOK /\ VerdictOK /\ FilesOK /\ SignalsOK)'
      BY <2>12 DEF OpenCheckpoint
    <3> HIDE DEF ControlOK, FlagsOK, CountersOK, VerdictOK, FilesOK, SignalsOK, EndOK
    <3> QED BY <3>2, <3>3, <3>4
  <2>13. CASE SaveCheckpoint
    <3>1. Append(path, tier) \in Seq(Tiers)
      BY <2>13 DEF SaveCheckpoint
    <3> QED BY <2>13, <3>1 DEF SaveCheckpoint
  <2>4. CASE Accept
    BY <2>4, NextPosition DEF Accept
  <2>5. CASE Provisional
    BY <2>5 DEF Provisional, Feedbacks
  <2>6. CASE Reject
    BY <2>6 DEF Reject, Feedbacks
  <2>7. CASE VerifyPasses
    BY <2>7 DEF VerifyPasses
  <2>8. CASE VerifyFailsRetry
    <3>1. ControlOK'
      BY <2>8 DEF VerifyFailsRetry
    <3>2. CountersOK'
      BY <2>8 DEF VerifyFailsRetry
    <3>3. FlagsOK'
      BY <2>8 DEF VerifyFailsRetry
    <3>4. (VerdictOK /\ FilesOK /\ SignalsOK /\ EndOK)'
      BY <2>8 DEF VerifyFailsRetry
    <3> HIDE DEF ControlOK, FlagsOK, CountersOK, VerdictOK, FilesOK, SignalsOK, EndOK
    <3> QED BY <3>1, <3>2, <3>3, <3>4
  <2>9. CASE VerifyFailsForGood
    BY <2>9, <1>0, NextPosition DEF VerifyFailsForGood, Return, Outcomes
  <2>10. CASE QARaises
    BY <2>10, <1>0, NextPosition DEF QARaises, Return, Outcomes
  <2>11. CASE Deliver
    BY <2>11, <1>0, NextPosition DEF Deliver, Return, Outcomes, NoCheckpoint
  <2> QED BY <1>6, <2>1, <2>2, <2>3, <2>4, <2>5, <2>6, <2>7, <2>8, <2>9, <2>10, <2>11, <2>12, <2>13 DEF GateStep
<1>7. CASE FailureStep
  <2>1. CASE SkipToPrincipal
    <3> "consecutive" \in Outcomes
      BY DEF Outcomes
    <3>1. FlagsOK'
      BY <2>1, CategorizeType DEF SkipToPrincipal
    <3>2. (ControlOK /\ EndOK)'
      BY <2>1, <1>0, CategorizeType, ReturnType DEF SkipToPrincipal
    <3>3. CountersOK'
      BY <2>1, CategorizeType DEF SkipToPrincipal
    <3>4. (VerdictOK /\ FilesOK /\ SignalsOK)'
      BY <2>1 DEF SkipToPrincipal
    <3> HIDE DEF ControlOK, FlagsOK, CountersOK, VerdictOK, FilesOK, SignalsOK, EndOK
    <3> QED BY <3>1, <3>2, <3>3, <3>4
  <2>2. CASE Escalate
    <3>1. ControlOK'
      BY <2>2, CategorizeType, NextTierType DEF Escalate
    <3>2. CountersOK'
      BY <2>2, CategorizeType, NextTierType DEF Escalate
    <3>3. FlagsOK'
      BY <2>2, CategorizeType, NextTierType DEF Escalate
    <3>4. (VerdictOK /\ FilesOK /\ SignalsOK /\ EndOK)'
      BY <2>2, CategorizeType, NextTierType DEF Escalate
    <3> HIDE DEF ControlOK, FlagsOK, CountersOK, VerdictOK, FilesOK, SignalsOK, EndOK
    <3> QED BY <3>1, <3>2, <3>3, <3>4
  <2>3. CASE AskHuman
    <3>1. ControlOK'
      BY <2>3, CategorizeType DEF AskHuman
    <3>2. CountersOK'
      BY <2>3, CategorizeType DEF AskHuman
    <3>3. FlagsOK'
      BY <2>3, CategorizeType DEF AskHuman
    <3>4. (VerdictOK /\ FilesOK /\ SignalsOK /\ EndOK)'
      BY <2>3, CategorizeType DEF AskHuman
    <3> HIDE DEF ControlOK, FlagsOK, CountersOK, VerdictOK, FilesOK, SignalsOK, EndOK
    <3> QED BY <3>1, <3>2, <3>3, <3>4
  <2>4. CASE HumanConfirms
    BY <2>4, NextPosition DEF HumanConfirms
  <2>5. CASE HumanRefuses
    BY <2>5, <1>0 DEF HumanRefuses, Return, Outcomes
  <2> QED BY <1>7, <2>1, <2>2, <2>3, <2>4, <2>5 DEF FailureStep
<1>8. CASE PostFailUp
  BY <1>8 DEF PostFailUp
<1>9. CASE Crash
  BY <1>9 DEF Crash
<1>10. CASE Resubmit
  <2>1. NoVerdict \in [ruling : Rulings \cup {"none"}, category : Categories,
                       silent : BOOLEAN, tier : 0..NumTiers, call : Nat]
    BY <1>0 DEF NoVerdict, Categories
  <2>2. 1 \in 1..(NumTiers + 1) /\ MaxRetries \in Nat
    BY LadderAssumption
  <2>3. NoOutput \in [written : SUBSET Files, read : SUBSET Files]
    BY DEF NoOutput
  <2>4. FlagsOK'
    BY <1>10 DEF Resubmit
  <2>5. (ControlOK /\ CountersOK)'
    BY <1>10, <2>2 DEF Resubmit, Feedbacks
  <2>6. (VerdictOK /\ FilesOK)'
    BY <1>10, <1>0, <2>1, <2>3 DEF Resubmit
  <2>7. (SignalsOK /\ EndOK)'
    BY <1>10 DEF Resubmit
  <2> HIDE DEF ControlOK, FlagsOK, CountersOK, VerdictOK, FilesOK, SignalsOK, EndOK
  <2> QED BY <2>4, <2>5, <2>6, <2>7
<1>11. CASE UNCHANGED vars
  BY <1>11 DEF vars
<1> QED BY <1>1, <1>2, <1>3, <1>4, <1>5, <1>6, <1>7, <1>8, <1>9, <1>10, <1>11
        DEF Next, CallStep, Returned

(* Every variable keeps its type, for every ladder.                        *)
THEOREM TypeCorrect == Spec => []TypeOK
BY InitTypeOK, StepTypeOK, PTL DEF Spec

-----------------------------------------------------------------------------
(***************************************************************************)
(* NoStaleApproval is inductive once the sentinel outcome "none" is known  *)
(* to mean that the call still runs.                                       *)
(***************************************************************************)
OutcomeWhenDone == (result.outcome = "none") <=> (pc # "done")
ApprovalInv == OutcomeWhenDone /\ NoStaleApproval

(* No step makes an approval stale: a coder call leaves the gates first.   *)
LEMMA ApprovalStep == TypeOK /\ ApprovalInv /\ [Next]_vars => ApprovalInv'
<1> SUFFICES ASSUME TypeOK, ApprovalInv, [Next]_vars PROVE ApprovalInv'
  OBVIOUS
<1> USE DEF ApprovalInv, OutcomeWhenDone, NoStaleApproval, tierVars, countVars, streakVars, workVars, signalVars
<1>0. EndOK
  BY DEF TypeOK
<1>1. CASE FailNowShot
  BY <1>0, <1>1 DEF FailNowShot, Return
<1>2. CASE NoFailNow
  BY <1>2 DEF NoFailNow
<1>3. CASE TierStep
  BY <1>3 DEF TierStep, ReachPrincipal, SkipOpenCircuit, FailUpAtEntry, BeginTier, TiersSpent, EnterTier, NextTier, Return
<1>4. CASE RetryStep
  BY <1>4 DEF RetryStep, RetriesSpent, FailUpMidRetry, CallCoder
<1>5. CASE CoderStep
  BY <1>5 DEF CoderStep, CoderNotInstalled, CoderProcessFails, CoderHttpFails, CoderProduces, CountCall
<1>6. CASE GateStep
  <2>3. CASE JudgeRules
    <3>1. verdict'.tier = tier /\ verdict'.call = attempts
      BY <2>3 DEF JudgeRules, Verdicts
    <3> QED BY <2>3, <3>1 DEF JudgeRules
  <2>4. CASE \/ AuditFails \/ AuditPasses \/ OpenCheckpoint \/ SaveCheckpoint
             \/ Provisional \/ Reject \/ VerifyFailsRetry
    BY <2>4 DEF OpenCheckpoint, SaveCheckpoint, AuditFails, AuditPasses, Provisional, Reject, VerifyFailsRetry
  <2>5. CASE Accept
    BY <2>5 DEF Accept
  <2>6. CASE VerifyPasses
    BY <2>6 DEF VerifyPasses
  <2>7. CASE VerifyFailsForGood \/ QARaises \/ Deliver
    BY <2>7 DEF VerifyFailsForGood, QARaises, Deliver, Return
  <2> QED BY <1>6, <2>3, <2>4, <2>5, <2>6, <2>7 DEF GateStep
<1>7. CASE FailureStep
  BY <1>7 DEF FailureStep, SkipToPrincipal, Escalate, AskHuman, HumanConfirms, HumanRefuses, Categorize, NextTier, Return
<1>8. CASE PostFailUp \/ Crash \/ Resubmit \/ UNCHANGED vars
  BY <1>8 DEF PostFailUp, Crash, Resubmit, vars
<1> QED BY <1>1, <1>2, <1>3, <1>4, <1>5, <1>6, <1>7, <1>8 DEF Next, CallStep, Returned

(* Only output approved by its own verdict is verified or delivered.       *)
THEOREM ApprovalIsNeverStale == Spec => []NoStaleApproval
<1>1. Init => ApprovalInv
  BY DEF Init, ApprovalInv, OutcomeWhenDone, NoStaleApproval, NoResult
<1>2. ApprovalInv => NoStaleApproval
  BY DEF ApprovalInv
<1> QED BY <1>1, <1>2, ApprovalStep, TypeCorrect, PTL DEF Spec

-----------------------------------------------------------------------------
(***************************************************************************)
(* The verdict belongs to a coder call already made, to the last one only  *)
(* from the ruling on, and to a tier not later than this one; a tier that  *)
(* was given feedback has spent a retry.                                   *)
(***************************************************************************)
VerdictIsPast ==
  /\ verdict.call <= attempts /\ verdict.tier <= tier
  /\ pc \in {"auditing", "judging"} => verdict.call < attempts
  /\ pc \in {"start", "tier"} => verdict.tier < tier
RetryIsSpent ==
  /\ pc \in {"auditing", "judging", "judged", "saving", "ruled", "verifying", "qa"} =>
       retries[tier] > 0
  /\ pc \in {"retry", "coding"} /\ feedback # "none" => retries[tier] > 0
FeedbackGiven ==
  pc \in {"retry", "coding"} /\ verdict.call = attempts /\ attempts > 0
    /\ verdict.tier = tier /\ verdict.ruling # "accepted"
  => feedback = FeedbackOf(verdict)
FeedbackInv == VerdictIsPast /\ RetryIsSpent /\ FeedbackGiven

(* Each way back to the coder leaves the feedback the verdict calls for.   *)
LEMMA FeedbackStep == TypeOK /\ NoStaleApproval /\ FeedbackInv /\ [Next]_vars => FeedbackInv'
<1> SUFFICES ASSUME TypeOK, NoStaleApproval, FeedbackInv, [Next]_vars PROVE FeedbackInv'
  OBVIOUS
<1> USE DEF FeedbackInv, VerdictIsPast, RetryIsSpent, FeedbackGiven,
            tierVars, countVars, streakVars, workVars, signalVars
<1>0. /\ attempts \in Nat /\ retries \in [Tiers -> Nat] /\ tier \in Nat /\ tier >= 1
      /\ verdict.call \in Nat /\ verdict.tier \in Nat
      /\ pc \notin {"start", "tier", "done", "crashed"} => tier \in Tiers
  BY LadderAssumption DEF TypeOK, ControlOK, CountersOK, VerdictOK
<1>a. pc \in {"judged", "saving", "ruled", "verifying", "qa"} =>
        /\ verdict.tier = tier /\ verdict.call = attempts
        /\ pc \in {"verifying", "qa"} => verdict.ruling = "accepted"
  BY DEF NoStaleApproval
<1>1. CASE FailNowShot \/ NoFailNow
  BY <1>0, <1>1 DEF FailNowShot, NoFailNow, Return
<1>2. CASE TierStep
  <2>1. CASE ReachPrincipal \/ TiersSpent
    BY <1>0, <2>1 DEF ReachPrincipal, TiersSpent, EnterTier, Return
  <2>2. CASE SkipOpenCircuit \/ FailUpAtEntry
    <3>1. UNCHANGED <<verdict, attempts>> /\ tier' = tier + 1 /\ pc' = "tier"
      BY <2>2 DEF SkipOpenCircuit, FailUpAtEntry, NextTier
    <3> QED BY <1>0, <3>1
  <2>3. CASE BeginTier
    BY <1>0, <2>3 DEF BeginTier, EnterTier
  <2> QED BY <1>2, <2>1, <2>2, <2>3 DEF TierStep
<1>3. CASE RetryStep
  BY <1>0, <1>3 DEF RetryStep, RetriesSpent, FailUpMidRetry, CallCoder
<1>4. CASE CoderStep
  <2>1. CASE CoderNotInstalled
    BY <1>0, <2>1 DEF CoderNotInstalled
  <2>2. CASE CountCall /\ UNCHANGED <<tier, verdict>> /\ pc' \in {"retry", "auditing", "exhausted"}
    <3>1. retries'[tier] = retries[tier] + 1 /\ retries[tier] \in Nat
      BY <1>0, <2>2 DEF CountCall
    <3>2. attempts' = attempts + 1 /\ verdict.call < attempts'
      BY <1>0, <2>2 DEF CountCall
    <3>3. VerdictIsPast'
      BY <1>0, <2>2, <3>2 DEF CountCall
    <3>4. RetryIsSpent'
      BY <1>0, <2>2, <3>1
    <3>5. FeedbackGiven'
      BY <1>0, <2>2, <3>2
    <3> QED BY <3>3, <3>4, <3>5
  <2> QED BY <1>4, <2>1, <2>2 DEF CoderStep, CoderProcessFails, CoderHttpFails, CoderProduces
<1>5. CASE GateStep
  <2>1. CASE AuditFails \/ AuditPasses
    BY <1>0, <2>1 DEF AuditFails, AuditPasses
  <2>2. CASE JudgeRules
    <3>1. verdict'.tier = tier /\ verdict'.call = attempts
      BY <2>2 DEF JudgeRules, Verdicts
    <3> QED BY <1>0, <2>2, <3>1 DEF JudgeRules
  <2>3. CASE OpenCheckpoint \/ SaveCheckpoint \/ Accept \/ VerifyPasses
    BY <1>0, <1>a, <2>3 DEF OpenCheckpoint, SaveCheckpoint, Accept, VerifyPasses
  <2>4. CASE Provisional \/ Reject
    <3>1. feedback' = FeedbackOf(verdict)
      BY <2>4 DEF Provisional, Reject, FeedbackOf
    <3>2. FeedbackOf(verdict') = FeedbackOf(verdict)
      BY <2>4 DEF Provisional, Reject
    <3> QED BY <1>0, <1>a, <2>4, <3>1, <3>2 DEF Provisional, Reject
  <2>5. CASE VerifyFailsRetry
    <3>1. retries'[tier] = retries[tier] + 1 /\ retries[tier] \in Nat
      BY <1>0, <2>5 DEF VerifyFailsRetry
    <3> QED BY <1>0, <1>a, <2>5, <3>1 DEF VerifyFailsRetry
  <2>6. CASE VerifyFailsForGood \/ QARaises \/ Deliver
    BY <1>0, <2>6 DEF VerifyFailsForGood, QARaises, Deliver, Return
  <2> QED BY <1>5, <2>1, <2>2, <2>3, <2>4, <2>5, <2>6 DEF GateStep
<1>6. CASE FailureStep
  <2>1. CASE SkipToPrincipal \/ AskHuman \/ HumanRefuses
    BY <1>0, <2>1 DEF SkipToPrincipal, AskHuman, HumanRefuses, Categorize, Return
  <2>2. CASE Escalate \/ HumanConfirms
    <3>1. UNCHANGED <<verdict, attempts>> /\ tier' = tier + 1 /\ pc' = "tier"
      BY <2>2 DEF Escalate, HumanConfirms, Categorize, NextTier
    <3> QED BY <1>0, <3>1
  <2> QED BY <1>6, <2>1, <2>2 DEF FailureStep
<1>7. CASE PostFailUp \/ Crash \/ UNCHANGED vars
  BY <1>0, <1>7 DEF PostFailUp, Crash, vars
<1>8. CASE Resubmit
  BY <1>0, <1>8 DEF Resubmit, NoVerdict
<1> QED BY <1>1, <1>2, <1>3, <1>4, <1>5, <1>6, <1>7, <1>8 DEF Next, CallStep, Returned

(* The feedback after a verdict other than acceptance is that verdict's,   *)
(* and no tier starts with the feedback of the tier before.                *)
THEOREM FeedbackIsGiven == Spec => []FeedbackFollowsVerdict
<1>1. Init => FeedbackInv
  BY DEF Init, FeedbackInv, VerdictIsPast, RetryIsSpent, FeedbackGiven, NoVerdict
<1>2. FeedbackInv => FeedbackFollowsVerdict
  BY DEF FeedbackInv, RetryIsSpent, FeedbackGiven, FeedbackFollowsVerdict
<1> QED BY <1>1, <1>2, FeedbackStep, ApprovalIsNeverStale, TypeCorrect, PTL DEF Spec

-----------------------------------------------------------------------------
(***************************************************************************)
(* A FailUp request that still stands has been posted and not yet moved    *)
(* the call: it is counted among the posted ones but not among the bumps.  *)
(***************************************************************************)
BumpInv == ~EnvFailUp => bumps + (IF signals = {} THEN 0 ELSE 1) <= posted

(* A step that leaves a tier for FailUp consumes a posted request.         *)
LEMMA BumpStep == TypeOK /\ BumpInv /\ [Next]_vars => BumpInv'
<1> SUFFICES ASSUME TypeOK, BumpInv, [Next]_vars PROVE BumpInv'
  OBVIOUS
<1> USE DEF BumpInv
<1>0. bumps \in Nat /\ posted \in Nat
  BY DEF TypeOK, SignalsOK
<1>1. CASE FailUpAtEntry \/ FailUpMidRetry
  BY <1>0, <1>1 DEF FailUpAtEntry, FailUpMidRetry, FailUpActive
<1>2. CASE PostFailUp
  BY <1>0, <1>2 DEF PostFailUp
<1>3. CASE Crash
  BY <1>0, <1>3 DEF Crash
<1>4. CASE ~(FailUpAtEntry \/ FailUpMidRetry \/ PostFailUp \/ Crash)
  <2>1. UNCHANGED <<signals, posted, bumps>>
    <3> USE DEF signalVars
    <3>1. CASE FailNowShot \/ NoFailNow \/ Resubmit \/ UNCHANGED vars
      BY <3>1 DEF FailNowShot, NoFailNow, Resubmit, vars
    <3>2. CASE TierStep
      BY <1>4, <3>2 DEF TierStep, ReachPrincipal, SkipOpenCircuit, BeginTier, TiersSpent
    <3>3. CASE RetryStep
      BY <1>4, <3>3 DEF RetryStep, RetriesSpent, CallCoder
    <3>4. CASE CoderStep
      BY <3>4 DEF CoderStep, CoderNotInstalled, CoderProcessFails, CoderHttpFails, CoderProduces
    <3>5. CASE GateStep
      BY <3>5 DEF GateStep, AuditFails, AuditPasses, JudgeRules, OpenCheckpoint, SaveCheckpoint, Accept, Provisional, Reject, VerifyPasses, VerifyFailsRetry, VerifyFailsForGood, QARaises, Deliver
    <3>6. CASE FailureStep
      BY <3>6 DEF FailureStep, SkipToPrincipal, Escalate, AskHuman, HumanConfirms, HumanRefuses
    <3> QED BY <1>4, <3>1, <3>2, <3>3, <3>4, <3>5, <3>6 DEF Next, CallStep, Returned
  <2> QED BY <2>1
<1> QED BY <1>1, <1>2, <1>3, <1>4

(* A FailUp request moves the call out of at most one tier.                *)
THEOREM OneBump == Spec => []OneBumpPerRequest
<1>1. Init => BumpInv
  BY DEF Init, BumpInv
<1>2. TypeOK /\ BumpInv => OneBumpPerRequest
  BY DEF BumpInv, OneBumpPerRequest, TypeOK, SignalsOK
<1> QED BY <1>1, <1>2, BumpStep, TypeCorrect, PTL DEF Spec

-----------------------------------------------------------------------------
(***************************************************************************)
(* The length of the escalation path is the current tier once that tier    *)
(* has been recorded, and one less before.                                 *)
(***************************************************************************)
Left == IF pc = "waiting" \/ result.outcome \in {"consecutive", "aborted"} THEN tier ELSE tier - 1
PathInv ==
  /\ OutcomeWhenDone
  /\ \A i \in 1..Len(path) : path[i] = i
  /\ Len(path) = Left \/ (pc = "crashed" /\ Len(path) = tier)

(* One more tier at the end of a gapless path leaves it gapless.           *)
LEMMA PathGrows ==
  ASSUME path \in Seq(Tiers), tier \in Tiers, tier \in Int, Len(path) = tier - 1,
         \A i \in 1..Len(path) : path[i] = i, path' = Append(path, tier)
  PROVE  Len(path') = tier /\ \A i \in 1..Len(path') : path'[i] = i
<1>1. Len(path') = tier /\ Len(path) \in Nat
  OBVIOUS
<1>2. ASSUME NEW i \in 1..Len(path') PROVE path'[i] = i
  <2>1. CASE i = Len(path) + 1
    BY <2>1, <1>1
  <2>2. CASE i # Len(path) + 1
    <3>1. i \in 1..Len(path)
      BY <1>1, <2>2
    <3> QED BY <3>1
  <2> QED BY <2>1, <2>2
<1> QED BY <1>1, <1>2

(* Whichever way a tier is left, the path gains that tier and no other.    *)
LEMMA PathStep == TypeOK /\ PathInv /\ [Next]_vars => PathInv'
<1> SUFFICES ASSUME TypeOK, PathInv, [Next]_vars PROVE PathInv'
  OBVIOUS
<1> USE DEF PathInv, OutcomeWhenDone, Left, tierVars, countVars
<1>0. /\ tier \in Int /\ path \in Seq(Tiers) /\ EndOK
      /\ pc \notin {"start", "tier", "done", "crashed"} => tier \in Tiers
  BY DEF TypeOK, ControlOK, CountersOK
<1>1. CASE NextTier /\ UNCHANGED result /\ pc \in {"tier", "exhausted"} /\ tier \in Tiers
  <2>1. Len(path) = tier - 1
    BY <1>1
  <2>2. Len(path') = tier /\ \A i \in 1..Len(path') : path'[i] = i
    BY <1>0, <1>1, <2>1, PathGrows DEF NextTier
  <2> QED BY <1>0, <1>1, <2>2 DEF NextTier
<1>2. CASE SkipToPrincipal \/ AskHuman
  <2>1. Len(path) = tier - 1 /\ tier \in Tiers /\ path' = Append(path, tier)
    BY <1>0, <1>2 DEF SkipToPrincipal, AskHuman, Categorize
  <2>2. Len(path') = tier /\ \A i \in 1..Len(path') : path'[i] = i
    BY <1>0, <2>1, PathGrows
  <2> QED BY <1>0, <1>2, <2>2 DEF SkipToPrincipal, AskHuman, Categorize, Return
<1>3. CASE FailNowShot \/ NoFailNow
  BY <1>0, <1>3 DEF FailNowShot, NoFailNow, Return
<1>4. CASE TierStep
  <2>1. CASE SkipOpenCircuit \/ FailUpAtEntry
    BY <1>1, <2>1 DEF SkipOpenCircuit, FailUpAtEntry, EnterTier
  <2>2. CASE ReachPrincipal \/ BeginTier \/ TiersSpent
    BY <1>0, <2>2 DEF ReachPrincipal, BeginTier, TiersSpent, EnterTier, Return
  <2> QED BY <1>4, <2>1, <2>2 DEF TierStep
<1>5. CASE RetryStep
  BY <1>0, <1>5 DEF RetryStep, RetriesSpent, FailUpMidRetry, CallCoder
<1>6. CASE CoderStep
  BY <1>0, <1>6 DEF CoderStep, CoderNotInstalled, CoderProcessFails, CoderHttpFails, CoderProduces, CountCall
<1>7. CASE GateStep
  BY <1>0, <1>7 DEF GateStep, AuditFails, AuditPasses, JudgeRules, OpenCheckpoint, SaveCheckpoint, Accept, Provisional, Reject,
                    VerifyPasses, VerifyFailsRetry, VerifyFailsForGood, QARaises, Deliver, Return
<1>8. CASE Escalate
  BY <1>0, <1>1, <1>8 DEF Escalate, Categorize
<1>9. CASE HumanConfirms \/ HumanRefuses
  BY <1>0, <1>9 DEF HumanConfirms, HumanRefuses, Return
<1>10. CASE Resubmit
  BY <1>10 DEF Resubmit
<1>11. CASE PostFailUp \/ Crash \/ UNCHANGED vars
  BY <1>0, <1>11 DEF PostFailUp, Crash, vars
<1> QED BY <1>2, <1>3, <1>4, <1>5, <1>6, <1>7, <1>8, <1>9, <1>10, <1>11
        DEF Next, CallStep, FailureStep, Returned

(* The escalation path lists the tiers left, in order and without gaps.    *)
THEOREM PathComplete == Spec => []PathIsTiersLeft
<1>1. Init => PathInv
  BY DEF Init, PathInv, OutcomeWhenDone, Left, NoResult
<1>2. PathInv => PathIsTiersLeft
  BY DEF PathInv, Left, PathIsTiersLeft
<1> QED BY <1>1, <1>2, PathStep, TypeCorrect, PTL DEF Spec

-----------------------------------------------------------------------------
(***************************************************************************)
(* Outside the two steps between a verdict and its checkpoint nothing is   *)
(* unsaved, unless a crash has taken the call there; the path written is   *)
(* gapless because escalation_path is.                                     *)
(***************************************************************************)
CheckpointInv ==
  /\ OutcomeWhenDone
  /\ CheckpointFollowsVerdict
  /\ unsaved \in Nat /\ crashes \in Nat
  /\ InSaving => unsaved > 0

\* What neither gives a verdict nor touches the file nor delivers.
Aside ==
  /\ UNCHANGED <<verdict, checkpoint, unsaved>>
  /\ pc \notin {"judged", "saving", "crashed"} /\ pc' \notin {"judged", "saving", "crashed"}
  /\ crashes' = crashes
  /\ \/ UNCHANGED result /\ (pc = "done" <=> pc' = "done")
     \/ pc # "done" /\ pc' = "done" /\ result'.outcome \notin {"none", "success"}

(* All the other steps leave verdict and file alone.                       *)
LEMMA MostStepsAside ==
  ASSUME TypeOK, OutcomeWhenDone, [Next]_vars,
         ~(JudgeRules \/ OpenCheckpoint \/ SaveCheckpoint \/ Deliver \/ PostFailUp \/ Crash
           \/ Resubmit \/ UNCHANGED vars)
  PROVE  Aside
<1> USE DEF Aside, diskVars, OutcomeWhenDone
<1>0. EndOK
  BY DEF TypeOK
<1>1. CASE FailNowShot \/ NoFailNow
  BY <1>0, <1>1 DEF FailNowShot, NoFailNow, Return
<1>2. CASE TierStep
  BY <1>0, <1>2 DEF TierStep, ReachPrincipal, SkipOpenCircuit, FailUpAtEntry, BeginTier, TiersSpent,
              EnterTier, NextTier, Return
<1>3. CASE RetryStep
  BY <1>3 DEF RetryStep, RetriesSpent, FailUpMidRetry, CallCoder
<1>4. CASE CoderStep
  BY <1>4 DEF CoderStep, CoderNotInstalled, CoderProcessFails, CoderHttpFails, CoderProduces, CountCall
<1>5. CASE GateStep
  <2>1. CASE VerifyFailsForGood \/ QARaises
    BY <1>0, <2>1 DEF VerifyFailsForGood, QARaises, Return
  <2> QED BY <1>5, <2>1 DEF GateStep, AuditFails, AuditPasses, Accept, Provisional, Reject,
                            VerifyPasses, VerifyFailsRetry
<1>6. CASE FailureStep
  BY <1>0, <1>6 DEF FailureStep, SkipToPrincipal, Escalate, AskHuman, HumanConfirms, HumanRefuses,
              Categorize, NextTier, Return
<1> QED BY <1>1, <1>2, <1>3, <1>4, <1>5, <1>6 DEF Next, CallStep, Returned

(* Judging, writing and a crash between them keep the account.             *)
LEMMA CheckpointStep ==
  TypeOK /\ PathInv /\ NoStaleApproval /\ CheckpointInv /\ [Next]_vars => CheckpointInv'
<1> SUFFICES ASSUME TypeOK, PathInv, NoStaleApproval, CheckpointInv, [Next]_vars
             PROVE  CheckpointInv'
  OBVIOUS
<1> USE DEF CheckpointInv, OutcomeWhenDone, CheckpointFollowsVerdict, InSaving
<1>0. EndOK /\ SignalsOK /\ tier \in Int /\ path \in Seq(Tiers) /\ unsaved \in Nat /\ crashes \in Nat
      /\ (pc \notin {"start", "tier", "done", "crashed"} => tier \in Tiers)
  BY DEF TypeOK, ControlOK, CountersOK
<1>1. CASE JudgeRules
  BY <1>0, <1>1 DEF JudgeRules, EndOK
<1>2. CASE OpenCheckpoint
  <2>1. checkpoint'.state = "torn"
    BY <1>2 DEF OpenCheckpoint, TornCheckpoint, NoCheckpoint
  <2> QED BY <1>0, <1>2, <2>1 DEF OpenCheckpoint
<1>3. CASE SaveCheckpoint
  <2> DEFINE grown == Append(path, tier)
  <2>1. Len(path) = tier - 1 /\ tier \in Tiers /\ \A i \in 1..Len(path) : path[i] = i
    BY <1>0, <1>3 DEF SaveCheckpoint, PathInv, Left
  <2>2. Len(grown) = tier /\ \A i \in 1..Len(grown) : grown[i] = i
    BY <1>0, <2>1, PathGrows
  <2>3. verdict.tier = tier /\ verdict.call = attempts
    BY <1>3 DEF SaveCheckpoint, NoStaleApproval
  <2>4. /\ checkpoint'.state = "whole" /\ checkpoint'.attempts = attempts /\ checkpoint'.path = grown
        /\ result' = result /\ verdict' = verdict /\ unsaved' = 0 /\ crashes' = crashes
        /\ pc = "saving" /\ pc' = "ruled"
    BY <1>3 DEF SaveCheckpoint
  <2> QED BY <1>0, <2>2, <2>3, <2>4
<1>4. CASE Deliver
  BY <1>4, <1>0 DEF Deliver, Return, NoCheckpoint
<1>5. CASE Resubmit
  BY <1>0, <1>5 DEF Resubmit, diskVars
<1>6. CASE Crash
  BY <1>0, <1>6 DEF Crash, diskVars
<1>7. CASE PostFailUp \/ UNCHANGED vars
  BY <1>0, <1>7 DEF PostFailUp, vars, diskVars
<1>8. CASE Aside
  BY <1>0, <1>8 DEF Aside
<1> QED BY <1>1, <1>2, <1>3, <1>4, <1>5, <1>6, <1>7, <1>8, MostStepsAside

(* No crash costs more than one verdict its checkpoint, and a verdict      *)
(* acted upon has one.                                                     *)
THEOREM CheckpointCurrent == Spec => []CheckpointFollowsVerdict
<1>1. Init => PathInv
  BY DEF Init, PathInv, OutcomeWhenDone, Left, NoResult
<1>2. Init => CheckpointInv
  BY DEF Init, CheckpointInv, OutcomeWhenDone, CheckpointFollowsVerdict, InSaving, NoResult, NoCheckpoint
<1>3. CheckpointInv => CheckpointFollowsVerdict
  BY DEF CheckpointInv
<1> QED BY <1>1, <1>2, <1>3, PathStep, CheckpointStep, ApprovalIsNeverStale, TypeCorrect, PTL DEF Spec

-----------------------------------------------------------------------------
(***************************************************************************)
(* The budget of a tier is what maxRetries was when the tier was entered;  *)
(* it is recovered from maxRetries and the bonus, which is granted once.   *)
(* Both retry and maxRetries bound the calls made in the tier so far, and  *)
(* each bonus costs retry as much as it adds to maxRetries.                *)
(***************************************************************************)
Bonus == IF bonus THEN 1 ELSE 0
InTier == pc \in {"retry", "coding", "auditing", "judging", "judged", "saving", "ruled",
                  "verifying", "qa", "exhausted", "waiting"}
BudgetInv ==
  /\ CallBudget
  /\ pc = "start" => tier = 1 /\ attempts = 0
  /\ pc \in {"start", "tier"} =>
       /\ 2 * attempts <= TwiceCalls(tier - 1)
       /\ maxRetries <= MaxRetries + (tier - 1)
  /\ InTier =>
       /\ 2 * attempts <= TwiceCalls(tier - 1) + 2 * (retry - 1 - Bonus)
       /\ 2 * attempts <= TwiceCalls(tier - 1) + 2 * (maxRetries - Bonus)
       /\ maxRetries <= MaxRetries + (tier - 1) + Bonus
       /\ pc = "coding" => retry <= maxRetries

(* What tier t adds to the bound on the calls of tiers 1..t - 1.           *)
LEMMA CallsOfTier ==
  ASSUME NEW t \in Nat
  PROVE  /\ TwiceCalls(t) \in Int
         /\ TwiceCalls(t) = TwiceCalls(t - 1) + 2 * (MaxRetries + (t - 1))
<1>1. MaxRetries \in Nat
  BY LadderAssumption
<1>2. (t - 1) * MaxRetries = t * MaxRetries - MaxRetries
  BY <1>1
<1>3. (t - 1) * (t - 2) = t * (t - 1) - 2 * (t - 1)
  OBVIOUS
<1>4. t * MaxRetries \in Int /\ t * (t - 1) \in Int
  BY <1>1
<1> QED BY <1>1, <1>2, <1>3, <1>4 DEF TwiceCalls

(* No step makes more coder calls than the bonus retries so far allow.     *)
LEMMA BudgetStep == TypeOK /\ BudgetInv /\ [Next]_vars => BudgetInv'
<1> SUFFICES ASSUME TypeOK, BudgetInv, [Next]_vars PROVE BudgetInv'
  OBVIOUS
<1> USE DEF BudgetInv, CallBudget, InTier, Bonus, tierVars, countVars
<1>0. /\ tier \in Nat /\ tier >= 1 /\ attempts \in Nat /\ retry \in Nat /\ retry >= 1
      /\ maxRetries \in Nat /\ MaxRetries \in Nat /\ FlagsOK
  BY LadderAssumption DEF TypeOK, ControlOK, CountersOK
<1>a. /\ TwiceCalls(tier) \in Int /\ TwiceCalls(tier - 1) \in Int /\ TwiceCalls(tier + 1) \in Int
      /\ TwiceCalls(tier) = TwiceCalls(tier - 1) + 2 * (MaxRetries + (tier - 1))
      /\ TwiceCalls(tier + 1) = TwiceCalls(tier) + 2 * (MaxRetries + tier)
  BY <1>0, CallsOfTier
<1>1. CASE SkipOpenCircuit \/ FailUpAtEntry
  <2>1. tier' = tier + 1 /\ attempts' = attempts /\ maxRetries' = maxRetries /\ pc' = "tier" /\ pc = "tier"
    BY <1>1 DEF SkipOpenCircuit, FailUpAtEntry, EnterTier, NextTier
  <2>2. tier' - 1 = tier
    BY <1>0, <2>1
  <2> QED BY <1>0, <1>a, <2>1, <2>2
<1>2. CASE Escalate \/ HumanConfirms
  <2>1. tier' = tier + 1 /\ attempts' = attempts /\ maxRetries' = maxRetries /\ pc' = "tier" /\ InTier
    BY <1>2 DEF Escalate, HumanConfirms, Categorize, NextTier
  <2>2. tier' - 1 = tier
    BY <1>0, <2>1
  <2>3. 2 * attempts <= TwiceCalls(tier) /\ maxRetries <= MaxRetries + tier
    BY <1>0, <1>a, <2>1
  <2> QED BY <1>0, <1>a, <2>1, <2>2, <2>3
<1>3. CASE Resubmit
  <2>1. pc' = "start" /\ tier' = 1 /\ attempts' = 0 /\ maxRetries' = MaxRetries
    BY <1>3 DEF Resubmit
  <2>2. TwiceCalls(0) = 0 /\ TwiceCalls(1) = 2 * MaxRetries
    BY <1>0 DEF TwiceCalls
  <2> QED BY <1>0, <2>1, <2>2
<1>4. CASE FailNowShot \/ NoFailNow \/ ReachPrincipal \/ TiersSpent
  BY <1>0, <1>a, <1>4 DEF FailNowShot, NoFailNow, ReachPrincipal, TiersSpent, EnterTier, Return
<1>5. CASE BeginTier
  BY <1>0, <1>a, <1>5 DEF BeginTier, EnterTier
<1>6. CASE RetryStep
  BY <1>0, <1>a, <1>6 DEF RetryStep, RetriesSpent, FailUpMidRetry, CallCoder
<1>7. CASE CoderStep
  <2>1. CASE CoderNotInstalled
    BY <1>0, <1>a, <2>1 DEF CoderNotInstalled
  <2>2. CASE CountCall /\ UNCHANGED <<tier, maxRetries, bonus>> /\ pc' \in {"retry", "auditing", "exhausted"}
    BY <1>0, <1>a, <2>2 DEF CountCall
  <2> QED BY <1>7, <2>1, <2>2 DEF CoderStep, CoderProcessFails, CoderHttpFails, CoderProduces
<1>8. CASE GateStep
  <2>1. CASE Provisional
    BY <1>0, <1>a, <2>1 DEF Provisional
  <2>2. CASE VerifyFailsRetry
    BY <1>0, <1>a, <2>2 DEF VerifyFailsRetry
  <2>3. CASE \/ AuditFails \/ AuditPasses \/ JudgeRules \/ OpenCheckpoint \/ SaveCheckpoint
             \/ Accept \/ Reject \/ VerifyPasses
    <3>1. /\ UNCHANGED <<tier, attempts, retry, maxRetries, bonus>>
          /\ InTier /\ pc' \in {"retry", "exhausted", "judging", "judged", "saving", "ruled", "verifying", "qa"}
      BY <2>3 DEF AuditFails, AuditPasses, JudgeRules, OpenCheckpoint, SaveCheckpoint, Accept,
           Reject, VerifyPasses
    <3> QED BY <1>0, <1>a, <3>1
  <2>4. CASE VerifyFailsForGood \/ QARaises \/ Deliver
    BY <1>0, <1>a, <2>4 DEF VerifyFailsForGood, QARaises, Deliver, Return
  <2> QED BY <1>8, <2>1, <2>2, <2>3, <2>4 DEF GateStep
<1>9. CASE SkipToPrincipal \/ AskHuman \/ HumanRefuses
  <2>1. /\ UNCHANGED <<tier, attempts, retry, maxRetries, bonus>>
        /\ InTier /\ pc' \in {"done", "waiting"}
    BY <1>9 DEF SkipToPrincipal, AskHuman, HumanRefuses, Categorize, Return
  <2> QED BY <1>0, <1>a, <2>1
<1>10. CASE PostFailUp \/ Crash \/ UNCHANGED vars
  BY <1>0, <1>a, <1>10 DEF PostFailUp, Crash, vars
<1> QED BY <1>1, <1>2, <1>3, <1>4, <1>5, <1>6, <1>7, <1>8, <1>9, <1>10
        DEF Next, CallStep, TierStep, FailureStep, Returned

(* The coder calls of tiers 1..t are at most the sum of MaxRetries+(i-1).  *)
THEOREM CallsBounded == Spec => []CallBudget
<1>1. Init => BudgetInv
  <2> SUFFICES ASSUME Init PROVE BudgetInv
    OBVIOUS
  <2>1. TwiceCalls(1 - 1) = 0 /\ TwiceCalls(1) = 2 * MaxRetries /\ MaxRetries \in Nat
    BY LadderAssumption DEF TwiceCalls
  <2> QED BY <2>1 DEF Init, BudgetInv, CallBudget, InTier
<1>2. BudgetInv => CallBudget
  BY DEF BudgetInv
<1> QED BY <1>1, <1>2, BudgetStep, TypeCorrect, PTL DEF Spec

-----------------------------------------------------------------------------
(***************************************************************************)
(* What the refinement needs to know of a tier at work: it is not the      *)
(* principal, a human is asked only by its failure action, and the streak  *)
(* of equal categories is no longer than the tiers worked in.              *)
(***************************************************************************)
LadderInv ==
  /\ OutcomeWhenDone
  /\ pc = "start" => tier = 1
  /\ InTier => tier \notin Principals
  /\ pc = "waiting" => FailureAction[tier] = "notify_and_wait" /\ streak <= tier
  /\ pc \notin {"waiting", "done", "crashed"} => streak <= tier - 1

(* No step but the gates' own moves the call past a gate.                  *)
LEMMA LadderStep == TypeOK /\ LadderInv /\ [Next]_vars => LadderInv'
<1> SUFFICES ASSUME TypeOK, LadderInv, [Next]_vars PROVE LadderInv'
  OBVIOUS
<1> USE DEF LadderInv, OutcomeWhenDone, InTier, tierVars, streakVars
<1>0. EndOK /\ tier \in Nat /\ tier >= 1 /\ streak \in Nat
  BY LadderAssumption DEF TypeOK, ControlOK, CountersOK
<1>1. CASE FailNowShot \/ NoFailNow
  BY <1>0, <1>1 DEF FailNowShot, NoFailNow, Return
<1>2. CASE TierStep
  BY <1>0, <1>2 DEF TierStep, ReachPrincipal, SkipOpenCircuit, FailUpAtEntry, BeginTier, TiersSpent,
              EnterTier, NextTier, Return
<1>3. CASE RetryStep
  BY <1>0, <1>3 DEF RetryStep, RetriesSpent, FailUpMidRetry, CallCoder
<1>4. CASE CoderStep
  BY <1>0, <1>4 DEF CoderStep, CoderNotInstalled, CoderProcessFails, CoderHttpFails, CoderProduces, CountCall
<1>5. CASE GateStep
  <2>1. CASE \/ AuditFails \/ AuditPasses \/ JudgeRules \/ OpenCheckpoint \/ SaveCheckpoint
             \/ Accept \/ Provisional \/ Reject \/ VerifyPasses \/ VerifyFailsRetry
    BY <1>0, <2>1 DEF AuditFails, AuditPasses, JudgeRules, OpenCheckpoint, SaveCheckpoint, Accept, Provisional, Reject, VerifyPasses, VerifyFailsRetry
  <2>2. CASE VerifyFailsForGood \/ QARaises \/ Deliver
    BY <1>0, <2>2 DEF VerifyFailsForGood, QARaises, Deliver, Return
  <2> QED BY <1>5, <2>1, <2>2 DEF GateStep
<1>6. CASE FailureStep
  <2>1. Categorize => streak' \in Nat /\ streak' <= tier
    BY <1>0 DEF Categorize
  <2>2. CASE SkipToPrincipal
    BY <1>0, <2>1, <2>2 DEF SkipToPrincipal, Categorize, Return
  <2>3. CASE Escalate
    BY <1>0, <2>1, <2>3 DEF Escalate, Categorize, NextTier
  <2>4. CASE AskHuman
    BY <1>0, <2>1, <2>4 DEF AskHuman, Categorize
  <2>5. CASE HumanConfirms \/ HumanRefuses
    BY <1>0, <2>5 DEF HumanConfirms, HumanRefuses, Return
  <2> QED BY <1>6, <2>2, <2>3, <2>4, <2>5 DEF FailureStep
<1>7. CASE PostFailUp \/ Crash \/ UNCHANGED vars
  BY <1>0, <1>7 DEF PostFailUp, Crash, vars
<1>8. CASE Resubmit
  BY <1>0, <1>8 DEF Resubmit
<1> QED BY <1>1, <1>2, <1>3, <1>4, <1>5, <1>6, <1>7, <1>8 DEF Next, CallStep, Returned

(* Every step maps to a step of the contract, or to none of it.            *)
LEMMA ContractStep == TypeOK /\ LadderInv /\ [Next]_vars => [Contract!Next]_(Contract!vars)
<1> SUFFICES ASSUME TypeOK, LadderInv, [Next]_vars PROVE [Contract!Next]_(Contract!vars)
  OBVIOUS
<1> USE DEF LadderInv, OutcomeWhenDone, InTier, Approval, Contract!vars
<1>0. /\ EndOK /\ tier \in Nat /\ tier >= 1 /\ tier <= NumTiers + 1 /\ NumTiers \in Nat /\ streak \in Nat
      /\ pc \notin {"start", "tier", "done", "crashed"} => tier \in Tiers
  BY LadderAssumption DEF TypeOK, ControlOK, CountersOK
<1>t. Contract!Tiers = Tiers
  BY DEF Contract!Tiers, Tiers
(* A call ends the way the contract allows. *)
<1>e. ASSUME NEW o \in Contract!Ends, Contract!MayEnd(o), pc # "done", pc' = "done",
             tier' = tier, result'.outcome = o
      PROVE  Contract!End
  BY <1>e DEF Contract!End
<1>l. ASSUME tier \in Tiers \ Principals, pc \in {"tier", "exhausted", "waiting"}, pc' = "tier",
             tier' = tier + 1, result' = result
      PROVE  Contract!LeaveTier
  BY <1>l, <1>t DEF Contract!LeaveTier
<1>s. ASSUME UNCHANGED <<tier, result>>, pc \notin {"verifying", "qa"}, pc' \notin {"verifying", "qa"}
      PROVE  UNCHANGED Contract!vars
  BY <1>s
<1>1. CASE FailNowShot
  <2>1. CASE Return("fail_now", 0, FALSE)
    <3>1. Contract!MayEnd("fail_now") /\ "fail_now" \in Contract!Ends
      BY <1>1 DEF FailNowShot, Contract!MayEnd, Contract!Ends
    <3> QED BY <1>1, <1>e, <2>1, <3>1 DEF FailNowShot, Return, tierVars, Contract!Next
  <2> QED BY <1>1, <1>s, <2>1 DEF FailNowShot, tierVars
<1>2. CASE NoFailNow
  BY <1>2, <1>s DEF NoFailNow, tierVars
<1>3. CASE TierStep
  <2>1. CASE ReachPrincipal
    <3>1. Contract!MayEnd("principal") /\ "principal" \in Contract!Ends
      BY <2>1 DEF ReachPrincipal, EnterTier, Contract!MayEnd, Contract!Ends
    <3> QED BY <2>1, <1>e, <3>1 DEF ReachPrincipal, EnterTier, Return, Contract!Next
  <2>2. CASE TiersSpent
    <3>1. tier = NumTiers + 1
      BY <1>0, <2>2 DEF TiersSpent, Tiers
    <3>2. Contract!MayEnd("failed") /\ "failed" \in Contract!Ends
      BY <2>2, <3>1 DEF TiersSpent, Contract!MayEnd, Contract!Ends
    <3> QED BY <2>2, <1>e, <3>2 DEF TiersSpent, Return, tierVars, Contract!Next
  <2>3. CASE SkipOpenCircuit \/ FailUpAtEntry
    <3>1. tier \in Tiers \ Principals /\ pc = "tier" /\ NextTier /\ result' = result
      BY <2>3 DEF SkipOpenCircuit, FailUpAtEntry, EnterTier
    <3> QED BY <3>1, <1>l DEF NextTier, Contract!Next
  <2>4. CASE BeginTier
    BY <2>4, <1>s DEF BeginTier, EnterTier
  <2> QED BY <1>3, <2>1, <2>2, <2>3, <2>4 DEF TierStep
<1>4. CASE RetryStep
  BY <1>4, <1>s DEF RetryStep, RetriesSpent, FailUpMidRetry, CallCoder, tierVars
<1>5. CASE CoderStep
  BY <1>5, <1>s DEF CoderStep, CoderNotInstalled, CoderProcessFails, CoderHttpFails, CoderProduces, CountCall, tierVars
<1>6. CASE GateStep
  <2>1. CASE \/ AuditFails \/ AuditPasses \/ JudgeRules \/ OpenCheckpoint \/ SaveCheckpoint
             \/ Provisional \/ Reject
    BY <2>1, <1>s DEF AuditFails, AuditPasses, JudgeRules, OpenCheckpoint, SaveCheckpoint, Provisional, Reject, tierVars
  <2>2. CASE Accept
    <3>1. Contract!JudgeApproves
      BY <1>0, <1>t, <2>2 DEF Accept, tierVars, Contract!JudgeApproves
    <3> QED BY <3>1 DEF Contract!Next
  <2>3. CASE VerifyPasses
    <3>1. Contract!VerifierApproves
      BY <2>3 DEF VerifyPasses, tierVars, Contract!VerifierApproves
    <3> QED BY <3>1 DEF Contract!Next
  <2>4. CASE VerifyFailsRetry
    <3>1. Contract!Withdraw
      BY <2>4 DEF VerifyFailsRetry, Contract!Withdraw
    <3> QED BY <3>1 DEF Contract!Next
  <2>5. CASE VerifyFailsForGood
    <3>1. Contract!MayEnd("verify_failed") /\ "verify_failed" \in Contract!Ends
      BY <2>5 DEF VerifyFailsForGood, Contract!MayEnd, Contract!Ends
    <3> QED BY <2>5, <1>e, <3>1 DEF VerifyFailsForGood, Return, tierVars, Contract!Next
  <2>6. CASE QARaises
    <3>1. Contract!MayEnd("raised") /\ "raised" \in Contract!Ends
      BY <2>6 DEF QARaises, Contract!MayEnd, Contract!Ends
    <3> QED BY <2>6, <1>e, <3>1 DEF QARaises, Return, tierVars, Contract!Next
  <2>7. CASE Deliver
    <3>1. Contract!MayEnd("success") /\ "success" \in Contract!Ends
      BY <2>7 DEF Deliver, Contract!MayEnd, Contract!Ends
    <3> QED BY <2>7, <1>e, <3>1 DEF Deliver, Return, tierVars, Contract!Next
  <2> QED BY <1>6, <2>1, <2>2, <2>3, <2>4, <2>5, <2>6, <2>7 DEF GateStep
<1>7. CASE FailureStep
  <2>1. CASE SkipToPrincipal
    <3>1. tier >= 3 /\ tier \in Tiers \ Principals /\ pc = "exhausted" /\ tier <= NumTiers
      BY <1>0, <2>1 DEF SkipToPrincipal, Categorize, MaxConsecutiveFailures, Tiers
    <3>2. Contract!MayEnd("consecutive") /\ "consecutive" \in Contract!Ends
      BY <1>0, <3>1 DEF Contract!MayEnd, Contract!Ends
    <3> QED BY <2>1, <1>e, <3>1, <3>2 DEF SkipToPrincipal, Return, tierVars, Contract!Next
  <2>2. CASE Escalate
    <3>1. tier \in Tiers \ Principals /\ pc = "exhausted" /\ NextTier /\ result' = result
      BY <1>0, <2>2 DEF Escalate, Categorize
    <3> QED BY <3>1, <1>l DEF NextTier, Contract!Next
  <2>3. CASE AskHuman
    BY <2>3, <1>s DEF AskHuman, Categorize, tierVars
  <2>4. CASE HumanConfirms
    <3>1. tier \in Tiers \ Principals /\ pc = "waiting" /\ pc' = "tier" /\ tier' = tier + 1 /\ result' = result
      BY <1>0, <2>4 DEF HumanConfirms
    <3> QED BY <3>1, <1>l DEF Contract!Next
  <2>5. CASE HumanRefuses
    <3>1. Contract!MayEnd("aborted") /\ "aborted" \in Contract!Ends
      BY <1>0, <1>t, <2>5 DEF HumanRefuses, Contract!MayEnd, Contract!Ends
    <3> QED BY <2>5, <1>e, <3>1 DEF HumanRefuses, Return, tierVars, Contract!Next
  <2> QED BY <1>7, <2>1, <2>2, <2>3, <2>4, <2>5 DEF FailureStep
<1>8. CASE Crash
  <2>1. CASE pc \in {"verifying", "qa"}
    <3>1. Contract!Withdraw
      BY <1>8, <2>1 DEF Crash, tierVars, Contract!Withdraw
    <3> QED BY <3>1 DEF Contract!Next
  <2> QED BY <1>8, <1>s, <2>1 DEF Crash, tierVars
<1>9. CASE Resubmit
  <2>1. Contract!SubmitAgain
    BY <1>9 DEF Resubmit, Contract!SubmitAgain
  <2> QED BY <2>1 DEF Contract!Next
<1>10. CASE PostFailUp \/ UNCHANGED vars
  BY <1>10 DEF PostFailUp, vars, tierVars
<1> QED BY <1>1, <1>2, <1>3, <1>4, <1>5, <1>6, <1>7, <1>8, <1>9, <1>10 DEF Next, CallStep, Returned

(* The loop implements the contract.                                       *)
THEOREM ContractKept == Spec => ImplementsContract
<1>1. Init => LadderInv
  BY DEF Init, LadderInv, OutcomeWhenDone, InTier, NoResult
<1>2. Init => Contract!Init
  BY DEF Init, Contract!Init, Approval, NoResult
<1> QED BY <1>1, <1>2, LadderStep, ContractStep, TypeCorrect, PTL DEF Spec, ImplementsContract, Contract!Spec
-----------------------------------------------------------------------------
(***************************************************************************)
(* Why the call returns: its own steps count down.  A round is a turn of   *)
(* the retry loop; each round spends a retry, the bonus is granted once a  *)
(* tier, and no tier is entered twice.                                     *)
(***************************************************************************)
Rounds == maxRetries + (1 - Bonus) + 2 - retry
RoundStep ==
  CASE pc = "coding" -> 0 [] pc = "retry" -> 1 [] pc = "qa" -> 2 [] pc = "verifying" -> 3
    [] pc = "ruled" -> 4 [] pc = "saving" -> 5 [] pc = "judged" -> 6 [] pc = "judging" -> 7
    [] pc = "auditing" -> 8 [] OTHER -> 0

\* No tier takes more steps than this.
TierSteps == 9 * (MaxRetries + NumTiers + 3)
StepsInTier ==
  CASE pc = "start" -> TierSteps
    [] pc = "tier" -> TierSteps - 1
    [] pc = "exhausted" -> 2
    [] pc = "waiting" -> 1
    [] OTHER -> 2 + 9 * Rounds + RoundStep
StepsLeft ==
  IF pc \in {"done", "crashed"} THEN 0
  ELSE (NumTiers + 1 - tier) * TierSteps + StepsInTier

StepsInv ==
  /\ pc = "start" => tier = 1
  /\ pc \in {"start", "tier"} => maxRetries <= MaxRetries + (tier - 1)
  /\ InTier => maxRetries + (1 - Bonus) <= MaxRetries + tier
  /\ pc = "retry" => retry <= maxRetries + 2
  /\ pc = "coding" => retry <= maxRetries
  /\ pc \in {"auditing", "judging", "judged", "saving", "ruled", "verifying", "qa"} => retry <= maxRetries + 1

LEMMA StepsStep == TypeOK /\ StepsInv /\ [Next]_vars => StepsInv'
<1> SUFFICES ASSUME TypeOK, StepsInv, [Next]_vars PROVE StepsInv'
  OBVIOUS
<1> USE DEF StepsInv, InTier, Bonus, tierVars, countVars
<1>0. /\ tier \in Nat /\ tier >= 1 /\ retry \in Nat /\ retry >= 1
      /\ maxRetries \in Nat /\ MaxRetries \in Nat /\ FlagsOK
  BY LadderAssumption DEF TypeOK, ControlOK
<1>1. CASE SkipOpenCircuit \/ FailUpAtEntry \/ Escalate \/ HumanConfirms
  <2>1. /\ tier' = tier + 1 /\ maxRetries' = maxRetries /\ pc' = "tier"
        /\ pc \in {"tier", "exhausted", "waiting"}
    BY <1>1 DEF SkipOpenCircuit, FailUpAtEntry, Escalate, HumanConfirms, EnterTier, Categorize, NextTier
  <2>2. tier' - 1 = tier /\ maxRetries <= MaxRetries + tier
    BY <1>0, <2>1
  <2> QED BY <1>0, <2>1, <2>2
<1>2. CASE Resubmit
  BY <1>0, <1>2 DEF Resubmit
<1>3. CASE FailNowShot \/ NoFailNow \/ ReachPrincipal \/ TiersSpent
  BY <1>0, <1>3 DEF FailNowShot, NoFailNow, ReachPrincipal, TiersSpent, EnterTier, Return
<1>4. CASE BeginTier
  BY <1>0, <1>4 DEF BeginTier, EnterTier
<1>5. CASE RetryStep
  BY <1>0, <1>5 DEF RetryStep, RetriesSpent, FailUpMidRetry, CallCoder
<1>6. CASE CoderStep
  <2>1. CASE CoderNotInstalled
    BY <1>0, <2>1 DEF CoderNotInstalled
  <2>2. CASE CountCall /\ UNCHANGED <<tier, maxRetries, bonus>> /\ pc' \in {"retry", "auditing", "exhausted"}
    BY <1>0, <2>2 DEF CountCall
  <2> QED BY <1>6, <2>1, <2>2 DEF CoderStep, CoderProcessFails, CoderHttpFails, CoderProduces
<1>7. CASE GateStep
  <2>1. CASE Provisional
    BY <1>0, <2>1 DEF Provisional
  <2>2. CASE VerifyFailsRetry
    BY <1>0, <2>2 DEF VerifyFailsRetry
  <2>3. CASE \/ AuditFails \/ AuditPasses \/ JudgeRules \/ OpenCheckpoint \/ SaveCheckpoint
             \/ Accept \/ Reject \/ VerifyPasses
    <3>1. /\ UNCHANGED <<tier, retry, maxRetries, bonus>>
          /\ pc \in {"auditing", "judging", "judged", "saving", "ruled", "verifying"}
          /\ pc' \in {"retry", "exhausted", "judging", "judged", "saving", "ruled", "verifying", "qa"}
      BY <2>3 DEF AuditFails, AuditPasses, JudgeRules, OpenCheckpoint, SaveCheckpoint, Accept,
           Reject, VerifyPasses
    <3> QED BY <1>0, <3>1
  <2>4. CASE VerifyFailsForGood \/ QARaises \/ Deliver
    BY <1>0, <2>4 DEF VerifyFailsForGood, QARaises, Deliver, Return
  <2> QED BY <1>7, <2>1, <2>2, <2>3, <2>4 DEF GateStep
<1>8. CASE SkipToPrincipal \/ AskHuman \/ HumanRefuses
  <2>1. /\ UNCHANGED <<tier, retry, maxRetries, bonus>>
        /\ InTier /\ pc' \in {"done", "waiting"}
    BY <1>8 DEF SkipToPrincipal, AskHuman, HumanRefuses, Categorize, Return
  <2> QED BY <1>0, <2>1
<1>9. CASE PostFailUp \/ Crash \/ UNCHANGED vars
  BY <1>0, <1>9 DEF PostFailUp, Crash, vars
<1> QED BY <1>1, <1>2, <1>3, <1>4, <1>5, <1>6, <1>7, <1>8, <1>9
        DEF Next, CallStep, TierStep, FailureStep, Returned

\* The count in numbers: what the tiers still to come may take is a multiple.
Ahead == (NumTiers + 1 - tier) * TierSteps

LEMMA AheadTyped ==
  ASSUME TypeOK
  PROVE  /\ TierSteps \in Nat /\ TierSteps = 9 * (MaxRetries + NumTiers + 3) /\ Ahead \in Nat
         /\ Ahead <= NumTiers * TierSteps
         /\ tier \in Tiers => (NumTiers + 1 - (tier + 1)) * TierSteps = Ahead - TierSteps
         /\ NumTiers * TierSteps + TierSteps = (NumTiers + 1) * TierSteps
         /\ NumTiers * TierSteps \in Nat
<1> DEFINE k == NumTiers + 1 - tier
<1>1. MaxRetries \in Nat /\ NumTiers \in Nat /\ tier \in 1..(NumTiers + 1)
  BY LadderAssumption DEF TypeOK, ControlOK
<1>2. TierSteps \in Nat /\ TierSteps = 9 * (MaxRetries + NumTiers + 3)
  BY <1>1 DEF TierSteps
<1>3. k \in 0..NumTiers
  BY <1>1
<1>4. \A i \in Nat, s \in Nat : i * s \in Nat /\ (i + 1) * s = i * s + s
  OBVIOUS
<1>5. \A i, j, s \in Nat : i <= j => i * s <= j * s
  OBVIOUS
<1>6. tier \in Tiers => k - 1 \in Nat /\ (k - 1) + 1 = k /\ NumTiers + 1 - (tier + 1) = k - 1
  BY <1>1 DEF Tiers
<1> HIDE DEF k
<1>7. k * TierSteps \in Nat /\ k * TierSteps <= NumTiers * TierSteps
  BY <1>1, <1>2, <1>3, <1>4, <1>5
<1>8. tier \in Tiers => (k - 1) * TierSteps = k * TierSteps - TierSteps
  BY <1>2, <1>4, <1>6, <1>7
<1>9. NumTiers * TierSteps + TierSteps = (NumTiers + 1) * TierSteps /\ NumTiers * TierSteps \in Nat
  BY <1>1, <1>2, <1>4
<1>10. Ahead = k * TierSteps
  BY DEF Ahead, k
<1> QED BY <1>2, <1>6, <1>7, <1>8, <1>9, <1>10

\* In each tier, the steps left are fewer than TierSteps once it was entered.
LEMMA InTierTyped ==
  ASSUME TypeOK, StepsInv
  PROVE  /\ pc \notin {"done", "crashed"} => StepsInTier \in 1..TierSteps
         /\ pc \notin {"start", "tier", "exhausted", "waiting", "done", "crashed"} =>
              Rounds \in Nat /\ Rounds <= MaxRetries + NumTiers + 1 /\ RoundStep \in 0..8
<1>0. /\ tier \in Nat /\ tier >= 1 /\ retry \in Nat /\ retry >= 1
      /\ maxRetries \in Nat /\ MaxRetries \in Nat /\ NumTiers \in Nat /\ NumTiers > 0
  BY LadderAssumption DEF TypeOK, ControlOK
<1>1. InTier => tier <= NumTiers
  BY <1>0 DEF TypeOK, ControlOK, InTier, Tiers
<1>2. TierSteps \in Nat /\ TierSteps = 9 * (MaxRetries + NumTiers + 3)
  BY AheadTyped
<1>3. Bonus \in {0, 1}
  BY DEF Bonus
<1>4. pc \notin {"start", "tier", "exhausted", "waiting", "done", "crashed"} =>
        Rounds \in Nat /\ Rounds <= MaxRetries + NumTiers + 1 /\ RoundStep \in 0..8
  BY <1>0, <1>1, <1>3 DEF Rounds, RoundStep, StepsInv, InTier, TypeOK, ControlOK, PCs
<1> DEFINE w == 2 + 9 * Rounds + RoundStep
<1>5. pc \notin {"start", "tier", "exhausted", "waiting", "done", "crashed"} => w \in 1..TierSteps
  BY <1>0, <1>2, <1>4
<1> HIDE DEF w
<1>6. StepsInTier = CASE pc = "start" -> TierSteps [] pc = "tier" -> TierSteps - 1
                      [] pc = "exhausted" -> 2 [] pc = "waiting" -> 1 [] OTHER -> w
  BY DEF StepsInTier, w
<1>7. TierSteps >= 3
  BY <1>0, <1>2
<1>8. pc \notin {"done", "crashed"} => StepsInTier \in 1..TierSteps
  BY <1>2, <1>5, <1>6, <1>7
<1> QED BY <1>4, <1>8

\* The same of the state after a step.
StepsInTierTyped == pc \notin {"done", "crashed"} => StepsInTier \in 1..TierSteps
LEMMA InTierAfter == TypeOK' /\ StepsInv' => StepsInTierTyped'
<1>1. TypeOK /\ StepsInv => StepsInTierTyped
  BY InTierTyped DEF StepsInTierTyped
<1> QED BY <1>1, PTL

LEMMA StepCounts == TypeOK /\ TypeOK' /\ StepsInv /\ StepsInv' /\ CallStep => StepsLeft' < StepsLeft
<1> SUFFICES ASSUME TypeOK, TypeOK', StepsInv, StepsInv', CallStep PROVE StepsLeft' < StepsLeft
  OBVIOUS
<1> USE DEF tierVars, countVars
<1>0. /\ tier \in Nat /\ tier >= 1 /\ retry \in Nat /\ maxRetries \in Nat
      /\ Bonus \in {0, 1} /\ MaxRetries \in Nat /\ NumTiers \in Nat
  BY LadderAssumption DEF TypeOK, ControlOK, Bonus
<1>1. /\ TierSteps \in Nat /\ TierSteps = 9 * (MaxRetries + NumTiers + 3) /\ Ahead \in Nat
      /\ tier \in Tiers => (NumTiers + 1 - (tier + 1)) * TierSteps = Ahead - TierSteps
  BY AheadTyped
<1>2. pc \notin {"done", "crashed"} => StepsInTier \in 1..TierSteps /\ StepsLeft = Ahead + StepsInTier
  BY InTierTyped DEF StepsLeft, Ahead
<1>3. pc \notin {"start", "tier", "exhausted", "waiting", "done", "crashed"} =>
        /\ Rounds \in Nat /\ RoundStep \in 0..8
        /\ StepsInTier = 2 + 9 * Rounds + RoundStep
  BY InTierTyped DEF StepsInTier
<1>4. tier' = tier => Ahead' = Ahead
  BY DEF Ahead
<1>5. pc' \notin {"done", "crashed"} => StepsInTier' \in 1..TierSteps /\ StepsLeft' = Ahead' + StepsInTier'
  BY InTierAfter DEF StepsInTierTyped, StepsLeft, Ahead
<1>6. CASE pc' = "done" /\ pc \notin {"done", "crashed"}
  BY <1>1, <1>2, <1>6 DEF StepsLeft
\* To the next tier: what is left in this one is lost, and it had a step.
<1>7. CASE tier \in Tiers /\ tier' = tier + 1 /\ pc' = "tier" /\ pc \notin {"done", "crashed"}
  <2>1. Ahead' = Ahead - TierSteps /\ StepsInTier' = TierSteps - 1
    BY <1>1, <1>7 DEF Ahead, StepsInTier
  <2> QED BY <1>1, <1>2, <1>5, <1>7, <2>1
\* Within a tier: only what is left in it changes.
<1>8. ASSUME tier' = tier, pc \notin {"done", "crashed"}, pc' \notin {"done", "crashed"},
             StepsInTier' < StepsInTier
      PROVE  StepsLeft' < StepsLeft
  BY <1>1, <1>2, <1>4, <1>5, <1>8
<1>9. ASSUME tier' = tier, pc \in {"start", "tier", "retry", "coding", "auditing", "judging", "judged",
                                    "saving", "ruled", "verifying", "qa"},
             pc' \in {"retry", "coding", "auditing", "judging", "judged", "saving", "ruled",
                      "verifying", "qa"},
             2 + 9 * Rounds' + RoundStep' < StepsInTier
      PROVE  StepsLeft' < StepsLeft
  <2>1. StepsInTier' = 2 + 9 * Rounds' + RoundStep'
    BY <1>9 DEF StepsInTier
  <2> QED BY <1>8, <1>9, <2>1
<1>10. CASE FailNowShot \/ NoFailNow
  <2>1. CASE pc' = "done"
    BY <1>6, <1>10, <2>1 DEF FailNowShot, NoFailNow
  <2>2. CASE pc' # "done"
    <3>1. pc = "start" /\ pc' = "tier" /\ tier' = tier
      BY <1>10, <2>2 DEF FailNowShot, NoFailNow, Return
    <3>2. StepsInTier = TierSteps /\ StepsInTier' = TierSteps - 1
      BY <3>1 DEF StepsInTier, TierSteps
    <3> QED BY <1>1, <1>8, <3>1, <3>2
  <2> QED BY <2>1, <2>2
<1>11. CASE \/ ReachPrincipal \/ TiersSpent \/ VerifyFailsForGood \/ QARaises \/ Deliver
            \/ SkipToPrincipal \/ HumanRefuses
  BY <1>6, <1>11 DEF ReachPrincipal, TiersSpent, VerifyFailsForGood, QARaises, Deliver,
       SkipToPrincipal, HumanRefuses, EnterTier, Categorize, Return
<1>12. CASE SkipOpenCircuit \/ FailUpAtEntry \/ Escalate \/ HumanConfirms
  <2>1. tier' = tier + 1 /\ pc' = "tier" /\ pc \in {"tier", "exhausted", "waiting"}
    BY <1>12 DEF SkipOpenCircuit, FailUpAtEntry, Escalate, HumanConfirms, EnterTier, Categorize, NextTier
  <2>2. tier \in Tiers
    BY <1>12 DEF SkipOpenCircuit, FailUpAtEntry, Escalate, HumanConfirms, EnterTier, Categorize,
         TypeOK, ControlOK
  <2> QED BY <1>7, <2>1, <2>2
<1>13. CASE BeginTier
  <2>1. pc = "tier" /\ pc' = "retry" /\ tier' = tier /\ retry' = 1 /\ maxRetries' = maxRetries
        /\ Bonus' = 0 /\ tier <= NumTiers /\ StepsInTier = TierSteps - 1
    BY <1>13 DEF BeginTier, EnterTier, Bonus, Tiers, StepsInTier
  <2>2. maxRetries <= MaxRetries + (tier - 1)
    BY <2>1 DEF StepsInv
  <2>3. Rounds' = maxRetries + 2 /\ RoundStep' = 1
    BY <1>0, <2>1 DEF Rounds, RoundStep
  <2> QED BY <1>0, <1>1, <1>9, <2>1, <2>2, <2>3
<1>14. CASE RetriesSpent \/ FailUpMidRetry
  <2>1. pc = "retry" /\ pc' = "exhausted" /\ tier' = tier
    BY <1>14 DEF RetriesSpent, FailUpMidRetry
  <2>2. StepsInTier' = 2 /\ RoundStep = 1
    BY <2>1 DEF StepsInTier, RoundStep
  <2> QED BY <1>3, <1>8, <2>1, <2>2
<1>15. CASE CallCoder
  <2>1. pc = "retry" /\ pc' = "coding" /\ tier' = tier /\ Rounds' = Rounds
    BY <1>15 DEF CallCoder, Rounds, Bonus
  <2>2. RoundStep = 1 /\ RoundStep' = 0
    BY <2>1 DEF RoundStep
  <2> QED BY <1>3, <1>9, <2>1, <2>2
<1>16. CASE CoderStep
  <2>1. pc = "coding" /\ tier' = tier /\ pc' \in {"retry", "exhausted", "auditing"}
        /\ maxRetries' = maxRetries /\ Bonus' = Bonus /\ (pc' # "exhausted" => retry' = retry + 1)
    BY <1>16 DEF CoderStep, CoderNotInstalled, CoderProcessFails, CoderHttpFails, CoderProduces,
         CountCall, Bonus
  <2>2. retry <= maxRetries /\ RoundStep = 0
    BY <2>1 DEF StepsInv, RoundStep
  <2>3. Rounds > 0
    BY <1>0, <2>2 DEF Rounds
  <2>4. CASE pc' = "exhausted"
    <3>1. StepsInTier' = 2
      BY <2>4 DEF StepsInTier
    <3> QED BY <1>3, <1>8, <2>1, <2>2, <2>3, <2>4, <3>1
  <2>5. CASE pc' # "exhausted"
    <3>1. Rounds' = Rounds - 1 /\ RoundStep' <= 8 /\ RoundStep' \in Nat
      BY <1>0, <2>1, <2>5 DEF Rounds, RoundStep
    <3> QED BY <1>3, <1>9, <2>1, <2>2, <2>5, <3>1
  <2> QED BY <2>4, <2>5
<1>17. CASE \/ AuditFails \/ AuditPasses \/ JudgeRules \/ OpenCheckpoint \/ SaveCheckpoint
            \/ Accept \/ Reject \/ VerifyPasses
  <2>1. /\ UNCHANGED <<tier, retry, maxRetries, bonus>>
        /\ \/ pc = "auditing" /\ pc' \in {"retry", "exhausted", "judging"}
           \/ pc = "judging" /\ pc' = "judged"
           \/ pc = "judged" /\ pc' = "saving"
           \/ pc = "saving" /\ pc' = "ruled"
           \/ pc = "ruled" /\ pc' \in {"verifying", "retry"}
           \/ pc = "verifying" /\ pc' = "qa"
    <3>1. CASE AuditFails \/ AuditPasses
      BY <3>1 DEF AuditFails, AuditPasses
    <3>2. CASE JudgeRules \/ OpenCheckpoint \/ SaveCheckpoint
      BY <3>2 DEF JudgeRules, OpenCheckpoint, SaveCheckpoint
    <3>3. CASE Accept \/ Reject \/ VerifyPasses
      BY <3>3 DEF Accept, Reject, VerifyPasses
    <3> QED BY <1>17, <3>1, <3>2, <3>3
  <2>2. Rounds' = Rounds
    BY <2>1 DEF Rounds, Bonus
  <2>3. CASE pc' = "exhausted"
    <3>1. StepsInTier' = 2 /\ RoundStep = 8
      BY <2>1, <2>3 DEF StepsInTier, RoundStep
    <3> QED BY <1>3, <1>8, <2>1, <2>3, <3>1
  <2>4. CASE pc' # "exhausted"
    <3>1. RoundStep' < RoundStep /\ RoundStep' \in Nat
      BY <2>1, <2>4 DEF RoundStep
    <3> QED BY <1>3, <1>9, <2>1, <2>2, <2>4, <3>1
  <2> QED BY <2>3, <2>4
\* The bonus a provisional verdict grants is what its retry costs.
<1>18. CASE Provisional
  <2>1. pc = "ruled" /\ pc' = "retry" /\ tier' = tier /\ retry' = retry + 1 /\ Bonus' = 1
        /\ maxRetries' = maxRetries + (1 - Bonus)
    BY <1>0, <1>18 DEF Provisional, Bonus
  <2>2. Rounds' = Rounds - 1 /\ RoundStep' = 1
    BY <1>0, <2>1 DEF Rounds, RoundStep
  <2> QED BY <1>3, <1>9, <2>1, <2>2
<1>19. CASE VerifyFailsRetry
  <2>1. pc = "verifying" /\ pc' = "retry" /\ tier' = tier /\ retry' = retry + 1
        /\ maxRetries' = maxRetries /\ Bonus' = Bonus
    BY <1>19 DEF VerifyFailsRetry, Bonus
  <2>2. Rounds' = Rounds - 1 /\ RoundStep' = 1
    BY <1>0, <2>1 DEF Rounds, RoundStep
  <2> QED BY <1>3, <1>9, <2>1, <2>2
<1>20. CASE AskHuman
  <2>1. pc = "exhausted" /\ pc' = "waiting" /\ tier' = tier
    BY <1>20 DEF AskHuman, Categorize
  <2>2. StepsInTier = 2 /\ StepsInTier' = 1
    BY <2>1 DEF StepsInTier
  <2> QED BY <1>8, <2>1, <2>2
<1> QED BY <1>10, <1>11, <1>12, <1>13, <1>14, <1>15, <1>16, <1>17, <1>18, <1>19, <1>20
        DEF CallStep, TierStep, RetryStep, GateStep, FailureStep

(* Every step of the call's own brings its return nearer, whatever coder,  *)
(* gates and human answer, and a request to fail up takes nothing back: no *)
(* bonus retry, failed verification or tier left repeats for ever.  From a *)
(* submission to its return or a crash a call takes no more steps than     *)
(* TierSteps for each tier and once more.                                  *)
CallAdvances == [][ /\ CallStep => StepsLeft' < StepsLeft
                    /\ PostFailUp => StepsLeft' = StepsLeft ]_vars
StepsBounded == StepsLeft \in 0..((NumTiers + 1) * TierSteps)
THEOREM EveryStepCounts == Spec => CallAdvances /\ []StepsBounded
<1>1. Init => StepsInv
  BY LadderAssumption DEF Init, StepsInv, InTier
<1>2. PostFailUp => StepsLeft' = StepsLeft
  <2> SUFFICES ASSUME PostFailUp PROVE StepsLeft' = StepsLeft
    OBVIOUS
  <2>1. UNCHANGED <<pc, tier, retry, maxRetries, bonus>>
    BY DEF PostFailUp, tierVars, countVars
  <2> QED BY <2>1 DEF StepsLeft, StepsInTier, Rounds, RoundStep, Bonus
<1>3. TypeOK /\ StepsInv => StepsBounded
  <2> SUFFICES ASSUME TypeOK, StepsInv PROVE StepsBounded
    OBVIOUS
  <2>1. /\ TierSteps \in Nat /\ Ahead \in Nat /\ Ahead <= NumTiers * TierSteps
        /\ NumTiers * TierSteps + TierSteps = (NumTiers + 1) * TierSteps
        /\ NumTiers * TierSteps \in Nat
    BY AheadTyped
  <2>2. pc \notin {"done", "crashed"} => StepsInTier \in 1..TierSteps
    BY InTierTyped
  <2>3. StepsLeft = IF pc \in {"done", "crashed"} THEN 0 ELSE Ahead + StepsInTier
    BY DEF StepsLeft, Ahead
  <2>4. StepsLeft \in Nat /\ StepsLeft <= NumTiers * TierSteps + TierSteps
    BY <2>1, <2>2, <2>3
  <2> HIDE DEF Ahead
  <2> QED BY <2>1, <2>4 DEF StepsBounded
<1> QED BY <1>1, <1>2, <1>3, StepsStep, StepCounts, TypeCorrect, PTL DEF Spec, CallAdvances
=============================================================================
