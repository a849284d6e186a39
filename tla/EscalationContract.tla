------------------------- MODULE EscalationContract -------------------------
(***************************************************************************)
(* What Orchestrator.execute_with_judge promises its caller, without       *)
(* retries, feedback or error categories: tiers are left in order and one  *)
(* at a time, an output is delivered only from the tier the task stands at *)
(* and only with the approval of every gate, the principal is told only    *)
(* when the ladder reaches it, and a call has one outcome.                 *)
(***************************************************************************)
EXTENDS Integers

CONSTANTS NumTiers, Principals, FailureAction

Tiers == 1..NumTiers

VARIABLES
  level,     \* the tier the task stands at; NumTiers + 1 when none is left
  approval,  \* gates the output at hand has passed: none, judge, verified
  outcome    \* how the call ended

vars == <<level, approval, outcome>>

Init == level = 1 /\ approval = "none" /\ outcome = "none"

JudgeApproves ==
  /\ outcome = "none"
  /\ level \in Tiers \ Principals
  /\ approval = "none"
  /\ approval' = "judge"
  /\ UNCHANGED <<level, outcome>>

VerifierApproves ==
  /\ outcome = "none"
  /\ approval = "judge"
  /\ approval' = "verified"
  /\ UNCHANGED <<level, outcome>>

\* The output is sent back to the coder, or lost with the process.
Withdraw ==
  /\ outcome = "none"
  /\ approval # "none"
  /\ approval' = "none"
  /\ UNCHANGED <<level, outcome>>

LeaveTier ==
  /\ outcome = "none"
  /\ level \in Tiers \ Principals
  /\ approval = "none"
  /\ level' = level + 1
  /\ UNCHANGED <<approval, outcome>>

MayEnd(o) ==
  CASE o = "success"       -> approval = "verified"
    [] o = "raised"        -> approval = "verified"
    [] o = "verify_failed" -> approval = "judge"
    [] o = "fail_now"      -> level = 1 /\ approval = "none"
    [] o = "principal"     -> level \in Principals /\ approval = "none"
    [] o = "aborted"       -> level \in Tiers \ Principals /\ approval = "none"
                              /\ FailureAction[level] = "notify_and_wait"
    [] o = "consecutive"   -> level \in 3..NumTiers /\ level \notin Principals
                              /\ approval = "none"
    [] o = "failed"        -> level = NumTiers + 1 /\ approval = "none"

Ends == {"success", "raised", "verify_failed", "fail_now",
         "principal", "aborted", "consecutive", "failed"}

End ==
  /\ outcome = "none"
  /\ \E o \in Ends : MayEnd(o) /\ outcome' = o
  /\ approval' = "none"
  /\ UNCHANGED level

\* The task is submitted again after a crash.
SubmitAgain ==
  /\ outcome = "none"
  /\ level' = 1
  /\ approval' = "none"
  /\ UNCHANGED outcome

Next == JudgeApproves \/ VerifierApproves \/ Withdraw \/ LeaveTier \/ End \/ SubmitAgain

Spec == Init /\ [][Next]_vars
=============================================================================
