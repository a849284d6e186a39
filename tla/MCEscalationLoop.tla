-------------------------- MODULE MCEscalationLoop --------------------------
(***************************************************************************)
(* Instances of EscalationLoop for TLC, and a sentence of the              *)
(* documentation that the loop does not keep.                              *)
(***************************************************************************)
EXTENDS EscalationLoop, TLC

(* The default ladder: L0 logs, L1 notifies, L2 asks a human, Principal.   *)
DefaultActions == [t \in 1..4 |-> CASE t = 2 -> "notify_and_escalate"
                                    [] t = 3 -> "notify_and_wait"
                                    [] OTHER -> "log_only"]

(* Two tiers without a principal; the second asks a human.                 *)
PairActions == [t \in 1..2 |-> IF t = 2 THEN "notify_and_wait" ELSE "log_only"]
(* The name of "ma" ends with the base name of "a", not the other way.     *)
SuffixClears == ("a" :> {"a", "ma"}) @@ ("ma" :> {"ma"})
NoClears == [f \in {} |-> {}]

(* "Principal reached -> return escalation_context to caller".             *)
PrincipalGetsContext ==
  result.outcome \in {"principal", "consecutive"} => result.context

=============================================================================
