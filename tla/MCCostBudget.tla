---------------------------- MODULE MCCostBudget ----------------------------
(***************************************************************************)
(* An instance of CostBudget for TLC, and what its callers wait for.       *)
(***************************************************************************)
EXTENDS CostBudget, TLC

CONSTANTS a1, a2, a3

(* Modes of three calls: every pair of modes meets.                        *)
MixedModes ==
  (a1 :> {"single", "judge"}) @@ (a2 :> {"ladder"}) @@ (a3 :> {"single"})

(* A call of ask that was made returns or raises.                          *)
AsksReturn == \A a \in Asks : (pc[a] # "idle") ~> (pc[a] \in Ended)

=============================================================================
