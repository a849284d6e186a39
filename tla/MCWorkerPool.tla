---------------------------- MODULE MCWorkerPool ----------------------------
(***************************************************************************)
(* An instance of WorkerPool for TLC.                                      *)
(***************************************************************************)
EXTENDS WorkerPool, TLC

CONSTANTS t1, t2, t3, d1, c1, c2

(* Two of the three tasks have the same task_id.                          *)
SharedIds == (t1 :> "x") @@ (t2 :> "y") @@ (t3 :> "x")
(* One batch of three.                                                     *)
BatchOfThree == d1 :> <<t1, t2, t3>>

=============================================================================
