------------------------------ MODULE MCCutting ------------------------------
(***************************************************************************)
(* The two ways work is cut up, for TLC: into passes of one task           *)
(* (MultiPass) and into chunks of a project (OuterLoop).  They have no     *)
(* state in common, so a behaviour runs one of the two and leaves the      *)
(* other in its initial state.                                             *)
(*                                                                         *)
(* The task has five files in three directories.  The projects are one of   *)
(* two files, which the model splits with or without dependencies or       *)
(* leaves whole, and one of a single file; the library holds a trusted     *)
(* hand-written rule, and one of the lessons groups by directory.          *)
(***************************************************************************)
EXTENDS MultiPass, OuterLoop, TLC

FiveRefs == <<"a1", "b1", "a2", "a3", "c1">>
FiveDirs == "a1" :> "a" @@ "a2" :> "a" @@ "a3" :> "a" @@ "b1" :> "b" @@ "c1" :> "c"
FiveOutputs == [f \in Range(FiveRefs) |-> IF f = "c1" THEN 1500 ELSE 3000]

VARIABLE area

C(n, fs, d) == [name |-> n, files |-> fs, deps |-> d]
Lesson(i, c, a) == [id |-> i, cond |-> c, action |-> a]

MCProjects == {"shop", "tool"}
MCAssigned == [l \in Loops |-> IF l = CHOOSE k \in Loops : TRUE THEN MCProjects ELSE {"tool"}]
MCFilesOf == "shop" :> {"a.py", "b.html"} @@ "tool" :> {"c.py"}
MCFileCount == "shop" :> 3 @@ "tool" :> 0
MCAnswers ==
  "shop" :> { <<C("x", {"a.py"}, FALSE), C("y", {"b.html"}, TRUE)>>,
              <<C("x", {"a.py"}, FALSE), C("y", {"b.html"}, FALSE)>>,
              <<C("all", {"a.py", "b.html"}, TRUE)>> }
    @@ "tool" :> {}
MCHolds == "big" :> {"shop"}
MCLimitConditions == "limited" :> 1
MCInitialRules == "r1" :> [cond |-> "limited", action |-> "split", blamed |-> FALSE]
MCLessons == {Lesson("r2", "big", "directory"), Lesson("r3", "limited", "other")}

MCInit == Init /\ OuterInit /\ area \in {"passes", "chunks"}

InPasses(A) == area = "passes" /\ A /\ UNCHANGED <<area, outerVars>>
InChunks(A) == area = "chunks" /\ A /\ UNCHANGED <<area, vars>>

Splitting == InPasses(SplitStep)
RunningPass == InPasses(ChildStep)
Resplitting == InPasses(ResplitStep)
AllPassed == InPasses(AllPassesDone)
Building == \E l \in Loops : InChunks(Build(l)) \/ InChunks(Execute(l))
Decomposing == \E l \in Loops : InChunks(Decompose(l)) \/ InChunks(DecomposeRaises(l))
RunningChunk == \E l \in Loops : InChunks(FastPath(l)) \/ InChunks(RunChunk(l))
Deciding == \E l \in Loops :
  \/ InChunks(VerifyIntegration(l)) \/ InChunks(Accept(l)) \/ InChunks(Reject(l))
  \/ InChunks(Rechunk(l)) \/ InChunks(GiveUp(l))
Rest == InPasses(Returned) \/ InChunks(AllFinished)

MCNext == Splitting \/ RunningPass \/ Resplitting \/ AllPassed
            \/ Building \/ Decomposing \/ RunningChunk \/ Deciding \/ Rest

\* The fairness of MultiPass and of OuterLoop.
MCSpec ==
  /\ MCInit /\ [][MCNext]_<<area, vars, outerVars>>
  /\ WF_vars(InPasses(Next))
  /\ \A l \in Loops : WF_outerVars(InChunks(LoopStep(l)))

-----------------------------------------------------------------------------
\* A task with passes and a project with chunks come to an end
\* (orchestrator.py:1655-1802, outer_loop/orchestrator.py:101-273).
WorkEnds == TaskEnds /\ ExecuteEnds
=============================================================================
