--------------------------- MODULE PipelineMonitor ---------------------------
(***************************************************************************)
(* PipelineMonitor (src/core/pipeline_monitor.py): the last actions of an  *)
(* orchestrator, and what check_health makes of them.  An action is a      *)
(* record with the fields its checks read.                                 *)
(***************************************************************************)
EXTENDS Integers, Sequences, FiniteSets, SequencesExt

CONSTANTS
  WindowSize,   \* WINDOW_SIZE: 8
  Truncations,  \* MAX_CONSECUTIVE_TRUNCATIONS: 3
  LowScores,    \* MAX_CONSECUTIVE_LOW_SCORES: 3
  EmptyOutputs  \* MAX_EMPTY_OUTPUTS: 2

Action(type, score, size, truncated) ==
  [type |-> type, score |-> score, size |-> size, truncated |-> truncated]

\* The recorders.  Scores are in tenths; an output is "empty" (under 50
\* characters and no file), "huge" (over 50,000), "stale" (files and next to no
\* output) or "sane".
ContextFill == Action("context_fill", 0, "none", FALSE)
CoderOutput(size, truncated) == Action("coder_output", 0, size, truncated)
JudgeVerdict(score) == Action("judge_verdict", score, "none", FALSE)
Escalation == Action("escalation", 0, "none", FALSE)

Latest(s, n) == SubSeq(s, (IF Len(s) > n THEN Len(s) - n ELSE 0) + 1, Len(s))

\* Mutant of Record: the window is cut before the new action is added.
RecordAfterTrim(actions, a) == Append(Latest(actions, WindowSize - 2), a)

Record(actions, a) == Latest(Append(actions, a), WindowSize)

\* The positions of the actions of a kind, and of those with a mark.
Verdicts(actions) == {i \in DOMAIN actions : actions[i].type = "judge_verdict"}
Outputs(actions) == {i \in DOMAIN actions : actions[i].type = "coder_output"}
Truncated(actions) == {i \in DOMAIN actions : actions[i].truncated}
Low(actions) == {i \in DOMAIN actions : actions[i].score < 5}
EmptyOutput(actions) == {i \in DOMAIN actions : actions[i].size = "empty"}

\* How many of the last positions are marked, without a break.
Streak(positions, marked) ==
  Cardinality({i \in positions : \A j \in positions : j >= i => j \in marked})

Degrading(actions) ==
  \E i, j, k \in Verdicts(actions) :
    /\ i < j /\ j < k /\ {n \in Verdicts(actions) : n >= i} = {i, j, k}
    /\ actions[i].score > actions[j].score /\ actions[j].score > actions[k].score

\* Any action that is not a truncated output ends a streak of truncations;
\* the other streaks are among verdicts and among outputs.
Errors(actions) ==
  {k \in {"truncated", "low_scores", "empty"} :
     CASE k = "truncated"  -> Streak(DOMAIN actions, Truncated(actions)) >= Truncations
       [] k = "low_scores" -> Streak(Verdicts(actions), Low(actions)) >= LowScores
       [] k = "empty"      -> Streak(Outputs(actions), EmptyOutput(actions)) >= EmptyOutputs}

Warnings(actions) ==
  {k \in {"degrading", "size"} :
     CASE k = "degrading" -> Degrading(actions)
       [] k = "size"      -> \E a \in Range(Latest(actions, 4)) : a.size \in {"huge", "stale"}}

=============================================================================
