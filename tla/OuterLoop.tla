------------------------------ MODULE OuterLoop ------------------------------
(***************************************************************************)
(* The outer loop (src/outer_loop): a specification is split into chunks   *)
(* by learned rules or by a model, every chunk goes through the inner      *)
(* pipeline, the assembled project is verified, and a rejection teaches    *)
(* the pattern library before the specification is split again.           *)
(*                                                                         *)
(* Each loop is an OuterLoopOrchestrator object in a process of its own;   *)
(* all of them read one library file when they are built and overwrite it  *)
(* whole when they save.  A chunk is [name, files, deps], where deps says  *)
(* whether it names other chunks; a plan is the sequence of its chunks.    *)
(* What a rule's condition says is the set of projects it holds for.       *)
(***************************************************************************)
EXTENDS Integers, FiniteSets, Sequences, SequencesExt

CONSTANTS
  Loops,                  \* OuterLoopOrchestrator objects
  Assigned,               \* loop -> projects it is asked for
  Projects,               \* specifications, each with its project name
  Paths,                  \* files a specification or a plan can name
  FilesOf,                \* project -> files its specification names
  Frontend,               \* files that are templates, styles or scripts
  FileCount,              \* project -> metrics["file_count"]
  Answers,                \* project -> plans the decomposer model may answer
  Conditions,             \* conditions a rule can have
  Holds,                  \* condition -> projects it holds for
  LimitConditions,        \* condition -> N, for "max_files_per_chunk <= N"
  Capacity,               \* files per pass that the context window of L0 takes
  InitialRules,           \* rules in the library file at the start
  Lessons,                \* rules the learner model may answer: [id, cond, action]
  MAX_FILES_PER_CHUNK,
  MAX_RECHUNK_ATTEMPTS,
  MaxExecutes             \* bound: calls of execute on one object

NoPlan == <<>>
None == "none"
Actions == {"directory", "split", "single", "other"}

Rules == [cond : Conditions, action : Actions, blamed : BOOLEAN]

\* A plan is a sequence of chunks of files.
IsPlan(d) == Len(d) \in Nat /\ \A i \in 1..Len(d) : d[i].files \subseteq Paths

ASSUME OuterAssumption ==
  /\ MAX_RECHUNK_ATTEMPTS \in Nat \ {0} /\ MAX_FILES_PER_CHUNK \in Nat \ {0}
  /\ MaxExecutes \in Nat
  /\ Capacity \in 1..MAX_FILES_PER_CHUNK
  /\ Projects # {} /\ Assigned \in [Loops -> SUBSET Projects]
  /\ FilesOf \in [Projects -> SUBSET Paths]
  /\ \A p \in Projects : \A d \in Answers[p] : IsPlan(d)
  /\ DOMAIN LimitConditions \subseteq Conditions
  /\ \A r \in Lessons : r.cond \in Conditions /\ r.action \in Actions
  /\ \A i \in DOMAIN InitialRules : InitialRules[i] \in Rules

VARIABLES
  disk,         \* the library file: [rules, plans]
  lib,          \* loop -> its copy of the library
  at,           \* loop -> where it stands
  project,      \* loop -> the project it executes
  projectDir,   \* loop -> self.project_dir, or None
  plan,         \* loop -> decomposition
  idx,          \* loop -> chunks of it that ran
  good,         \* loop -> chunks_succeeded of this attempt
  attempts,     \* loop -> re_chunk_attempts
  integration,  \* loop -> what verify_integration found
  result,       \* loop -> the OuterLoopResult
  written,      \* directory -> files there
  ran,         \* history: loop -> plans whose chunks all ran in this call
  executes      \* history: loop -> calls of execute

library == <<disk, lib>>
attempt == <<plan, idx, good>>
outerVars == <<library, at, project, projectDir, attempt, attempts, integration, result,
          written, ran, executes>>

-----------------------------------------------------------------------------
(* The pattern library.  A rule is [cond, action, blamed]: success_count   *)
(* is 0 in every rule the code makes, so its confidence is 1/2 until a     *)
(* failure is counted against it, and 0 from then on.                      *)

Rule(c, a, b) == [cond |-> c, action |-> a, blamed |-> b]
PutRule(rules, id, r) == [i \in DOMAIN rules \cup {id} |-> IF i = id THEN r ELSE rules[i]]
PutPlan(plans, p, d) == [q \in DOMAIN plans \cup {p} |-> IF q = p THEN d ELSE plans[q]]

Save(l, new) == lib' = [lib EXCEPT ![l] = new] /\ disk' = new
Record(l, d) == Save(l, [lib[l] EXCEPT !.plans = PutPlan(@, project[l], d)])

\* get_learned_chunk_limit: rules that are still trusted and below the ceiling.
LearnedLimits(rules) ==
  {LimitConditions[rules[i].cond] :
     i \in {i \in DOMAIN rules : rules[i].cond \in DOMAIN LimitConditions /\ ~rules[i].blamed}}
  \cap 1..(MAX_FILES_PER_CHUNK - 1)

Lower(a, b) == IF a < b THEN a ELSE b

\* compute_adaptive_chunk_limit, by whichever learned limit is met first.
AdaptiveLimits(rules) ==
  IF LearnedLimits(rules) = {} THEN {Capacity}
  ELSE {Lower(n, Capacity) : n \in LearnedLimits(rules)}

\* The metric max_files_per_chunk exists only below the ceiling.
Satisfied(cond, p, limit) ==
  IF cond \in DOMAIN LimitConditions
  THEN limit < MAX_FILES_PER_CHUNK /\ limit <= LimitConditions[cond]
  ELSE p \in Holds[cond]

\* The first of the matching rules sorted by confidence; ties are in file order.
BestRules(rules, p, limit) ==
  LET matching == {i \in DOMAIN rules : Satisfied(rules[i].cond, p, limit)}
      trusted == {i \in matching : ~rules[i].blamed}
  IN IF trusted # {} THEN trusted ELSE matching

-----------------------------------------------------------------------------
(* Decomposition.                                                          *)

Chunk(n, fs, d) == [name |-> n, files |-> fs, deps |-> d]
SingleChunk(p) == <<Chunk("full_project", FilesOf[p], FALSE)>>

SplitFrontendBackend(p) ==
  LET front == FilesOf[p] \cap Frontend
      back == FilesOf[p] \ Frontend
  IN (IF back = {} THEN <<>> ELSE <<Chunk("backend", back, FALSE)>>)
       \o (IF front = {} THEN <<>> ELSE <<Chunk("frontend", front, back # {})>>)

\* A rule gives a plan, or none ("other", or nothing to split).
Apply(action, p) == CASE action = "split" -> SplitFrontendBackend(p)
                      [] action = "single" -> SingleChunk(p)
                      [] OTHER -> NoPlan

\* The plans decompose can return.  It calls _directory_chunk, which no class
\* defines, for a rule that groups by directory and when all else failed.
CannotGroup == <<Chunk("AttributeError", {}, FALSE)>>

WithoutModel(p) == IF FileCount[p] <= MAX_FILES_PER_CHUNK THEN SingleChunk(p) ELSE CannotGroup

\* The plan in the model's answer; none without a model, an answer or a list of
\* chunks in it.
LlmDecompose(p) == Answers[p] \cup {NoPlan}

Fallback(p) == {IF d = NoPlan THEN WithoutModel(p) ELSE d : d \in LlmDecompose(p)}

Decompositions(rules, p) ==
  UNION { LET best == BestRules(rules, p, limit)
              ByRule(i) == IF rules[i].action = "directory" THEN {CannotGroup}
                           ELSE IF Apply(rules[i].action, p) # NoPlan
                           THEN {Apply(rules[i].action, p)}
                           ELSE Fallback(p)
          IN IF best = {} THEN Fallback(p) ELSE UNION {ByRule(i) : i \in best}
        : limit \in AdaptiveLimits(rules) }

\* How often each name and set of files occurs: the sorted list of them.
Named(c) == <<c.name, c.files>>
Signature(d) == [s \in {Named(d[i]) : i \in DOMAIN d} |->
                   Cardinality({i \in DOMAIN d : Named(d[i]) = s})]
Identical(d, e) == Len(d) = Len(e) /\ Signature(d) = Signature(e)

-----------------------------------------------------------------------------

NoResult == [outcome |-> "none", plan |-> NoPlan, run |-> 0, succeeded |-> 0]
NotVerified == [passed |-> FALSE, missing |-> {}, imports |-> "ok"]

OuterInit ==
  /\ disk = [rules |-> InitialRules, plans |-> [p \in {} |-> NoPlan]]
  /\ lib = [l \in Loops |-> disk]
  /\ at = [l \in Loops |-> "new"]
  /\ project = [l \in Loops |-> CHOOSE p \in Projects : TRUE]
  /\ projectDir = [l \in Loops |-> None]
  /\ plan = [l \in Loops |-> NoPlan] /\ idx = [l \in Loops |-> 0] /\ good = [l \in Loops |-> 0]
  /\ attempts = [l \in Loops |-> 0]
  /\ integration = [l \in Loops |-> NotVerified]
  /\ result = [l \in Loops |-> NoResult]
  /\ written = [d \in Projects \cup {None} |-> {}]
  /\ ran = [l \in Loops |-> <<>>]
  /\ executes = [l \in Loops |-> 0]

Goto(l, from, to) == at[l] = from /\ at' = [at EXCEPT ![l] = to]

\* OuterLoopOrchestrator(): the library is read, no project is set.
Build(l) ==
  /\ Goto(l, "new", "idle")
  /\ lib' = [lib EXCEPT ![l] = disk]
  /\ UNCHANGED <<disk, project, projectDir, attempt, attempts, integration, result, written,
                 ran, executes>>

Execute(l) ==
  /\ executes[l] < MaxExecutes
  /\ Goto(l, "idle", "decompose")
  /\ \E p \in Assigned[l] : project' = [project EXCEPT ![l] = p]
  /\ executes' = [executes EXCEPT ![l] = @ + 1]
  /\ attempts' = [attempts EXCEPT ![l] = 0]
  /\ integration' = [integration EXCEPT ![l] = NotVerified]
  /\ result' = [result EXCEPT ![l] = NoResult]
  /\ ran' = [ran EXCEPT ![l] = <<>>]
  /\ UNCHANGED <<library, projectDir, attempt, written>>

StartAttempt(l, d) ==
  /\ plan' = [plan EXCEPT ![l] = d]
  /\ idx' = [idx EXCEPT ![l] = 0] /\ good' = [good EXCEPT ![l] = 0]

\* The first decomposition of a call; decompose records what it returns.
Decompose(l) ==
  /\ at[l] = "decompose"
  /\ \E d \in Decompositions(lib[l].rules, project[l]) \ {CannotGroup} :
       /\ Record(l, d)
       /\ StartAttempt(l, d)
       /\ projectDir' = [projectDir EXCEPT ![l] = IF Len(d) = 1 THEN @ ELSE project[l]]
       /\ at' = [at EXCEPT ![l] = IF Len(d) = 1 THEN "fast" ELSE "chunks"]
  /\ UNCHANGED <<project, attempts, integration, result, written, ran, executes>>

DecomposeRaises(l) ==
  /\ at[l] \in {"decompose", "rechunk"}
  /\ CannotGroup \in Decompositions(lib[l].rules, project[l])
  /\ at' = [at EXCEPT ![l] = "raised"]
  /\ UNCHANGED <<library, project, projectDir, attempt, attempts, integration, result, written,
                 ran, executes>>

Return(l, from, outcome, succeeded) ==
  /\ Goto(l, from, "idle")
  /\ result' = [result EXCEPT ![l] = [outcome |-> outcome, plan |-> plan[l],
                                      run |-> Len(plan[l]), succeeded |-> succeeded]]

\* The inner pipeline writes some files of the chunk, where the process stands.
Write(l, c) ==
  \E fs \in SUBSET c.files : written' = [written EXCEPT ![projectDir[l]] = @ \cup fs]

FastPath(l) ==
  /\ at[l] = "fast"
  /\ Write(l, plan[l][1])
  /\ \E ok \in BOOLEAN :
       Return(l, "fast", IF ok THEN "fast_success" ELSE "fast_failure", IF ok THEN 1 ELSE 0)
  /\ UNCHANGED <<library, project, projectDir, attempt, attempts, integration, ran, executes>>

RunChunk(l) ==
  /\ at[l] = "chunks" /\ idx[l] < Len(plan[l])
  /\ Write(l, plan[l][idx[l] + 1])
  /\ idx' = [idx EXCEPT ![l] = @ + 1]
  /\ \E ok \in BOOLEAN : good' = [good EXCEPT ![l] = IF ok THEN @ + 1 ELSE @]
  /\ UNCHANGED <<library, at, project, projectDir, plan, attempts, integration, result, ran,
                 executes>>

Missing(l) == (UNION {plan[l][i].files : i \in DOMAIN plan[l]}) \ written[project[l]]

\* What the steps of verify_integration after the search for files can meet.
\* The import script catches every exception and exits with 0, the syntax check
\* never looks at the exit code, and a test run that timed out prints no word
\* that is looked for: of these only a hanging script counts as a failure.
ImportSeams == {"ok", "broken", "hangs"}
Contracts == {"kept", "broken"}
TestRuns == {"pass", "fail", "hangs"}
SmokeTests == {"ok", "broken", "hangs"}

Passes(i, c, t, s) == i # "hangs" /\ c = "kept" /\ t # "fail" /\ s # "hangs"

\* Mutant of VerifyIntegration: the project's files are not looked for.
VerifyWithoutFiles(l) ==
  /\ at[l] = "chunks" /\ idx[l] = Len(plan[l])
  /\ at' = [at EXCEPT ![l] = "decide"]
  /\ \E i \in ImportSeams, c \in Contracts, t \in TestRuns, s \in SmokeTests :
       integration' = [integration EXCEPT ![l] =
                         [passed |-> Passes(i, c, t, s), missing |-> Missing(l), imports |-> i]]
  /\ ran' = [ran EXCEPT ![l] = Append(@, plan[l])]
  /\ UNCHANGED <<library, project, projectDir, attempt, attempts, result, written, executes>>

VerifyIntegration(l) ==
  /\ at[l] = "chunks" /\ idx[l] = Len(plan[l])
  /\ at' = [at EXCEPT ![l] = "decide"]
  /\ \E i \in ImportSeams, c \in Contracts, t \in TestRuns, s \in SmokeTests :
       integration' = [integration EXCEPT ![l] =
                         [passed |-> Missing(l) = {} /\ Passes(i, c, t, s), missing |-> Missing(l),
                          imports |-> IF Missing(l) = {} THEN i ELSE "ok"]]
  /\ ran' = [ran EXCEPT ![l] = Append(@, plan[l])]
  /\ UNCHANGED <<library, project, projectDir, attempt, attempts, result, written, executes>>

HasCrossDeps(d) == \E i \in DOMAIN d : d[i].deps
Acceptable(l) == good[l] = Len(plan[l]) /\ (integration[l].passed \/ ~HasCrossDeps(plan[l]))

Accept(l) ==
  /\ Acceptable(l)
  /\ Return(l, "decide", "success", good[l])
  /\ Record(l, plan[l])
  /\ UNCHANGED <<project, projectDir, attempt, attempts, integration, written, ran, executes>>

\* analyze_failure: a lesson for a condition that has a rule blames that rule;
\* any other replaces the rule that has its id.
Learned(rules, lesson) ==
  LET same == {i \in DOMAIN rules : rules[i].cond = lesson.cond}
  IN IF same = {} THEN PutRule(rules, lesson.id, Rule(lesson.cond, lesson.action, TRUE))
     ELSE [i \in DOMAIN rules |-> [rules[i] EXCEPT !.blamed = @ \/ i \in same]]

\* The model may not answer, or not with a rule.
Learn(l) ==
  \/ UNCHANGED library
  \/ \E lesson \in Lessons : Save(l, [lib[l] EXCEPT !.rules = Learned(@, lesson)])

Reject(l) ==
  /\ ~Acceptable(l)
  /\ Goto(l, "decide", IF attempts[l] + 1 >= MAX_RECHUNK_ATTEMPTS THEN "exhausted" ELSE "rechunk")
  /\ attempts' = [attempts EXCEPT ![l] = @ + 1]
  /\ Learn(l)
  /\ UNCHANGED <<project, projectDir, attempt, integration, result, written, ran, executes>>

\* What follows a plan d made after a rejection; stop says whether it ends the loop.
RechunkAs(l, d, stop) ==
  /\ d # CannotGroup
  /\ Record(l, d)
  /\ plan' = [plan EXCEPT ![l] = d]
  /\ at' = [at EXCEPT ![l] = IF stop THEN "exhausted" ELSE "chunks"]
  /\ idx' = [idx EXCEPT ![l] = IF stop THEN @ ELSE 0]
  /\ good' = [good EXCEPT ![l] = IF stop THEN @ ELSE 0]
  /\ UNCHANGED <<project, projectDir, attempts, integration, result, written, ran, executes>>

\* Mutant of Rechunk: plans are compared as a whole, dependencies included.
RechunkUnlessEqual(l) ==
  at[l] = "rechunk" /\ \E d \in Decompositions(lib[l].rules, project[l]) : RechunkAs(l, d, plan[l] = d)

\* An identical plan ends the loop.
Rechunk(l) ==
  at[l] = "rechunk" /\ \E d \in Decompositions(lib[l].rules, project[l]) : RechunkAs(l, d, Identical(plan[l], d))

GiveUp(l) ==
  /\ Return(l, "exhausted", "failure", good[l])
  /\ UNCHANGED <<library, project, projectDir, attempt, attempts, integration, written, ran,
                 executes>>

LoopStep(l) == Decompose(l) \/ DecomposeRaises(l) \/ FastPath(l) \/ RunChunk(l)
                 \/ VerifyIntegration(l) \/ Accept(l) \/ Reject(l) \/ Rechunk(l) \/ GiveUp(l)

Finished(l) == at[l] = "raised" \/ (at[l] = "idle" /\ executes[l] = MaxExecutes)
AllFinished == (\A l \in Loops : Finished(l)) /\ UNCHANGED outerVars

OuterNext == (\E l \in Loops : Build(l) \/ Execute(l) \/ LoopStep(l)) \/ AllFinished

OuterSpec == OuterInit /\ [][OuterNext]_outerVars

\* A call of execute keeps running: every call it makes has a timeout.
OuterFairSpec == OuterSpec /\ \A l \in Loops : WF_outerVars(LoopStep(l))

-----------------------------------------------------------------------------

Outcomes == {"none", "fast_success", "fast_failure", "success", "failure"}

OuterTypeOK ==
  /\ \A r \in {disk} \cup {lib[l] : l \in Loops} :
       /\ \A i \in DOMAIN r.rules : r.rules[i] \in Rules
       /\ DOMAIN r.plans \subseteq Projects
  /\ at \in [Loops -> {"new", "idle", "decompose", "fast", "chunks", "decide", "rechunk",
                      "exhausted", "raised"}]
  /\ project \in [Loops -> Projects] /\ projectDir \in [Loops -> Projects \cup {None}]
  /\ \A l \in Loops : idx[l] \in 0..Len(plan[l]) /\ good[l] \in 0..idx[l]
  /\ attempts \in [Loops -> 0..MAX_RECHUNK_ATTEMPTS] /\ executes \in [Loops -> 0..MaxExecutes]
  /\ \A l \in Loops : integration[l].passed \in BOOLEAN /\ result[l].outcome \in Outcomes
  /\ written \in [Projects \cup {None} -> SUBSET Paths]

\* A project whose chunks depend on one another is accepted only when every file
\* its plan names is there, whatever attempt or chunk wrote it.
AcceptedFilesExist ==
  \A l \in Loops : result[l].outcome = "success" /\ HasCrossDeps(result[l].plan)
    => UNION {result[l].plan[i].files : i \in DOMAIN result[l].plan} \subseteq written[project[l]]

\* The money of an attempt is spent on something new: within a call no plan runs
\* again right after it was rejected, and at most MAX_RECHUNK_ATTEMPTS plans run,
\* the first one included (the comment at outer_loop/orchestrator.py:80 says the
\* limit does not include it, so it promises one attempt more than there is).
AttemptsDiffer ==
  \A l \in Loops :
    /\ Len(ran[l]) <= MAX_RECHUNK_ATTEMPTS
    /\ \A i \in 1..(Len(ran[l]) - 1) : ~Identical(ran[l][i], ran[l][i + 1])

\* execute comes to an end, by a result or by an exception.
ExecuteEnds == \A l \in Loops : at[l] \notin {"new", "idle"} ~> at[l] \in {"idle", "raised"}
=============================================================================
