--------------------------- MODULE CuttingProofs ----------------------------
(***************************************************************************)
(* How work is cut up.  Into chunks of a project (OuterLoop), for any      *)
(* projects, any answers of the models, any rules of the library and any   *)
(* number of loops that share it.  Into passes of one task (MultiPass),    *)
(* for any files in any directories, any context windows and any number    *)
(* of passes: the second half of the module, which starts with what the    *)
(* functions that cut and pack sequences return.                           *)
(***************************************************************************)
EXTENDS OuterLoop, MultiPass, FiniteSetTheorems, TLAPS

-----------------------------------------------------------------------------
(* The invariant.                                                          *)

Stages == {"new", "idle", "decompose", "fast", "chunks", "decide", "rechunk", "exhausted", "raised"}
PerLoop(f) == f = [l \in Loops |-> f[l]]

IsLibrary(r) ==
  /\ r = [rules |-> r.rules, plans |-> r.plans]
  /\ \A i \in DOMAIN r.rules : r.rules[i] \in Rules
  /\ DOMAIN r.plans \subseteq Projects

\* Every variable of a loop is a function of the loops.
Shapes ==
  /\ at \in [Loops -> Stages] /\ project \in [Loops -> Projects]
  /\ projectDir \in [Loops -> Projects \cup {None}]
  /\ idx \in [Loops -> Nat] /\ good \in [Loops -> Nat]
  /\ attempts \in [Loops -> 0..MAX_RECHUNK_ATTEMPTS] /\ executes \in [Loops -> 0..MaxExecutes]
  /\ PerLoop(plan) /\ PerLoop(integration) /\ PerLoop(result) /\ PerLoop(ran)
  /\ written \in [Projects \cup {None} -> SUBSET Paths]

Libraries == IsLibrary(disk) /\ PerLoop(lib) /\ \A l \in Loops : IsLibrary(lib[l])

Counted(l) ==
  /\ IsPlan(plan[l]) /\ idx[l] <= Len(plan[l]) /\ good[l] <= idx[l]
  /\ at[l] = "fast" => Len(plan[l]) = 1
  /\ integration[l].passed \in BOOLEAN /\ result[l].outcome \in Outcomes

\* What was found when the chunks had run is still so when it is decided on.
Verified(l) == at[l] = "decide" /\ integration[l].passed => Missing(l) = {}

Kept(l) ==
  result[l].outcome = "success" /\ HasCrossDeps(result[l].plan)
    => UNION {result[l].plan[i].files : i \in DOMAIN result[l].plan} \subseteq written[project[l]]

\* The plans that ran are one per attempt, each unlike the one before; the last of
\* them is the one that is decided on, and the one that runs now is unlike it.
Attempted(l) ==
  LET n == Len(ran[l])
  IN  /\ ran[l] \in Seq(Range(ran[l])) /\ n <= MAX_RECHUNK_ATTEMPTS
      /\ \A i \in 1..(n - 1) : ~Identical(ran[l][i], ran[l][i + 1])
      /\ at[l] \in {"decompose", "fast"} => n = 0 /\ attempts[l] = 0
      /\ at[l] = "chunks" => /\ n = attempts[l] /\ n < MAX_RECHUNK_ATTEMPTS
                             /\ n > 0 => ~Identical(ran[l][n], plan[l])
      /\ at[l] = "decide" => /\ n = attempts[l] + 1 /\ ran[l][n] = plan[l]
      /\ at[l] = "rechunk" => /\ n = attempts[l] /\ 0 < n /\ n < MAX_RECHUNK_ATTEMPTS
                              /\ ran[l][n] = plan[l]

LoopInv(l) == Counted(l) /\ Verified(l) /\ Kept(l) /\ Attempted(l)
OuterInv == Shapes /\ Libraries /\ \A l \in Loops : LoopInv(l)

LEMMA OuterBounds ==
  /\ MAX_RECHUNK_ATTEMPTS \in Nat /\ 0 < MAX_RECHUNK_ATTEMPTS /\ MaxExecutes \in Nat
  /\ Assigned \in [Loops -> SUBSET Projects] /\ FilesOf \in [Projects -> SUBSET Paths]
BY OuterAssumption

LEMMA Appended ==
  ASSUME NEW s, s \in Seq(Range(s)), NEW x
  PROVE  /\ Append(s, x) \in Seq(Range(Append(s, x))) /\ Len(Append(s, x)) = Len(s) + 1
         /\ \A i \in 1..Len(s) : Append(s, x)[i] = s[i]
         /\ Append(s, x)[Len(s) + 1] = x
<1> DEFINE S == Range(s) \cup {x}
           t == Append(s, x)
<1>1. s \in Seq(S) /\ x \in S
  OBVIOUS
<1> HIDE DEF S
<1>2. /\ t \in Seq(S) /\ Len(t) = Len(s) + 1 /\ \A i \in 1..Len(s) : t[i] = s[i]
      /\ t[Len(s) + 1] = x
  BY <1>1
<1> HIDE DEF t
<1>3. DOMAIN t = 1..Len(t) /\ Len(t) \in Nat /\ t \in [1..Len(t) -> S]
  BY <1>2
<1>4. \A i \in 1..Len(t) : t[i] \in Range(t)
  BY <1>3 DEF Range
<1>5. t \in [1..Len(t) -> Range(t)]
  BY <1>3, <1>4
<1>6. t \in Seq(Range(t))
  BY <1>3, <1>5
<1> QED BY <1>2, <1>6 DEF t

-----------------------------------------------------------------------------
(* Every plan is one of chunks of files, whichever rule or model made it.  *)

LEMMA OneChunk ==
  ASSUME NEW n, NEW fs \in SUBSET Paths, NEW d
  PROVE  IsPlan(<<Chunk(n, fs, d)>>)
<1>1. Chunk(n, fs, d).files = fs
  BY DEF Chunk
<1>2. Len(<<Chunk(n, fs, d)>>) = 1 /\ <<Chunk(n, fs, d)>>[1] = Chunk(n, fs, d)
  OBVIOUS
<1> QED BY <1>1, <1>2 DEF IsPlan

LEMMA EmptyPlan == IsPlan(NoPlan) /\ Len(NoPlan) = 0
BY DEF IsPlan, NoPlan

LEMMA TwoChunks ==
  ASSUME NEW c, NEW d, c.files \subseteq Paths, d.files \subseteq Paths
  PROVE  /\ IsPlan(<<>> \o <<>>) /\ IsPlan(<<c>> \o <<>>)
         /\ IsPlan(<<>> \o <<d>>) /\ IsPlan(<<c>> \o <<d>>)
<1> DEFINE S == {c, d}
<1>1. <<>> \in Seq(S) /\ <<c>> \in Seq(S) /\ <<d>> \in Seq(S)
  OBVIOUS
<1>2. Len(<<>>) = 0 /\ Len(<<c>>) = 1 /\ Len(<<d>>) = 1 /\ <<c>>[1] = c /\ <<d>>[1] = d
  OBVIOUS
<1> HIDE DEF S
<1>3. <<>> \o <<>> = <<>> /\ <<c>> \o <<>> = <<c>> /\ <<>> \o <<d>> = <<d>>
  <2>1. <<>> \o <<>> = <<>>
    OBVIOUS
  <2>2. <<c>> \o <<>> = <<c>>
    BY <1>1
  <2>3. <<>> \o <<d>> = <<d>>
    BY <1>1
  <2> QED BY <2>1, <2>2, <2>3
<1>4. IsPlan(<<>>) /\ IsPlan(<<c>>) /\ IsPlan(<<d>>)
  BY DEF IsPlan
<1>5. IsPlan(<<c>> \o <<d>>)
  <2>1. Len(<<c>> \o <<d>>) = 2 /\ (<<c>> \o <<d>>)[1] = c /\ (<<c>> \o <<d>>)[2] = d
    BY <1>1, <1>2
  <2> QED BY <2>1 DEF IsPlan
<1> QED BY <1>3, <1>4, <1>5

LEMMA SplitIsPlan == ASSUME NEW p \in Projects PROVE IsPlan(SplitFrontendBackend(p))
<1> DEFINE front == FilesOf[p] \cap Frontend
           back == FilesOf[p] \ Frontend
           c == Chunk("backend", back, FALSE)
           d == Chunk("frontend", front, back # {})
<1>1. c.files \subseteq Paths /\ d.files \subseteq Paths
  <2>1. c.files = back /\ d.files = front
    BY DEF Chunk
  <2>2. FilesOf[p] \subseteq Paths
    BY OuterBounds
  <2> QED BY <2>1, <2>2
<1>2. SplitFrontendBackend(p) =
        (IF back = {} THEN <<>> ELSE <<c>>) \o (IF front = {} THEN <<>> ELSE <<d>>)
  BY DEF SplitFrontendBackend
<1> HIDE DEF c, d, front, back
<1>3. CASE back = {} /\ front = {}
  BY <1>1, <1>2, <1>3, TwoChunks
<1>4. CASE back = {} /\ front # {}
  BY <1>1, <1>2, <1>4, TwoChunks
<1>5. CASE back # {} /\ front = {}
  BY <1>1, <1>2, <1>5, TwoChunks
<1>6. CASE back # {} /\ front # {}
  BY <1>1, <1>2, <1>6, TwoChunks
<1> QED BY <1>3, <1>4, <1>5, <1>6

LEMMA AppliedIsPlan == ASSUME NEW p \in Projects, NEW a PROVE IsPlan(Apply(a, p))
<1>1. IsPlan(SingleChunk(p))
  <2>1. FilesOf[p] \in SUBSET Paths
    BY OuterBounds
  <2> QED BY <2>1, OneChunk DEF SingleChunk
<1> QED BY <1>1, SplitIsPlan, EmptyPlan DEF Apply

LEMMA FallbacksArePlans ==
  ASSUME NEW p \in Projects PROVE \A d \in Fallback(p) : IsPlan(d)
<1>1. IsPlan(SingleChunk(p))
  <2>1. FilesOf[p] \in SUBSET Paths
    BY OuterBounds
  <2> QED BY <2>1, OneChunk DEF SingleChunk
<1>2. IsPlan(CannotGroup)
  BY OneChunk DEF CannotGroup
<1>3. \A d \in LlmDecompose(p) : IsPlan(d)
  BY OuterAssumption, EmptyPlan DEF LlmDecompose
<1>4. IsPlan(WithoutModel(p))
  BY <1>1, <1>2 DEF WithoutModel
<1> QED BY <1>3, <1>4 DEF Fallback

LEMMA DecompositionsArePlans ==
  ASSUME NEW rules, NEW p \in Projects PROVE \A d \in Decompositions(rules, p) : IsPlan(d)
<1> DEFINE ByRule(i) == IF rules[i].action = "directory" THEN {CannotGroup}
                        ELSE IF Apply(rules[i].action, p) # NoPlan
                        THEN {Apply(rules[i].action, p)}
                        ELSE Fallback(p)
           Planned(most) == IF BestRules(rules, p, most) = {} THEN Fallback(p)
                             ELSE UNION {ByRule(i) : i \in BestRules(rules, p, most)}
<1>1. IsPlan(CannotGroup)
  BY OneChunk DEF CannotGroup
<1>2. ASSUME NEW i PROVE \A d \in ByRule(i) : IsPlan(d)
  BY <1>1, AppliedIsPlan, FallbacksArePlans
<1>3. Decompositions(rules, p) = UNION {Planned(most) : most \in AdaptiveLimits(rules)}
  BY DEF Decompositions
<1> HIDE DEF ByRule
<1>4. ASSUME NEW most PROVE \A d \in Planned(most) : IsPlan(d)
  BY <1>2, FallbacksArePlans
<1> HIDE DEF Planned
<1> QED BY <1>3, <1>4

-----------------------------------------------------------------------------
(* Steps.                                                                  *)

LEMMA Updated ==
  ASSUME NEW f, PerLoop(f), NEW l \in Loops, NEW v
  PROVE  /\ PerLoop([f EXCEPT ![l] = v]) /\ [f EXCEPT ![l] = v][l] = v
         /\ \A k \in Loops \ {l} : [f EXCEPT ![l] = v][k] = f[k]
BY DEF PerLoop

\* The variables of the other loops stay as they are.
Others(l) ==
  \A k \in Loops \ {l} :
    /\ at'[k] = at[k] /\ project'[k] = project[k] /\ plan'[k] = plan[k]
    /\ idx'[k] = idx[k] /\ good'[k] = good[k] /\ attempts'[k] = attempts[k]
    /\ integration'[k] = integration[k] /\ result'[k] = result[k] /\ ran'[k] = ran[k]

Grows == \A d \in Projects \cup {None} : written[d] \subseteq written'[d]

LEMMA OthersKeep ==
  ASSUME OuterInv, NEW l \in Loops, Others(l), Grows, NEW k \in Loops \ {l}
  PROVE  LoopInv(k)'
<1>1. LoopInv(k) /\ project[k] \in Projects
  BY DEF OuterInv, Shapes
<1>2. /\ at'[k] = at[k] /\ project'[k] = project[k] /\ plan'[k] = plan[k]
      /\ idx'[k] = idx[k] /\ good'[k] = good[k] /\ attempts'[k] = attempts[k]
      /\ integration'[k] = integration[k] /\ result'[k] = result[k] /\ ran'[k] = ran[k]
  BY DEF Others
<1>3. written[project[k]] \subseteq written'[project[k]]
  BY <1>1 DEF Grows
<1>4. Counted(k)' /\ Attempted(k)'
  BY <1>1, <1>2 DEF LoopInv, Counted, Attempted
<1>5. Verified(k)' /\ Kept(k)'
  BY <1>1, <1>2, <1>3 DEF LoopInv, Verified, Kept, Missing
<1> QED BY <1>4, <1>5 DEF LoopInv

LEMMA StepKeeps ==
  ASSUME OuterInv, NEW l \in Loops, Others(l), Grows, Shapes', Libraries', LoopInv(l)'
  PROVE  OuterInv'
BY OthersKeep DEF OuterInv

(* The library: what is learned and recorded keeps its shape.              *)
LEMMA PlanRecorded ==
  ASSUME NEW r, IsLibrary(r), NEW p \in Projects, NEW d
  PROVE  IsLibrary([r EXCEPT !.plans = PutPlan(@, p, d)])
<1>1. r = [rules |-> r.rules, plans |-> r.plans]
  BY DEF IsLibrary
<1> DEFINE new == [r EXCEPT !.plans = PutPlan(@, p, d)]
<1>2. new = [rules |-> r.rules, plans |-> PutPlan(r.plans, p, d)]
  BY <1>1
<1>3. DOMAIN PutPlan(r.plans, p, d) = DOMAIN r.plans \cup {p}
  BY DEF PutPlan
<1> HIDE DEF new
<1>4. new.rules = r.rules /\ new.plans = PutPlan(r.plans, p, d)
  BY <1>2
<1>5. IsLibrary(new)
  BY <1>2, <1>3, <1>4 DEF IsLibrary
<1> QED BY <1>5 DEF new

LEMMA RuleLearned ==
  ASSUME NEW r, IsLibrary(r), NEW lesson \in Lessons
  PROVE  IsLibrary([r EXCEPT !.rules = Learned(@, lesson)])
<1> DEFINE same == {i \in DOMAIN r.rules : r.rules[i].cond = lesson.cond}
           more == Learned(r.rules, lesson)
           new == [r EXCEPT !.rules = Learned(@, lesson)]
<1>1. r = [rules |-> r.rules, plans |-> r.plans] /\ \A i \in DOMAIN r.rules : r.rules[i] \in Rules
  BY DEF IsLibrary
<1>2. new = [rules |-> more, plans |-> r.plans]
  BY <1>1
<1>3. \A i \in DOMAIN more : more[i] \in Rules
  <2>1. CASE same = {}
    <3>1. more = PutRule(r.rules, lesson.id, Rule(lesson.cond, lesson.action, TRUE))
      BY <2>1 DEF Learned
    <3>2. Rule(lesson.cond, lesson.action, TRUE) \in Rules
      BY OuterAssumption DEF Rule, Rules
    <3> QED BY <1>1, <3>1, <3>2 DEF PutRule
  <2>2. CASE same # {}
    <3>1. more = [i \in DOMAIN r.rules |-> [r.rules[i] EXCEPT !.blamed = @ \/ i \in same]]
      BY <2>2 DEF Learned
    <3> HIDE DEF same, more
    <3>2. \A i \in DOMAIN r.rules : [r.rules[i] EXCEPT !.blamed = @ \/ i \in same] \in Rules
      BY <1>1 DEF Rules
    <3> QED BY <3>1, <3>2
  <2> QED BY <2>1, <2>2
<1> HIDE DEF new, more
<1>4. new.rules = more /\ new.plans = r.plans
  BY <1>2
<1>5. IsLibrary(new)
  BY <1>2, <1>3, <1>4 DEF IsLibrary
<1> QED BY <1>5 DEF new

LEMMA Saved ==
  ASSUME Libraries, NEW l \in Loops, NEW new, IsLibrary(new), Save(l, new)
  PROVE  Libraries'
<1>1. disk' = new /\ lib' = [lib EXCEPT ![l] = new]
  BY DEF Save
<1>2. PerLoop(lib') /\ lib'[l] = new /\ \A k \in Loops \ {l} : lib'[k] = lib[k]
  BY <1>1 DEF Libraries, PerLoop
<1> QED BY <1>1, <1>2 DEF Libraries, PerLoop

LEMMA Recorded ==
  ASSUME OuterInv, NEW l \in Loops, NEW d, Record(l, d)
  PROVE  Libraries'
<1>1. IsLibrary(lib[l]) /\ project[l] \in Projects
  BY DEF OuterInv, Libraries, Shapes
<1> DEFINE new == [lib[l] EXCEPT !.plans = PutPlan(@, project[l], d)]
<1>2. IsLibrary(new)
  BY <1>1, PlanRecorded
<1>3. Save(l, new)
  BY DEF Record
<1> HIDE DEF new
<1> QED BY <1>2, <1>3, Saved DEF OuterInv

LEMMA NotSaved == ASSUME OuterInv, UNCHANGED library PROVE Libraries'
BY DEF OuterInv, Libraries, library, PerLoop

\* A loop goes from one stage to another.
LEMMA Moves ==
  ASSUME OuterInv, NEW l \in Loops, NEW to \in Stages, at' = [at EXCEPT ![l] = to]
  PROVE  at' \in [Loops -> Stages] /\ at'[l] = to /\ \A k \in Loops \ {l} : at'[k] = at[k]
BY DEF OuterInv, Shapes

(* Where no plan runs or is decided on, nothing is asked of the plans that ran.  *)
LEMMA Rests ==
  ASSUME OuterInv, NEW l \in Loops, at'[l] \in {"new", "idle", "raised", "exhausted"},
         ran' = ran, Counted(l)', Kept(l)'
  PROVE  LoopInv(l)'
<1>1. Verified(l)'
  BY DEF Verified
<1>2. Attempted(l)
  BY DEF OuterInv, LoopInv
<1>3. Attempted(l)'
  BY <1>2 DEF Attempted
<1> QED BY <1>1, <1>3 DEF LoopInv

LEMMA BuildKeeps == ASSUME OuterInv, NEW l \in Loops, Build(l) PROVE OuterInv'
<1>1. /\ at' = [at EXCEPT ![l] = "idle"] /\ lib' = [lib EXCEPT ![l] = disk] /\ disk' = disk
      /\ UNCHANGED <<project, projectDir, plan, idx, good, attempts, integration, result, written,
                     ran, executes>>
  BY DEF Build, Goto, attempt
<1>2. at' \in [Loops -> Stages] /\ at'[l] = "idle" /\ \A k \in Loops \ {l} : at'[k] = at[k]
  BY <1>1, Moves DEF Stages
<1>3. Others(l) /\ Grows
  BY <1>1, <1>2 DEF Others, Grows
<1>4. Libraries'
  <2>1. IsLibrary(disk) /\ Save(l, disk)
    BY <1>1 DEF OuterInv, Libraries, Save
  <2> QED BY <2>1, Saved DEF OuterInv
<1>5. Shapes'
  BY <1>1, <1>2 DEF OuterInv, Shapes, PerLoop
<1>6. LoopInv(l)'
  <2>1. Counted(l) /\ Kept(l)
    BY DEF OuterInv, LoopInv
  <2>2. Counted(l)'
    BY <1>1, <1>2, <2>1 DEF Counted
  <2>3. Kept(l)'
    BY <1>1, <2>1 DEF Kept
  <2> QED BY <1>1, <1>2, <2>2, <2>3, Rests
<1> QED BY <1>3, <1>4, <1>5, <1>6, StepKeeps

LEMMA ExecuteKeeps == ASSUME OuterInv, NEW l \in Loops, Execute(l) PROVE OuterInv'
<1>1. PICK p \in Assigned[l] : project' = [project EXCEPT ![l] = p]
  BY DEF Execute
<1>2. p \in Projects
  BY <1>1, OuterBounds
<1>3. /\ executes[l] < MaxExecutes /\ at' = [at EXCEPT ![l] = "decompose"]
      /\ executes' = [executes EXCEPT ![l] = @ + 1] /\ attempts' = [attempts EXCEPT ![l] = 0]
      /\ integration' = [integration EXCEPT ![l] = NotVerified]
      /\ result' = [result EXCEPT ![l] = NoResult] /\ ran' = [ran EXCEPT ![l] = <<>>]
      /\ UNCHANGED <<disk, lib, projectDir, plan, idx, good, written>>
  BY DEF Execute, Goto, attempt, library
<1>4. at' \in [Loops -> Stages] /\ at'[l] = "decompose" /\ \A k \in Loops \ {l} : at'[k] = at[k]
  BY <1>3, Moves DEF Stages
<1>5. Shapes
  BY DEF OuterInv
<1>6. /\ project' \in [Loops -> Projects] /\ executes' \in [Loops -> 0..MaxExecutes]
      /\ attempts' \in [Loops -> 0..MAX_RECHUNK_ATTEMPTS] /\ attempts'[l] = 0
      /\ \A k \in Loops \ {l} : project'[k] = project[k] /\ attempts'[k] = attempts[k]
  <2>1. project' \in [Loops -> Projects] /\ \A k \in Loops \ {l} : project'[k] = project[k]
    BY <1>1, <1>2, <1>5 DEF Shapes
  <2>2. executes' \in [Loops -> 0..MaxExecutes]
    <3>1. executes[l] + 1 \in 0..MaxExecutes
      BY <1>3, <1>5, OuterBounds DEF Shapes
    <3> QED BY <1>3, <1>5, <3>1 DEF Shapes
  <2>3. 0 \in 0..MAX_RECHUNK_ATTEMPTS
    BY OuterBounds
  <2>4. /\ attempts' \in [Loops -> 0..MAX_RECHUNK_ATTEMPTS] /\ attempts'[l] = 0
        /\ \A k \in Loops \ {l} : attempts'[k] = attempts[k]
    BY <1>3, <1>5, <2>3 DEF Shapes
  <2> QED BY <2>1, <2>2, <2>4
<1>7. /\ PerLoop(integration)' /\ PerLoop(result)' /\ PerLoop(ran)'
      /\ integration'[l] = NotVerified /\ result'[l] = NoResult /\ ran'[l] = <<>>
      /\ \A k \in Loops \ {l} : integration'[k] = integration[k] /\ result'[k] = result[k] /\ ran'[k] = ran[k]
  BY <1>3, <1>5 DEF Shapes, PerLoop
<1>8. Others(l) /\ Grows
  BY <1>3, <1>4, <1>6, <1>7 DEF Others, Grows
<1>9. Libraries'
  BY <1>3, NotSaved DEF library
<1>10. Shapes'
  BY <1>3, <1>4, <1>5, <1>6, <1>7 DEF Shapes, PerLoop
<1>11. LoopInv(l)'
  <2>1. NotVerified.passed = FALSE /\ NoResult.outcome = "none"
    BY DEF NotVerified, NoResult
  <2>2. Counted(l)' /\ Verified(l)' /\ Kept(l)'
    BY <1>3, <1>4, <1>7, <2>1 DEF OuterInv, LoopInv, Counted, Verified, Kept, Outcomes
  <2>3. Len(<<>>) = 0 /\ <<>> \in Seq(Range(<<>>))
    OBVIOUS
  <2>4. Attempted(l)'
    BY <1>4, <1>6, <1>7, <2>3, OuterBounds DEF Attempted
  <2> QED BY <2>2, <2>4 DEF LoopInv
<1> QED BY <1>8, <1>9, <1>10, <1>11, StepKeeps

LEMMA DecomposeKeeps == ASSUME OuterInv, NEW l \in Loops, Decompose(l) PROVE OuterInv'
<1>1. PICK d \in Decompositions(lib[l].rules, project[l]) :
        /\ Record(l, d) /\ plan' = [plan EXCEPT ![l] = d]
        /\ idx' = [idx EXCEPT ![l] = 0] /\ good' = [good EXCEPT ![l] = 0]
        /\ projectDir' = [projectDir EXCEPT ![l] = IF Len(d) = 1 THEN @ ELSE project[l]]
        /\ at' = [at EXCEPT ![l] = IF Len(d) = 1 THEN "fast" ELSE "chunks"]
  BY DEF Decompose, StartAttempt
<1>2. at[l] = "decompose" /\ UNCHANGED <<project, attempts, integration, result, written, ran, executes>>
  BY DEF Decompose
<1>3. PICK to \in {"fast", "chunks"} : at' = [at EXCEPT ![l] = to] /\ (to = "fast" => Len(d) = 1)
  BY <1>1
<1>4. at' \in [Loops -> Stages] /\ at'[l] = to /\ \A k \in Loops \ {l} : at'[k] = at[k]
  BY <1>3, Moves DEF Stages
<1>5. Shapes /\ LoopInv(l)
  BY DEF OuterInv
<1>6. IsPlan(d)
  BY <1>1, <1>5, DecompositionsArePlans DEF Shapes
<1>7. /\ PerLoop(plan') /\ plan'[l] = d /\ idx' \in [Loops -> Nat] /\ idx'[l] = 0
      /\ good' \in [Loops -> Nat] /\ good'[l] = 0
      /\ \A k \in Loops \ {l} : plan'[k] = plan[k] /\ idx'[k] = idx[k] /\ good'[k] = good[k]
  BY <1>1, <1>5 DEF Shapes, PerLoop
<1>8. projectDir' \in [Loops -> Projects \cup {None}]
  BY <1>1, <1>5 DEF Shapes
<1>9. Others(l) /\ Grows
  BY <1>2, <1>4, <1>7 DEF Others, Grows
<1>10. Libraries'
  BY <1>1, Recorded
<1>11. Shapes'
  BY <1>2, <1>4, <1>5, <1>7, <1>8 DEF Shapes, PerLoop
<1>12. LoopInv(l)'
  <2>1. Counted(l)'
    BY <1>2, <1>3, <1>4, <1>5, <1>6, <1>7 DEF LoopInv, Counted, IsPlan
  <2>2. Verified(l)' /\ Kept(l)'
    BY <1>2, <1>4, <1>5 DEF LoopInv, Verified, Kept
  <2>3. Attempted(l)'
    BY <1>2, <1>4, <1>5, OuterBounds DEF LoopInv, Attempted
  <2> QED BY <2>1, <2>2, <2>3 DEF LoopInv
<1> QED BY <1>9, <1>10, <1>11, <1>12, StepKeeps

LEMMA RaisesKeeps == ASSUME OuterInv, NEW l \in Loops, DecomposeRaises(l) PROVE OuterInv'
<1>1. /\ at' = [at EXCEPT ![l] = "raised"]
      /\ UNCHANGED <<disk, lib, project, projectDir, plan, idx, good, attempts, integration, result,
                     written, ran, executes>>
  BY DEF DecomposeRaises, library, attempt
<1>2. at' \in [Loops -> Stages] /\ at'[l] = "raised" /\ \A k \in Loops \ {l} : at'[k] = at[k]
  BY <1>1, Moves DEF Stages
<1>3. Others(l) /\ Grows
  BY <1>1, <1>2 DEF Others, Grows
<1>4. Libraries'
  BY <1>1, NotSaved DEF library
<1>5. Shapes'
  BY <1>1, <1>2 DEF OuterInv, Shapes, PerLoop
<1>6. LoopInv(l)'
  <2>1. Counted(l) /\ Kept(l)
    BY DEF OuterInv, LoopInv
  <2>2. Counted(l)'
    BY <1>1, <1>2, <2>1 DEF Counted
  <2>3. Kept(l)'
    BY <1>1, <2>1 DEF Kept
  <2> QED BY <1>1, <1>2, <2>2, <2>3, Rests
<1> QED BY <1>3, <1>4, <1>5, <1>6, StepKeeps

(* The coder of a chunk writes files where the loop's process stands.      *)
LEMMA WriteGrows ==
  ASSUME Shapes, NEW l \in Loops, NEW c, c.files \subseteq Paths, Write(l, c)
  PROVE  Grows /\ written' \in [Projects \cup {None} -> SUBSET Paths]
<1>1. PICK fs \in SUBSET c.files : written' = [written EXCEPT ![projectDir[l]] = @ \cup fs]
  BY DEF Write
<1>2. projectDir[l] \in Projects \cup {None}
  BY DEF Shapes
<1> QED BY <1>1, <1>2 DEF Shapes, Grows

\* A call returns with a result.
LEMMA Returns ==
  ASSUME Shapes, NEW l \in Loops, NEW from, NEW o \in Outcomes, NEW n, Return(l, from, o, n)
  PROVE  /\ at' = [at EXCEPT ![l] = "idle"] /\ at[l] = from
         /\ PerLoop(result') /\ result'[l].outcome = o /\ result'[l].plan = plan[l]
         /\ \A k \in Loops \ {l} : result'[k] = result[k]
<1> DEFINE res == [outcome |-> o, plan |-> plan[l], run |-> Len(plan[l]), succeeded |-> n]
<1>1. at' = [at EXCEPT ![l] = "idle"] /\ at[l] = from /\ result' = [result EXCEPT ![l] = res]
  BY DEF Return, Goto
<1>2. res.outcome = o /\ res.plan = plan[l]
  OBVIOUS
<1> HIDE DEF res
<1>3. PerLoop(result') /\ result'[l] = res /\ \A k \in Loops \ {l} : result'[k] = result[k]
  BY <1>1 DEF Shapes, PerLoop
<1> QED BY <1>1, <1>2, <1>3

LEMMA FastPathKeeps == ASSUME OuterInv, NEW l \in Loops, FastPath(l) PROVE OuterInv'
<1>1. PICK o \in {"fast_success", "fast_failure"}, n \in {0, 1} : Return(l, "fast", o, n)
  BY DEF FastPath
<1>2. /\ Write(l, plan[l][1]) /\ at[l] = "fast"
      /\ UNCHANGED <<disk, lib, project, projectDir, plan, idx, good, attempts, integration, ran,
                     executes>>
  BY DEF FastPath, library, attempt
<1>3. at' \in [Loops -> Stages] /\ at'[l] = "idle" /\ \A k \in Loops \ {l} : at'[k] = at[k]
  <2>1. at' = [at EXCEPT ![l] = "idle"]
    BY <1>1 DEF Return, Goto
  <2> QED BY <2>1, Moves DEF Stages
<1>4. /\ PerLoop(result') /\ result'[l].outcome = o
      /\ \A k \in Loops \ {l} : result'[k] = result[k]
  <2> DEFINE res == [outcome |-> o, plan |-> plan[l], run |-> Len(plan[l]), succeeded |-> n]
  <2>1. result' = [result EXCEPT ![l] = res] /\ PerLoop(result)
    BY <1>1 DEF Return, OuterInv, Shapes
  <2>2. res.outcome = o
    OBVIOUS
  <2> HIDE DEF res
  <2> QED BY <2>1, <2>2 DEF PerLoop
<1>5. Grows /\ written' \in [Projects \cup {None} -> SUBSET Paths]
  <2>1. plan[l][1].files \subseteq Paths
    BY <1>2 DEF OuterInv, LoopInv, Counted, IsPlan
  <2> QED BY <1>2, <2>1, WriteGrows DEF OuterInv
<1>6. Others(l) /\ Libraries'
  BY <1>2, <1>3, <1>4, NotSaved DEF Others, library
<1>7. Shapes'
  BY <1>2, <1>3, <1>4, <1>5 DEF OuterInv, Shapes, PerLoop
<1>8. LoopInv(l)'
  <2>1. Counted(l)' /\ Kept(l)'
    BY <1>2, <1>3, <1>4 DEF OuterInv, LoopInv, Counted, Kept, Outcomes
  <2> QED BY <1>2, <1>3, <2>1, Rests
<1> QED BY <1>5, <1>6, <1>7, <1>8, StepKeeps

LEMMA RunChunkKeeps == ASSUME OuterInv, NEW l \in Loops, RunChunk(l) PROVE OuterInv'
<1>1. /\ at[l] = "chunks" /\ idx[l] < Len(plan[l]) /\ Write(l, plan[l][idx[l] + 1])
      /\ idx' = [idx EXCEPT ![l] = @ + 1]
      /\ UNCHANGED <<disk, lib, at, project, projectDir, plan, attempts, integration, result, ran, executes>>
  BY DEF RunChunk, library
<1>2. PICK ok \in BOOLEAN : good' = [good EXCEPT ![l] = IF ok THEN @ + 1 ELSE @]
  BY DEF RunChunk
<1>3. Shapes /\ LoopInv(l) /\ idx[l] \in Nat /\ good[l] \in Nat /\ Len(plan[l]) \in Nat
  BY DEF OuterInv, Shapes, LoopInv, Counted, IsPlan
<1>4. /\ idx' \in [Loops -> Nat] /\ idx'[l] = idx[l] + 1 /\ \A k \in Loops \ {l} : idx'[k] = idx[k]
  BY <1>1, <1>3 DEF Shapes
<1>5. /\ good' \in [Loops -> Nat] /\ good'[l] \in {good[l], good[l] + 1}
      /\ \A k \in Loops \ {l} : good'[k] = good[k]
  BY <1>2, <1>3 DEF Shapes
<1>6. Grows /\ written' \in [Projects \cup {None} -> SUBSET Paths]
  <2>1. plan[l][idx[l] + 1].files \subseteq Paths
    BY <1>1, <1>3 DEF LoopInv, Counted, IsPlan
  <2> QED BY <1>1, <1>3, <2>1, WriteGrows
<1>7. Others(l) /\ Libraries'
  BY <1>1, <1>4, <1>5, NotSaved DEF Others, library
<1>8. Shapes'
  BY <1>1, <1>3, <1>4, <1>5, <1>6 DEF Shapes, PerLoop
<1>9. LoopInv(l)'
  <2>1. Counted(l)'
    BY <1>1, <1>3, <1>4, <1>5 DEF LoopInv, Counted
  <2>2. project[l] \in Projects
    BY <1>3 DEF Shapes
  <2>3. Kept(l)'
    BY <1>1, <1>3, <1>6, <2>2 DEF LoopInv, Kept, Grows
  <2>4. Verified(l)' /\ Attempted(l)'
    BY <1>1, <1>3 DEF LoopInv, Verified, Attempted
  <2> QED BY <2>1, <2>3, <2>4 DEF LoopInv
<1> QED BY <1>6, <1>7, <1>8, <1>9, StepKeeps

LEMMA VerifyKeeps == ASSUME OuterInv, NEW l \in Loops, VerifyIntegration(l) PROVE OuterInv'
<1>1. PICK found : /\ integration' = [integration EXCEPT ![l] = found]
                   /\ found.passed \in BOOLEAN /\ (found.passed => Missing(l) = {})
  <2>1. PICK i \in ImportSeams, c \in Contracts, t \in TestRuns, s \in SmokeTests :
          integration' = [integration EXCEPT ![l] =
                            [passed |-> Missing(l) = {} /\ Passes(i, c, t, s), missing |-> Missing(l),
                             imports |-> IF Missing(l) = {} THEN i ELSE "ok"]]
    BY DEF VerifyIntegration
  <2> DEFINE found == [passed |-> Missing(l) = {} /\ Passes(i, c, t, s), missing |-> Missing(l),
                       imports |-> IF Missing(l) = {} THEN i ELSE "ok"]
  <2>2. found.passed = (Missing(l) = {} /\ Passes(i, c, t, s))
    OBVIOUS
  <2>3. found.passed \in BOOLEAN /\ (found.passed => Missing(l) = {})
    BY <2>2
  <2> HIDE DEF found
  <2> QED BY <2>1, <2>3 DEF found
<1>2. /\ at[l] = "chunks" /\ at' = [at EXCEPT ![l] = "decide"] /\ ran' = [ran EXCEPT ![l] = Append(@, plan[l])]
      /\ UNCHANGED <<disk, lib, project, projectDir, plan, idx, good, attempts, result, written, executes>>
  BY DEF VerifyIntegration, library, attempt
<1>3. at' \in [Loops -> Stages] /\ at'[l] = "decide" /\ \A k \in Loops \ {l} : at'[k] = at[k]
  BY <1>2, Moves DEF Stages
<1>4. Shapes /\ LoopInv(l)
  BY DEF OuterInv
<1>5. /\ PerLoop(integration') /\ integration'[l] = found
      /\ \A k \in Loops \ {l} : integration'[k] = integration[k]
  BY <1>1, <1>4 DEF Shapes, PerLoop
<1>6. /\ PerLoop(ran') /\ ran'[l] = Append(ran[l], plan[l])
      /\ \A k \in Loops \ {l} : ran'[k] = ran[k]
  BY <1>2, <1>4 DEF Shapes, PerLoop
<1>7. Others(l) /\ Libraries' /\ Grows
  BY <1>2, <1>3, <1>5, <1>6, NotSaved DEF Others, library, Grows
<1>8. Shapes'
  BY <1>2, <1>3, <1>4, <1>5, <1>6 DEF Shapes, PerLoop
<1>9. Counted(l)' /\ Verified(l)' /\ Kept(l)'
  BY <1>1, <1>2, <1>3, <1>4, <1>5 DEF LoopInv, Counted, Verified, Kept, Missing
<1>10. Attempted(l)'
  <2> DEFINE n == Len(ran[l])
             t == ran'[l]
  <2>1. /\ t \in Seq(Range(t)) /\ Len(t) = n + 1 /\ \A i \in 1..n : t[i] = ran[l][i]
        /\ t[n + 1] = plan[l]
    BY <1>4, <1>6, Appended DEF LoopInv, Attempted
  <2>2. /\ n \in Nat /\ n = attempts[l] /\ n < MAX_RECHUNK_ATTEMPTS
        /\ n > 0 => ~Identical(ran[l][n], plan[l])
        /\ \A i \in 1..(n - 1) : ~Identical(ran[l][i], ran[l][i + 1])
    BY <1>2, <1>4 DEF LoopInv, Attempted
  <2> HIDE DEF n, t
  <2>3. \A i \in 1..n : ~Identical(t[i], t[i + 1])
    <3>1. TAKE i \in 1..n
    <3>2. CASE i = n
      BY <2>1, <2>2, <3>2
    <3>3. CASE i # n
      <4>1. i \in 1..(n - 1) /\ i + 1 \in 1..n
        BY <2>2, <3>3
      <4> QED BY <2>1, <2>2, <4>1
    <3> QED BY <3>2, <3>3
  <2>4. n + 1 <= MAX_RECHUNK_ATTEMPTS /\ (n + 1) - 1 = n
    BY <2>2, OuterBounds
  <2> QED BY <1>2, <1>3, <2>1, <2>2, <2>3, <2>4 DEF Attempted, t, n
<1> QED BY <1>7, <1>8, <1>9, <1>10, StepKeeps DEF LoopInv

LEMMA AcceptKeeps == ASSUME OuterInv, NEW l \in Loops, Accept(l) PROVE OuterInv'
<1>1. /\ Acceptable(l) /\ Return(l, "decide", "success", good[l]) /\ Record(l, plan[l])
      /\ UNCHANGED <<project, projectDir, plan, idx, good, attempts, integration, written, ran, executes>>
  BY DEF Accept, attempt
<1>2. Shapes /\ LoopInv(l) /\ at[l] = "decide" /\ at' = [at EXCEPT ![l] = "idle"]
  BY <1>1 DEF OuterInv, Return, Goto
<1>3. at' \in [Loops -> Stages] /\ at'[l] = "idle" /\ \A k \in Loops \ {l} : at'[k] = at[k]
  BY <1>2, Moves DEF Stages
<1>4. /\ PerLoop(result') /\ result'[l].outcome = "success" /\ result'[l].plan = plan[l]
      /\ \A k \in Loops \ {l} : result'[k] = result[k]
  <2>1. "success" \in Outcomes
    BY DEF Outcomes
  <2> QED BY <1>1, <1>2, <2>1, Returns
<1>5. Others(l) /\ Grows /\ Libraries'
  BY <1>1, <1>3, <1>4, Recorded DEF Others, Grows
<1>6. Shapes'
  BY <1>1, <1>2, <1>3, <1>4 DEF Shapes, PerLoop
<1>7. Counted(l)'
  BY <1>1, <1>2, <1>3, <1>4 DEF LoopInv, Counted, Outcomes
<1>8. Kept(l)'
  <2>1. HasCrossDeps(plan[l]) => Missing(l) = {}
    BY <1>1, <1>2 DEF Acceptable, LoopInv, Verified
  <2>2. HasCrossDeps(plan[l]) => UNION {plan[l][i].files : i \in DOMAIN plan[l]} \subseteq written[project[l]]
    BY <2>1 DEF Missing
  <2> QED BY <1>1, <1>4, <2>2 DEF Kept
<1> QED BY <1>1, <1>3, <1>5, <1>6, <1>7, <1>8, Rests, StepKeeps

LEMMA RejectKeeps == ASSUME OuterInv, NEW l \in Loops, Reject(l) PROVE OuterInv'
<1>1. /\ at[l] = "decide" /\ attempts' = [attempts EXCEPT ![l] = @ + 1] /\ Learn(l)
      /\ at' = [at EXCEPT ![l] = IF attempts[l] + 1 >= MAX_RECHUNK_ATTEMPTS THEN "exhausted" ELSE "rechunk"]
      /\ UNCHANGED <<project, projectDir, plan, idx, good, integration, result, written, ran, executes>>
  BY DEF Reject, Goto, attempt
<1>2. Shapes /\ LoopInv(l)
  BY DEF OuterInv
<1>3. PICK to \in {"exhausted", "rechunk"} :
        at' = [at EXCEPT ![l] = to] /\ (to = "rechunk" => ~(attempts[l] + 1 >= MAX_RECHUNK_ATTEMPTS))
  BY <1>1
<1>4. at' \in [Loops -> Stages] /\ at'[l] = to /\ \A k \in Loops \ {l} : at'[k] = at[k]
  BY <1>3, Moves DEF Stages
<1>5. attempts[l] \in Nat /\ attempts[l] + 1 = Len(ran[l]) /\ Len(ran[l]) <= MAX_RECHUNK_ATTEMPTS
  BY <1>1, <1>2, OuterBounds DEF Shapes, LoopInv, Attempted
<1>6. /\ attempts' \in [Loops -> 0..MAX_RECHUNK_ATTEMPTS] /\ attempts'[l] = attempts[l] + 1
      /\ \A k \in Loops \ {l} : attempts'[k] = attempts[k]
  <2>1. attempts[l] + 1 \in 0..MAX_RECHUNK_ATTEMPTS
    BY <1>5, OuterBounds
  <2> QED BY <1>1, <1>2, <2>1 DEF Shapes
<1>7. Libraries'
  <2>1. CASE UNCHANGED library
    BY <2>1, NotSaved
  <2>2. ASSUME NEW lesson \in Lessons, Save(l, [lib[l] EXCEPT !.rules = Learned(@, lesson)])
        PROVE  Libraries'
    <3> DEFINE new == [lib[l] EXCEPT !.rules = Learned(@, lesson)]
    <3>1. IsLibrary(new)
      BY RuleLearned DEF OuterInv, Libraries
    <3> HIDE DEF new
    <3>2. Save(l, new)
      BY <2>2 DEF new
    <3> QED BY <3>1, <3>2, Saved DEF OuterInv
  <2> QED BY <1>1, <2>1, <2>2 DEF Learn
<1>8. Others(l) /\ Grows
  BY <1>1, <1>4, <1>6 DEF Others, Grows
<1>9. Shapes'
  BY <1>1, <1>2, <1>4, <1>6 DEF Shapes, PerLoop
<1>10. Counted(l)' /\ Kept(l)' /\ Verified(l)'
  <2>1. Counted(l)'
    BY <1>1, <1>2, <1>4 DEF LoopInv, Counted
  <2>2. Kept(l)'
    BY <1>1, <1>2 DEF LoopInv, Kept
  <2>3. Verified(l)'
    BY <1>4 DEF Verified
  <2> QED BY <2>1, <2>2, <2>3
<1>11. Attempted(l)'
  <2>1. to = "rechunk" => attempts[l] + 1 < MAX_RECHUNK_ATTEMPTS
    BY <1>3, <1>5, OuterBounds
  <2>2. Attempted(l)
    BY <1>2 DEF LoopInv
  <2>3. Len(ran[l]) = attempts'[l] /\ 0 < Len(ran[l]) /\ ran[l][Len(ran[l])] = plan[l]
    BY <1>1, <1>5, <1>6, <2>2 DEF Attempted
  <2> QED BY <1>1, <1>4, <1>5, <2>1, <2>2, <2>3 DEF Attempted
<1> QED BY <1>7, <1>8, <1>9, <1>10, <1>11, StepKeeps DEF LoopInv

LEMMA RechunkKeeps == ASSUME OuterInv, NEW l \in Loops, Rechunk(l) PROVE OuterInv'
<1>1. PICK d \in Decompositions(lib[l].rules, project[l]) : RechunkAs(l, d, Identical(plan[l], d))
  BY DEF Rechunk
<1> DEFINE stop == Identical(plan[l], d)
<1>2. /\ Record(l, d) /\ plan' = [plan EXCEPT ![l] = d]
      /\ at' = [at EXCEPT ![l] = IF stop THEN "exhausted" ELSE "chunks"]
      /\ idx' = [idx EXCEPT ![l] = IF stop THEN @ ELSE 0]
      /\ good' = [good EXCEPT ![l] = IF stop THEN @ ELSE 0]
      /\ UNCHANGED <<project, projectDir, attempts, integration, result, written, ran, executes>>
  BY <1>1 DEF RechunkAs
<1>3. at[l] = "rechunk" /\ Shapes /\ LoopInv(l)
  BY DEF Rechunk, OuterInv
<1>4. IsPlan(d)
  BY <1>3, DecompositionsArePlans DEF Shapes
<1>5. stop => Len(plan[l]) = Len(d)
  BY DEF Identical
<1>6. Libraries'
  BY <1>2, Recorded
<1> HIDE DEF stop
<1>7. PICK to \in {"exhausted", "chunks"} : at' = [at EXCEPT ![l] = to] /\ (to = "exhausted" <=> stop)
  BY <1>2
<1>8. at' \in [Loops -> Stages] /\ at'[l] = to /\ \A k \in Loops \ {l} : at'[k] = at[k]
  BY <1>7, Moves DEF Stages
<1>9. /\ PerLoop(plan') /\ plan'[l] = d /\ \A k \in Loops \ {l} : plan'[k] = plan[k]
  BY <1>2, <1>3 DEF Shapes, PerLoop
<1>10. /\ idx' \in [Loops -> Nat] /\ good' \in [Loops -> Nat]
       /\ (stop => idx'[l] = idx[l] /\ good'[l] = good[l])
       /\ (~stop => idx'[l] = 0 /\ good'[l] = 0)
       /\ \A k \in Loops \ {l} : idx'[k] = idx[k] /\ good'[k] = good[k]
  BY <1>2, <1>3 DEF Shapes
<1>11. Others(l) /\ Grows
  BY <1>2, <1>8, <1>9, <1>10 DEF Others, Grows
<1>12. Shapes'
  BY <1>2, <1>3, <1>8, <1>9, <1>10 DEF Shapes, PerLoop
<1>13. Counted(l)'
  <2>1. /\ IsPlan(plan'[l]) /\ integration'[l].passed \in BOOLEAN /\ result'[l].outcome \in Outcomes
        /\ at'[l] # "fast"
    BY <1>2, <1>3, <1>4, <1>8, <1>9 DEF LoopInv, Counted
  <2>2. CASE stop
    BY <1>3, <1>5, <1>9, <1>10, <2>1, <2>2 DEF LoopInv, Counted
  <2>3. CASE ~stop
    BY <1>4, <1>9, <1>10, <2>1, <2>3 DEF Counted, IsPlan
  <2> QED BY <2>2, <2>3
<1>14. Kept(l)' /\ Verified(l)'
  BY <1>2, <1>3, <1>8 DEF LoopInv, Kept, Verified
<1>15. Attempted(l)'
  <2>1. Attempted(l) /\ (to = "chunks" => ~Identical(plan[l], d))
    BY <1>3, <1>7 DEF LoopInv, stop
  <2> QED BY <1>2, <1>3, <1>8, <1>9, <2>1 DEF Attempted
<1> QED BY <1>6, <1>11, <1>12, <1>13, <1>14, <1>15, StepKeeps DEF LoopInv

LEMMA GiveUpKeeps == ASSUME OuterInv, NEW l \in Loops, GiveUp(l) PROVE OuterInv'
<1>1. /\ Return(l, "exhausted", "failure", good[l])
      /\ UNCHANGED <<disk, lib, project, projectDir, plan, idx, good, attempts, integration, written,
                     ran, executes>>
  BY DEF GiveUp, attempt, library
<1>2. Shapes /\ LoopInv(l) /\ at' = [at EXCEPT ![l] = "idle"]
  BY <1>1 DEF OuterInv, Return, Goto
<1>3. at' \in [Loops -> Stages] /\ at'[l] = "idle" /\ \A k \in Loops \ {l} : at'[k] = at[k]
  BY <1>2, Moves DEF Stages
<1>4. /\ PerLoop(result') /\ result'[l].outcome = "failure"
      /\ \A k \in Loops \ {l} : result'[k] = result[k]
  <2>1. "failure" \in Outcomes
    BY DEF Outcomes
  <2> QED BY <1>1, <1>2, <2>1, Returns
<1>5. Others(l) /\ Grows /\ Libraries'
  BY <1>1, <1>3, <1>4, NotSaved DEF Others, Grows, library
<1>6. Shapes'
  BY <1>1, <1>2, <1>3, <1>4 DEF Shapes, PerLoop
<1>7. Counted(l)'
  BY <1>1, <1>2, <1>3, <1>4 DEF LoopInv, Counted, Outcomes
<1>8. Kept(l)'
  BY <1>4 DEF Kept
<1> QED BY <1>1, <1>3, <1>5, <1>6, <1>7, <1>8, Rests, StepKeeps

LEMMA OuterInitially == OuterInit => OuterInv
<1> SUFFICES ASSUME OuterInit PROVE OuterInv
  OBVIOUS
<1>1. Shapes
  <2>1. (CHOOSE p \in Projects : TRUE) \in Projects
    BY OuterAssumption
  <2>2. 0 \in 0..MAX_RECHUNK_ATTEMPTS /\ 0 \in 0..MaxExecutes
    BY OuterBounds
  <2>3. /\ at \in [Loops -> Stages] /\ project \in [Loops -> Projects]
        /\ projectDir \in [Loops -> Projects \cup {None}]
    BY <2>1 DEF OuterInit, Stages
  <2>4. /\ idx \in [Loops -> Nat] /\ good \in [Loops -> Nat]
        /\ attempts \in [Loops -> 0..MAX_RECHUNK_ATTEMPTS] /\ executes \in [Loops -> 0..MaxExecutes]
        /\ written \in [Projects \cup {None} -> SUBSET Paths]
    BY <2>2 DEF OuterInit
  <2>5. PerLoop(plan) /\ PerLoop(integration) /\ PerLoop(result) /\ PerLoop(ran)
    BY DEF OuterInit, PerLoop
  <2> QED BY <2>3, <2>4, <2>5 DEF Shapes
<1>2. Libraries
  <2> DEFINE none == [p \in {} |-> NoPlan]
  <2>1. disk = [rules |-> InitialRules, plans |-> none] /\ lib = [l \in Loops |-> disk]
    BY DEF OuterInit
  <2>2. DOMAIN none = {}
    OBVIOUS
  <2> HIDE DEF none
  <2>3. disk.rules = InitialRules /\ disk.plans = none
    BY <2>1
  <2>4. IsLibrary(disk)
    BY <2>1, <2>2, <2>3, OuterAssumption DEF IsLibrary
  <2> QED BY <2>1, <2>4 DEF Libraries, PerLoop
<1>3. ASSUME NEW l \in Loops PROVE LoopInv(l)
  <2>1. /\ at[l] = "new" /\ plan[l] = NoPlan /\ idx[l] = 0 /\ good[l] = 0 /\ ran[l] = <<>>
        /\ integration[l] = NotVerified /\ result[l] = NoResult
    BY DEF OuterInit
  <2>2. NotVerified.passed = FALSE /\ NoResult.outcome = "none"
    BY DEF NotVerified, NoResult
  <2>3. Counted(l) /\ Verified(l) /\ Kept(l)
    <3>1. Counted(l)
      <4>1. IsPlan(plan[l]) /\ idx[l] <= Len(plan[l]) /\ good[l] <= idx[l] /\ at[l] # "fast"
        BY <2>1, EmptyPlan
      <4>2. integration[l].passed \in BOOLEAN /\ result[l].outcome \in Outcomes
        BY <2>1, <2>2 DEF Outcomes
      <4> QED BY <4>1, <4>2 DEF Counted
    <3>2. Verified(l)
      BY <2>1 DEF Verified
    <3>3. Kept(l)
      BY <2>1, <2>2 DEF Kept
    <3> QED BY <3>1, <3>2, <3>3
  <2>4. Len(<<>>) = 0 /\ <<>> \in Seq(Range(<<>>))
    OBVIOUS
  <2>5. Attempted(l)
    BY <2>1, <2>4, OuterBounds DEF Attempted
  <2> QED BY <2>3, <2>5 DEF LoopInv
<1> QED BY <1>1, <1>2, <1>3 DEF OuterInv

LEMMA OuterAlways == OuterSpec => []OuterInv
<1>1. ASSUME OuterInv, UNCHANGED outerVars PROVE OuterInv'
  <2>1. UNCHANGED <<disk, lib, at, project, projectDir, plan, idx, good, attempts, integration, result,
                    written, ran, executes>>
    BY <1>1 DEF outerVars, library, attempt
  <2>2. Shapes' /\ Libraries'
    BY <1>1, <2>1 DEF OuterInv, Shapes, Libraries, PerLoop
  <2>3. ASSUME NEW l \in Loops PROVE LoopInv(l)'
    <3>1. LoopInv(l)
      BY <1>1 DEF OuterInv
    <3>2. Counted(l)' /\ Attempted(l)'
      BY <2>1, <3>1 DEF LoopInv, Counted, Attempted
    <3>3. Verified(l)' /\ Kept(l)'
      BY <2>1, <3>1 DEF LoopInv, Verified, Kept, Missing
    <3> QED BY <3>2, <3>3 DEF LoopInv
  <2> QED BY <2>2, <2>3 DEF OuterInv
<1>2. OuterInv /\ [OuterNext]_outerVars => OuterInv'
  BY <1>1, BuildKeeps, ExecuteKeeps, DecomposeKeeps, RaisesKeeps, FastPathKeeps, RunChunkKeeps,
     VerifyKeeps, AcceptKeeps, RejectKeeps, RechunkKeeps, GiveUpKeeps
     DEF OuterNext, LoopStep, AllFinished
<1> QED BY <1>2, OuterInitially, PTL DEF OuterSpec

(* Whatever the specifications, the answers of the models, the rules that  *)
(* are learned and the loops that share the library: every variable has    *)
(* its type.                                                               *)
THEOREM OuterLoopsTyped == OuterSpec => []OuterTypeOK
<1>1. OuterInv => OuterTypeOK
  <2> SUFFICES ASSUME OuterInv PROVE OuterTypeOK
    OBVIOUS
  <2>1. \A r \in {disk} \cup {lib[l] : l \in Loops} : IsLibrary(r)
    BY DEF OuterInv, Libraries
  <2>2. \A l \in Loops : /\ idx[l] \in 0..Len(plan[l]) /\ good[l] \in 0..idx[l]
                         /\ integration[l].passed \in BOOLEAN /\ result[l].outcome \in Outcomes
    BY DEF OuterInv, Shapes, LoopInv, Counted, IsPlan
  <2> QED BY <2>1, <2>2 DEF OuterInv, Shapes, Stages, IsLibrary, OuterTypeOK
<1> QED BY <1>1, OuterAlways, PTL

(* A project whose chunks depend on one another is never accepted without  *)
(* a file its plan names (outer_loop/orchestrator.py:173-213), even where  *)
(* several loops write in its directory.                                   *)
THEOREM AcceptedWithFiles == OuterSpec => []AcceptedFilesExist
<1>1. OuterInv => AcceptedFilesExist
  BY DEF OuterInv, LoopInv, Kept, AcceptedFilesExist
<1> QED BY <1>1, OuterAlways, PTL

(* No plan runs again right after it was rejected, and no more run than    *)
(* attempts are allowed (outer_loop/orchestrator.py:215-251).              *)
THEOREM NoPlanRunsAgain == OuterSpec => []AttemptsDiffer
<1>1. OuterInv => AttemptsDiffer
  BY DEF OuterInv, LoopInv, Attempted, AttemptsDiffer
<1> QED BY <1>1, OuterAlways, PTL

-----------------------------------------------------------------------------
(* Induction, on sets of numbers: < is well-founded on them.               *)
LEMMA Least ==
  ASSUME NEW T \in SUBSET Nat, T # {}
  PROVE  \E x \in T : \A y \in T : x <= y
<1> DEFINE R == OpToRel(<, Nat)
<1>1. IsWellFoundedOn(R, Nat)
  BY NatLessThanWellFounded
<1>2. \A x, y \in Nat : x < y => <<x, y>> \in R
  BY DEF OpToRel
<1> HIDE DEF R
<1>3. PICK x \in T : \A y \in T : ~(<<y, x>> \in R)
  BY <1>1, WFMin
<1>4. \A y \in T : ~(y < x)
  BY <1>2, <1>3
<1> QED BY <1>4

LEMMA Induct ==
  ASSUME NEW S, 0 \in S, \A n \in Nat : n \in S => n + 1 \in S
  PROVE  \A n \in Nat : n \in S
<1> DEFINE T == Nat \ S
<1> SUFFICES ASSUME T # {} PROVE FALSE
  OBVIOUS
<1>1. PICK x \in T : \A y \in T : x <= y
  <2> HIDE DEF T
  <2>1. T \in SUBSET Nat
    BY DEF T
  <2> QED BY <2>1, Least
<1>2. x - 1 \in Nat /\ x - 1 \in S
  BY <1>1
<1>3. (x - 1) + 1 = x
  BY <1>1
<1> QED BY <1>1, <1>2, <1>3

LEMMA InductTo ==
  ASSUME NEW n \in Nat, NEW S, 0 \in S, \A i \in 1..n : i - 1 \in S => i \in S
  PROVE  \A i \in 0..n : i \in S
<1> DEFINE T == S \cup {i \in Nat : i > n}
<1>1. 0 \in T
  OBVIOUS
<1>2. ASSUME NEW i \in Nat, i \in T PROVE i + 1 \in T
  <2>1. CASE i + 1 > n
    BY <2>1
  <2>2. CASE i + 1 <= n
    <3>1. i + 1 \in 1..n /\ (i + 1) - 1 \in S /\ i + 1 \in Nat
      BY <1>2, <2>2
    <3> QED BY <3>1
  <2> QED BY <2>1, <2>2
<1> HIDE DEF T
<1>3. \A i \in Nat : i \in T
  BY <1>1, <1>2, Induct
<1> QED BY <1>3 DEF T

(* What is defined from each value to the next is defined.                 *)
Stepwise(g, n, b, step) == g = [i \in 0..n |-> IF i = 0 THEN b ELSE step[<<i, g[i - 1]>>]]
LEMMA Recursion ==
  ASSUME NEW n \in Nat, NEW V, NEW b \in V, NEW step \in [(1..n) \X V -> V]
  PROVE  \E g \in [0..n -> V] : Stepwise(g, n, b, step)
<1> DEFINE Upto(m, g) == g \in [0..m -> V] /\ g[0] = b /\ \A i \in 1..m : g[i] = step[<<i, g[i - 1]>>]
           S == {m \in 0..n : \E g : Upto(m, g)}
<1>1. 0 \in S
  <2> DEFINE h == [i \in 0..0 |-> b]
  <2>1. h \in [0..0 -> V] /\ h[0] = b
    OBVIOUS
  <2>2. 0 \in 0..n /\ \A i \in 1..0 : h[i] = step[<<i, h[i - 1]>>]
    OBVIOUS
  <2> HIDE DEF h
  <2>3. Upto(0, h)
    BY <2>1, <2>2
  <2> HIDE DEF Upto
  <2> QED BY <2>2, <2>3
<1>2. ASSUME NEW m \in 1..n, m - 1 \in S PROVE m \in S
  <2>1. PICK g : Upto(m - 1, g)
    BY <1>2
  <2>2. g \in [0..(m - 1) -> V] /\ g[0] = b /\ \A i \in 1..(m - 1) : g[i] = step[<<i, g[i - 1]>>]
    BY <2>1
  <2>3. g[m - 1] \in V /\ <<m, g[m - 1]>> \in (1..n) \X V
    BY <2>2
  <2> DEFINE h == [i \in 0..m |-> IF i = m THEN step[<<m, g[m - 1]>>] ELSE g[i]]
  <2>4. \A i \in 0..m : i # m => i \in 0..(m - 1)
    OBVIOUS
  <2>5. h \in [0..m -> V]
    BY <2>2, <2>3, <2>4
  <2>6. h[0] = b
    BY <2>2
  <2>7. ASSUME NEW i \in 1..m PROVE h[i] = step[<<i, h[i - 1]>>]
    <3>1. i \in 0..m /\ i - 1 \in 0..m /\ i - 1 # m
      OBVIOUS
    <3>2. h[i - 1] = g[i - 1]
      BY <3>1
    <3>3. CASE i = m
      BY <3>1, <3>2, <3>3
    <3>4. CASE i # m
      <4>1. i \in 1..(m - 1) /\ h[i] = g[i]
        BY <3>1, <3>4
      <4> HIDE DEF h
      <4> QED BY <2>2, <3>2, <4>1
    <3> QED BY <3>3, <3>4
  <2> HIDE DEF h
  <2>8. Upto(m, h)
    BY <2>5, <2>6, <2>7
  <2>9. m \in 0..n
    OBVIOUS
  <2> QED BY <2>8, <2>9
<1> HIDE DEF S
<1>3. \A i \in 0..n : i \in S
  BY <1>1, <1>2, InductTo
<1>4. n \in S
  BY <1>3
<1>5. PICK g : Upto(n, g)
  BY <1>4 DEF S
<1>6. g \in [0..n -> V] /\ g[0] = b /\ \A i \in 1..n : g[i] = step[<<i, g[i - 1]>>]
  BY <1>5
<1>7. \A i \in 0..n : g[i] = IF i = 0 THEN b ELSE step[<<i, g[i - 1]>>]
  BY <1>6
<1> QED BY <1>6, <1>7 DEF Stepwise

LEMMA SumTyped == AverageOutput \in Nat /\ AverageOutput > 0
<1> DEFINE P(s) == s = [i \in 0..Len(Refs) |-> IF i = 0 THEN 0 ELSE s[i - 1] + OutTokens[Refs[i]]]
           sum == CHOOSE s : P(s)
           step == [p \in (1..Len(Refs)) \X Nat |-> p[2] + OutTokens[Refs[p[1]]]]
<1>1. Len(Refs) \in Nat /\ Len(Refs) > 1 /\ \A i \in 1..Len(Refs) : OutTokens[Refs[i]] \in Nat
  BY RefsAssumption DEF Files, Range
<1>2. step \in [(1..Len(Refs)) \X Nat -> Nat]
  BY <1>1
<1>3. \E g \in [0..Len(Refs) -> Nat] : Stepwise(g, Len(Refs), 0, step)
  <2> HIDE DEF step
  <2>1. 0 \in Nat
    OBVIOUS
  <2>2. Len(Refs) \in Nat BY <1>1
  <2> QED BY <2>2, <1>2, <2>1, Recursion
<1>4. PICK g \in [0..Len(Refs) -> Nat] :
        \A i \in 0..Len(Refs) : g[i] = IF i = 0 THEN 0 ELSE step[<<i, g[i - 1]>>]
  <2> HIDE DEF step
  <2> QED BY <1>3 DEF Stepwise
<1>5. ASSUME NEW i \in 0..Len(Refs), i # 0 PROVE step[<<i, g[i - 1]>>] = g[i - 1] + OutTokens[Refs[i]]
  <2>1. i - 1 \in 0..Len(Refs) /\ i \in 1..Len(Refs)
    BY <1>1, <1>5
  <2>2. <<i, g[i - 1]>> \in (1..Len(Refs)) \X Nat
    BY <2>1
  <2> QED BY <2>2
<1> HIDE DEF step
<1>6. P(g)
  BY <1>4, <1>5
<1>7. P(sum)
  <2> HIDE DEF P
  <2> QED BY <1>6, Zenon
<1>8. AverageOutput = Larger(1, sum[Len(Refs)] \div Len(Refs))
  BY Zenon DEF AverageOutput
<1> HIDE DEF sum
<1>9. \A i \in 0..Len(Refs) : i \in {j \in 0..Len(Refs) : sum[j] \in Nat}
  <2> DEFINE S == {j \in 0..Len(Refs) : sum[j] \in Nat}
  <2>1. 0 \in S
    BY <1>1, <1>7
  <2>2. ASSUME NEW i \in 1..Len(Refs), i - 1 \in S PROVE i \in S
    <3>1. sum[i] = sum[i - 1] + OutTokens[Refs[i]]
      BY <1>1, <1>7
    <3>2. sum[i - 1] \in Nat /\ OutTokens[Refs[i]] \in Nat /\ i \in 0..Len(Refs)
      BY <1>1, <2>2
    <3> QED BY <3>1, <3>2
  <2> HIDE DEF S
  <2>3. \A i \in 0..Len(Refs) : i \in S
    BY <1>1, <2>1, <2>2, InductTo
  <2> QED BY <2>3 DEF S
<1> QED BY <1>1, <1>8, <1>9 DEF Larger

-----------------------------------------------------------------------------
(* Sequences of sequences: what they hold, and when no element of theirs   *)
(* has two places.                                                         *)
Held(ss) == UNION {Range(ss[i]) : i \in DOMAIN ss}
Apart(ss) ==
  /\ \A i \in DOMAIN ss : IsInjective(ss[i])
  /\ \A i, j \in DOMAIN ss : i # j => Range(ss[i]) \cap Range(ss[j]) = {}

LEMMA Concat ==
  ASSUME NEW T, NEW s \in Seq(T), NEW t \in Seq(T)
  PROVE  /\ s \o t \in Seq(T) /\ Len(s \o t) = Len(s) + Len(t)
         /\ Range(s \o t) = Range(s) \cup Range(t)
         /\ IsInjective(s) /\ IsInjective(t) /\ Range(s) \cap Range(t) = {} => IsInjective(s \o t)
<1>1. s \o t \in Seq(T) /\ Len(s \o t) = Len(s) + Len(t)
  OBVIOUS
<1>2. \A i \in 1..Len(s) : (s \o t)[i] = s[i]
  OBVIOUS
<1>3. \A i \in 1..Len(t) : (s \o t)[Len(s) + i] = t[i]
  OBVIOUS
<1>4. \A i \in DOMAIN (s \o t) : i \in 1..Len(s) \/ (i - Len(s) \in 1..Len(t) /\ i = Len(s) + (i - Len(s)))
  BY <1>1
<1>5. \A i \in 1..Len(s) : i \in DOMAIN (s \o t)
  BY <1>1
<1>6. \A i \in 1..Len(t) : Len(s) + i \in DOMAIN (s \o t)
  BY <1>1
<1>7. DOMAIN s = 1..Len(s) /\ DOMAIN t = 1..Len(t)
  OBVIOUS
<1> DEFINE u == s \o t
<1> HIDE DEF u
<1>8. Range(u) = Range(s) \cup Range(t)
  <2>1. ASSUME NEW x \in Range(u) PROVE x \in Range(s) \cup Range(t)
    <3>1. PICK i \in DOMAIN u : u[i] = x
      BY <2>1 DEF Range
    <3> QED BY <1>2, <1>3, <1>4, <1>7, <3>1 DEF Range, u
  <2>2. ASSUME NEW x \in Range(s) PROVE x \in Range(u)
    BY <1>2, <1>5, <1>7 DEF Range, u
  <2>3. ASSUME NEW x \in Range(t) PROVE x \in Range(u)
    BY <1>3, <1>6, <1>7 DEF Range, u
  <2> QED BY <2>1, <2>2, <2>3
<1>9. ASSUME IsInjective(s), IsInjective(t), Range(s) \cap Range(t) = {},
             NEW i \in DOMAIN u, NEW j \in DOMAIN u, u[i] = u[j]
      PROVE  i = j
  <2>1. CASE i \in 1..Len(s) /\ j \in 1..Len(s)
    BY <1>2, <1>7, <1>9, <2>1 DEF IsInjective, u
  <2>2. CASE i - Len(s) \in 1..Len(t) /\ j - Len(s) \in 1..Len(t)
    <3>1. u[i] = t[i - Len(s)] /\ u[j] = t[j - Len(s)]
      BY <1>3, <1>4, <2>2 DEF u
    <3>2. i - Len(s) = j - Len(s)
      BY <1>7, <1>9, <2>2, <3>1 DEF IsInjective
    <3> QED BY <1>1, <3>2 DEF u
  <2>3. ASSUME NEW k \in 1..Len(s), NEW m \in DOMAIN u, m - Len(s) \in 1..Len(t) PROVE u[k] # u[m]
    <3>1. u[k] \in Range(s)
      BY <1>2, <1>7 DEF Range, u
    <3>2. u[m] = t[m - Len(s)]
      BY <1>3, <1>4, <2>3 DEF u
    <3>3. u[m] \in Range(t)
      BY <1>7, <2>3, <3>2 DEF Range
    <3> QED BY <1>9, <3>1, <3>3
  <2> QED BY <1>4, <1>9, <2>1, <2>2, <2>3 DEF u
<1> QED BY <1>1, <1>8, <1>9 DEF IsInjective, u

LEMMA JoinedGrows ==
  ASSUME NEW T, NEW ss \in Seq(Seq(T))
  PROVE  \E u \in [0..Len(ss) -> Seq(T)] :
           /\ u[0] = <<>> /\ \A i \in 1..Len(ss) : u[i] = u[i - 1] \o ss[i]
           /\ Joined(ss) = u[Len(ss)]
<1> DEFINE P(g) == g = [i \in 0..Len(ss) |-> IF i = 0 THEN <<>> ELSE g[i - 1] \o ss[i]]
           upTo == CHOOSE g : P(g)
           step == [p \in (1..Len(ss)) \X Seq(T) |-> p[2] \o ss[p[1]]]
<1>1. Len(ss) \in Nat /\ <<>> \in Seq(T) /\ \A i \in 1..Len(ss) : ss[i] \in Seq(T)
  OBVIOUS
<1>2. step \in [(1..Len(ss)) \X Seq(T) -> Seq(T)]
  <2>1. ASSUME NEW p \in (1..Len(ss)) \X Seq(T) PROVE p[2] \o ss[p[1]] \in Seq(T)
    <3>1. p[2] \in Seq(T) /\ p[1] \in 1..Len(ss)
      OBVIOUS
    <3> QED BY <1>1, <3>1, Concat
  <2> QED BY <2>1
<1>3. \E g \in [0..Len(ss) -> Seq(T)] : Stepwise(g, Len(ss), <<>>, step)
  <2> HIDE DEF step
  <2> QED BY <1>1, <1>2, Recursion
<1>4. PICK g \in [0..Len(ss) -> Seq(T)] :
        \A i \in 0..Len(ss) : g[i] = IF i = 0 THEN <<>> ELSE step[<<i, g[i - 1]>>]
  <2> HIDE DEF step
  <2> QED BY <1>3 DEF Stepwise
<1>5. ASSUME NEW i \in 0..Len(ss), i # 0 PROVE step[<<i, g[i - 1]>>] = g[i - 1] \o ss[i]
  <2>1. i - 1 \in 0..Len(ss) /\ i \in 1..Len(ss)
    BY <1>1, <1>5
  <2>2. <<i, g[i - 1]>> \in (1..Len(ss)) \X Seq(T)
    BY <2>1
  <2> QED BY <2>2
<1> HIDE DEF step
<1>6. P(g)
  BY <1>4, <1>5
<1>7. P(upTo)
  <2> HIDE DEF P
  <2> QED BY <1>6, Zenon
<1>8. Joined(ss) = upTo[Len(ss)]
  BY Zenon DEF Joined
<1> HIDE DEF upTo
<1>9. \A i \in 0..Len(ss) : upTo[i] = IF i = 0 THEN <<>> ELSE upTo[i - 1] \o ss[i]
  BY <1>7
<1>10. upTo[0] = <<>> /\ \A i \in 1..Len(ss) : upTo[i] = upTo[i - 1] \o ss[i]
  <2>1. 0 \in 0..Len(ss) /\ \A i \in 1..Len(ss) : i \in 0..Len(ss) /\ i # 0
    BY <1>1
  <2> QED BY <1>9, <2>1
<1>11. upTo \in [0..Len(ss) -> Seq(T)]
  <2> DEFINE S == {j \in 0..Len(ss) : upTo[j] \in Seq(T)}
  <2>1. 0 \in S
    <3>1. 0 \in 0..Len(ss)
      BY <1>1
    <3> QED BY <1>1, <1>10, <3>1
  <2>2. ASSUME NEW i \in 1..Len(ss), i - 1 \in S PROVE i \in S
    <3>1. upTo[i] = upTo[i - 1] \o ss[i]
      BY <1>10
    <3>2. upTo[i - 1] \in Seq(T) /\ ss[i] \in Seq(T)
      BY <1>1, <2>2
    <3>3. i \in 0..Len(ss)
      BY <1>1
    <3>4. upTo[i - 1] \o ss[i] \in Seq(T)
      BY <3>2, Concat
    <3> QED BY <3>1, <3>3, <3>4
  <2> HIDE DEF S
  <2>3. \A i \in 0..Len(ss) : i \in S
    BY <1>1, <2>1, <2>2, InductTo
  <2> QED BY <1>7, <2>3 DEF S
<1> QED BY <1>8, <1>10, <1>11

\* What the pieces hold, in one sequence; apart, no element has two places.
LEMMA JoinedHolds ==
  ASSUME NEW T, NEW ss \in Seq(Seq(T))
  PROVE  /\ Joined(ss) \in Seq(T) /\ Range(Joined(ss)) = Held(ss)
         /\ Apart(ss) => IsInjective(Joined(ss))
         /\ (\A i \in DOMAIN ss : Len(ss[i]) <= 1) => Len(Joined(ss)) <= Len(ss)
<1>1. PICK u \in [0..Len(ss) -> Seq(T)] :
        /\ u[0] = <<>> /\ \A i \in 1..Len(ss) : u[i] = u[i - 1] \o ss[i]
        /\ Joined(ss) = u[Len(ss)]
  BY JoinedGrows
<1>2. Len(ss) \in Nat /\ DOMAIN ss = 1..Len(ss) /\ \A i \in 1..Len(ss) : ss[i] \in Seq(T)
  OBVIOUS
<1>3. \A i \in 1..Len(ss) : i \in 0..Len(ss) /\ i - 1 \in 0..Len(ss) /\ u[i - 1] \in Seq(T) /\ u[i] \in Seq(T)
  <2>1. \A i \in 1..Len(ss) : i \in 0..Len(ss) /\ i - 1 \in 0..Len(ss)
    BY <1>2
  <2> QED BY <2>1
<1>4. 0 \in 0..Len(ss) /\ Len(ss) \in 0..Len(ss) /\ Range(u[0]) = {} /\ Len(u[0]) = 0 /\ IsInjective(u[0])
  <2>1. 0 \in 0..Len(ss) /\ Len(ss) \in 0..Len(ss)
    BY <1>2
  <2>2. Range(<<>>) = {} /\ Len(<<>>) = 0 /\ IsInjective(<<>>)
    BY DEF Range, IsInjective
  <2> QED BY <1>1, <2>1, <2>2
<1> DEFINE HeldUpTo(n) == UNION {Range(ss[j]) : j \in 1..n}
<1>5. \A i \in 1..Len(ss) : /\ Len(u[i]) = Len(u[i - 1]) + Len(ss[i])
                            /\ Range(u[i]) = Range(u[i - 1]) \cup Range(ss[i])
                            /\ IsInjective(u[i - 1]) /\ IsInjective(ss[i])
                                 /\ Range(u[i - 1]) \cap Range(ss[i]) = {} => IsInjective(u[i])
  <2> SUFFICES ASSUME NEW i \in 1..Len(ss)
               PROVE  /\ Len(u[i]) = Len(u[i - 1]) + Len(ss[i])
                      /\ Range(u[i]) = Range(u[i - 1]) \cup Range(ss[i])
                      /\ IsInjective(u[i - 1]) /\ IsInjective(ss[i])
                           /\ Range(u[i - 1]) \cap Range(ss[i]) = {} => IsInjective(u[i])
    OBVIOUS
  <2>1. u[i - 1] \in Seq(T) /\ ss[i] \in Seq(T) /\ u[i] = u[i - 1] \o ss[i]
    BY <1>1, <1>2, <1>3
  <2> DEFINE a == u[i - 1]
             b == ss[i]
             c == u[i]
  <2> HIDE DEF a, b, c
  <2>2. a \in Seq(T) /\ b \in Seq(T) /\ c = a \o b
    BY <2>1 DEF a, b, c
  <2>3. /\ Len(c) = Len(a) + Len(b)
        /\ Range(c) = Range(a) \cup Range(b)
        /\ IsInjective(a) /\ IsInjective(b) /\ Range(a) \cap Range(b) = {} => IsInjective(c)
    BY <2>2, Concat
  <2> QED BY <2>3 DEF a, b, c
<1>6. \A i \in 1..Len(ss) : HeldUpTo(i) = HeldUpTo(i - 1) \cup Range(ss[i])
  <2> SUFFICES ASSUME NEW i \in 1..Len(ss) PROVE HeldUpTo(i) = HeldUpTo(i - 1) \cup Range(ss[i])
    OBVIOUS
  <2>1. 1..i = (1..(i - 1)) \cup {i}
    BY <1>2
  <2> QED BY <2>1
<1>7. HeldUpTo(0) = {} /\ HeldUpTo(Len(ss)) = Held(ss)
  BY <1>2 DEF Held
<1> HIDE DEF HeldUpTo
<1>8. \A i \in 0..Len(ss) : Range(u[i]) = HeldUpTo(i)
  <2> DEFINE S == {j \in 0..Len(ss) : Range(u[j]) = HeldUpTo(j)}
  <2>1. 0 \in S
    BY <1>4, <1>7
  <2>2. ASSUME NEW i \in 1..Len(ss), i - 1 \in S PROVE i \in S
    BY <1>3, <1>5, <1>6, <2>2
  <2> HIDE DEF S
  <2>3. \A i \in 0..Len(ss) : i \in S
    BY <1>2, <2>1, <2>2, InductTo
  <2> QED BY <2>3 DEF S
<1>9. ASSUME Apart(ss) PROVE IsInjective(u[Len(ss)])
  <2> DEFINE S == {j \in 0..Len(ss) : IsInjective(u[j])}
  <2>1. 0 \in S
    BY <1>4
  <2>2. ASSUME NEW i \in 1..Len(ss), i - 1 \in S PROVE i \in S
    <3>1. Range(u[i - 1]) = HeldUpTo(i - 1)
      BY <1>3, <1>8
    <3>2. IsInjective(ss[i]) /\ \A j \in 1..Len(ss) : i # j => Range(ss[i]) \cap Range(ss[j]) = {}
      BY <1>2, <1>9 DEF Apart
    <3>3. \A j \in 1..(i - 1) : j \in 1..Len(ss) /\ i # j
      BY <1>2
    <3>4. HeldUpTo(i - 1) \cap Range(ss[i]) = {}
      BY <3>2, <3>3 DEF HeldUpTo
    <3> QED BY <1>3, <1>5, <2>2, <3>1, <3>2, <3>4
  <2> HIDE DEF S
  <2>3. \A i \in 0..Len(ss) : i \in S
    BY <1>2, <2>1, <2>2, InductTo
  <2> QED BY <1>4, <2>3 DEF S
<1>10. ASSUME \A i \in DOMAIN ss : Len(ss[i]) <= 1 PROVE Len(u[Len(ss)]) <= Len(ss)
  <2> DEFINE S == {j \in 0..Len(ss) : Len(u[j]) <= j}
  <2>1. 0 \in S
    BY <1>4
  <2>2. ASSUME NEW i \in 1..Len(ss), i - 1 \in S PROVE i \in S
    <3>1. ss[i] \in Seq(T) /\ Len(ss[i]) <= 1
      BY <1>2, <1>10
    <3>2. u[i - 1] \in Seq(T) /\ i \in 0..Len(ss) /\ Len(u[i]) = Len(u[i - 1]) + Len(ss[i])
      BY <1>3, <1>5
    <3>3. Len(u[i - 1]) <= i - 1
      BY <2>2
    <3> DEFINE a == Len(u[i - 1])
               b == Len(ss[i])
               c == Len(u[i])
    <3> HIDE DEF a, b, c
    <3>4. a \in Nat /\ b \in Nat /\ a <= i - 1 /\ b <= 1 /\ c = a + b /\ i \in Int
      BY <3>1, <3>2, <3>3 DEF a, b, c
    <3>5. c <= i
      BY <3>4
    <3> QED BY <3>2, <3>5 DEF c
  <2> HIDE DEF S
  <2>3. \A i \in 0..Len(ss) : i \in S
    BY <1>2, <2>1, <2>2, InductTo
  <2> QED BY <1>4, <2>3 DEF S
<1>11. u[Len(ss)] \in Seq(T) /\ Range(u[Len(ss)]) = Held(ss)
  BY <1>4, <1>7, <1>8
<1> QED BY <1>1, <1>9, <1>10, <1>11

\* The elements that are left keep one place each.
LEMMA WithoutKeeps ==
  ASSUME NEW U, NEW s \in Seq(U), NEW T
  PROVE  /\ Without(s, T) \in Seq(U) /\ Range(Without(s, T)) = Range(s) \ T
         /\ (\A i, j \in DOMAIN s : s[i] = s[j] /\ s[i] \notin T => i = j) => IsInjective(Without(s, T))
         /\ Len(Without(s, T)) <= Len(s)
<1> DEFINE ss == [i \in DOMAIN s |-> IF s[i] \in T THEN <<>> ELSE <<s[i]>>]
<1>1. DOMAIN s = 1..Len(s) /\ Len(s) \in Nat /\ \A i \in DOMAIN s : s[i] \in U
  OBVIOUS
<1>2. ASSUME NEW i \in DOMAIN s
      PROVE  /\ ss[i] \in Seq(U) /\ Len(ss[i]) <= 1 /\ IsInjective(ss[i])
             /\ Range(ss[i]) = {s[i]} \ T
  <2>1. \A x \in U : /\ <<x>> \in Seq(U) /\ Len(<<x>>) <= 1 /\ IsInjective(<<x>>) /\ Range(<<x>>) = {x}
    BY DEF IsInjective, Range
  <2>2. <<>> \in Seq(U) /\ Len(<<>>) <= 1 /\ IsInjective(<<>>) /\ Range(<<>>) = {}
    BY DEF IsInjective, Range
  <2>3. s[i] \in U
    BY <1>1
  <2> DEFINE x == s[i]
  <2>4. ss[i] = IF x \in T THEN <<>> ELSE <<x>>
    OBVIOUS
  <2> HIDE DEF ss, x
  <2>5. /\ ss[i] \in Seq(U) /\ Len(ss[i]) <= 1 /\ IsInjective(ss[i])
        /\ Range(ss[i]) = {x} \ T
    BY <2>1, <2>2, <2>3, <2>4 DEF x
  <2> QED BY <2>5 DEF x
<1>3. DOMAIN ss = 1..Len(s) /\ Without(s, T) = Joined(ss)
  BY DEF Without
<1> HIDE DEF ss
<1>4. ss \in Seq(Seq(U)) /\ Len(ss) = Len(s)
  <2>1. ss = [i \in 1..Len(s) |-> ss[i]]
    BY DEF ss
  <2> QED BY <1>1, <1>2, <2>1
<1>5. Held(ss) = Range(s) \ T
  <2>1. ASSUME NEW x \in Held(ss) PROVE x \in Range(s) \ T
    <3>1. PICK i \in DOMAIN s : x \in Range(ss[i])
      BY <1>1, <1>3 DEF Held
    <3> QED BY <1>2, <3>1 DEF Range
  <2>2. ASSUME NEW x \in Range(s) \ T PROVE x \in Held(ss)
    <3>1. PICK i \in DOMAIN s : x = s[i]
      BY DEF Range
    <3>2. x \in Range(ss[i])
      BY <1>2, <3>1
    <3> QED BY <1>1, <1>3, <3>2 DEF Held
  <2> QED BY <2>1, <2>2
<1>6. ASSUME \A i, j \in DOMAIN s : s[i] = s[j] /\ s[i] \notin T => i = j PROVE Apart(ss)
  <2>1. ASSUME NEW i \in DOMAIN ss, NEW j \in DOMAIN ss, i # j PROVE Range(ss[i]) \cap Range(ss[j]) = {}
    <3>1. s[i] # s[j] \/ s[i] \in T
      BY <1>1, <1>3, <1>6, <2>1
    <3> QED BY <1>1, <1>2, <1>3, <3>1
  <2> QED BY <1>1, <1>2, <1>3, <2>1 DEF Apart
<1>7. \A i \in DOMAIN ss : Len(ss[i]) <= 1
  BY <1>1, <1>2, <1>3
<1> DEFINE w == Joined(ss)
<1> HIDE DEF w
<1>8. /\ w \in Seq(U) /\ Range(w) = Held(ss)
      /\ Apart(ss) => IsInjective(w)
      /\ Len(w) <= Len(ss)
  BY <1>4, <1>7, JoinedHolds DEF w
<1> QED BY <1>3, <1>4, <1>5, <1>6, <1>8 DEF w

-----------------------------------------------------------------------------
(* Directories in order: the number of those ahead of it is a place of its *)
(* own for each.                                                           *)
LEMMA Ranks ==
  ASSUME NEW S, IsFiniteSet(S), NEW A \in [S -> SUBSET S],
         \A d \in S : d \notin A[d],
         \A c, d \in S : c # d => c \in A[d] \/ d \in A[c],
         \A c, d \in S : c \in A[d] => A[c] \subseteq A[d]
  PROVE  /\ Cardinality(S) \in Nat
         /\ \A d \in S : Cardinality(A[d]) + 1 \in 1..Cardinality(S)
         /\ \A c, d \in S : Cardinality(A[c]) = Cardinality(A[d]) => c = d
         /\ \A k \in 1..Cardinality(S) : \E d \in S : Cardinality(A[d]) = k - 1
<1>1. Cardinality(S) \in Nat
  BY FS_CardinalityType
<1>2. \A d \in S : IsFiniteSet(A[d]) /\ Cardinality(A[d]) \in Nat
  <2> SUFFICES ASSUME NEW d \in S PROVE IsFiniteSet(A[d]) /\ Cardinality(A[d]) \in Nat
    OBVIOUS
  <2>1. A[d] \in SUBSET S
    OBVIOUS
  <2>2. IsFiniteSet(A[d])
    BY <2>1, FS_Subset
  <2> QED BY <2>2, FS_CardinalityType
<1>3. \A d \in S : Cardinality(A[d]) < Cardinality(S)
  <2> SUFFICES ASSUME NEW d \in S PROVE Cardinality(A[d]) < Cardinality(S)
    OBVIOUS
  <2>1. A[d] \in SUBSET S /\ A[d] # S
    OBVIOUS
  <2>2. Cardinality(A[d]) <= Cardinality(S) /\ Cardinality(A[d]) # Cardinality(S)
    BY <2>1, FS_Subset
  <2> QED BY <1>1, <1>2, <2>2
<1>4. \A c, d \in S : c \in A[d] => Cardinality(A[c]) # Cardinality(A[d])
  <2> SUFFICES ASSUME NEW c \in S, NEW d \in S, c \in A[d] PROVE Cardinality(A[c]) # Cardinality(A[d])
    OBVIOUS
  <2>1. A[c] \in SUBSET A[d] /\ A[c] # A[d] /\ IsFiniteSet(A[d])
    BY <1>2
  <2> QED BY <2>1, FS_Subset
<1>5. \A c, d \in S : Cardinality(A[c]) = Cardinality(A[d]) => c = d
  BY <1>4
<1>6. \A d \in S : Cardinality(A[d]) + 1 \in 1..Cardinality(S)
  BY <1>1, <1>2, <1>3
<1> DEFINE f == [d \in S |-> Cardinality(A[d]) + 1]
           N == 1..Cardinality(S)
<1>7. f \in Injection(S, N)
  <2>1. f \in [S -> N]
    BY <1>6
  <2>2. \A c, d \in S : f[c] = f[d] => c = d
    BY <1>2, <1>5
  <2> QED BY <2>1, <2>2 DEF Injection, IsInjective
<1>8. IsFiniteSet(N) /\ Cardinality(N) = Cardinality(S)
  <2>1. IsFiniteSet(N) /\ Cardinality(N) = IF 1 > Cardinality(S) THEN 0 ELSE Cardinality(S) - 1 + 1
    BY <1>1, FS_Interval
  <2> HIDE DEF N
  <2> QED BY <1>1, <2>1
<1>9. f \in Surjection(S, N)
  <2> HIDE DEF f, N
  <2> QED BY <1>7, <1>8, FS_Injection
<1>10. \A k \in N : \E d \in S : f[d] = k
  <2> HIDE DEF f, N
  <2> QED BY <1>9 DEF Surjection, Range
<1>11. \A k \in N : \E d \in S : Cardinality(A[d]) = k - 1
  <2> SUFFICES ASSUME NEW k \in N PROVE \E d \in S : Cardinality(A[d]) = k - 1
    OBVIOUS
  <2>1. PICK d \in S : f[d] = k
    BY <1>10
  <2> QED BY <1>2, <2>1
<1> QED BY <1>1, <1>5, <1>6, <1>11

\* Each directory in a group of its own, each file in the group of its directory.
LEMMA GroupHolds ==
  ASSUME NEW U, NEW refs \in Seq(U), IsInjective(refs), NEW d
  PROVE  /\ Group(refs, d) \in Seq(U) /\ IsInjective(Group(refs, d)) /\ Len(Group(refs, d)) \in Nat
         /\ Range(Group(refs, d)) = {f \in Range(refs) : Dir[f] = d}
<1> DEFINE T == {f \in Range(refs) : Dir[f] # d}
           w == Without(refs, T)
<1>1. Group(refs, d) = w
  BY DEF Group
<1>2. Range(refs) \ T = {f \in Range(refs) : Dir[f] = d}
  OBVIOUS
<1> HIDE DEF T
<1>3. w \in Seq(U) /\ IsInjective(w) /\ Range(w) = Range(refs) \ T
  BY WithoutKeeps DEF IsInjective
<1>4. Len(w) \in Nat
  <2> HIDE DEF w
  <2> QED BY <1>3
<1> QED BY <1>1, <1>2, <1>3, <1>4

LEMMA FirstIsOfItsOwn ==
  ASSUME NEW U, NEW refs \in Seq(U), NEW d \in Dirs(refs)
  PROVE  FirstOf(refs, d) \in Nat /\ FirstOf(refs, d) \in DOMAIN refs /\ Dir[refs[FirstOf(refs, d)]] = d
<1> DEFINE T == {i \in DOMAIN refs : Dir[refs[i]] = d}
           P(i) == i \in DOMAIN refs /\ Dir[refs[i]] = d /\ \A j \in 1..(i - 1) : Dir[refs[j]] # d
           first == CHOOSE i : P(i)
<1>1. DOMAIN refs = 1..Len(refs) /\ Len(refs) \in Nat
  OBVIOUS
<1>2. T # {}
  BY DEF Dirs, Range
<1>3. T \in SUBSET Nat
  BY <1>1
<1>4. PICK i \in T : \A j \in T : i <= j
  <2> HIDE DEF T
  <2> QED BY <1>2, <1>3, Least
<1>5. P(i)
  <2>1. ASSUME NEW j \in 1..(i - 1) PROVE Dir[refs[j]] # d
    <3>1. j \in DOMAIN refs /\ ~(i <= j)
      BY <1>1, <1>4
    <3> QED BY <1>4, <3>1
  <2> QED BY <1>4, <2>1
<1>6. P(first)
  <2> HIDE DEF P
  <2> QED BY <1>5, Zenon
<1>7. FirstOf(refs, d) = first
  <2>1. \A j : P(j) <=> j \in DOMAIN refs /\ (Dir[refs[j]] = d /\ \A k \in 1..(j - 1) : Dir[refs[k]] # d)
    OBVIOUS
  <2> QED BY Zenon DEF FirstOf
<1> HIDE DEF first
<1> QED BY <1>1, <1>6, <1>7

LEMMA AheadIsAnOrder ==
  ASSUME NEW U, NEW refs \in Seq(U), IsInjective(refs)
  PROVE  /\ \A d \in Dirs(refs) : d \notin Ahead(refs, d) /\ Ahead(refs, d) \subseteq Dirs(refs)
         /\ \A c, d \in Dirs(refs) : c # d => c \in Ahead(refs, d) \/ d \in Ahead(refs, c)
         /\ \A c, d \in Dirs(refs) : c \in Ahead(refs, d) => Ahead(refs, c) \subseteq Ahead(refs, d)
<1> DEFINE size == [d \in Dirs(refs) |-> Len(Group(refs, d))]
           first == [d \in Dirs(refs) |-> FirstOf(refs, d)]
<1>1. \A d \in Dirs(refs) : size[d] \in Nat
  BY GroupHolds
<1>2. \A d \in Dirs(refs) : first[d] \in Nat /\ Dir[refs[first[d]]] = d
  BY FirstIsOfItsOwn
<1>3. \A c, d \in Dirs(refs) :
        c \in Ahead(refs, d) <=> size[c] > size[d] \/ (size[c] = size[d] /\ first[c] < first[d])
  BY DEF Ahead
<1> HIDE DEF size, first
<1>4. \A c, d \in Dirs(refs) : first[c] = first[d] => c = d
  BY <1>2
<1>5. ASSUME NEW d \in Dirs(refs) PROVE d \notin Ahead(refs, d)
  BY <1>1, <1>2, <1>3
<1>6. \A d \in Dirs(refs) : Ahead(refs, d) \subseteq Dirs(refs)
  BY DEF Ahead
<1>7. ASSUME NEW c \in Dirs(refs), NEW d \in Dirs(refs), c # d
      PROVE  c \in Ahead(refs, d) \/ d \in Ahead(refs, c)
  <2>1. first[c] # first[d] /\ first[c] \in Nat /\ first[d] \in Nat /\ size[c] \in Nat /\ size[d] \in Nat
    BY <1>1, <1>2, <1>4, <1>7
  <2> QED BY <1>3, <2>1
<1>8. ASSUME NEW c \in Dirs(refs), NEW d \in Dirs(refs), c \in Ahead(refs, d), NEW b \in Ahead(refs, c)
      PROVE  b \in Ahead(refs, d)
  <2>1. b \in Dirs(refs)
    BY <1>6, <1>8
  <2>2. first[b] \in Nat /\ first[c] \in Nat /\ first[d] \in Nat
    BY <1>2, <2>1
  <2>3. size[b] \in Nat /\ size[c] \in Nat /\ size[d] \in Nat
    BY <1>1, <2>1
  <2>4. size[c] > size[d] \/ (size[c] = size[d] /\ first[c] < first[d])
    BY <1>3, <1>8
  <2>5. size[b] > size[c] \/ (size[b] = size[c] /\ first[b] < first[c])
    BY <1>3, <1>8, <2>1
  <2>6. size[b] > size[d] \/ (size[b] = size[d] /\ first[b] < first[d])
    BY <2>2, <2>3, <2>4, <2>5
  <2> QED BY <1>3, <2>1, <2>6
<1> QED BY <1>5, <1>6, <1>7, <1>8

LEMMA DirsFinite ==
  ASSUME NEW U, NEW refs \in Seq(U)
  PROVE  IsFiniteSet(Dirs(refs))
<1> DEFINE N == 1..Len(refs)
           f == [i \in N |-> Dir[refs[i]]]
<1>1. IsFiniteSet(N)
  BY FS_Interval
<1>2. f \in Surjection(N, Dirs(refs))
  <2>1. f \in [N -> Dirs(refs)] /\ \A d \in Dirs(refs) : \E i \in N : f[i] = d
    BY DEF Dirs, Range
  <2> HIDE DEF f, N
  <2> QED BY <2>1 DEF Surjection, Range
<1> HIDE DEF f, N
<1> QED BY <1>1, <1>2, FS_Surjection

\* group_by_directory: the groups are the files, each of them once.
LEMMA GroupsHold ==
  ASSUME NEW U, NEW refs \in Seq(U), IsInjective(refs)
  PROVE  /\ GroupByDirectory(refs) \in Seq(Seq(U))
         /\ Apart(GroupByDirectory(refs)) /\ Held(GroupByDirectory(refs)) = Range(refs)
<1> DEFINE S == Dirs(refs)
           A == [d \in S |-> Ahead(refs, d)]
           n == Cardinality(S)
           P(d, k) == d \in S /\ Cardinality(Ahead(refs, d)) = k - 1
           Nth == [k \in 1..n |-> CHOOSE d : P(d, k)]
           G == [k \in 1..n |-> Group(refs, Nth[k])]
<1>1. /\ n \in Nat
      /\ \A d \in S : Cardinality(Ahead(refs, d)) + 1 \in 1..n
      /\ \A c, d \in S : Cardinality(Ahead(refs, c)) = Cardinality(Ahead(refs, d)) => c = d
      /\ \A k \in 1..n : \E d \in S : Cardinality(Ahead(refs, d)) = k - 1
  <2>1. /\ A \in [S -> SUBSET S] /\ \A d \in S : d \notin A[d]
        /\ \A c, d \in S : c # d => c \in A[d] \/ d \in A[c]
        /\ \A c, d \in S : c \in A[d] => A[c] \subseteq A[d]
    BY AheadIsAnOrder
  <2>2. \A d \in S : A[d] = Ahead(refs, d)
    OBVIOUS
  <2>3. IsFiniteSet(S)
    BY DirsFinite
  <2> HIDE DEF A, S
  <2>4. /\ Cardinality(S) \in Nat
        /\ \A d \in S : Cardinality(A[d]) + 1 \in 1..Cardinality(S)
        /\ \A c, d \in S : Cardinality(A[c]) = Cardinality(A[d]) => c = d
        /\ \A k \in 1..Cardinality(S) : \E d \in S : Cardinality(A[d]) = k - 1
    BY <2>1, <2>3, Ranks
  <2> QED BY <2>2, <2>4
<1>2. \A k \in 1..n : P(Nth[k], k)
  <2> SUFFICES ASSUME NEW k \in 1..n PROVE P(Nth[k], k)
    OBVIOUS
  <2>1. PICK d \in S : Cardinality(Ahead(refs, d)) = k - 1
    BY <1>1
  <2>2. P(d, k)
    BY <2>1
  <2>3. Nth[k] = CHOOSE x : P(x, k)
    OBVIOUS
  <2> HIDE DEF P, Nth, n
  <2> QED BY <2>2, <2>3, Zenon
<1>3. GroupByDirectory(refs) = G
  <2> DEFINE H == [k \in 1..n |-> Group(refs, CHOOSE d \in S : Cardinality(Ahead(refs, d)) = k - 1)]
  <2>1. GroupByDirectory(refs) = H
    BY Zenon DEF GroupByDirectory
  <2>2. \A k \in 1..n : Nth[k] = CHOOSE d \in S : Cardinality(Ahead(refs, d)) = k - 1
    <3> HIDE DEF n, S
    <3> QED BY Zenon
  <2> HIDE DEF Nth, P, n, S
  <2>3. \A k \in 1..n : H[k] = G[k]
    <3> SUFFICES ASSUME NEW k \in 1..n PROVE H[k] = G[k]
      OBVIOUS
    <3>1. H[k] = Group(refs, CHOOSE d \in S : Cardinality(Ahead(refs, d)) = k - 1)
      BY Zenon
    <3>2. G[k] = Group(refs, Nth[k])
      BY Zenon
    <3>3. Nth[k] = CHOOSE d \in S : Cardinality(Ahead(refs, d)) = k - 1
      BY <2>2
    <3> HIDE DEF H, G
    <3> QED BY <3>1, <3>2, <3>3, Zenon
  <2> QED BY <2>1, <2>3
<1> HIDE DEF Nth
<1>4. \A k \in 1..n : Nth[k] \in S
  BY <1>2
<1>5. ASSUME NEW i \in 1..n, NEW j \in 1..n, Nth[i] = Nth[j] PROVE i = j
  <2>1. Cardinality(Ahead(refs, Nth[i])) = i - 1 /\ Cardinality(Ahead(refs, Nth[j])) = j - 1
    BY <1>2
  <2> QED BY <1>1, <1>5, <2>1
<1>6. ASSUME NEW d \in S PROVE \E k \in 1..n : Nth[k] = d
  <2> DEFINE k == Cardinality(Ahead(refs, d)) + 1
  <2>1. k \in 1..n /\ k - 1 = Cardinality(Ahead(refs, d))
    <3> DEFINE a == Cardinality(Ahead(refs, d))
    <3>1. a + 1 \in 1..n /\ n \in Nat
      BY <1>1
    <3>2. a \in Int
      <4>1. IsFiniteSet(Ahead(refs, d))
        BY DirsFinite, AheadIsAnOrder, FS_Subset
      <4> QED BY <4>1, FS_CardinalityType
    <3> HIDE DEF a, n
    <3> QED BY <3>1, <3>2 DEF a
  <2> HIDE DEF k
  <2>2. Cardinality(Ahead(refs, Nth[k])) = Cardinality(Ahead(refs, d)) /\ Nth[k] \in S
    BY <1>2, <2>1
  <2> QED BY <1>1, <2>1, <2>2
<1>7. \A k \in 1..n : /\ G[k] \in Seq(U) /\ IsInjective(G[k])
                      /\ Range(G[k]) = {f \in Range(refs) : Dir[f] = Nth[k]}
  <2> SUFFICES ASSUME NEW k \in 1..n
               PROVE  /\ G[k] \in Seq(U) /\ IsInjective(G[k])
                      /\ Range(G[k]) = {f \in Range(refs) : Dir[f] = Nth[k]}
    OBVIOUS
  <2>1. G[k] = Group(refs, Nth[k])
    OBVIOUS
  <2> HIDE DEF G, n
  <2> QED BY <2>1, GroupHolds
<1>8. DOMAIN G = 1..n /\ G \in Seq(Seq(U))
  <2>1. G = [k \in 1..n |-> G[k]]
    OBVIOUS
  <2> HIDE DEF G, n
  <2> QED BY <1>1, <1>7, <2>1
<1> HIDE DEF G
<1>9. Apart(G)
  <2>1. ASSUME NEW i \in 1..n, NEW j \in 1..n, i # j PROVE Range(G[i]) \cap Range(G[j]) = {}
    <3>1. Nth[i] # Nth[j]
      BY <1>5, <2>1
    <3> QED BY <1>7, <3>1
  <2> QED BY <1>7, <1>8, <2>1 DEF Apart
<1>10. Held(G) = Range(refs)
  <2>1. ASSUME NEW f \in Held(G) PROVE f \in Range(refs)
    <3>1. PICK k \in DOMAIN G : f \in Range(G[k])
      BY <2>1 DEF Held
    <3> QED BY <1>7, <1>8, <3>1
  <2>2. ASSUME NEW f \in Range(refs) PROVE f \in Held(G)
    <3>1. Dir[f] \in S
      BY DEF Dirs
    <3>2. PICK k \in 1..n : Nth[k] = Dir[f]
      BY <1>6, <3>1
    <3>3. f \in Range(G[k])
      BY <1>7, <3>2
    <3> QED BY <1>8, <3>3 DEF Held
  <2> QED BY <2>1, <2>2
<1> QED BY <1>3, <1>8, <1>9, <1>10

-----------------------------------------------------------------------------
(* Slices of a group that is too large for a pass.                         *)
LEMMA Quotient ==
  ASSUME NEW a \in Nat, NEW n \in Nat, n > 0
  PROVE  a \div n \in Nat /\ (a \div n) * n <= a /\ a < ((a \div n) + 1) * n
<1>1. a = ((a \div n) * n) + (a % n) /\ a % n \in 0..(n - 1) /\ a \div n \in Int
  OBVIOUS
<1>2. a \div n >= 0
  OBVIOUS
<1>3. ((a \div n) + 1) * n = ((a \div n) * n) + n
  OBVIOUS
<1>4. (a \div n) * n \in Int /\ a % n \in Int
  BY <1>1
<1> QED BY <1>1, <1>2, <1>3, <1>4

LEMMA Multiples ==
  ASSUME NEW a \in Int, NEW b \in Int, NEW n \in Nat
  PROVE  /\ a * n \in Int /\ (a + 1) * n = a * n + n
         /\ a <= b => a * n <= b * n
         /\ n > 0 /\ a * n < b * n => a < b
  OBVIOUS

\* Where the positions of a slice are.
LEMMA SliceBounds ==
  ASSUME NEW len \in Nat, NEW n \in Nat, n > 0
  PROVE  LET m == (len + n - 1) \div n
         IN  /\ m \in Nat
             /\ \A i \in 1..m : /\ (i - 1) * n \in Nat /\ i * n = (i - 1) * n + n
                                /\ (i - 1) * n < len
             /\ \A i, j \in 1..m : i < j => i * n <= (j - 1) * n
             /\ \A p \in 1..len : \E i \in 1..m : (i - 1) * n < p /\ p <= i * n
<1> DEFINE a == len + n - 1
           m == a \div n
<1>1. a \in Nat
  OBVIOUS
<1>2. m \in Nat /\ m * n <= a /\ a < (m + 1) * n
  <2> HIDE DEF a
  <2> QED BY <1>1, Quotient
<1> HIDE DEF m
<1>3. ASSUME NEW i \in 1..m
      PROVE  (i - 1) * n \in Nat /\ i * n = (i - 1) * n + n /\ (i - 1) * n < len
  <2>1. i \in Int /\ i - 1 \in Nat /\ i <= m /\ (i - 1) + 1 = i
    BY <1>2
  <2>2. (i - 1) * n \in Int /\ i * n = (i - 1) * n + n
    BY <2>1, Multiples
  <2>3. 0 * n <= (i - 1) * n /\ 0 * n = 0
    BY <2>1, Multiples
  <2>4. i * n <= m * n /\ m * n \in Int
    BY <1>2, <2>1, Multiples
  <2> QED BY <1>2, <2>2, <2>3, <2>4
<1>4. ASSUME NEW i \in 1..m, NEW j \in 1..m, i < j PROVE i * n <= (j - 1) * n
  <2>1. i \in Int /\ j - 1 \in Int /\ i <= j - 1
    BY <1>2, <1>4
  <2> QED BY <2>1, Multiples
<1>5. ASSUME NEW p \in 1..len PROVE \E i \in 1..m : (i - 1) * n < p /\ p <= i * n
  <2> DEFINE q == (p - 1) \div n
  <2>1. p - 1 \in Nat /\ p - 1 < len
    OBVIOUS
  <2>2. q \in Nat /\ q * n <= p - 1 /\ p - 1 < (q + 1) * n
    BY <2>1, Quotient
  <2> HIDE DEF q
  <2>3. q * n \in Int /\ (q + 1) * n \in Int /\ (m + 1) * n \in Int /\ (q + 1) * n = q * n + n
    BY <1>2, <2>2, Multiples
  <2>4. (q + 1) * n < (m + 1) * n
    BY <1>2, <2>1, <2>2, <2>3
  <2>5. q + 1 < m + 1
    <3>1. q + 1 \in Int /\ m + 1 \in Int
      BY <1>2, <2>2
    <3> QED BY <2>4, <3>1, Multiples
  <2>6. q + 1 \in 1..m /\ (q + 1) - 1 = q
    BY <1>2, <2>2, <2>5
  <2>7. q * n < p /\ p <= (q + 1) * n
    BY <2>1, <2>2, <2>3
  <2> QED BY <2>6, <2>7
<1> QED BY <1>2, <1>3, <1>4, <1>5 DEF m

LEMMA PartHolds ==
  ASSUME NEW U, NEW s \in Seq(U), NEW a \in 1..Len(s), NEW b \in a..Len(s)
  PROVE  /\ SubSeq(s, a, b) \in Seq(U) /\ Len(SubSeq(s, a, b)) = b - a + 1
         /\ Range(SubSeq(s, a, b)) = {s[p] : p \in a..b}
         /\ IsInjective(s) => IsInjective(SubSeq(s, a, b))
<1> DEFINE t == SubSeq(s, a, b)
<1>1. t \in Seq(U) /\ Len(t) = b - a + 1 /\ \A k \in 1..(b - a + 1) : t[k] = s[a + k - 1]
  OBVIOUS
<1> HIDE DEF t
<1>2. DOMAIN t = 1..(b - a + 1) /\ DOMAIN s = 1..Len(s)
  BY <1>1
<1>3. \A k \in DOMAIN t : a + k - 1 \in a..b /\ a + k - 1 \in 1..Len(s) /\ t[k] = s[a + k - 1]
  BY <1>1, <1>2
<1>4. Range(t) = {s[p] : p \in a..b}
  <2>1. ASSUME NEW p \in a..b PROVE s[p] \in Range(t)
    <3>1. p - a + 1 \in DOMAIN t /\ a + (p - a + 1) - 1 = p
      BY <1>2
    <3> QED BY <1>3, <3>1 DEF Range
  <2> QED BY <1>3, <2>1 DEF Range
<1>5. ASSUME IsInjective(s), NEW j \in DOMAIN t, NEW k \in DOMAIN t, t[j] = t[k] PROVE j = k
  <2>1. a + j - 1 = a + k - 1
    BY <1>2, <1>3, <1>5 DEF IsInjective
  <2>2. j \in Int /\ k \in Int
    BY <1>2
  <2> QED BY <2>1, <2>2
<1> QED BY <1>1, <1>4, <1>5 DEF IsInjective, t

\* The slices of a group hold it, in order, and are no larger than asked.
LEMMA SlicesHold ==
  ASSUME NEW U, NEW s \in Seq(U), NEW n \in Nat, n > 0
  PROVE  /\ Slices(s, n) \in Seq(Seq(U)) /\ Held(Slices(s, n)) = Range(s)
         /\ \A i \in DOMAIN Slices(s, n) : Len(Slices(s, n)[i]) <= n
         /\ IsInjective(s) => Apart(Slices(s, n))
<1> DEFINE len == Len(s)
           m == (len + n - 1) \div n
           lo == [i \in 1..m |-> (i - 1) * n]
           hi == [i \in 1..m |-> Smaller(i * n, len)]
           ss == [i \in 1..m |-> SubSeq(s, lo[i] + 1, hi[i])]
<1>1. len \in Nat /\ DOMAIN s = 1..len
  OBVIOUS
<1>2. Slices(s, n) = ss
  BY DEF Slices
<1>3. m \in Nat /\ \A p \in 1..len : \E i \in 1..m : (i - 1) * n < p /\ p <= i * n
  <2> HIDE DEF len
  <2> QED BY <1>1, SliceBounds
<1>4. \A i \in 1..m : /\ lo[i] \in Nat /\ lo[i] + 1 \in 1..len
                      /\ hi[i] \in (lo[i] + 1)..len /\ hi[i] \in 1..len
                      /\ hi[i] - (lo[i] + 1) + 1 <= n
  <2> SUFFICES ASSUME NEW i \in 1..m
               PROVE  /\ lo[i] \in Nat /\ lo[i] + 1 \in 1..len
                      /\ hi[i] \in (lo[i] + 1)..len /\ hi[i] \in 1..len
                      /\ hi[i] - (lo[i] + 1) + 1 <= n
    OBVIOUS
  <2>1. (i - 1) * n \in Nat /\ i * n = (i - 1) * n + n /\ (i - 1) * n < len
    <3> HIDE DEF len
    <3> QED BY <1>1, SliceBounds
  <2>2. lo[i] = (i - 1) * n /\ hi[i] = Smaller(i * n, len)
    OBVIOUS
  <2> DEFINE x == (i - 1) * n
             y == i * n
  <2> HIDE DEF len, lo, hi, m, x, y
  <2>3. x \in Nat /\ y = x + n /\ x < len /\ lo[i] = x /\ hi[i] = Smaller(y, len)
    BY <2>1, <2>2 DEF x, y
  <2> QED BY <1>1, <2>3 DEF Smaller
<1>5. \A i, j \in 1..m : i < j => hi[i] <= lo[j]
  <2> SUFFICES ASSUME NEW i \in 1..m, NEW j \in 1..m, i < j PROVE hi[i] <= lo[j]
    OBVIOUS
  <2>1. i * n <= (j - 1) * n /\ i * n = (i - 1) * n + n /\ (i - 1) * n \in Nat /\ (j - 1) * n \in Nat
    <3> HIDE DEF len
    <3> QED BY <1>1, SliceBounds
  <2>2. lo[j] = (j - 1) * n /\ hi[i] = Smaller(i * n, len)
    OBVIOUS
  <2> DEFINE x == (j - 1) * n
             y == i * n
  <2>3. x \in Nat /\ y \in Nat /\ y <= x
    BY <2>1
  <2> HIDE DEF x, y, len, lo, hi
  <2>4. lo[j] = x /\ hi[i] = Smaller(y, len)
    BY <2>2 DEF x, y
  <2> QED BY <1>1, <2>3, <2>4 DEF Smaller
<1>6. \A p \in 1..len : \E i \in 1..m : lo[i] + 1 <= p /\ p <= hi[i]
  <2> SUFFICES ASSUME NEW p \in 1..len PROVE \E i \in 1..m : lo[i] + 1 <= p /\ p <= hi[i]
    OBVIOUS
  <2>1. PICK i \in 1..m : (i - 1) * n < p /\ p <= i * n
    BY <1>3
  <2>2. lo[i] = (i - 1) * n /\ hi[i] = Smaller(i * n, len)
    OBVIOUS
  <2>3. lo[i] \in Nat
    BY <1>4
  <2> DEFINE y == i * n
  <2> HIDE DEF len, lo, hi, m, y
  <2>4. p <= hi[i]
    BY <1>1, <2>1, <2>2 DEF Smaller, y
  <2> QED BY <1>1, <2>1, <2>2, <2>3, <2>4
<1>7. DOMAIN ss = 1..m /\ \A i \in 1..m : ss[i] = SubSeq(s, lo[i] + 1, hi[i])
  <2> HIDE DEF lo, hi, m
  <2> QED OBVIOUS
<1> HIDE DEF len, m, lo, hi
<1>8. \A i \in 1..m : /\ ss[i] \in Seq(U) /\ Len(ss[i]) <= n
                      /\ Range(ss[i]) = {s[p] : p \in (lo[i] + 1)..hi[i]}
                      /\ IsInjective(s) => IsInjective(ss[i])
  <2> SUFFICES ASSUME NEW i \in 1..m
               PROVE  /\ ss[i] \in Seq(U) /\ Len(ss[i]) <= n
                      /\ Range(ss[i]) = {s[p] : p \in (lo[i] + 1)..hi[i]}
                      /\ IsInjective(s) => IsInjective(ss[i])
    OBVIOUS
  <2> DEFINE a == lo[i] + 1
             b == hi[i]
             t == SubSeq(s, a, b)
  <2>1. a \in 1..Len(s) /\ b \in a..Len(s) /\ b - a + 1 <= n
    BY <1>4 DEF len
  <2>2. ss[i] = t
    BY <1>7
  <2> HIDE DEF a, b, ss
  <2>3. /\ t \in Seq(U) /\ Len(t) = b - a + 1
        /\ Range(t) = {s[p] : p \in a..b}
        /\ IsInjective(s) => IsInjective(t)
    BY <2>1, PartHolds
  <2> HIDE DEF t
  <2> QED BY <2>1, <2>2, <2>3 DEF a, b
<1>9. ss \in Seq(Seq(U))
  <2>1. ss = [i \in 1..m |-> ss[i]]
    OBVIOUS
  <2> HIDE DEF ss
  <2> QED BY <1>3, <1>8, <2>1
<1> HIDE DEF ss
<1>10. Held(ss) = Range(s)
  <2>1. ASSUME NEW x \in Held(ss) PROVE x \in Range(s)
    <3>1. PICK i \in 1..m : x \in Range(ss[i])
      BY <1>7 DEF Held
    <3>2. PICK p \in (lo[i] + 1)..hi[i] : x = s[p]
      BY <1>8, <3>1
    <3>3. p \in 1..len
      BY <1>1, <1>4
    <3> QED BY <1>1, <3>2, <3>3 DEF Range
  <2>2. ASSUME NEW x \in Range(s) PROVE x \in Held(ss)
    <3>1. PICK p \in 1..len : x = s[p]
      BY <1>1 DEF Range
    <3>2. PICK i \in 1..m : lo[i] + 1 <= p /\ p <= hi[i]
      BY <1>6
    <3>3. p \in (lo[i] + 1)..hi[i]
      BY <1>1, <1>4, <3>2
    <3>4. x \in Range(ss[i])
      BY <1>8, <3>1, <3>3
    <3> QED BY <1>7, <3>4 DEF Held
  <2> QED BY <2>1, <2>2
<1>11. ASSUME IsInjective(s) PROVE Apart(ss)
  <2>1. ASSUME NEW i \in 1..m, NEW j \in 1..m, i < j PROVE Range(ss[i]) \cap Range(ss[j]) = {}
    <3>1. SUFFICES ASSUME NEW x \in Range(ss[i]), x \in Range(ss[j]) PROVE FALSE
      OBVIOUS
    <3>2. PICK p \in (lo[i] + 1)..hi[i] : x = s[p]
      BY <1>8
    <3>3. PICK q \in (lo[j] + 1)..hi[j] : x = s[q]
      BY <1>8, <3>1
    <3>4. p \in 1..len /\ q \in 1..len /\ p < q
      <4>1. hi[i] <= lo[j] /\ lo[i] \in Nat /\ lo[j] \in Nat /\ hi[i] \in 1..len /\ hi[j] \in 1..len
        BY <1>4, <1>5, <2>1
      <4>2. p \in Int /\ lo[i] + 1 <= p /\ p <= hi[i] /\ q \in Int /\ lo[j] + 1 <= q /\ q <= hi[j]
        BY <4>1
      <4> DEFINE a == lo[i]
                 b == hi[i]
                 c == lo[j]
                 d == hi[j]
      <4>3. /\ b <= c /\ a \in Nat /\ c \in Nat /\ b \in 1..len /\ d \in 1..len
            /\ p \in Int /\ a + 1 <= p /\ p <= b /\ q \in Int /\ c + 1 <= q /\ q <= d
        BY <4>1, <4>2
      <4> HIDE DEF a, b, c, d
      <4> QED BY <1>1, <4>3
    <3>5. p = q
      BY <1>1, <1>11, <3>2, <3>3, <3>4 DEF IsInjective
    <3> QED BY <3>4, <3>5
  <2>2. \A i, j \in 1..m : i # j => i < j \/ j < i
    BY <1>3
  <2>3. \A i, j \in DOMAIN ss : i # j => Range(ss[i]) \cap Range(ss[j]) = {}
    BY <1>7, <2>1, <2>2
  <2>4. \A i \in DOMAIN ss : IsInjective(ss[i])
    BY <1>7, <1>8, <1>11
  <2> QED BY <2>3, <2>4 DEF Apart
<1>12. \A i \in DOMAIN ss : Len(ss[i]) <= n
  BY <1>7, <1>8
<1> QED BY <1>2, <1>9, <1>10, <1>11, <1>12

-----------------------------------------------------------------------------
(* Packing the groups, one after the other.                                *)
Fits(ss, n) == \A i \in DOMAIN ss : Len(ss[i]) <= n

LEMMA Chained ==
  ASSUME NEW U, NEW ss \in Seq(Seq(U)), NEW tt \in Seq(Seq(U)), NEW n
  PROVE  /\ ss \o tt \in Seq(Seq(U)) /\ Held(ss \o tt) = Held(ss) \cup Held(tt)
         /\ Fits(ss, n) /\ Fits(tt, n) => Fits(ss \o tt, n)
         /\ Apart(ss) /\ Apart(tt) /\ Held(ss) \cap Held(tt) = {} => Apart(ss \o tt)
<1> DEFINE T == Seq(U)
           uu == ss \o tt
<1>1. uu \in Seq(T) /\ Len(uu) = Len(ss) + Len(tt)
  OBVIOUS
<1>2. \A i \in 1..Len(ss) : uu[i] = ss[i]
  OBVIOUS
<1>3. \A i \in 1..Len(tt) : uu[Len(ss) + i] = tt[i]
  OBVIOUS
<1>4. DOMAIN uu = 1..(Len(ss) + Len(tt)) /\ DOMAIN ss = 1..Len(ss) /\ DOMAIN tt = 1..Len(tt)
  OBVIOUS
<1>5. Len(ss) \in Nat /\ Len(tt) \in Nat
  OBVIOUS
<1> DEFINE a == Len(ss)
           b == Len(tt)
<1> HIDE DEF uu, T, a, b
<1>6. /\ \A i \in DOMAIN uu : i \in DOMAIN ss \/ (i - a \in DOMAIN tt /\ uu[i] = tt[i - a])
      /\ \A i \in DOMAIN ss : i \in DOMAIN uu /\ uu[i] = ss[i]
      /\ \A i \in DOMAIN tt : a + i \in DOMAIN uu /\ uu[a + i] = tt[i]
      /\ DOMAIN uu \subseteq Int
  <2>1. /\ a \in Nat /\ b \in Nat /\ DOMAIN uu = 1..(a + b) /\ DOMAIN ss = 1..a /\ DOMAIN tt = 1..b
        /\ \A i \in 1..a : uu[i] = ss[i]
        /\ \A i \in 1..b : uu[a + i] = tt[i]
    BY <1>2, <1>3, <1>4, <1>5 DEF a, b
  <2>2. \A i \in 1..(a + b) : i \in 1..a \/ (i - a \in 1..b /\ a + (i - a) = i)
    BY <2>1
  <2>3. \A i \in 1..b : a + i \in 1..(a + b)
    BY <2>1
  <2>4. \A i \in 1..a : i \in 1..(a + b)
    BY <2>1
  <2>5. \A i \in DOMAIN uu : i \in DOMAIN ss \/ (i - a \in DOMAIN tt /\ uu[i] = tt[i - a])
    BY <2>1, <2>2
  <2> QED BY <2>1, <2>3, <2>4, <2>5
<1>7. Held(uu) = Held(ss) \cup Held(tt)
  <2>1. ASSUME NEW x \in Held(uu) PROVE x \in Held(ss) \cup Held(tt)
    <3>1. PICK i \in DOMAIN uu : x \in Range(uu[i])
      BY <2>1 DEF Held
    <3> QED BY <1>6, <3>1 DEF Held
  <2>2. ASSUME NEW x \in Held(ss) PROVE x \in Held(uu)
    BY <1>6 DEF Held
  <2>3. ASSUME NEW x \in Held(tt) PROVE x \in Held(uu)
    <3>1. PICK i \in DOMAIN tt : x \in Range(tt[i])
      BY <2>3 DEF Held
    <3>2. a + i \in DOMAIN uu /\ x \in Range(uu[a + i])
      BY <1>6, <3>1
    <3> QED BY <3>2 DEF Held
  <2> QED BY <2>1, <2>2, <2>3
<1>8. ASSUME Fits(ss, n), Fits(tt, n) PROVE Fits(uu, n)
  BY <1>6, <1>8 DEF Fits
<1>9. ASSUME Apart(ss), Apart(tt), Held(ss) \cap Held(tt) = {} PROVE Apart(uu)
  <2>1. \A i \in DOMAIN uu : IsInjective(uu[i])
    BY <1>6, <1>9 DEF Apart
  <2>2. ASSUME NEW i \in DOMAIN uu, NEW j \in DOMAIN uu, i # j PROVE Range(uu[i]) \cap Range(uu[j]) = {}
    <3>1. CASE i \in DOMAIN ss /\ j \in DOMAIN ss
      BY <1>6, <1>9, <2>2, <3>1 DEF Apart
    <3>2. CASE i - a \in DOMAIN tt /\ j - a \in DOMAIN tt /\ uu[i] = tt[i - a] /\ uu[j] = tt[j - a]
      <4>1. i - a # j - a
        <5>1. i \in Int /\ j \in Int /\ a \in Int
          BY <1>5, <1>6 DEF a
        <5> QED BY <2>2, <5>1
      <4> QED BY <1>9, <3>2, <4>1 DEF Apart
    <3>3. \A k \in DOMAIN ss : Range(uu[k]) \subseteq Held(ss)
      BY <1>6 DEF Held
    <3>4. \A k \in DOMAIN tt : Range(tt[k]) \subseteq Held(tt)
      BY DEF Held
    <3>5. CASE i \in DOMAIN ss /\ j - a \in DOMAIN tt /\ uu[j] = tt[j - a]
      BY <1>9, <3>3, <3>4, <3>5
    <3>6. CASE j \in DOMAIN ss /\ i - a \in DOMAIN tt /\ uu[i] = tt[i - a]
      BY <1>9, <3>3, <3>4, <3>6
    <3> QED BY <1>6, <3>1, <3>2, <3>5, <3>6
  <2> QED BY <2>1, <2>2 DEF Apart
<1>10. uu \in Seq(Seq(U))
  BY <1>1 DEF T
<1> QED BY <1>7, <1>8, <1>9, <1>10 DEF uu

LEMMA OnePiece ==
  ASSUME NEW U, NEW s \in Seq(U), IsInjective(s), NEW n
  PROVE  /\ <<s>> \in Seq(Seq(U)) /\ Held(<<s>>) = Range(s) /\ Apart(<<s>>)
         /\ Len(s) <= n => Fits(<<s>>, n)
<1> DEFINE T == Seq(U)
           one == <<s>>
<1>1. one \in Seq(T) /\ DOMAIN one = {1} /\ one[1] = s
  <2> HIDE DEF T
  <2>1. s \in T
    BY DEF T
  <2> QED BY <2>1
<1> HIDE DEF one
<1>2. Held(one) = Range(s)
  BY <1>1 DEF Held
<1>3. Apart(one) /\ (Len(s) <= n => Fits(one, n))
  BY <1>1 DEF Apart, Fits
<1> QED BY <1>1, <1>2, <1>3 DEF one

\* What is packed so far: passes, and one that still takes files.
Loads(U) == [full : Seq(Seq(U)), open : Seq(U)]
Load(pk) == Held(pk.full) \cup Range(pk.open)
Packing(pk, n) ==
  /\ Apart(pk.full) /\ IsInjective(pk.open) /\ Held(pk.full) \cap Range(pk.open) = {}
  /\ Fits(pk.full, n) /\ Len(pk.open) <= n

LEMMA Flushed ==
  ASSUME NEW U, NEW pk \in Loads(U), NEW n, Packing(pk, n)
  PROVE  Flush(pk) \in Seq(Seq(U)) /\ Held(Flush(pk)) = Load(pk) /\ Apart(Flush(pk)) /\ Fits(Flush(pk), n)
<1> DEFINE ss == pk.full
           s == pk.open
<1>1. ss \in Seq(Seq(U)) /\ s \in Seq(U)
  BY DEF Loads
<1>2. Apart(ss) /\ IsInjective(s) /\ Held(ss) \cap Range(s) = {} /\ Fits(ss, n) /\ Len(s) <= n
  BY DEF Packing
<1>3. Flush(pk) = IF s = <<>> THEN ss ELSE Append(ss, s)
  BY DEF Flush
<1>4. Load(pk) = Held(ss) \cup Range(s)
  BY DEF Load
<1> HIDE DEF ss, s
<1>5. CASE s = <<>>
  <2>1. Range(s) = {}
    BY <1>5 DEF Range
  <2> QED BY <1>1, <1>2, <1>3, <1>4, <1>5, <2>1
<1>6. CASE s # <<>>
  <2> DEFINE one == <<s>>
             both == ss \o one
  <2>1. one \in Seq(Seq(U)) /\ Held(one) = Range(s) /\ Apart(one) /\ Fits(one, n)
    BY <1>1, <1>2, OnePiece
  <2>2. Append(ss, s) = both
    OBVIOUS
  <2> HIDE DEF one
  <2>3. both \in Seq(Seq(U)) /\ Held(both) = Held(ss) \cup Held(one) /\ Fits(both, n) /\ Apart(both)
    BY <1>1, <1>2, <2>1, Chained
  <2> HIDE DEF both
  <2> QED BY <1>3, <1>4, <1>6, <2>1, <2>2, <2>3
<1> QED BY <1>5, <1>6

LEMMA Empties ==
  /\ \A U : <<>> \in Seq(U)
  /\ Held(<<>>) = {} /\ Range(<<>>) = {} /\ Apart(<<>>) /\ IsInjective(<<>>) /\ Len(<<>>) = 0
  /\ \A n : Fits(<<>>, n)
  BY DEF Held, Range, Apart, IsInjective, Fits

LEMMA PackKeeps ==
  ASSUME NEW U, NEW pk \in Loads(U), NEW g \in Seq(U), NEW n \in Nat, n > 0,
         Packing(pk, n), IsInjective(g), Load(pk) \cap Range(g) = {}
  PROVE  /\ Pack(pk, g, n) \in Loads(U) /\ Packing(Pack(pk, g, n), n)
         /\ Load(Pack(pk, g, n)) = Load(pk) \cup Range(g)
<1> DEFINE ss == pk.full
           s == pk.open
           flushed == Flush(pk)
           p1 == [full |-> ss, open |-> s \o g]
           p2 == [full |-> flushed \o Slices(g, n), open |-> <<>>]
           p3 == [full |-> flushed, open |-> g]
           Ok(p) == p \in Loads(U) /\ Packing(p, n) /\ Load(p) = Load(pk) \cup Range(g)
<1>1. ss \in Seq(Seq(U)) /\ s \in Seq(U) /\ pk = [full |-> ss, open |-> s]
  BY DEF Loads
<1>2. Apart(ss) /\ IsInjective(s) /\ Held(ss) \cap Range(s) = {} /\ Fits(ss, n) /\ Len(s) <= n
  BY DEF Packing
<1>3. Load(pk) = Held(ss) \cup Range(s)
  BY DEF Load
<1>4. flushed \in Seq(Seq(U)) /\ Held(flushed) = Load(pk) /\ Apart(flushed) /\ Fits(flushed, n)
  BY Flushed
<1>5. Pack(pk, g, n) = IF Len(s) + Len(g) <= n THEN p1 ELSE IF Len(g) > n THEN p2 ELSE p3
  <2> DEFINE x == s \o g
             e == [pk EXCEPT !.open = x]
  <2>1. e = p1
    <3> HIDE DEF ss, s, x
    <3>1. e = [full |-> ss, open |-> x]
      BY <1>1
    <3> QED BY <3>1 DEF x
  <2>2. Pack(pk, g, n) = IF Len(s) + Len(g) <= n THEN e ELSE IF Len(g) > n THEN p2 ELSE p3
    BY Zenon DEF Pack
  <2> HIDE DEF e, p1, p2, p3
  <2> QED BY <2>1, <2>2, Zenon
<1>6. Len(g) \in Nat /\ Len(s) \in Nat
  BY <1>1
<1>7. ASSUME NEW ff \in Seq(Seq(U)), NEW o \in Seq(U), Apart(ff), IsInjective(o), Held(ff) \cap Range(o) = {},
             Fits(ff, n), Len(o) <= n, Held(ff) \cup Range(o) = Load(pk) \cup Range(g)
      PROVE  Ok([full |-> ff, open |-> o])
  <2> DEFINE p == [full |-> ff, open |-> o]
  <2>1. p.full = ff /\ p.open = o /\ p \in Loads(U)
    BY DEF Loads
  <2> HIDE DEF p
  <2>2. Packing(p, n) /\ Load(p) = Load(pk) \cup Range(g)
    BY <1>7, <2>1 DEF Packing, Load
  <2> QED BY <2>1, <2>2 DEF p
<1> HIDE DEF ss, s, flushed
<1>8. ASSUME Len(s) + Len(g) <= n PROVE Ok(p1)
  <2> DEFINE o == s \o g
  <2>1. o \in Seq(U) /\ Len(o) = Len(s) + Len(g) /\ Range(o) = Range(s) \cup Range(g) /\ IsInjective(o)
    BY <1>1, <1>2, <1>3, Concat
  <2>2. Held(ss) \cap Range(o) = {} /\ Held(ss) \cup Range(o) = Load(pk) \cup Range(g)
    BY <1>2, <1>3, <2>1
  <2>3. Len(o) <= n
    BY <1>8, <2>1
  <2> HIDE DEF o, Ok
  <2>4. Ok([full |-> ss, open |-> o])
    BY <1>1, <1>2, <1>7, <2>1, <2>2, <2>3
  <2> QED BY <2>4 DEF o
<1>9. Ok(p2)
  <2> DEFINE sl == Slices(g, n)
             ff == flushed \o sl
             o == <<>>
  <2>1. sl \in Seq(Seq(U)) /\ Held(sl) = Range(g) /\ Apart(sl) /\ Fits(sl, n)
    BY SlicesHold DEF Fits
  <2> HIDE DEF sl
  <2>2. ff \in Seq(Seq(U)) /\ Held(ff) = Held(flushed) \cup Held(sl) /\ Fits(ff, n) /\ Apart(ff)
    BY <1>4, <2>1, Chained
  <2> HIDE DEF ff
  <2>3. o \in Seq(U) /\ IsInjective(o) /\ Range(o) = {} /\ Len(o) <= n
    <3>1. Len(o) = 0
      BY Empties
    <3> QED BY <3>1, Empties
  <2> HIDE DEF o, Ok
  <2>4. Ok([full |-> ff, open |-> o])
    BY <1>4, <1>7, <2>1, <2>2, <2>3
  <2> QED BY <2>4 DEF ff, o, sl
<1>10. ASSUME ~(Len(g) > n) PROVE Ok(p3)
  <2>1. Len(g) <= n
    BY <1>6, <1>10
  <2> HIDE DEF Ok
  <2> QED BY <1>4, <1>7, <2>1
<1> HIDE DEF p1, p2, p3
<1>11. Ok(Pack(pk, g, n))
  <2> HIDE DEF Ok
  <2> QED BY <1>5, <1>8, <1>9, <1>10
<1> QED BY <1>11

LEMMA PackTyped ==
  ASSUME NEW U, NEW pk \in Loads(U), NEW g \in Seq(U), NEW n \in Nat, n > 0
  PROVE  Pack(pk, g, n) \in Loads(U)
<1> DEFINE ss == pk.full
           s == pk.open
           x == s \o g
           ff == Flush(pk)
           sl == Slices(g, n)
           e == [pk EXCEPT !.open = x]
           p2 == [full |-> ff \o sl, open |-> <<>>]
           p3 == [full |-> ff, open |-> g]
<1>1. ss \in Seq(Seq(U)) /\ s \in Seq(U) /\ pk = [full |-> ss, open |-> s]
  BY DEF Loads
<1>2. x \in Seq(U)
  BY <1>1, Concat
<1>3. ff \in Seq(Seq(U))
  <2>1. ff = IF s = <<>> THEN ss ELSE Append(ss, s)
    BY DEF Flush
  <2> HIDE DEF ff, ss, s
  <2> QED BY <1>1, <2>1
<1>4. sl \in Seq(Seq(U))
  BY SlicesHold
<1>5. ff \o sl \in Seq(Seq(U))
  <2> HIDE DEF ff, sl
  <2> QED BY <1>3, <1>4
<1>6. Pack(pk, g, n) = IF Len(s) + Len(g) <= n THEN e ELSE IF Len(g) > n THEN p2 ELSE p3
  BY Zenon DEF Pack
<1>7. e = [full |-> ss, open |-> x]
  <2> HIDE DEF ss, s, x
  <2> QED BY <1>1
<1>8. \A f \in Seq(Seq(U)), o \in Seq(U) : [full |-> f, open |-> o] \in Loads(U)
  BY DEF Loads
<1>9. e \in Loads(U) /\ p2 \in Loads(U) /\ p3 \in Loads(U)
  <2> HIDE DEF e, ss, s, x, ff, sl
  <2> QED BY <1>1, <1>2, <1>3, <1>5, <1>7, <1>8, Empties
<1> HIDE DEF e, p2, p3
<1> QED BY <1>6, <1>9

LEMMA PackedGrows ==
  ASSUME NEW U, NEW gs \in Seq(Seq(U)), NEW n \in Nat, n > 0
  PROVE  \E p \in [0..Len(gs) -> Loads(U)] :
           /\ p[0] = [full |-> <<>>, open |-> <<>>]
           /\ \A i \in 1..Len(gs) : p[i] = Pack(p[i - 1], gs[i], n)
           /\ Packed(gs, n) = p[Len(gs)]
<1> DEFINE none == [full |-> <<>>, open |-> <<>>]
           P(p) == p = [i \in 0..Len(gs) |-> IF i = 0 THEN none ELSE Pack(p[i - 1], gs[i], n)]
           packed == CHOOSE p : P(p)
           step == [q \in (1..Len(gs)) \X Loads(U) |-> Pack(q[2], gs[q[1]], n)]
<1>1. Len(gs) \in Nat /\ \A i \in 1..Len(gs) : gs[i] \in Seq(U)
  OBVIOUS
<1>2. none \in Loads(U)
  BY Empties DEF Loads
<1>3. step \in [(1..Len(gs)) \X Loads(U) -> Loads(U)]
  <2>1. ASSUME NEW q \in (1..Len(gs)) \X Loads(U) PROVE Pack(q[2], gs[q[1]], n) \in Loads(U)
    <3>1. q[2] \in Loads(U) /\ gs[q[1]] \in Seq(U)
      BY <1>1
    <3> QED BY <3>1, PackTyped
  <2> QED BY <2>1
<1> HIDE DEF none
<1>4. \E g \in [0..Len(gs) -> Loads(U)] : Stepwise(g, Len(gs), none, step)
  <2> HIDE DEF step
  <2> QED BY <1>1, <1>2, <1>3, Recursion
<1>5. PICK g \in [0..Len(gs) -> Loads(U)] :
        \A i \in 0..Len(gs) : g[i] = IF i = 0 THEN none ELSE step[<<i, g[i - 1]>>]
  <2> HIDE DEF step
  <2> QED BY <1>4 DEF Stepwise
<1>6. ASSUME NEW i \in 0..Len(gs), i # 0 PROVE step[<<i, g[i - 1]>>] = Pack(g[i - 1], gs[i], n)
  <2>1. i - 1 \in 0..Len(gs) /\ i \in 1..Len(gs)
    BY <1>1, <1>6
  <2>2. <<i, g[i - 1]>> \in (1..Len(gs)) \X Loads(U)
    BY <2>1
  <2> QED BY <2>2
<1> HIDE DEF step
<1>7. P(g)
  BY <1>5, <1>6
<1>8. P(packed)
  <2> HIDE DEF P
  <2> QED BY <1>7, Zenon
<1>9. Packed(gs, n) = packed[Len(gs)]
  BY Zenon DEF Packed, none
<1> HIDE DEF packed
<1>10. \A i \in 0..Len(gs) : packed[i] = IF i = 0 THEN none ELSE Pack(packed[i - 1], gs[i], n)
  BY <1>8
<1>11. packed[0] = none /\ \A i \in 1..Len(gs) : packed[i] = Pack(packed[i - 1], gs[i], n)
  <2>1. 0 \in 0..Len(gs) /\ \A i \in 1..Len(gs) : i \in 0..Len(gs) /\ i # 0
    BY <1>1
  <2> QED BY <1>10, <2>1
<1>12. packed \in [0..Len(gs) -> Loads(U)]
  <2> DEFINE S == {j \in 0..Len(gs) : packed[j] \in Loads(U)}
  <2>1. 0 \in S
    <3>1. 0 \in 0..Len(gs)
      BY <1>1
    <3> QED BY <1>2, <1>11, <3>1
  <2>2. ASSUME NEW i \in 1..Len(gs), i - 1 \in S PROVE i \in S
    <3>1. packed[i] = Pack(packed[i - 1], gs[i], n)
      BY <1>11
    <3>2. packed[i - 1] \in Loads(U) /\ gs[i] \in Seq(U)
      BY <1>1, <2>2
    <3>3. i \in 0..Len(gs)
      BY <1>1
    <3>4. Pack(packed[i - 1], gs[i], n) \in Loads(U)
      BY <3>2, PackTyped
    <3> QED BY <3>1, <3>3, <3>4
  <2> HIDE DEF S
  <2>3. \A i \in 0..Len(gs) : i \in S
    BY <1>1, <2>1, <2>2, InductTo
  <2> QED BY <1>8, <2>3 DEF S
<1> QED BY <1>9, <1>11, <1>12 DEF none

LEMMA PackedHolds ==
  ASSUME NEW U, NEW gs \in Seq(Seq(U)), Apart(gs), NEW n \in Nat, n > 0
  PROVE  Packed(gs, n) \in Loads(U) /\ Packing(Packed(gs, n), n) /\ Load(Packed(gs, n)) = Held(gs)
<1>1. PICK p \in [0..Len(gs) -> Loads(U)] :
        /\ p[0] = [full |-> <<>>, open |-> <<>>]
        /\ \A i \in 1..Len(gs) : p[i] = Pack(p[i - 1], gs[i], n)
        /\ Packed(gs, n) = p[Len(gs)]
  BY PackedGrows
<1>2. Len(gs) \in Nat /\ DOMAIN gs = 1..Len(gs) /\ \A i \in 1..Len(gs) : gs[i] \in Seq(U)
  OBVIOUS
<1> DEFINE HeldUpTo(m) == UNION {Range(gs[j]) : j \in 1..m}
           S == {j \in 0..Len(gs) : Packing(p[j], n) /\ Load(p[j]) = HeldUpTo(j)}
<1>3. 0 \in S
  <2>1. 0 \in 0..Len(gs) /\ HeldUpTo(0) = {}
    BY <1>2
  <2>2. p[0].full = <<>> /\ p[0].open = <<>>
    BY <1>1
  <2>3. Packing(p[0], n)
    BY <2>2, Empties DEF Packing
  <2>4. Load(p[0]) = {}
    BY <2>2, Empties DEF Load
  <2> QED BY <2>1, <2>3, <2>4
<1>4. ASSUME NEW i \in 1..Len(gs), i - 1 \in S PROVE i \in S
  <2> DEFINE q == p[i - 1]
             g == gs[i]
  <2>1. i \in 0..Len(gs) /\ i - 1 \in 0..Len(gs) /\ HeldUpTo(i) = HeldUpTo(i - 1) \cup Range(g)
    <3>1. 1..i = (1..(i - 1)) \cup {i} /\ i \in 0..Len(gs) /\ i - 1 \in 0..Len(gs)
      BY <1>2
    <3> QED BY <3>1
  <2>2. q \in Loads(U) /\ Packing(q, n) /\ Load(q) = HeldUpTo(i - 1)
    BY <1>4, <2>1
  <2>3. g \in Seq(U) /\ IsInjective(g) /\ \A j \in 1..Len(gs) : i # j => Range(g) \cap Range(gs[j]) = {}
    BY <1>2 DEF Apart
  <2>4. HeldUpTo(i - 1) \cap Range(g) = {}
    <3>1. \A j \in 1..(i - 1) : j \in 1..Len(gs) /\ i # j
      BY <1>2
    <3> HIDE DEF g
    <3> QED BY <2>3, <3>1
  <2>5. p[i] = Pack(q, g, n)
    BY <1>1
  <2> HIDE DEF q, g, HeldUpTo
  <2>6. Packing(Pack(q, g, n), n) /\ Load(Pack(q, g, n)) = Load(q) \cup Range(g)
    BY <2>2, <2>3, <2>4, PackKeeps
  <2> QED BY <2>1, <2>2, <2>5, <2>6
<1> HIDE DEF S
<1>5. \A i \in 0..Len(gs) : i \in S
  BY <1>2, <1>3, <1>4, InductTo
<1>6. Len(gs) \in 0..Len(gs)
  BY <1>2
<1>7. Packing(p[Len(gs)], n) /\ Load(p[Len(gs)]) = HeldUpTo(Len(gs)) /\ p[Len(gs)] \in Loads(U)
  BY <1>5, <1>6 DEF S
<1>8. HeldUpTo(Len(gs)) = Held(gs)
  BY <1>2 DEF Held
<1> HIDE DEF HeldUpTo
<1> QED BY <1>1, <1>7, <1>8

\* split_into_passes: every file in one pass, and no pass above the limit.
LEMMA SplitHolds ==
  ASSUME NEW U, NEW refs \in Seq(U), IsInjective(refs), NEW n \in Nat, n > 0
  PROVE  /\ SplitIntoPasses(refs, n) \in Seq(Seq(U)) /\ Held(SplitIntoPasses(refs, n)) = Range(refs)
         /\ Apart(SplitIntoPasses(refs, n)) /\ Fits(SplitIntoPasses(refs, n), n)
<1> DEFINE gs == GroupByDirectory(refs)
           pk == Packed(gs, n)
           Good(ss) == ss \in Seq(Seq(U)) /\ Held(ss) = Range(refs) /\ Apart(ss) /\ Fits(ss, n)
<1>1. gs \in Seq(Seq(U)) /\ Apart(gs) /\ Held(gs) = Range(refs)
  BY GroupsHold
<1>2. SplitIntoPasses(refs, n) = IF Len(refs) <= n THEN <<refs>> ELSE Flush(pk)
  BY DEF SplitIntoPasses
<1> HIDE DEF gs
<1>3. pk \in Loads(U) /\ Packing(pk, n) /\ Load(pk) = Held(gs)
  BY <1>1, PackedHolds
<1> HIDE DEF pk
<1>4. Good(Flush(pk))
  BY <1>1, <1>3, Flushed
<1>5. ASSUME Len(refs) <= n PROVE Good(<<refs>>)
  BY <1>5, OnePiece
<1>6. Good(SplitIntoPasses(refs, n))
  <2> HIDE DEF Good
  <2> QED BY <1>2, <1>4, <1>5
<1> QED BY <1>6

-----------------------------------------------------------------------------
(* The files of a task and its passes.                                     *)
Cut(ps) == [i \in DOMAIN ps |-> ps[i].files]

\* No file has two places, and no pass is larger than a pass can be.
OnePlaceEach(ps) == Apart(Cut(ps)) /\ Fits(Cut(ps), Ceiling)

\* The files of the first passes were delivered, by their pass or before it.
Behind(n) == \A i \in 1..(n - 1) : Range(passes[i].files) \subseteq succeeded \cup Written

PassInv ==
  /\ TypeOK
  /\ OnePlaceEach(passes) /\ Behind(index)
  /\ pc = "start" => index = 1
  /\ pc = "child" => index <= Len(passes)
  /\ pc \in {"pass", "child"} => Files \subseteq Held(Cut(passes)) \cup Written
  /\ pc # "done" => outcome = "none"
  /\ SuccessLeavesNothingOut

LEMMA RefsFacts ==
  /\ Refs \in Seq(Files) /\ IsInjective(Refs) /\ Len(Refs) \in Nat /\ Range(Refs) = Files
  /\ IsFiniteSet(Files) /\ Cardinality(Files) <= Len(Refs)
<1>1. Refs \in Seq(Files) /\ IsInjective(Refs) /\ Range(Refs) = Files
  BY RefsAssumption DEF Files
<1> DEFINE n == Len(Refs)
           N == 1..n
<1>2. n \in Nat /\ DOMAIN Refs = N /\ Refs \in [N -> Files]
  BY <1>1
<1>3. Refs \in Surjection(N, Files)
  BY <1>1, <1>2 DEF Surjection, Range
<1>4. IsFiniteSet(N) /\ Cardinality(N) = n
  <2>1. IsFiniteSet(N) /\ Cardinality(N) = IF 1 > n THEN 0 ELSE n - 1 + 1
    BY <1>2, FS_Interval
  <2> HIDE DEF N, n
  <2> QED BY <1>2, <2>1
<1> HIDE DEF N
<1>5. IsFiniteSet(Files) /\ Cardinality(Files) <= Cardinality(N)
  BY <1>3, <1>4, FS_Surjection
<1> QED BY <1>1, <1>2, <1>4, <1>5

\* A pass is no longer than the task, since it repeats no file.
LEMMA PassLength ==
  ASSUME NEW s \in Seq(Files), IsInjective(s)
  PROVE  Len(s) <= Len(Refs)
<1> DEFINE n == Len(s)
           N == 1..n
<1>1. n \in Nat /\ DOMAIN s = N /\ s \in [N -> Files]
  OBVIOUS
<1>2. s \in Injection(N, Files)
  BY <1>1 DEF Injection
<1>3. IsFiniteSet(N) /\ Cardinality(N) = n
  <2>1. IsFiniteSet(N) /\ Cardinality(N) = IF 1 > n THEN 0 ELSE n - 1 + 1
    BY <1>1, FS_Interval
  <2> HIDE DEF N, n
  <2> QED BY <1>1, <2>1
<1> HIDE DEF N
<1>4. Cardinality(N) <= Cardinality(Files)
  BY <1>2, RefsFacts, FS_Injection
<1>5. Cardinality(Files) \in Nat
  BY RefsFacts, FS_CardinalityType
<1> HIDE DEF n
<1>6. n <= Len(Refs)
  BY <1>1, <1>3, <1>4, <1>5, RefsFacts
<1> QED BY <1>6 DEF n

\* calculate_pass_capacity stays between the floor and the ceiling.
LEMMA CapacityTyped ==
  ASSUME NEW w \in Nat
  PROVE  PassCapacity(w) \in Floor..Ceiling
<1> DEFINE available == ((w - InputTokens) * 6) \div 10
           q == available \div AverageOutput
<1>1. PassCapacity(w) = IF available <= 0 THEN Floor ELSE Larger(Floor, Smaller(Larger(1, q), Ceiling))
  BY DEF PassCapacity
<1>2. available \in Int
  BY RefsAssumption
<1> HIDE DEF available
<1>3. q \in Int
  BY <1>2, SumTyped
<1> HIDE DEF q
<1> QED BY <1>1, <1>3 DEF Larger, Smaller, Floor, Ceiling

LEMMA HalfTyped ==
  ASSUME NEW n \in Nat, n <= Ceiling
  PROVE  HalfLimit(n) \in Floor..Ceiling
  BY DEF HalfLimit, Larger, Floor, Ceiling

LEMMA CutTyped ==
  ASSUME NEW ps \in Seq(SubTasks)
  PROVE  Cut(ps) \in Seq(Seq(Files)) /\ DOMAIN Cut(ps) = DOMAIN ps /\ Len(Cut(ps)) = Len(ps)
<1> DEFINE c == Cut(ps)
<1>1. DOMAIN ps = 1..Len(ps) /\ Len(ps) \in Nat /\ \A i \in 1..Len(ps) : ps[i].files \in Seq(Files)
  <2>1. DOMAIN ps = 1..Len(ps) /\ Len(ps) \in Nat /\ \A i \in 1..Len(ps) : ps[i] \in SubTasks
    OBVIOUS
  <2> QED BY <2>1 DEF SubTasks
<1>2. c = [i \in 1..Len(ps) |-> ps[i].files]
  BY <1>1 DEF Cut
<1>3. c = [i \in 1..Len(ps) |-> c[i]] /\ \A i \in 1..Len(ps) : c[i] \in Seq(Files)
  BY <1>1, <1>2
<1> HIDE DEF c
<1>4. c \in Seq(Seq(Files)) /\ DOMAIN c = 1..Len(ps) /\ Len(c) = Len(ps)
  BY <1>1, <1>3
<1> QED BY <1>1, <1>4 DEF c

LEMMA PiecesHold ==
  ASSUME NEW ss, ss \in Seq(Seq(Files)), Apart(ss), Fits(ss, Ceiling), Held(ss) = Files,
         NEW ps, ps = [i \in DOMAIN ss |-> [files |-> ss[i], num |-> i]]
  PROVE  ps \in Seq(SubTasks) /\ OnePlaceEach(ps) /\ Files \subseteq Held(Cut(ps))
<1>1. DOMAIN ss = 1..Len(ss) /\ Len(ss) \in Nat /\ \A i \in 1..Len(ss) : ss[i] \in Seq(Files)
  OBVIOUS
<1>2. ps = [i \in 1..Len(ss) |-> ps[i]] /\ \A i \in 1..Len(ss) : ps[i].files = ss[i] /\ ps[i] \in SubTasks
  BY <1>1 DEF SubTasks
<1>3. ps \in Seq(SubTasks)
  BY <1>1, <1>2
<1>4. Cut(ps) = [i \in DOMAIN ss |-> ss[i]]
  BY <1>1, <1>2 DEF Cut
<1>5. Cut(ps) = ss
  <2> DEFINE T == Seq(Files)
  <2>1. \A s \in Seq(T) : s = [i \in DOMAIN s |-> s[i]]
    <3> HIDE DEF T
    <3> QED OBVIOUS
  <2> QED BY <1>4, <2>1
<1> QED BY <1>3, <1>5 DEF OnePlaceEach

\* What a truncated child leaves: its own files but those that were written, and
\* the files of the passes after it.
From(n) == UNION {Range(passes[i].files) : i \in n..Len(passes)}
Before(n) == UNION {Range(passes[i].files) : i \in 1..(n - 1)}

LEMMA PassesFacts ==
  ASSUME TypeOK, OnePlaceEach(passes)
  PROVE  /\ passes \in Seq(SubTasks) /\ Len(passes) \in Nat /\ DOMAIN passes = 1..Len(passes)
         /\ index \in Nat /\ index > 0 /\ index <= Len(passes) + 1
         /\ \A i \in 1..Len(passes) :
              /\ passes[i].files \in Seq(Files) /\ passes[i].num \in Nat /\ passes[i].num > 0
              /\ IsInjective(passes[i].files) /\ Len(passes[i].files) <= Ceiling
         /\ \A i, j \in 1..Len(passes) : i # j => Range(passes[i].files) \cap Range(passes[j].files) = {}
<1>1. passes \in Seq(SubTasks) /\ index \in 1..(Len(passes) + 1)
  BY DEF TypeOK
<1>2. /\ Len(passes) \in Nat /\ DOMAIN passes = 1..Len(passes)
      /\ \A i \in 1..Len(passes) : passes[i] \in SubTasks
  BY <1>1
<1>3. \A i \in 1..Len(passes) : passes[i].files \in Seq(Files) /\ passes[i].num \in Nat /\ passes[i].num > 0
  BY <1>2 DEF SubTasks
<1> DEFINE c == Cut(passes)
<1>4. DOMAIN c = 1..Len(passes) /\ \A i \in 1..Len(passes) : c[i] = passes[i].files
  BY <1>2 DEF Cut
<1>5. Apart(c) /\ Fits(c, Ceiling)
  BY DEF OnePlaceEach
<1> HIDE DEF c
<1>6. \A i \in 1..Len(passes) : IsInjective(passes[i].files) /\ Len(passes[i].files) <= Ceiling
  BY <1>4, <1>5 DEF Apart, Fits
<1>7. \A i, j \in 1..Len(passes) : i # j => Range(passes[i].files) \cap Range(passes[j].files) = {}
  BY <1>4, <1>5 DEF Apart
<1>8. index \in Nat /\ index > 0 /\ index <= Len(passes) + 1
  BY <1>1, <1>2
<1>9. \A i \in 1..Len(passes) :
        /\ passes[i].files \in Seq(Files) /\ passes[i].num \in Nat /\ passes[i].num > 0
        /\ IsInjective(passes[i].files) /\ Len(passes[i].files) <= Ceiling
  BY <1>3, <1>6
<1> QED BY <1>1, <1>2, <1>7, <1>8, <1>9

LEMMA RemainingHolds ==
  ASSUME TypeOK, OnePlaceEach(passes), index <= Len(passes)
  PROVE  /\ Remaining \in Seq(Files) /\ IsInjective(Remaining)
         /\ Range(Remaining) = (Range(passes[index].files) \ Written) \cup From(index + 1)
<1>0. /\ Len(passes) \in Nat /\ index \in Nat /\ index > 0
      /\ \A i \in 1..Len(passes) : passes[i].files \in Seq(Files) /\ IsInjective(passes[i].files)
      /\ \A i, j \in 1..Len(passes) : i # j => Range(passes[i].files) \cap Range(passes[j].files) = {}
  BY PassesFacts, Zenon
<1>1. /\ Len(passes) \in Nat /\ index \in Nat /\ index > 0 /\ index \in 1..Len(passes)
      /\ \A i \in 1..Len(passes) : passes[i].files \in Seq(Files) /\ IsInjective(passes[i].files)
      /\ \A i, j \in 1..Len(passes) : i # j => Range(passes[i].files) \cap Range(passes[j].files) = {}
  <2>1. index \in 1..Len(passes)
    BY <1>0
  <2> QED BY <1>0, <2>1, Zenon
<1> DEFINE n == Len(passes) - index
           later == [i \in 1..n |-> passes[index + i].files]
           own == Without(passes[index].files, Written)
           rest == Joined(later)
<1>2. n \in Nat /\ \A i \in 1..n : index + i \in 1..Len(passes) /\ index + i # index
  BY <1>1
<1>3. Remaining = own \o rest
  BY DEF Remaining, Unwritten
<1>4. DOMAIN later = 1..n /\ \A i \in 1..n : later[i] = passes[index + i].files
  OBVIOUS
<1>5. later \in Seq(Seq(Files))
  <2>1. later = [i \in 1..n |-> later[i]] /\ \A i \in 1..n : later[i] \in Seq(Files)
    BY <1>1, <1>2
  <2> HIDE DEF later, n
  <2> QED BY <1>2, <2>1
<1> HIDE DEF later
<1>6. Apart(later)
  <2>1. \A i, j \in 1..n : i # j => index + i # index + j
    BY <1>1, <1>2
  <2> HIDE DEF n
  <2>2. \A i \in DOMAIN later : IsInjective(later[i])
    BY <1>1, <1>2, <1>4
  <2>3. ASSUME NEW i \in DOMAIN later, NEW j \in DOMAIN later, i # j
        PROVE  Range(later[i]) \cap Range(later[j]) = {}
    <3>1. index + i # index + j /\ index + i \in 1..Len(passes) /\ index + j \in 1..Len(passes)
      BY <1>2, <1>4, <2>1, <2>3
    <3> QED BY <1>1, <1>4, <3>1
  <2> QED BY <2>2, <2>3 DEF Apart
<1>7. Held(later) = From(index + 1)
  <2>1. \A i \in 1..n : index + i \in (index + 1)..Len(passes)
    BY <1>1
  <2>2. \A j \in (index + 1)..Len(passes) : j - index \in 1..n /\ index + (j - index) = j
    BY <1>1
  <2> HIDE DEF n
  <2>3. ASSUME NEW f \in Held(later) PROVE f \in From(index + 1)
    BY <1>4, <2>1 DEF Held, From
  <2>4. ASSUME NEW f \in From(index + 1) PROVE f \in Held(later)
    <3>1. PICK j \in (index + 1)..Len(passes) : f \in Range(passes[j].files)
      BY <2>4 DEF From
    <3>2. j - index \in DOMAIN later /\ f \in Range(later[j - index])
      BY <1>4, <2>2, <3>1
    <3> QED BY <3>2 DEF Held
  <2> QED BY <2>3, <2>4
<1>8. rest \in Seq(Files) /\ Range(rest) = From(index + 1) /\ IsInjective(rest)
  BY <1>5, <1>6, <1>7, JoinedHolds
<1>9. own \in Seq(Files) /\ Range(own) = Range(passes[index].files) \ Written /\ IsInjective(own)
  <2> DEFINE s == passes[index].files
  <2>1. s \in Seq(Files) /\ IsInjective(s)
    BY <1>1
  <2> HIDE DEF s
  <2>2. /\ Without(s, Written) \in Seq(Files) /\ Range(Without(s, Written)) = Range(s) \ Written
        /\ (\A i, j \in DOMAIN s : s[i] = s[j] /\ s[i] \notin Written => i = j)
             => IsInjective(Without(s, Written))
    BY <2>1, WithoutKeeps
  <2>3. \A i, j \in DOMAIN s : s[i] = s[j] /\ s[i] \notin Written => i = j
    BY <2>1 DEF IsInjective
  <2> QED BY <2>2, <2>3 DEF s
<1>10. Range(own) \cap Range(rest) = {}
  <2>1. \A j \in (index + 1)..Len(passes) : j \in 1..Len(passes) /\ index # j
    BY <1>1
  <2>2. Range(passes[index].files) \cap From(index + 1) = {}
    BY <1>1, <2>1 DEF From
  <2> HIDE DEF own, rest
  <2> QED BY <1>8, <1>9, <2>2
<1> HIDE DEF own, rest
<1>11. /\ own \o rest \in Seq(Files) /\ Range(own \o rest) = Range(own) \cup Range(rest)
       /\ IsInjective(own \o rest)
  BY <1>8, <1>9, <1>10, Concat
<1> QED BY <1>3, <1>8, <1>9, <1>11

\* Passes without some files, and without those that are left empty.
Thin(ss, T) == Without([i \in DOMAIN ss |-> Without(ss[i], T)], {<<>>})

LEMMA Thinned ==
  ASSUME NEW U, NEW ss \in Seq(Seq(U)), Apart(ss), NEW n \in Nat, Fits(ss, n), NEW T
  PROVE  /\ Thin(ss, T) \in Seq(Seq(U)) /\ Held(Thin(ss, T)) = Held(ss) \ T
         /\ Apart(Thin(ss, T)) /\ Fits(Thin(ss, T), n)
<1> DEFINE w == Thin(ss, T)
           V == Seq(U)
           E == {<<>>}
           tt == [i \in DOMAIN ss |-> Without(ss[i], T)]
<1>1. DOMAIN ss = 1..Len(ss) /\ Len(ss) \in Nat /\ \A i \in 1..Len(ss) : ss[i] \in Seq(U)
  OBVIOUS
<1>2. \A i \in 1..Len(ss) : IsInjective(ss[i]) /\ Len(ss[i]) <= n
  BY <1>1 DEF Apart, Fits
<1>3. \A i \in 1..Len(ss) : /\ Without(ss[i], T) \in Seq(U) /\ IsInjective(Without(ss[i], T))
                            /\ Range(Without(ss[i], T)) = Range(ss[i]) \ T
                            /\ Len(Without(ss[i], T)) <= n
  <2> SUFFICES ASSUME NEW i \in 1..Len(ss)
               PROVE  /\ Without(ss[i], T) \in Seq(U) /\ IsInjective(Without(ss[i], T))
                      /\ Range(Without(ss[i], T)) = Range(ss[i]) \ T
                      /\ Len(Without(ss[i], T)) <= n
    OBVIOUS
  <2> DEFINE s == ss[i]
             x == Without(s, T)
  <2>1. s \in Seq(U) /\ IsInjective(s) /\ Len(s) <= n
    BY <1>1, <1>2
  <2> HIDE DEF s
  <2>2. /\ x \in Seq(U) /\ Range(x) = Range(s) \ T /\ Len(x) <= Len(s)
        /\ (\A j, k \in DOMAIN s : s[j] = s[k] /\ s[j] \notin T => j = k) => IsInjective(x)
    BY <2>1, WithoutKeeps
  <2>3. IsInjective(x)
    BY <2>1, <2>2 DEF IsInjective
  <2> HIDE DEF x
  <2>4. Len(x) \in Nat /\ Len(s) \in Nat
    BY <2>1, <2>2
  <2>5. Len(x) <= n
    BY <2>1, <2>2, <2>4
  <2> QED BY <2>2, <2>3, <2>5 DEF x, s
<1>4. DOMAIN tt = 1..Len(ss) /\ \A i \in 1..Len(ss) : tt[i] = Without(ss[i], T)
  BY <1>1
<1>5. tt \in Seq(V) /\ Len(tt) = Len(ss)
  <2>1. tt = [i \in 1..Len(ss) |-> tt[i]] /\ \A i \in 1..Len(ss) : tt[i] \in V
    BY <1>1, <1>3
  <2> HIDE DEF tt, V
  <2> QED BY <1>1, <2>1
<1>6. w = Without(tt, E)
  BY DEF Thin
<1> HIDE DEF tt, w
<1>7. \A i \in 1..Len(ss) : /\ tt[i] \in Seq(U) /\ IsInjective(tt[i])
                            /\ Range(tt[i]) = Range(ss[i]) \ T /\ Len(tt[i]) <= n
  BY <1>3, <1>4
<1>8. \A i, j \in 1..Len(ss) : i # j => Range(tt[i]) \cap Range(tt[j]) = {}
  BY <1>1, <1>7 DEF Apart
<1>9. \A i \in 1..Len(ss) : tt[i] \notin E => Range(tt[i]) # {}
  <2> SUFFICES ASSUME NEW i \in 1..Len(ss), tt[i] # <<>> PROVE Range(tt[i]) # {}
    OBVIOUS
  <2> DEFINE x == tt[i]
  <2>1. x \in Seq(U) /\ x # <<>>
    BY <1>7
  <2> HIDE DEF x
  <2>2. 1 \in DOMAIN x
    BY <2>1
  <2>3. Range(x) # {}
    BY <2>2 DEF Range
  <2> QED BY <2>3 DEF x
<1>10. /\ w \in Seq(V) /\ Range(w) = Range(tt) \ E /\ IsInjective(w)
  <2>1. \A i, j \in DOMAIN tt : tt[i] = tt[j] /\ tt[i] \notin E => i = j
    BY <1>4, <1>8, <1>9
  <2> HIDE DEF V, E
  <2>2. /\ Without(tt, E) \in Seq(V) /\ Range(Without(tt, E)) = Range(tt) \ E
        /\ (\A i, j \in DOMAIN tt : tt[i] = tt[j] /\ tt[i] \notin E => i = j) => IsInjective(Without(tt, E))
    BY <1>5, WithoutKeeps
  <2> QED BY <1>6, <2>1, <2>2
<1>11. \A i \in DOMAIN w : \E j \in 1..Len(ss) : w[i] = tt[j]
  <2> HIDE DEF E
  <2> QED BY <1>4, <1>10 DEF Range
<1>12. \A j \in 1..Len(ss) : tt[j] \notin E => \E i \in DOMAIN w : w[i] = tt[j]
  <2> HIDE DEF E
  <2>1. \A j \in 1..Len(ss) : tt[j] \in Range(tt)
    BY <1>4 DEF Range
  <2>2. \A x \in Range(w) : \E i \in DOMAIN w : w[i] = x
    BY DEF Range
  <2> QED BY <1>10, <2>1, <2>2
<1>13. Held(w) = Held(ss) \ T
  <2>1. ASSUME NEW f \in Held(w) PROVE f \in Held(ss) \ T
    <3>1. PICK i \in DOMAIN w : f \in Range(w[i])
      BY <2>1 DEF Held
    <3>2. PICK j \in 1..Len(ss) : w[i] = tt[j]
      BY <1>11
    <3>3. f \in Range(ss[j]) /\ f \notin T
      BY <1>7, <3>1, <3>2
    <3> QED BY <1>1, <3>3 DEF Held
  <2>2. ASSUME NEW f \in Held(ss) \ T PROVE f \in Held(w)
    <3>1. PICK j \in 1..Len(ss) : f \in Range(ss[j])
      BY <1>1 DEF Held
    <3>2. f \in Range(tt[j])
      BY <1>7, <3>1
    <3>3. tt[j] \notin E
      BY <3>2, Empties
    <3>4. PICK i \in DOMAIN w : w[i] = tt[j]
      BY <1>12, <3>3
    <3> QED BY <3>2, <3>4 DEF Held
  <2> QED BY <2>1, <2>2
<1>14. Apart(w)
  <2>1. \A i \in DOMAIN w : IsInjective(w[i])
    BY <1>7, <1>11
  <2>2. ASSUME NEW i \in DOMAIN w, NEW j \in DOMAIN w, i # j PROVE Range(w[i]) \cap Range(w[j]) = {}
    <3>1. w[i] # w[j]
      BY <1>10, <2>2 DEF IsInjective
    <3>2. PICK k \in 1..Len(ss) : w[i] = tt[k]
      BY <1>11
    <3>3. PICK m \in 1..Len(ss) : w[j] = tt[m]
      BY <1>11
    <3>4. k # m
      BY <3>1, <3>2, <3>3
    <3> QED BY <1>8, <3>2, <3>3, <3>4
  <2> QED BY <2>1, <2>2 DEF Apart
<1>15. Fits(w, n)
  BY <1>7, <1>11 DEF Fits
<1> QED BY <1>10, <1>13, <1>14, <1>15 DEF w

LEMMA ResplitHolds ==
  ASSUME Remaining \in Seq(Files), IsInjective(Remaining), NEW n \in Floor..Ceiling
  PROVE  /\ Resplit(n) \in Seq(Seq(Files)) /\ Held(Resplit(n)) = Range(Remaining) \ Written
         /\ Apart(Resplit(n)) /\ Fits(Resplit(n), Ceiling) /\ Fits(Resplit(n), n)
<1> DEFINE refs == Remaining
           split == SplitIntoPasses(refs, n)
           w == Resplit(n)
<1>1. n \in Nat /\ n > 0 /\ n <= Ceiling /\ Ceiling \in Nat
  BY DEF Floor, Ceiling
<1>2. w = Thin(split, Written)
  BY Zenon DEF Resplit, Thin
<1>3. refs \in Seq(Files) /\ IsInjective(refs)
  OBVIOUS
<1> HIDE DEF refs
<1>4. split \in Seq(Seq(Files)) /\ Held(split) = Range(refs) /\ Apart(split) /\ Fits(split, n)
  BY <1>1, <1>3, SplitHolds
<1> HIDE DEF split, w
<1>5. w \in Seq(Seq(Files)) /\ Held(w) = Held(split) \ Written /\ Apart(w) /\ Fits(w, n)
  BY <1>1, <1>2, <1>4, Thinned
<1>6. Fits(w, Ceiling)
  <2>1. DOMAIN w = 1..Len(w) /\ \A i \in 1..Len(w) : w[i] \in Seq(Files)
    <3> DEFINE T == Seq(Files)
    <3>1. DOMAIN w = 1..Len(w) /\ \A i \in 1..Len(w) : w[i] \in T
      <4> HIDE DEF T
      <4>1. w \in Seq(T)
        BY <1>5 DEF T
      <4> QED BY <4>1
    <3> QED BY <3>1
  <2>2. \A i \in 1..Len(w) : Len(w[i]) \in Nat /\ Len(w[i]) <= n
    <3>1. \A i \in 1..Len(w) : Len(w[i]) <= n
      BY <1>5, <2>1 DEF Fits
    <3>2. \A s \in Seq(Files) : Len(s) \in Nat
      OBVIOUS
    <3> QED BY <2>1, <3>1, <3>2
  <2> QED BY <1>1, <2>1, <2>2 DEF Fits
<1> QED BY <1>4, <1>5, <1>6 DEF w, refs

LEMMA CutChained ==
  ASSUME NEW ps \in Seq(SubTasks), NEW qs \in Seq(SubTasks)
  PROVE  Cut(ps \o qs) = Cut(ps) \o Cut(qs)
<1> DEFINE T == SubTasks
           rs == ps \o qs
           a == Len(ps)
           b == Len(qs)
           c == Cut(ps)
           d == Cut(qs)
<1>1. /\ rs \in Seq(T) /\ Len(rs) = a + b /\ a \in Nat /\ b \in Nat
      /\ DOMAIN rs = 1..(a + b) /\ DOMAIN ps = 1..a /\ DOMAIN qs = 1..b
      /\ \A i \in 1..a : rs[i] = ps[i]
      /\ \A i \in 1..b : rs[a + i] = qs[i]
  <2> HIDE DEF T
  <2>1. ps \in Seq(T) /\ qs \in Seq(T)
    BY DEF T
  <2> QED BY <2>1
<1>2. c \in Seq(Seq(Files)) /\ Len(c) = a /\ d \in Seq(Seq(Files)) /\ Len(d) = b
  BY CutTyped
<1>3. /\ \A i \in 1..a : c[i] = ps[i].files
      /\ \A i \in 1..b : d[i] = qs[i].files
      /\ Cut(rs) = [i \in 1..(a + b) |-> rs[i].files]
  <2> HIDE DEF rs, a, b
  <2> QED BY <1>1 DEF Cut
<1> HIDE DEF rs, a, b, c, d, T
<1> DEFINE e == c \o d
           V == Seq(Files)
<1>4. /\ Len(e) = a + b /\ e = [i \in 1..(a + b) |-> e[i]]
      /\ \A i \in 1..a : e[i] = c[i]
      /\ \A i \in 1..b : e[a + i] = d[i]
  <2> HIDE DEF V
  <2>1. c \in Seq(V) /\ d \in Seq(V)
    BY <1>2 DEF V
  <2>2. Len(c) = a /\ Len(d) = b
    BY <1>2
  <2>3. e \in Seq(V) /\ Len(e) = Len(c) + Len(d)
    BY <2>1
  <2>4. /\ \A i \in 1..Len(c) : e[i] = c[i]
        /\ \A i \in 1..Len(d) : e[Len(c) + i] = d[i]
    BY <2>1
  <2> HIDE DEF e
  <2>5. e = [i \in 1..Len(e) |-> e[i]]
    BY <2>3
  <2> QED BY <2>2, <2>3, <2>4, <2>5
<1> HIDE DEF e
<1>5. \A i \in 1..(a + b) : e[i] = rs[i].files
  <2> SUFFICES ASSUME NEW i \in 1..(a + b) PROVE e[i] = rs[i].files
    OBVIOUS
  <2>1. CASE i \in 1..a
    BY <1>1, <1>3, <1>4, <2>1
  <2>2. CASE i - a \in 1..b /\ a + (i - a) = i
    <3>1. e[a + (i - a)] = d[i - a] /\ rs[a + (i - a)] = qs[i - a] /\ d[i - a] = qs[i - a].files
      BY <1>1, <1>3, <1>4, <2>2
    <3> QED BY <2>2, <3>1
  <2>3. i \in 1..a \/ (i - a \in 1..b /\ a + (i - a) = i)
    BY <1>1
  <2> QED BY <2>1, <2>2, <2>3
<1>6. Cut(rs) = e
  BY <1>3, <1>4, <1>5
<1> QED BY <1>6 DEF rs, e, c, d

\* The passes before the one that is split again, and the new ones.
Recut(new) ==
  SubSeq(passes, 1, index - 1)
    \o [i \in DOMAIN new |-> [files |-> new[i], num |-> passes[index].num + i - 1]]

LEMMA PassesReplaced ==
  ASSUME TypeOK, OnePlaceEach(passes), index <= Len(passes),
         NEW new \in Seq(Seq(Files)), Apart(new), Fits(new, Ceiling), Held(new) \subseteq From(index)
  PROVE  /\ Recut(new) \in Seq(SubTasks) /\ Len(Recut(new)) = index - 1 + Len(new)
         /\ OnePlaceEach(Recut(new)) /\ \A i \in 1..(index - 1) : Recut(new)[i] = passes[i]
         /\ \A i \in 1..Len(new) : Recut(new)[index - 1 + i].files = new[i]
         /\ Held(Cut(Recut(new))) = Before(index) \cup Held(new)
<1> DEFINE m == index - 1
           k == passes[index].num
           old == SubSeq(passes, 1, m)
           more == [i \in DOMAIN new |-> [files |-> new[i], num |-> k + i - 1]]
           T == SubTasks
           V == Seq(Files)
           ps == old \o more
<1>1. /\ passes \in Seq(T) /\ Len(passes) \in Nat /\ m \in Nat /\ m < Len(passes) /\ index = m + 1
      /\ k \in Nat /\ k > 0
  <2>1. passes \in Seq(T) /\ Len(passes) \in Nat /\ index \in Nat /\ index > 0
    BY PassesFacts, Zenon
  <2>2. m \in Nat /\ m < Len(passes) /\ index = m + 1 /\ index \in 1..Len(passes)
    BY <2>1
  <2>3. k \in Nat /\ k > 0
    BY <2>2, PassesFacts, Zenon
  <2> QED BY <2>1, <2>2, <2>3
<1>2. /\ old \in Seq(T) /\ Len(old) = m /\ DOMAIN old = 1..m /\ \A i \in 1..m : old[i] = passes[i]
  <2> HIDE DEF T, m, k
  <2> QED BY <1>1
<1>3. DOMAIN new = 1..Len(new) /\ Len(new) \in Nat /\ \A i \in 1..Len(new) : new[i] \in V
  <2> HIDE DEF V
  <2>1. new \in Seq(V)
    BY DEF V
  <2> QED BY <2>1
<1>4. more \in Seq(T) /\ Len(more) = Len(new) /\ DOMAIN more = 1..Len(new)
      /\ \A i \in 1..Len(new) : more[i].files = new[i]
  <2> HIDE DEF m, k, V
  <2>1. \A i \in 1..Len(new) : more[i] = [files |-> new[i], num |-> k + i - 1]
    BY <1>3
  <2>2. \A i \in 1..Len(new) : k + i - 1 \in Nat \ {0}
    BY <1>1, <1>3
  <2>3. \A i \in 1..Len(new) : more[i] \in T
    BY <1>3, <2>1, <2>2 DEF SubTasks, V
  <2>4. more = [i \in 1..Len(new) |-> more[i]]
    BY <1>3
  <2>5. \A i \in 1..Len(new) : more[i].files = new[i]
    BY <2>1
  <2> HIDE DEF more, T
  <2> QED BY <1>3, <2>3, <2>4, <2>5
<1>5. Cut(more) = new
  <2> HIDE DEF more, V
  <2>1. Cut(more) = [i \in 1..Len(new) |-> more[i].files]
    BY <1>4 DEF Cut
  <2>2. new = [i \in 1..Len(new) |-> new[i]]
    <3>1. new \in Seq(V)
      BY DEF V
    <3> QED BY <3>1
  <2> QED BY <1>4, <2>1, <2>2
<1> DEFINE c == Cut(old)
<1>6. c \in Seq(V) /\ DOMAIN c = 1..m /\ \A i \in 1..m : c[i] = passes[i].files
  <2> HIDE DEF old
  <2>1. c \in Seq(V) /\ DOMAIN c = 1..m
    BY <1>2, CutTyped
  <2>2. \A i \in 1..m : c[i] = passes[i].files
    BY <1>2 DEF Cut
  <2> QED BY <2>1, <2>2
<1>7. \A i \in 1..m : i \in 1..Len(passes)
  <2> HIDE DEF m
  <2> QED BY <1>1
<1>8. /\ \A i \in 1..Len(passes) : IsInjective(passes[i].files) /\ Len(passes[i].files) <= Ceiling
      /\ \A i, j \in 1..Len(passes) : i # j => Range(passes[i].files) \cap Range(passes[j].files) = {}
  BY PassesFacts, Zenon
<1>9. Recut(new) = ps
  BY DEF Recut
<1> HIDE DEF m, k, old, more, T, V, c
<1>10. Apart(c) /\ Fits(c, Ceiling)
  BY <1>6, <1>7, <1>8 DEF Apart, Fits
<1>11. Held(c) = UNION {Range(passes[i].files) : i \in 1..m}
  BY <1>6 DEF Held
<1>12. Held(c) \cap Held(new) = {}
  <2>1. \A i \in 1..m : \A j \in index..Len(passes) : i # j /\ j \in 1..Len(passes)
    BY <1>1
  <2>2. Held(c) \cap From(index) = {}
    <3>1. SUFFICES ASSUME NEW f \in Held(c), f \in From(index) PROVE FALSE
      OBVIOUS
    <3>2. PICK i \in 1..m : f \in Range(passes[i].files)
      BY <1>11
    <3>3. PICK j \in index..Len(passes) : f \in Range(passes[j].files)
      BY <3>1 DEF From
    <3> QED BY <1>7, <1>8, <2>1, <3>2, <3>3
  <2> QED BY <2>2
<1>13. Cut(ps) = c \o new
  BY <1>2, <1>4, <1>5, CutChained DEF T, c
<1> HIDE DEF ps
<1>14. Held(c \o new) = Held(c) \cup Held(new) /\ Fits(c \o new, Ceiling) /\ Apart(c \o new)
  <2>1. c \in Seq(Seq(Files))
    BY <1>6 DEF V
  <2> QED BY <1>10, <1>12, <2>1, Chained
<1>15. OnePlaceEach(ps)
  BY <1>13, <1>14 DEF OnePlaceEach
<1>16. /\ ps \in Seq(T) /\ Len(ps) = m + Len(new) /\ \A i \in 1..m : ps[i] = passes[i]
       /\ \A i \in 1..Len(new) : ps[m + i].files = new[i]
  <2> USE DEF ps
  <2>1. old \in Seq(T) /\ more \in Seq(T) /\ Len(old) = m /\ Len(more) = Len(new) /\ m \in Nat
    BY <1>1, <1>2, <1>4
  <2>2. ps \in Seq(T) /\ Len(ps) = Len(old) + Len(more)
    BY <2>1, Concat
  <2>3. /\ \A i \in 1..Len(old) : ps[i] = old[i]
        /\ \A i \in 1..Len(more) : ps[Len(old) + i] = more[i]
    BY <2>1
  <2> HIDE DEF ps
  <2>4. \A i \in 1..m : ps[i] = passes[i]
    BY <1>2, <2>1, <2>3
  <2>5. \A i \in 1..Len(new) : ps[m + i].files = new[i]
    BY <1>4, <2>1, <2>3
  <2> QED BY <2>1, <2>2, <2>4, <2>5
<1>17. Held(Cut(ps)) = Before(index) \cup Held(new)
  <2>1. Held(c) = Before(index)
    BY <1>11 DEF Before, m
  <2>2. Held(Cut(ps)) = Held(c) \cup Held(new)
    BY <1>13, <1>14
  <2> QED BY <2>1, <2>2
<1> QED BY <1>9, <1>15, <1>16, <1>17 DEF T, m

-----------------------------------------------------------------------------
(* The steps.                                                              *)
LEMMA PassInvStarts == Init => PassInv
<1> SUFFICES ASSUME Init PROVE PassInv
  OBVIOUS
<1> USE DEF Init
<1>1. TypeOK
  <2>1. MaxRuns \in Nat
    BY RefsAssumption
  <2>2. passes \in Seq(SubTasks) /\ Len(passes) = 0
    OBVIOUS
  <2>3. index \in 1..(Len(passes) + 1) /\ runs \in 0..MaxRuns
    BY <2>1, <2>2
  <2>4. /\ pc \in {"start", "pass", "child", "done"} /\ limit \in {0} \cup Floor..Ceiling
        /\ known \subseteq Names /\ guarded \subseteq Files /\ succeeded \subseteq Files
        /\ overwrote \in BOOLEAN
        /\ outcome \in {"none", "principal", "single", "success", "failed", "at_floor"}
    OBVIOUS
  <2> QED BY <2>2, <2>3, <2>4, Zenon DEF TypeOK
<1>2. OnePlaceEach(passes)
  BY DEF OnePlaceEach, Cut, Apart, Fits
<1>3. Behind(index) /\ SuccessLeavesNothingOut
  BY DEF Behind, SuccessLeavesNothingOut
<1> QED BY <1>1, <1>2, <1>3 DEF PassInv

\* Steps that leave the passes and what came of them alone.
LEMMA PassesStay ==
  ASSUME PassInv, UNCHANGED <<passVars, succeeded>>, TypeOK',
         pc' = "child" => index <= Len(passes),
         pc' \in {"pass", "child"} => pc \in {"pass", "child"},
         pc' = "start" => pc = "start",
         pc' # "done" => outcome' = "none",
         outcome' # "success"
  PROVE  PassInv'
<1>1. passes' = passes /\ index' = index /\ known' = known /\ succeeded' = succeeded
  BY DEF passVars
<1>2. Written' = Written
  BY <1>1 DEF Written
<1>3. OnePlaceEach(passes)' /\ Behind(index)'
  BY <1>1, <1>2 DEF PassInv, OnePlaceEach, Behind
<1>4. Held(Cut(passes))' = Held(Cut(passes))
  BY <1>1
<1>5. SuccessLeavesNothingOut'
  BY DEF SuccessLeavesNothingOut
<1>6. (pc \in {"pass", "child"} => Files \subseteq Held(Cut(passes)) \cup Written)'
  BY <1>2, <1>4 DEF PassInv
<1> QED BY <1>1, <1>3, <1>5, <1>6 DEF PassInv

LEMMA CoderTyped ==
  ASSUME TypeOK, NEW S \in SUBSET Files, CoderWrites(S)
  PROVE  pc = "child" /\ overwrote' \in BOOLEAN
<1>1. overwrote \in BOOLEAN
  BY DEF TypeOK
<1>2. overwrote' = (overwrote \/ \E f \in S : Name(f) \in known) /\ pc = "child"
  BY DEF CoderWrites
<1> QED BY <1>1, <1>2

LEMMA NamesTyped ==
  /\ \A f \in Files : Name(f) \in Names
  /\ MaxRuns \in Nat
<1>1. ProjectRoot \in BOOLEAN /\ MaxRuns \in Nat
  BY RefsAssumption
<1>2. Rooted \in BOOLEAN
  BY <1>1 DEF Rooted
<1> QED BY <1>1, <1>2 DEF Name, Names

LEMMA QuietSteps ==
  ASSUME PassInv,
         WindowUnknown \/ StartChild \/ RunIsLost \/ RunFailsVerification \/ ChildFails
           \/ TruncatedNothingLeft \/ TruncatedAtFloor
  PROVE  PassInv'
<1>1. TypeOK /\ (pc # "done" => outcome = "none")
  BY DEF PassInv
<1> DEFINE Types == /\ pc \in {"start", "pass", "child", "done"}
                    /\ guarded \subseteq Files /\ runs \in 0..MaxRuns
                    /\ overwrote \in BOOLEAN
                    /\ outcome \in {"none", "principal", "single", "success", "failed", "at_floor"}
           Rest == /\ passes \in Seq(SubTasks) /\ index \in 1..(Len(passes) + 1)
                   /\ limit \in {0} \cup Floor..Ceiling /\ known \subseteq Names /\ succeeded \subseteq Files
<1>2. Types /\ Rest
  BY <1>1 DEF TypeOK
<1>3. ASSUME UNCHANGED <<passVars, succeeded>>, Types' PROVE TypeOK'
  <2>1. Rest'
    BY <1>2, <1>3 DEF passVars
  <2> HIDE DEF Rest
  <2>2. Types' /\ Rest'
    BY <1>3, <2>1
  <2> QED BY <2>2 DEF TypeOK, Rest
<1>4. CASE WindowUnknown
  <2>1. UNCHANGED <<passVars, succeeded>> /\ pc' = "done" /\ outcome' = "principal"
    BY <1>4 DEF WindowUnknown, End
  <2>2. Types'
    BY <1>2, <1>4 DEF WindowUnknown, End, childVars
  <2> HIDE DEF Types
  <2> QED BY <1>3, <2>1, <2>2, PassesStay
<1>5. CASE StartChild
  <2>1. /\ UNCHANGED <<passVars, succeeded>> /\ pc' = "child" /\ pc = "pass"
        /\ outcome' = outcome /\ index <= Len(passes)
    BY <1>5 DEF StartChild
  <2>2. Types'
    BY <1>2, <1>5 DEF StartChild, childVars
  <2>3. outcome' = "none"
    BY <1>1, <2>1
  <2> HIDE DEF Types
  <2> QED BY <1>3, <2>1, <2>2, <2>3, PassesStay
<1>6. CASE RunIsLost \/ RunFailsVerification
  <2>1. PICK S \in SUBSET Files : CoderWrites(S) /\ guarded' \in {guarded, guarded \cup S}
    BY <1>6 DEF RunIsLost, RunFailsVerification
  <2>2. pc = "child" /\ overwrote' \in BOOLEAN
    BY <1>1, <2>1, CoderTyped
  <2>3. /\ UNCHANGED <<passVars, succeeded>> /\ pc' = pc /\ outcome' = outcome
        /\ runs < MaxRuns /\ runs' = runs + 1
    BY <1>6 DEF RunIsLost, RunFailsVerification
  <2>4. guarded' \subseteq Files
    BY <1>2, <2>1
  <2>5. runs' \in 0..MaxRuns
    BY <1>2, <2>3, NamesTyped
  <2>6. Types'
    BY <1>2, <2>2, <2>3, <2>4, <2>5
  <2>7. outcome' = "none" /\ index <= Len(passes)
    BY <1>1, <2>2, <2>3 DEF PassInv
  <2> HIDE DEF Types
  <2> QED BY <1>3, <2>2, <2>3, <2>6, <2>7, PassesStay
<1>7. CASE ChildFails \/ TruncatedNothingLeft \/ TruncatedAtFloor
  <2>1. /\ UNCHANGED <<passVars, succeeded, overwrote>> /\ pc' = "done"
        /\ outcome' \in {"failed", "at_floor"} /\ ChildEnds
    BY <1>7 DEF ChildFails, TruncatedNothingLeft, TruncatedAtFloor, Truncated, End
  <2>2. Types'
    BY <1>2, <2>1, NamesTyped DEF ChildEnds
  <2> HIDE DEF Types
  <2> QED BY <1>3, <2>1, <2>2, PassesStay
<1> QED BY <1>4, <1>5, <1>6, <1>7

\* The first split: every file of the task in one pass.
LEMMA SplitStarts ==
  ASSUME PassInv, SplitTask
  PROVE  PassInv'
<1>1. TypeOK /\ pc = "start" /\ index = 1 /\ outcome = "none"
  BY DEF PassInv, SplitTask
<1>2. PICK w \in Windows \ {0} :
        LET n == PassCapacity(w)
            split == SplitIntoPasses(Refs, n)
        IN  IF Len(Refs) > n \/ PlanFirst
            THEN /\ limit' = n
                 /\ passes' = [i \in DOMAIN split |-> [files |-> split[i], num |-> i]]
                 /\ pc' = "pass"
                 /\ UNCHANGED outcome
            ELSE End("single") /\ UNCHANGED <<limit, passes>>
  BY DEF SplitTask
<1>3. UNCHANGED <<index, known, guarded, runs, succeeded, overwrote>>
  BY DEF SplitTask, childVars
<1> DEFINE n == PassCapacity(w)
           split == SplitIntoPasses(Refs, n)
<1>4. n \in Floor..Ceiling
  <2>1. w \in Nat
    BY RefsAssumption
  <2> QED BY <2>1, CapacityTyped
<1>5. n \in Nat /\ n > 0 /\ n <= Ceiling /\ Ceiling \in Nat
  <2> HIDE DEF n
  <2> QED BY <1>4 DEF Floor, Ceiling
<1>6. CASE pc' = "pass" /\ limit' = n /\ outcome' = outcome
           /\ passes' = [i \in DOMAIN split |-> [files |-> split[i], num |-> i]]
  <2> DEFINE ps == [i \in DOMAIN split |-> [files |-> split[i], num |-> i]]
  <2>1. split \in Seq(Seq(Files)) /\ Held(split) = Files /\ Apart(split) /\ Fits(split, n)
    <3> HIDE DEF n
    <3> QED BY <1>5, RefsFacts, SplitHolds
  <2>2. passes' = ps
    BY <1>6
  <2> HIDE DEF n, split
  <2>3. Fits(split, Ceiling)
    <3> DEFINE T == Seq(Files)
    <3>1. DOMAIN split = 1..Len(split) /\ \A i \in 1..Len(split) : split[i] \in T
      <4>1. split \in Seq(T)
        BY <2>1
      <4> HIDE DEF T
      <4> QED BY <4>1
    <3>2. \A s \in T : Len(s) \in Nat
      OBVIOUS
    <3> HIDE DEF T
    <3>3. \A i \in 1..Len(split) : Len(split[i]) \in Nat /\ Len(split[i]) <= n
      BY <2>1, <3>1, <3>2 DEF Fits
    <3>4. \A i \in 1..Len(split) : Len(split[i]) <= Ceiling
      BY <1>5, <3>3
    <3> QED BY <3>1, <3>4 DEF Fits
  <2>4. ps \in Seq(SubTasks) /\ OnePlaceEach(ps) /\ Files \subseteq Held(Cut(ps))
    BY <2>1, <2>3, PiecesHold
  <2> HIDE DEF ps
  <2>5. Len(ps) \in Nat
    BY <2>4
  <2>6. index' \in 1..(Len(ps) + 1)
    BY <1>1, <1>3, <2>5
  <2>7. TypeOK'
    <3>1. passes' \in Seq(SubTasks) /\ index' \in 1..(Len(passes') + 1) /\ limit' \in {0} \cup Floor..Ceiling
      BY <1>4, <1>6, <2>2, <2>4, <2>6 DEF n
    <3>2. pc' \in {"start", "pass", "child", "done"} /\ outcome' = outcome
      BY <1>6
    <3> QED BY <1>1, <1>3, <3>1, <3>2 DEF TypeOK
  <2>8. OnePlaceEach(passes)' /\ (Files \subseteq Held(Cut(passes)) \cup Written)'
    BY <2>2, <2>4
  <2>9. Behind(index)' /\ SuccessLeavesNothingOut' /\ outcome' = "none"
    BY <1>1, <1>3, <1>6 DEF Behind, SuccessLeavesNothingOut
  <2> QED BY <1>6, <2>7, <2>8, <2>9 DEF PassInv
<1>7. CASE End("single") /\ UNCHANGED <<limit, passes>>
  <2>1. UNCHANGED <<passVars, succeeded>> /\ pc' = "done" /\ outcome' = "single"
    BY <1>3, <1>7 DEF End, passVars
  <2>2. TypeOK'
    BY <1>1, <1>3, <1>7 DEF TypeOK, End
  <2> QED BY <2>1, <2>2, PassesStay
<1> QED BY <1>2, <1>6, <1>7, Zenon

\* The next pass: the files of the last one were delivered.
LEMMA PassEnds ==
  ASSUME PassInv, pc = "child", index' = index + 1, pc' = "pass", UNCHANGED <<passes, limit, outcome>>,
         guarded' = {}, runs' = 0, overwrote' \in BOOLEAN,
         known \subseteq known', known' \subseteq Names,
         succeeded \subseteq succeeded', succeeded' \subseteq Files,
         Range(passes[index].files) \subseteq succeeded' \cup Written'
  PROVE  PassInv'
<1>1. TypeOK /\ index <= Len(passes) /\ outcome = "none" /\ OnePlaceEach(passes) /\ Behind(index)
      /\ Files \subseteq Held(Cut(passes)) \cup Written
  BY DEF PassInv
<1>2. Len(passes) \in Nat /\ index \in Nat /\ index > 0
  BY <1>1, PassesFacts, Zenon
<1>3. Written \subseteq Written'
  BY DEF Written
<1>4. TypeOK'
  <2>1. index' \in 1..(Len(passes') + 1) /\ runs' \in 0..MaxRuns
    BY <1>1, <1>2, NamesTyped
  <2> QED BY <1>1, <2>1 DEF TypeOK
<1>5. Behind(index)'
  <2>1. ASSUME NEW i \in 1..(index' - 1) PROVE Range(passes[i].files) \subseteq succeeded' \cup Written'
    <3>1. CASE i = index
      BY <3>1
    <3>2. CASE i # index
      <4>1. i \in 1..(index - 1)
        BY <1>2, <3>2
      <4>2. Range(passes[i].files) \subseteq succeeded \cup Written
        BY <1>1, <4>1 DEF Behind
      <4> QED BY <1>3, <4>2
    <3> QED BY <3>1, <3>2
  <2> QED BY <2>1 DEF Behind
<1>6. OnePlaceEach(passes)' /\ (Files \subseteq Held(Cut(passes)) \cup Written)'
  BY <1>1, <1>3
<1>7. SuccessLeavesNothingOut'
  BY <1>1 DEF SuccessLeavesNothingOut
<1> QED BY <1>1, <1>4, <1>5, <1>6, <1>7 DEF PassInv

LEMMA SuccessKeeps ==
  ASSUME PassInv, ChildSucceeds
  PROVE  PassInv'
<1>1. TypeOK /\ OnePlaceEach(passes)
  BY DEF PassInv
<1>2. PICK S \in SUBSET Files : CoderWrites(S) /\ known' = known \cup {Name(f) : f \in S}
  BY DEF ChildSucceeds
<1>3. pc = "child" /\ overwrote' \in BOOLEAN
  BY <1>1, <1>2, CoderTyped
<1>4. known \subseteq known' /\ known' \subseteq Names
  BY <1>1, <1>2, NamesTyped DEF TypeOK
<1>5. /\ index' = index + 1 /\ pc' = "pass" /\ UNCHANGED <<passes, limit, outcome>>
      /\ guarded' = {} /\ runs' = 0 /\ succeeded' = succeeded \cup Range(passes[index].files)
  BY DEF ChildSucceeds, ChildEnds
<1>6. Range(passes[index].files) \subseteq Files
  <2>1. index <= Len(passes)
    BY <1>3 DEF PassInv
  <2>2. Len(passes) \in Nat /\ index \in Nat /\ index > 0
    BY <1>1, PassesFacts, Zenon
  <2>3. index \in 1..Len(passes)
    BY <2>1, <2>2
  <2>4. passes[index].files \in Seq(Files)
    BY <1>1, <2>3, PassesFacts, Zenon
  <2> QED BY <2>4 DEF Range
<1>7. succeeded \subseteq succeeded' /\ succeeded' \subseteq Files
  BY <1>1, <1>5, <1>6 DEF TypeOK
<1>8. Range(passes[index].files) \subseteq succeeded' \cup Written'
  BY <1>5
<1> QED BY <1>3, <1>4, <1>5, <1>7, <1>8, PassEnds

\* A truncated child: what is left is all that is left, and it is cut again.
LEMMA LeftOver ==
  ASSUME PassInv, Truncated
  PROVE  LET n == HalfLimit(Len(passes[index].files))
         IN  /\ n \in Floor..Ceiling
             /\ Resplit(n) \in Seq(Seq(Files)) /\ Apart(Resplit(n)) /\ Fits(Resplit(n), Ceiling)
             /\ Fits(Resplit(n), n)
             /\ Held(Resplit(n)) = From(index) \ Written
<1>1. TypeOK /\ OnePlaceEach(passes) /\ index <= Len(passes)
  BY DEF PassInv, Truncated
<1>2. Len(passes) \in Nat /\ index \in Nat /\ index > 0
  BY <1>1, PassesFacts, Zenon
<1>3. index \in 1..Len(passes)
  BY <1>1, <1>2
<1>4. passes[index].files \in Seq(Files) /\ Len(passes[index].files) <= Ceiling
  BY <1>1, <1>3, PassesFacts, Zenon
<1> DEFINE len == Len(passes[index].files)
           n == HalfLimit(len)
<1>5. len \in Nat /\ len <= Ceiling
  BY <1>4
<1> HIDE DEF len
<1>6. n \in Floor..Ceiling
  BY <1>5, HalfTyped
<1>7. Remaining \in Seq(Files) /\ IsInjective(Remaining)
      /\ Range(Remaining) = (Range(passes[index].files) \ Written) \cup From(index + 1)
  BY <1>1, RemainingHolds
<1> HIDE DEF n
<1>8. /\ Resplit(n) \in Seq(Seq(Files)) /\ Held(Resplit(n)) = Range(Remaining) \ Written
      /\ Apart(Resplit(n)) /\ Fits(Resplit(n), Ceiling) /\ Fits(Resplit(n), n)
  BY <1>6, <1>7, ResplitHolds
<1>9. From(index) = Range(passes[index].files) \cup From(index + 1)
  <2>1. index..Len(passes) = {index} \cup ((index + 1)..Len(passes))
    BY <1>2, <1>3
  <2> QED BY <2>1 DEF From
<1>10. Held(Resplit(n)) = From(index) \ Written
  BY <1>7, <1>8, <1>9
<1> QED BY <1>6, <1>8, <1>10 DEF n, len

LEMMA CoveredOnBothSides ==
  ASSUME TypeOK, OnePlaceEach(passes), index <= Len(passes)
  PROVE  Held(Cut(passes)) = Before(index) \cup From(index)
<1>1. Len(passes) \in Nat /\ index \in Nat /\ index > 0 /\ DOMAIN passes = 1..Len(passes)
  BY PassesFacts, Zenon
<1>2. 1..Len(passes) = (1..(index - 1)) \cup (index..Len(passes))
  BY <1>1
<1>3. Held(Cut(passes)) = UNION {Range(passes[i].files) : i \in 1..Len(passes)}
  BY <1>1 DEF Held, Cut
<1> QED BY <1>2, <1>3 DEF Before, From

LEMMA ResplitKeeps ==
  ASSUME PassInv, TruncatedResplit
  PROVE  PassInv'
<1> DEFINE n == HalfLimit(Len(passes[index].files))
           new == Resplit(n)
<1>1. /\ TypeOK /\ OnePlaceEach(passes) /\ Behind(index) /\ index <= Len(passes) /\ outcome = "none"
      /\ Files \subseteq Held(Cut(passes)) \cup Written
  BY DEF PassInv, TruncatedResplit, Truncated
<1>2. /\ Truncated /\ new # <<>> /\ limit' = n /\ passes' = Recut(new)
      /\ pc' = "pass" /\ UNCHANGED <<index, known, outcome>>
  BY Zenon DEF TruncatedResplit, Recut
<1>3. /\ guarded' = {} /\ runs' = 0 /\ UNCHANGED <<succeeded, overwrote>>
  BY <1>2 DEF Truncated, ChildEnds
<1>4. /\ n \in Floor..Ceiling /\ new \in Seq(Seq(Files)) /\ Apart(new) /\ Fits(new, Ceiling)
      /\ Held(new) = From(index) \ Written
  BY <1>2, LeftOver, Zenon
<1> HIDE DEF new, n
<1>5. Held(new) \subseteq From(index)
  BY <1>4
<1>6. /\ passes' \in Seq(SubTasks) /\ Len(passes') = index - 1 + Len(new)
      /\ OnePlaceEach(passes') /\ \A i \in 1..(index - 1) : passes'[i] = passes[i]
      /\ Held(Cut(passes')) = Before(index) \cup Held(new)
  BY <1>1, <1>2, <1>4, <1>5, PassesReplaced
<1>7. Len(passes) \in Nat /\ index \in Nat /\ index > 0
  BY <1>1, PassesFacts, Zenon
<1>8. Len(new) \in Nat /\ Len(new) > 0
  <2> DEFINE V == Seq(Files)
  <2>1. new \in Seq(V) /\ new # <<>>
    BY <1>2, <1>4
  <2> HIDE DEF V
  <2> QED BY <2>1
<1>9. index \in 1..(Len(passes') + 1)
  BY <1>6, <1>7, <1>8
<1>10. TypeOK'
  <2>1. runs' \in 0..MaxRuns
    BY <1>3, NamesTyped
  <2> QED BY <1>1, <1>2, <1>3, <1>4, <1>6, <1>9, <2>1 DEF TypeOK
<1>11. Written' = Written
  BY <1>2 DEF Written
<1>12. Behind(index)'
  BY <1>1, <1>2, <1>3, <1>6, <1>11 DEF Behind
<1>13. (Files \subseteq Held(Cut(passes)) \cup Written)'
  <2>1. Held(Cut(passes)) = Before(index) \cup From(index)
    BY <1>1, CoveredOnBothSides
  <2>2. Held(Cut(passes))' = Before(index) \cup Held(new)
    BY <1>6
  <2> QED BY <1>1, <1>4, <1>11, <2>1, <2>2
<1>14. OnePlaceEach(passes)'
  BY <1>6
<1>15. SuccessLeavesNothingOut'
  BY <1>1, <1>2 DEF SuccessLeavesNothingOut
<1> QED BY <1>1, <1>2, <1>10, <1>12, <1>13, <1>14, <1>15 DEF PassInv

LEMMA AllWrittenKeeps ==
  ASSUME PassInv, TruncatedAllWritten
  PROVE  PassInv'
<1> DEFINE n == HalfLimit(Len(passes[index].files))
           new == Resplit(n)
<1>1. TypeOK /\ OnePlaceEach(passes) /\ index <= Len(passes)
  BY DEF PassInv, TruncatedAllWritten, Truncated
<1>2. /\ Truncated /\ new = <<>> /\ index' = index + 1 /\ pc' = "pass"
      /\ UNCHANGED <<passes, limit, known, outcome>>
  BY Zenon DEF TruncatedAllWritten
<1>3. pc = "child" /\ guarded' = {} /\ runs' = 0 /\ UNCHANGED <<succeeded, overwrote>>
  BY <1>2 DEF Truncated, ChildEnds
<1>4. Held(new) = From(index) \ Written
  BY <1>2, LeftOver, Zenon
<1> HIDE DEF new, n
<1>5. Held(new) = {}
  BY <1>2, Empties
<1>6. Range(passes[index].files) \subseteq From(index)
  <2>1. Len(passes) \in Nat /\ index \in Nat /\ index > 0
    BY <1>1, PassesFacts, Zenon
  <2>2. index \in index..Len(passes)
    BY <1>1, <2>1
  <2> QED BY <2>2 DEF From
<1>7. Range(passes[index].files) \subseteq Written
  BY <1>4, <1>5, <1>6
<1>8. Written' = Written
  BY <1>2 DEF Written
<1>9. /\ known' = known /\ known \subseteq Names
      /\ succeeded' = succeeded /\ succeeded \subseteq Files /\ overwrote' \in BOOLEAN
  BY <1>1, <1>2, <1>3 DEF TypeOK
<1> QED BY <1>2, <1>3, <1>7, <1>8, <1>9, PassEnds

\* The end of the last pass: what every pass delivered, and what was before it.
LEMMA DoneKeeps ==
  ASSUME PassInv, AllPassesDone
  PROVE  PassInv'
<1>1. /\ TypeOK /\ OnePlaceEach(passes) /\ Behind(index)
      /\ Files \subseteq Held(Cut(passes)) \cup Written
  BY DEF PassInv, AllPassesDone
<1>2. /\ index > Len(passes) /\ pc' = "done" /\ outcome' = "success"
      /\ UNCHANGED <<passes, index, limit, known, guarded, runs, succeeded, overwrote>>
  BY DEF AllPassesDone, End, passVars, childVars
<1>3. Len(passes) \in Nat /\ index \in Nat /\ index > 0 /\ DOMAIN passes = 1..Len(passes)
  BY <1>1, PassesFacts, Zenon
<1>4. TypeOK'
  BY <1>1, <1>2 DEF TypeOK
<1>5. Written' = Written
  BY <1>2 DEF Written
<1>6. OnePlaceEach(passes)' /\ Behind(index)'
  BY <1>1, <1>2, <1>5 DEF Behind, OnePlaceEach
<1>7. SuccessLeavesNothingOut'
  <2>1. ASSUME NEW f \in Files PROVE f \in succeeded \/ RefName(f) \in known
    <3>1. CASE f \in Written
      BY <3>1 DEF Written
    <3>2. CASE f \in Held(Cut(passes))
      <4>1. PICK i \in 1..Len(passes) : f \in Range(passes[i].files)
        BY <1>3, <3>2 DEF Held, Cut
      <4>2. i \in 1..(index - 1)
        BY <1>2, <1>3
      <4>3. f \in succeeded \cup Written
        BY <1>1, <4>1, <4>2 DEF Behind
      <4> QED BY <4>3 DEF Written
    <3> QED BY <1>1, <3>1, <3>2
  <2> QED BY <1>2, <2>1 DEF SuccessLeavesNothingOut, RefName
<1> QED BY <1>2, <1>4, <1>6, <1>7 DEF PassInv

LEMMA NothingKeeps ==
  ASSUME PassInv, UNCHANGED vars
  PROVE  PassInv'
<1>1. /\ pc' = pc /\ passes' = passes /\ index' = index /\ limit' = limit /\ known' = known
      /\ guarded' = guarded /\ runs' = runs /\ succeeded' = succeeded /\ overwrote' = overwrote
      /\ outcome' = outcome
  BY DEF vars, passVars, childVars
<1>2. Written' = Written
  BY <1>1 DEF Written
<1>3. TypeOK'
  BY <1>1 DEF TypeOK, PassInv
<1>4. OnePlaceEach(passes)' /\ Behind(index)' /\ SuccessLeavesNothingOut'
  BY <1>1, <1>2 DEF PassInv, OnePlaceEach, Behind, SuccessLeavesNothingOut
<1> QED BY <1>1, <1>2, <1>3, <1>4 DEF PassInv

\* Always: no file has two places in the passes, those that are not yet in a pass
\* that ended are in one that has not, or were written, and those behind are delivered.
THEOREM PassInvAlways == Spec => []PassInv
<1>1. PassInv /\ [Next]_vars => PassInv'
  <2> SUFFICES ASSUME PassInv, [Next]_vars PROVE PassInv'
    OBVIOUS
  <2>1. CASE Next
    <3>1. \/ WindowUnknown \/ SplitTask
          \/ StartChild \/ RunIsLost \/ RunFailsVerification \/ ChildSucceeds \/ ChildFails
          \/ TruncatedNothingLeft \/ TruncatedAtFloor \/ TruncatedResplit \/ TruncatedAllWritten
          \/ AllPassesDone \/ Returned
      BY <2>1 DEF Next, SplitStep, ChildStep, ResplitStep
    <3>2. Returned => UNCHANGED vars
      BY DEF Returned
    <3> QED BY <3>1, <3>2, QuietSteps, SplitStarts, SuccessKeeps, ResplitKeeps, AllWrittenKeeps,
               DoneKeeps, NothingKeeps, Zenon
  <2> QED BY <2>1, NothingKeeps
<1> QED BY <1>1, PassInvStarts, PTL DEF Spec

(* Every variable of a task with passes keeps its type                     *)
(* (orchestrator.py:1655-1802): the index does not leave the passes, and   *)
(* no limit leaves its bounds.                                             *)
THEOREM PassesTyped == Spec => []TypeOK
<1>1. PassInv => TypeOK
  BY DEF PassInv
<1> QED BY <1>1, PassInvAlways, PTL

(* However often passes are split again (orchestrator.py:1690-1756), a     *)
(* file is in exactly one of them; only one that an earlier pass wrote is  *)
(* in none.                                                                *)
THEOREM FilesOnce == Spec => []EveryFileOnce
<1>1. PassInv => EveryFileOnce
  <2> SUFFICES ASSUME PassInv, pc \in {"pass", "child"}, NEW f \in Files
               PROVE  Cardinality(Places(f)) = 1 \/ (Places(f) = {} /\ RefName(f) \in known)
    BY DEF EveryFileOnce
  <2>1. TypeOK /\ OnePlaceEach(passes) /\ Files \subseteq Held(Cut(passes)) \cup Written
    BY DEF PassInv
  <2>2. DOMAIN passes = 1..Len(passes)
    BY <2>1, PassesFacts, Zenon
  <2>3. \A i \in DOMAIN passes : passes[i].files \in Seq(Files) /\ IsInjective(passes[i].files)
    BY <2>1, <2>2, PassesFacts, Zenon
  <2>4. \A i, j \in DOMAIN passes : i # j => Range(passes[i].files) \cap Range(passes[j].files) = {}
    BY <2>1, <2>2, PassesFacts, Zenon
  <2>5. ASSUME NEW i \in DOMAIN passes, NEW k \in DOMAIN passes[i].files PROVE k \in 1..Len(Refs)
    <3> DEFINE s == passes[i].files
    <3>1. s \in Seq(Files) /\ IsInjective(s) /\ k \in DOMAIN s
      BY <2>3
    <3> HIDE DEF s
    <3>2. Len(s) <= Len(Refs) /\ Len(Refs) \in Nat
      BY <3>1, PassLength, RefsFacts
    <3>3. k \in 1..Len(s) /\ Len(s) \in Nat
      BY <3>1
    <3> QED BY <3>2, <3>3
  <2>6. CASE \E i \in DOMAIN passes : f \in Range(passes[i].files)
    <3>1. PICK i \in DOMAIN passes : f \in Range(passes[i].files)
      BY <2>6
    <3>2. PICK k \in DOMAIN passes[i].files : passes[i].files[k] = f
      BY <3>1 DEF Range
    <3>3. <<i, k>> \in Places(f)
      BY <2>5, <3>2 DEF Places
    <3>4. ASSUME NEW p \in Places(f) PROVE p = <<i, k>>
      <4>1. /\ p \in (DOMAIN passes) \X (1..Len(Refs)) /\ p[2] \in DOMAIN passes[p[1]].files
            /\ passes[p[1]].files[p[2]] = f
        BY DEF Places
      <4>2. p = <<p[1], p[2]>> /\ p[1] \in DOMAIN passes
        BY <4>1
      <4>3. f \in Range(passes[p[1]].files)
        BY <4>1 DEF Range
      <4>4. p[1] = i
        BY <2>4, <3>1, <4>2, <4>3
      <4>5. p[2] = k
        BY <2>3, <3>2, <4>1, <4>4 DEF IsInjective
      <4> QED BY <4>2, <4>4, <4>5
    <3>5. Places(f) = {<<i, k>>}
      BY <3>3, <3>4
    <3> QED BY <3>5, FS_Singleton
  <2>7. CASE ~\E i \in DOMAIN passes : f \in Range(passes[i].files)
    <3>1. Places(f) = {}
      BY <2>7 DEF Places, Range
    <3>2. f \notin Held(Cut(passes))
      BY <2>7 DEF Held, Cut
    <3>3. f \in Written
      BY <2>1, <3>2
    <3> QED BY <3>1, <3>3 DEF Written
  <2> QED BY <2>6, <2>7
<1> QED BY <1>1, PassInvAlways, PTL

(* A task with passes that is reported as a success (orchestrator.py:      *)
(* 1774-1802) has left out none of its files.                              *)
THEOREM NothingLeftOut == Spec => []SuccessLeavesNothingOut
<1>1. PassInv => SuccessLeavesNothingOut
  BY DEF PassInv
<1> QED BY <1>1, PassInvAlways, PTL
-----------------------------------------------------------------------------
(***************************************************************************)
(* Why the passes come to an end: four numbers of which the first that     *)
(* changes goes down.  A split into more passes makes them smaller; else a *)
(* pass is left behind; else a child begins, or has one run less to lose.  *)
(***************************************************************************)
Stage == CASE pc = "start" -> 2 [] pc = "done" -> 0 [] OTHER -> 1
RunsLeft == IF pc = "child" THEN MaxRuns - runs ELSE MaxRuns + 1
PassesLeft == Len(passes) + 1 - index
WorkLeft == <<Stage, limit, PassesLeft, RunsLeft>>
Below(a, b) == \E k \in 1..4 : a[k] < b[k] /\ \A j \in 1..(k - 1) : a[j] = b[j]

\* What is still to be run was cut to the limit of the last split.
WithinLimit ==
  pc \in {"pass", "child"} => \A i \in index..Len(passes) : Len(passes[i].files) <= limit

(* Every step of a task with passes counts down, whatever its children     *)
(* report: no truncation is answered by passes as large as before.         *)
PassesAdvance ==
  [][pc # "done" => Below(WorkLeft', WorkLeft)]_vars

LEMMA BelowBy ==
  ASSUME NEW a1, NEW a2, NEW a3, NEW a4, NEW b1, NEW b2, NEW b3, NEW b4,
         \/ a1 < b1
         \/ a1 = b1 /\ a2 < b2
         \/ a1 = b1 /\ a2 = b2 /\ a3 < b3
         \/ a1 = b1 /\ a2 = b2 /\ a3 = b3 /\ a4 < b4
  PROVE  Below(<<a1, a2, a3, a4>>, <<b1, b2, b3, b4>>)
<1> DEFINE a == <<a1, a2, a3, a4>>
           b == <<b1, b2, b3, b4>>
<1>1. a[1] = a1 /\ a[2] = a2 /\ a[3] = a3 /\ a[4] = a4 /\ b[1] = b1 /\ b[2] = b2 /\ b[3] = b3 /\ b[4] = b4
  OBVIOUS
<1>2. 1..0 = {} /\ 1..1 = {1} /\ 1..2 = {1, 2} /\ 1..3 = {1, 2, 3}
  OBVIOUS
<1> HIDE DEF a, b
<1>3. \E k \in 1..4 : a[k] < b[k] /\ \A j \in 1..(k - 1) : a[j] = b[j]
  <2>1. CASE a1 < b1
    <3>1. 1 \in 1..4 /\ 1 - 1 = 0
      OBVIOUS
    <3> QED BY <1>1, <1>2, <2>1, <3>1
  <2>2. CASE a1 = b1 /\ a2 < b2
    <3>1. 2 \in 1..4 /\ 2 - 1 = 1
      OBVIOUS
    <3> QED BY <1>1, <1>2, <2>2, <3>1
  <2>3. CASE a1 = b1 /\ a2 = b2 /\ a3 < b3
    <3>1. 3 \in 1..4 /\ 3 - 1 = 2
      OBVIOUS
    <3> QED BY <1>1, <1>2, <2>3, <3>1
  <2>4. CASE a1 = b1 /\ a2 = b2 /\ a3 = b3 /\ a4 < b4
    <3>1. 4 \in 1..4 /\ 4 - 1 = 3
      OBVIOUS
    <3> QED BY <1>1, <1>2, <2>4, <3>1
  <2> QED BY <2>1, <2>2, <2>3, <2>4
<1>4. Below(a, b)
  BY <1>3 DEF Below
<1> QED BY <1>4 DEF a, b

\* A new split is within its limit, and so is what is left of it later.
LEMMA SplitWithin ==
  ASSUME PassInv, SplitTask, pc' = "pass"
  PROVE  WithinLimit'
<1>1. pc = "start" /\ index = 1 /\ index' = index
  BY DEF PassInv, SplitTask
<1>2. PICK w \in Windows \ {0} :
        LET n == PassCapacity(w)
            split == SplitIntoPasses(Refs, n)
        IN  /\ limit' = n
            /\ passes' = [i \in DOMAIN split |-> [files |-> split[i], num |-> i]]
  <2>1. ~End("single")
    BY DEF End
  <2> QED BY <2>1, Zenon DEF SplitTask
<1> DEFINE n == PassCapacity(w)
           split == SplitIntoPasses(Refs, n)
<1>3. n \in Nat /\ n > 0
  <2>1. w \in Nat
    BY RefsAssumption
  <2>2. n \in Floor..Ceiling
    BY <2>1, CapacityTyped
  <2> HIDE DEF n
  <2> QED BY <2>2 DEF Floor, Ceiling
<1>4. limit' = n /\ passes' = [i \in DOMAIN split |-> [files |-> split[i], num |-> i]]
  BY <1>2
<1> HIDE DEF n
<1>5. split \in Seq(Seq(Files)) /\ Fits(split, n)
  BY <1>3, RefsFacts, SplitHolds
<1> HIDE DEF split
<1>6. DOMAIN split = 1..Len(split) /\ Len(split) \in Nat
  <2> DEFINE T == Seq(Files)
  <2>1. split \in Seq(T)
    BY <1>5
  <2> HIDE DEF T
  <2> QED BY <2>1
<1>7. Len(passes') = Len(split) /\ \A i \in 1..Len(split) : passes'[i].files = split[i]
  BY <1>4, <1>6
<1>8. \A i \in index'..Len(passes') : Len(passes'[i].files) <= limit'
  BY <1>1, <1>4, <1>5, <1>6, <1>7 DEF Fits
<1> QED BY <1>8 DEF WithinLimit

LEMMA ResplitWithin ==
  ASSUME PassInv, WithinLimit, TruncatedResplit
  PROVE  /\ WithinLimit' /\ limit' < limit /\ limit' \in Nat /\ limit \in Nat /\ pc = "child" /\ pc' = "pass"
<1> DEFINE len == Len(passes[index].files)
           n == HalfLimit(len)
           new == Resplit(n)
<1>1. TypeOK /\ OnePlaceEach(passes) /\ index <= Len(passes)
  BY DEF PassInv, TruncatedResplit, Truncated
<1>2. /\ Truncated /\ n < len /\ limit' = n /\ passes' = Recut(new) /\ pc' = "pass" /\ index' = index
  BY Zenon DEF TruncatedResplit, Recut
<1>3. /\ n \in Floor..Ceiling /\ new \in Seq(Seq(Files)) /\ Apart(new) /\ Fits(new, Ceiling) /\ Fits(new, n)
      /\ Held(new) = From(index) \ Written
  BY <1>2, LeftOver, Zenon
<1>4. index \in Nat /\ index > 0 /\ index \in index..Len(passes) /\ index \in 1..Len(passes)
  <2>1. Len(passes) \in Nat /\ index \in Nat /\ index > 0
    BY <1>1, PassesFacts, Zenon
  <2> QED BY <1>1, <2>1
<1>5. pc = "child" /\ len <= limit /\ len \in Nat /\ limit \in Nat
  <2>1. pc = "child"
    BY <1>2 DEF Truncated
  <2>2. passes[index].files \in Seq(Files)
    BY <1>1, <1>4, PassesFacts, Zenon
  <2>3. limit \in {0} \cup Floor..Ceiling
    BY <1>1 DEF TypeOK
  <2> QED BY <1>4, <2>1, <2>2, <2>3 DEF WithinLimit, Floor, Ceiling
<1> HIDE DEF len, n, new
<1>6. n \in Nat
  BY <1>3 DEF Floor, Ceiling
<1>7. Held(new) \subseteq From(index)
  BY <1>3
<1>8. /\ Len(passes') = index - 1 + Len(new)
      /\ \A i \in 1..Len(new) : passes'[index - 1 + i].files = new[i]
  BY <1>1, <1>2, <1>3, <1>7, PassesReplaced
<1>9. DOMAIN new = 1..Len(new) /\ Len(new) \in Nat
  <2> DEFINE T == Seq(Files)
  <2>1. new \in Seq(T)
    BY <1>3
  <2> HIDE DEF T
  <2> QED BY <2>1
<1>10. ASSUME NEW i \in index'..Len(passes') PROVE Len(passes'[i].files) <= limit'
  <2>1. i - index + 1 \in 1..Len(new) /\ index - 1 + (i - index + 1) = i
    BY <1>2, <1>4, <1>8, <1>9
  <2>2. passes'[i].files = new[i - index + 1]
    BY <1>8, <2>1
  <2> QED BY <1>2, <1>3, <1>9, <2>1, <2>2 DEF Fits
<1>11. WithinLimit'
  BY <1>10 DEF WithinLimit
<1>12. limit' < limit
  BY <1>2, <1>5, <1>6
<1> QED BY <1>2, <1>5, <1>6, <1>11, <1>12

LEMMA WithinStays ==
  ASSUME PassInv, WithinLimit, pc \in {"pass", "child"}, passes' = passes, limit' = limit,
         index' \in {index, index + 1}
  PROVE  WithinLimit'
<1>1. TypeOK /\ OnePlaceEach(passes)
  BY DEF PassInv
<1>2. Len(passes) \in Nat /\ index \in Nat
  BY <1>1, PassesFacts, Zenon
<1>3. \A i \in index'..Len(passes) : i \in index..Len(passes)
  BY <1>2
<1> QED BY <1>3 DEF WithinLimit

\* What each kind of step does to the four numbers.
LEMMA StepsCount ==
  ASSUME PassInv, PassInv', WithinLimit, Next, pc # "done"
  PROVE  WithinLimit' /\ Below(WorkLeft', WorkLeft)
<1>1. /\ TypeOK /\ OnePlaceEach(passes) /\ MaxRuns \in Nat
  BY NamesTyped DEF PassInv
<1>2. Len(passes) \in Nat /\ index \in Nat
  BY <1>1, PassesFacts, Zenon
<1>3. WorkLeft = <<Stage, limit, PassesLeft, RunsLeft>> /\ WorkLeft' = <<Stage', limit', PassesLeft', RunsLeft'>>
  BY DEF WorkLeft
<1>4. /\ pc = "start" => Stage = 2
      /\ pc \in {"pass", "child"} => Stage = 1
      /\ pc' = "done" => Stage' = 0
      /\ pc' \in {"pass", "child"} => Stage' = 1
  BY DEF Stage
<1>5. pc \in {"start", "pass", "child"} /\ runs \in 0..MaxRuns
  BY <1>1 DEF TypeOK
<1>6. CASE pc' = "done"
  <2>1. WithinLimit'
    BY <1>6 DEF WithinLimit
  <2>2. Stage' < Stage
    BY <1>4, <1>5, <1>6
  <2> QED BY <1>3, <2>1, <2>2, BelowBy
<1>7. CASE SplitTask /\ pc' # "done"
  <2>1. pc = "start" /\ pc' = "pass"
    BY <1>7, Zenon DEF SplitTask, End
  <2>2. Stage' < Stage
    BY <1>4, <2>1
  <2> QED BY <1>3, <1>7, <2>1, <2>2, SplitWithin, BelowBy
<1>8. CASE TruncatedResplit
  <2>1. WithinLimit' /\ limit' < limit /\ pc = "child" /\ pc' = "pass"
    BY <1>8, ResplitWithin
  <2>2. Stage' = Stage
    BY <1>4, <2>1
  <2> QED BY <1>3, <2>1, <2>2, BelowBy
<1>9. CASE ChildSucceeds \/ TruncatedAllWritten
  <2>1. pc = "child" /\ pc' = "pass" /\ passes' = passes /\ limit' = limit /\ index' = index + 1
    <3>1. CASE ChildSucceeds
      BY <3>1 DEF ChildSucceeds, CoderWrites
    <3>2. CASE TruncatedAllWritten
      BY <3>2, Zenon DEF TruncatedAllWritten, Truncated
    <3> QED BY <1>9, <3>1, <3>2
  <2>2. Stage' = Stage /\ limit' = limit
    BY <1>4, <2>1
  <2>3. PassesLeft' < PassesLeft
    BY <1>2, <2>1 DEF PassesLeft
  <2>4. WithinLimit'
    BY <2>1, WithinStays
  <2> QED BY <1>3, <2>2, <2>3, <2>4, BelowBy
<1>10. CASE StartChild \/ RunIsLost \/ RunFailsVerification
  <2>1. /\ pc \in {"pass", "child"} /\ pc' = "child" /\ UNCHANGED <<passes, limit, index>>
        /\ \/ pc = "pass" /\ runs' = runs
           \/ pc = "child" /\ runs' = runs + 1
    BY <1>10 DEF StartChild, RunIsLost, RunFailsVerification, CoderWrites, passVars, childVars
  <2>2. Stage' = Stage /\ limit' = limit /\ PassesLeft' = PassesLeft
    BY <1>4, <2>1 DEF PassesLeft
  <2>3. RunsLeft' < RunsLeft
    BY <1>1, <1>5, <2>1 DEF RunsLeft
  <2>4. WithinLimit'
    BY <2>1, WithinStays
  <2> QED BY <1>3, <2>2, <2>3, <2>4, BelowBy
<1>11. pc' = "done" \/ SplitTask \/ TruncatedResplit \/ ChildSucceeds \/ TruncatedAllWritten
         \/ StartChild \/ RunIsLost \/ RunFailsVerification
  BY DEF Next, SplitStep, ChildStep, ResplitStep, WindowUnknown, ChildFails, TruncatedNothingLeft,
         TruncatedAtFloor, AllPassesDone, Returned, End
<1> QED BY <1>6, <1>7, <1>8, <1>9, <1>10, <1>11

(* Every step of a task with passes counts down, whatever its children     *)
(* report: no truncation is answered by passes as large as before          *)
(* (orchestrator.py:1720-1756), and no pass is run twice.  What counts     *)
(* down is four natural numbers, so it does not go on for ever.            *)
WorkIsCounted == Stage \in Nat /\ limit \in Nat /\ PassesLeft \in Nat /\ RunsLeft \in Nat
THEOREM PassesCountDown == Spec => PassesAdvance /\ []WorkIsCounted
<1>1. Init => WithinLimit
  BY DEF Init, WithinLimit
<1>2. PassInv /\ PassInv' /\ WithinLimit /\ [Next]_vars => WithinLimit'
  <2>1. PassInv /\ PassInv' /\ WithinLimit /\ Next /\ pc # "done" => WithinLimit'
    BY StepsCount
  <2>2. PassInv /\ WithinLimit /\ Next /\ pc = "done" => WithinLimit'
    <3>1. Next /\ pc = "done" => pc' = "done"
      BY DEF Next, SplitStep, ChildStep, ResplitStep, WindowUnknown, SplitTask, StartChild, RunIsLost,
             RunFailsVerification, ChildSucceeds, ChildFails, TruncatedNothingLeft, TruncatedAtFloor,
             TruncatedResplit, TruncatedAllWritten, Truncated, CoderWrites, AllPassesDone, Returned, vars
    <3> QED BY <3>1 DEF WithinLimit
  <2>3. WithinLimit /\ UNCHANGED vars => WithinLimit'
    BY DEF WithinLimit, vars, passVars
  <2> QED BY <2>1, <2>2, <2>3
<1>3. PassInv /\ PassInv' /\ WithinLimit /\ [Next]_vars => [pc # "done" => Below(WorkLeft', WorkLeft)]_vars
  BY StepsCount
<1>4. PassInv => WorkIsCounted
  <2> SUFFICES ASSUME PassInv PROVE WorkIsCounted
    OBVIOUS
  <2>1. TypeOK /\ MaxRuns \in Nat
    BY NamesTyped DEF PassInv
  <2>2. Len(passes) \in Nat
    BY <2>1 DEF TypeOK
  <2>3. limit \in Nat /\ PassesLeft \in Nat /\ RunsLeft \in Nat
    BY <2>1, <2>2 DEF TypeOK, Floor, Ceiling, PassesLeft, RunsLeft
  <2> QED BY <2>3 DEF WorkIsCounted, Stage
<1> QED BY <1>1, <1>2, <1>3, <1>4, PassInvAlways, PTL DEF Spec, PassesAdvance
-----------------------------------------------------------------------------
(***************************************************************************)
(* The same of a call of execute: it ends, or an attempt is spent, or it   *)
(* comes nearer to its verdict, or a chunk less is to be run.              *)
(***************************************************************************)
Working(l) == at[l] \notin {"new", "idle", "raised"}
PhaseOf(l) ==
  CASE at[l] \in {"decompose", "rechunk"} -> 4 [] at[l] \in {"fast", "chunks"} -> 3
    [] at[l] = "decide" -> 2 [] at[l] = "exhausted" -> 1 [] OTHER -> 0
Engaged(l) == IF Working(l) THEN 1 ELSE 0
AttemptsLeft(l) == MAX_RECHUNK_ATTEMPTS - attempts[l]
ChunksLeft(l) == Len(plan[l]) - idx[l]
LoopWork(l) == <<Engaged(l), AttemptsLeft(l), PhaseOf(l), ChunksLeft(l)>>

LEMMA OthersWait ==
  ASSUME OuterInv, NEW k \in Loops, Build(k) \/ Execute(k) \/ LoopStep(k), NEW l \in Loops \ {k}
  PROVE  LoopWork(l)' = LoopWork(l)
<1>0. Shapes /\ PerLoop(plan)
  BY DEF OuterInv, Shapes
<1> USE DEF Goto, attempt, Return
<1>1. at'[l] = at[l] /\ attempts'[l] = attempts[l] /\ idx'[l] = idx[l] /\ plan'[l] = plan[l]
  <2>1. CASE Build(k) \/ Execute(k)
    BY <1>0, <2>1 DEF Build, Execute, Shapes
  <2>2. CASE Decompose(k)
    <3>1. PICK d \in Decompositions(lib[k].rules, project[k]) :
            /\ StartAttempt(k, d) /\ at' = [at EXCEPT ![k] = IF Len(d) = 1 THEN "fast" ELSE "chunks"]
      BY <2>2, Zenon DEF Decompose
    <3>2. attempts' = attempts
      BY <2>2 DEF Decompose
    <3> QED BY <1>0, <3>1, <3>2 DEF StartAttempt, Shapes, PerLoop
  <2>3. CASE DecomposeRaises(k) \/ FastPath(k) \/ RunChunk(k) \/ GiveUp(k)
    BY <1>0, <2>3 DEF DecomposeRaises, FastPath, RunChunk, GiveUp, Shapes
  <2>4. CASE VerifyIntegration(k) \/ Accept(k) \/ Reject(k)
    BY <1>0, <2>4 DEF VerifyIntegration, Accept, Reject, Shapes
  <2>5. CASE Rechunk(k)
    <3>1. PICK d : RechunkAs(k, d, Identical(plan[k], d))
      BY <2>5, Zenon DEF Rechunk
    <3> QED BY <1>0, <3>1 DEF RechunkAs, Shapes, PerLoop
  <2> QED BY <2>1, <2>2, <2>3, <2>4, <2>5 DEF LoopStep
<1> QED BY <1>1 DEF LoopWork, Engaged, AttemptsLeft, ChunksLeft, PhaseOf, Working

LEMMA LoopCounted ==
  ASSUME OuterInv, NEW l \in Loops
  PROVE  /\ Engaged(l) \in {0, 1} /\ PhaseOf(l) \in 0..4
         /\ AttemptsLeft(l) \in Nat /\ ChunksLeft(l) \in Nat
         /\ MAX_RECHUNK_ATTEMPTS \in Nat /\ attempts[l] \in Nat /\ idx[l] \in Nat /\ Len(plan[l]) \in Nat
<1>1. Shapes /\ Counted(l) /\ MAX_RECHUNK_ATTEMPTS \in Nat
  BY OuterBounds DEF OuterInv, LoopInv
<1>2. /\ attempts[l] \in 0..MAX_RECHUNK_ATTEMPTS /\ idx[l] \in Nat /\ Len(plan[l]) \in Nat
      /\ idx[l] <= Len(plan[l])
  BY <1>1 DEF Shapes, Counted, IsPlan
<1> QED BY <1>1, <1>2 DEF Engaged, AttemptsLeft, ChunksLeft, PhaseOf

LEMMA LoopCountsDown ==
  ASSUME OuterInv, NEW l \in Loops, LoopStep(l)
  PROVE  Below(LoopWork(l)', LoopWork(l))
<1>0. Shapes /\ MAX_RECHUNK_ATTEMPTS \in Nat /\ attempts[l] \in Nat /\ idx[l] \in Nat /\ Len(plan[l]) \in Nat
  BY LoopCounted DEF OuterInv
<1>1. LoopWork(l) = <<Engaged(l), AttemptsLeft(l), PhaseOf(l), ChunksLeft(l)>>
      /\ LoopWork(l)' = <<Engaged(l)', AttemptsLeft(l)', PhaseOf(l)', ChunksLeft(l)'>>
  BY DEF LoopWork
<1> USE DEF Goto, attempt, Return
<1>2. CASE DecomposeRaises(l) \/ FastPath(l) \/ Accept(l) \/ GiveUp(l)
  <2>1. Working(l) /\ ~Working(l)'
    BY <1>0, <1>2 DEF DecomposeRaises, FastPath, Accept, GiveUp, Working, Shapes
  <2>2. Engaged(l)' < Engaged(l)
    BY <2>1 DEF Engaged
  <2> QED BY <1>1, <2>2, BelowBy
<1>3. CASE Decompose(l) \/ VerifyIntegration(l) \/ Rechunk(l)
  <2>1. /\ attempts' = attempts
        /\ \/ at[l] = "decompose" /\ at'[l] \in {"fast", "chunks"}
           \/ at[l] = "chunks" /\ at'[l] = "decide"
           \/ at[l] = "rechunk" /\ at'[l] \in {"chunks", "exhausted"}
    <3>1. CASE Decompose(l)
      BY <1>0, <3>1 DEF Decompose, Shapes
    <3>2. CASE VerifyIntegration(l)
      BY <1>0, <3>2 DEF VerifyIntegration, Shapes
    <3>3. CASE Rechunk(l)
      <4>1. PICK d : RechunkAs(l, d, Identical(plan[l], d))
        BY <3>3, Zenon DEF Rechunk
      <4> QED BY <1>0, <3>3, <4>1 DEF Rechunk, RechunkAs, Shapes
    <3> QED BY <1>3, <3>1, <3>2, <3>3
  <2>2. Engaged(l)' = Engaged(l) /\ AttemptsLeft(l)' = AttemptsLeft(l)
    BY <2>1 DEF Engaged, Working, AttemptsLeft
  <2>3. PhaseOf(l)' < PhaseOf(l)
    BY <2>1 DEF PhaseOf
  <2> QED BY <1>1, <2>2, <2>3, BelowBy
<1>4. CASE RunChunk(l)
  <2>1. at' = at /\ attempts' = attempts /\ plan' = plan /\ idx'[l] = idx[l] + 1
    BY <1>0, <1>4 DEF RunChunk, Shapes
  <2>2. Engaged(l)' = Engaged(l) /\ AttemptsLeft(l)' = AttemptsLeft(l) /\ PhaseOf(l)' = PhaseOf(l)
    BY <2>1 DEF Engaged, Working, AttemptsLeft, PhaseOf
  <2>3. ChunksLeft(l)' < ChunksLeft(l)
    BY <1>0, <2>1 DEF ChunksLeft
  <2> QED BY <1>1, <2>2, <2>3, BelowBy
<1>5. CASE Reject(l)
  <2>1. at[l] = "decide" /\ at'[l] \in {"exhausted", "rechunk"} /\ attempts'[l] = attempts[l] + 1
    BY <1>0, <1>5 DEF Reject, Shapes
  <2>2. Engaged(l)' = Engaged(l)
    BY <2>1 DEF Engaged, Working
  <2>3. AttemptsLeft(l)' < AttemptsLeft(l)
    BY <1>0, <2>1 DEF AttemptsLeft
  <2> QED BY <1>1, <2>2, <2>3, BelowBy
<1> QED BY <1>2, <1>3, <1>4, <1>5 DEF LoopStep

(* Every step of a call of execute counts down, whatever the models answer *)
(* and the library has learned, and no other loop sets it back: rejected   *)
(* plans are not answered without end (outer_loop/orchestrator.py:141-273).*)
(* Here too what counts down is four natural numbers.                      *)
LoopsAreCounted ==
  \A l \in Loops : /\ Engaged(l) \in Nat /\ AttemptsLeft(l) \in Nat
                   /\ PhaseOf(l) \in Nat /\ ChunksLeft(l) \in Nat
LoopsAdvance ==
  [][\A l \in Loops : /\ LoopStep(l) => Below(LoopWork(l)', LoopWork(l))
                      /\ Working(l) /\ ~LoopStep(l) => LoopWork(l)' = LoopWork(l)]_outerVars
THEOREM LoopsCountDown == OuterSpec => LoopsAdvance /\ []LoopsAreCounted
<1>1. ASSUME OuterInv, OuterNext, NEW l \in Loops
      PROVE  /\ LoopStep(l) => Below(LoopWork(l)', LoopWork(l))
             /\ Working(l) /\ ~LoopStep(l) => LoopWork(l)' = LoopWork(l)
  <2>1. CASE AllFinished
    BY <1>1, <2>1, LoopCountsDown DEF AllFinished, Finished, Working
  <2>2. ASSUME NEW k \in Loops, Build(k) \/ Execute(k) \/ LoopStep(k), Working(l), ~LoopStep(l)
        PROVE  LoopWork(l)' = LoopWork(l)
    <3>1. k # l
      BY <2>2 DEF Build, Execute, Goto, Working
    <3> QED BY <1>1, <2>2, <3>1, OthersWait
  <2> QED BY <1>1, <2>1, <2>2, LoopCountsDown DEF OuterNext
<1>2. OuterInv /\ [OuterNext]_outerVars =>
        [\A l \in Loops : /\ LoopStep(l) => Below(LoopWork(l)', LoopWork(l))
                          /\ Working(l) /\ ~LoopStep(l) => LoopWork(l)' = LoopWork(l)]_outerVars
  BY <1>1
<1>3. OuterInv => LoopsAreCounted
  BY LoopCounted DEF LoopsAreCounted
<1> QED BY <1>2, <1>3, OuterAlways, PTL DEF OuterSpec, LoopsAdvance
=============================================================================
