--------------------------- MODULE AttemptProofs ----------------------------
(***************************************************************************)
(* What surrounds an attempt of the escalation loop, for any project, any  *)
(* tiers, any critiques and any replies: the files a coder leaves behind,  *)
(* what it is told, how its work is audited, what is learned from it, and  *)
(* the model profiles and settings it runs with.                           *)
(***************************************************************************)
EXTENDS CoderFiles, CoderPrompts, Configuration, IntegrationAudit, SelfImprovement,
        FiniteSetTheorems, TLAPS

-----------------------------------------------------------------------------
(* The files a coder leaves behind (CoderFiles).                           *)

\* What is there is there for good, and what a run's process wrote is there.
DiskInv ==
  /\ disk \in [Files -> Int] /\ run \in Nat /\ orphans \subseteq Nat
  /\ wrote \subseteq Exist

\* Under a project_root without links every file has one spelling.
Paths == Files \X {"relative", "resolved", "given"}
PathInv ==
  /\ reported \cup guarded \subseteq Paths
  /\ root = "resolved" => \A x \in reported \cup guarded : x[2] = "resolved"

\* While the judge reads, only an orphan changes what it was shown.
ShownInv ==
  stage = "judging" =>
    /\ DOMAIN shown \subseteq Named(reported)
    /\ \A f \in DOMAIN shown : shown[f] = disk[f] \/ f \in disturbed

GuardInv == PathInv /\ ShownInv /\ GuardedAsJudged

\* Until OpenCode is done its writes are newer than its start; then they are
\* among the files found; then among those shown.
SeenInv ==
  backend = "opencode" =>
    /\ stage = "coding" => wrote \subseteq touched
    /\ stage \in {"delivered", "judging"} => wrote \subseteq Named(reported) \cup Hidden
    /\ stage = "judging" => wrote \subseteq DOMAIN shown \cup Unreadable \cup Hidden

FilesInv == DiskInv /\ GuardInv /\ SeenInv

\* The files of paths are files.
LEMMA NamedFiles ==
  ASSUME NEW P \in SUBSET Paths
  PROVE  Named(P) \in SUBSET Files /\ \A x \in P : x[1] \in Files /\ x = <<x[1], x[2]>>
BY DEF Named, Paths

(* Putting a run's contents into files leaves the other files alone and    *)
(* removes none.                                                           *)
LEMMA PutKeeps ==
  ASSUME DiskInv, NEW S \in SUBSET Files, NEW r \in Nat, NEW byPi \in BOOLEAN, Put(S, r, byPi)
  PROVE  /\ disk' \in [Files -> Int]
         /\ \A f \in Files \ S : disk'[f] = disk[f]
         /\ Exist' = Exist \cup S
         /\ touched' = touched \cup S
         /\ disturbed \subseteq disturbed'
         /\ ~byPi => disturbed' = disturbed \cup S
<1>1. disk' = [f \in Files |-> IF f \in S THEN r ELSE disk[f]] /\ disk \in [Files -> Int] /\ S \subseteq Files
  BY DEF Put, DiskInv
<1>2. disk' \in [Files -> Int] /\ \A f \in Files \ S : disk'[f] = disk[f]
  BY <1>1
<1>3. \A f \in Files : disk'[f] >= 0 <=> f \in S \/ disk[f] >= 0
  BY <1>1
<1>4. Exist' = Exist \cup S
  BY <1>1, <1>3 DEF Exist
<1> QED BY <1>2, <1>4 DEF Put

(* A run that comes to nothing, or a step that touches neither files nor   *)
(* the judge's view.                                                       *)
LEMMA FailsKeeps ==
  ASSUME FilesInv, Fails, guarded' \subseteq guarded, UNCHANGED <<fileVars, runVars, approved>>,
         orphans' \subseteq Nat
  PROVE  FilesInv'
<1>1. DiskInv' /\ SeenInv'
  BY DEF FilesInv, DiskInv, SeenInv, Fails, fileVars, runVars, Exist
<1>2. PathInv' /\ ShownInv'
  BY DEF FilesInv, GuardInv, PathInv, ShownInv, Fails, runVars
<1>3. GuardedAsJudged'
  BY DEF FilesInv, GuardInv, GuardedAsJudged, Recognised, fileVars, runVars
<1> QED BY <1>1, <1>2, <1>3 DEF FilesInv, GuardInv

(* A step changes nothing but how far the run is.                          *)
LEMMA StageKeeps ==
  ASSUME FilesInv, UNCHANGED <<fileVars, runVars, foundVars, guardVars>>,
         orphans' \subseteq Nat,
         stage' = stage \/ (stage' \notin {"coding", "delivered", "judging"})
           \/ (stage' = "delivered" /\ backend # "opencode")
  PROVE  FilesInv'
<1>1. DiskInv' /\ SeenInv'
  BY DEF FilesInv, DiskInv, SeenInv, fileVars, runVars, foundVars, Exist
<1>2. PathInv' /\ ShownInv'
  BY DEF FilesInv, GuardInv, PathInv, ShownInv, fileVars, runVars, foundVars, guardVars
<1>3. GuardedAsJudged'
  BY DEF FilesInv, GuardInv, GuardedAsJudged, Recognised, fileVars, runVars, guardVars
<1> QED BY <1>1, <1>2, <1>3 DEF FilesInv, GuardInv

LEMMA FilesUntouched ==
  ASSUME FilesInv, UNCHANGED filesVars
  PROVE  FilesInv'
BY StageKeeps DEF FilesInv, DiskInv, filesVars

(* Somebody who asks nobody writes: an OpenCode run, an orphan, an HTTP    *)
(* tier.                                                                   *)
LEMMA DisturbKeeps ==
  ASSUME FilesInv, NEW S \in SUBSET Files, NEW r \in Nat, Put(S, r, FALSE),
         wrote' \subseteq wrote \cup S, UNCHANGED <<runVars, foundVars, guardVars, orphans>>,
         stage' \in {stage, "delivered"},
         stage' = stage \/ backend # "opencode",
         wrote' = wrote \/ stage \notin {"delivered", "judging"}
  PROVE  FilesInv'
<1>1. /\ disk' \in [Files -> Int] /\ \A f \in Files \ S : disk'[f] = disk[f]
      /\ Exist' = Exist \cup S /\ touched' = touched \cup S /\ disturbed' = disturbed \cup S
  BY PutKeeps DEF FilesInv
<1>2. DiskInv'
  BY <1>1 DEF FilesInv, DiskInv, runVars, foundVars
<1>3. GuardInv'
  <2>1. GuardedAsJudged'
    <3>1. SUFFICES ASSUME NEW x \in guarded, Recognised(x)
                   PROVE  disk'[x[1]] = approved[x[1]] \/ x[1] \in disturbed'
      BY DEF GuardedAsJudged, Recognised, guardVars, runVars
    <3>2. x[1] \in Files /\ (disk[x[1]] = approved[x[1]] \/ x[1] \in disturbed)
      BY <3>1, NamedFiles DEF FilesInv, GuardInv, PathInv, GuardedAsJudged
    <3> QED BY <1>1, <3>2
  <2>2. ShownInv'
    <3>1. stage = "judging" => Named(reported) \in SUBSET Files
      BY NamedFiles DEF FilesInv, GuardInv, PathInv
    <3> QED BY <1>1, <3>1 DEF FilesInv, GuardInv, ShownInv, foundVars
  <2>3. PathInv'
    BY DEF FilesInv, GuardInv, PathInv, guardVars, foundVars, runVars
  <2> QED BY <2>1, <2>2, <2>3 DEF GuardInv
<1>4. SeenInv'
  BY <1>1 DEF FilesInv, SeenInv, runVars, foundVars
<1> QED BY <1>2, <1>3, <1>4 DEF FilesInv

(* PI's writes, in any form, leave alone the guarded files the guard       *)
(* recognises.                                                             *)
LEMMA CarryKeeps ==
  ASSUME FilesInv, NEW S \in SUBSET Files, NEW s \in Spellings,
         \A f \in S : MayWrite(f, s), Carry(S, s)
  PROVE  FilesInv'
<1>1. PICK T \in SUBSET S : Put(T, run, TRUE) /\ wrote' = wrote \cup T
  BY DEF Carry
<1>2. /\ stage = "coding" /\ backend = "pi"
      /\ reported' = reported \cup {SafePath(f, s) : f \in S}
      /\ UNCHANGED <<stage, runVars, shown, guardVars, orphans>>
  BY DEF Carry
<1>3. T \in SUBSET Files /\ run \in Nat
  BY DEF FilesInv, DiskInv
<1>4. /\ disk' \in [Files -> Int] /\ \A f \in Files \ T : disk'[f] = disk[f]
      /\ Exist' = Exist \cup T /\ disturbed \subseteq disturbed'
  BY <1>1, <1>3, PutKeeps DEF FilesInv
<1>5. DiskInv'
  BY <1>1, <1>2, <1>4 DEF FilesInv, DiskInv, runVars
<1>6. ASSUME NEW x \in guarded, Recognised(x)
      PROVE  x[1] \in Files \ T
  <2>1. x[1] \in Files /\ x = <<x[1], x[2]>>
    BY NamedFiles DEF FilesInv, GuardInv, PathInv
  <2>2. root # "none" /\ x[2] = "resolved"
    BY <1>6 DEF Recognised, FilesInv, GuardInv, PathInv
  <2>3. x = SafePath(x[1], s)
    BY <2>1, <2>2 DEF SafePath
  <2> QED BY <2>1, <2>3 DEF MayWrite
<1>7. GuardInv'
  <2>1. GuardedAsJudged'
    BY <1>2, <1>4, <1>6 DEF FilesInv, GuardInv, GuardedAsJudged, Recognised, guardVars, runVars
  <2>2. ShownInv'
    BY <1>2 DEF ShownInv
  <2>3. \A f \in S : SafePath(f, s) \in Paths /\ (root = "resolved" => SafePath(f, s)[2] = "resolved")
    BY DEF SafePath, Paths, Spellings
  <2>4. PathInv'
    BY <1>2, <2>3 DEF FilesInv, GuardInv, PathInv, guardVars, runVars
  <2> QED BY <2>1, <2>2, <2>4 DEF GuardInv
<1>8. SeenInv'
  BY <1>2 DEF SeenInv, runVars
<1> QED BY <1>5, <1>7, <1>8 DEF FilesInv

LEMMA OpenCodeKeeps ==
  ASSUME FilesInv, OpenCodeStep
  PROVE  FilesInv'
<1>1. ASSUME NEW f \in Files, OpenCodeWrites(f) PROVE FilesInv'
  <2>1. {f} \in SUBSET Files /\ run \in Nat
    BY DEF FilesInv, DiskInv
  <2> QED BY <1>1, <2>1, DisturbKeeps DEF OpenCodeWrites
<1>2. CASE OpenCodeTimesOut
  BY <1>2, FailsKeeps DEF OpenCodeTimesOut, FilesInv, DiskInv, guardVars
<1>3. CASE OpenCodeFails \/ TemplateEcho
  BY <1>3, FailsKeeps DEF OpenCodeFails, TemplateEcho, FilesInv, DiskInv, guardVars
<1>4. CASE OpenCodeExits
  <2>1. /\ stage = "coding" /\ backend = "opencode" /\ stage' = "delivered"
        /\ reported' = {AsFound(f) : f \in Discovered}
        /\ UNCHANGED <<fileVars, runVars, shown, guardVars, orphans>>
    BY <1>4 DEF OpenCodeExits
  <2>2. wrote \subseteq Discovered \cup Hidden /\ Discovered \subseteq Files
    BY <2>1 DEF FilesInv, DiskInv, SeenInv, Discovered, Exist
  <2>3. reported' \in SUBSET Paths /\ Named(reported') = Discovered
        /\ (root = "resolved" => \A x \in reported' : x[2] = "resolved")
    <3>1. \A f \in Discovered : /\ AsFound(f) \in Paths /\ AsFound(f)[1] = f
                                /\ root = "resolved" => AsFound(f)[2] = "resolved"
      BY <2>2 DEF AsFound, Paths
    <3> HIDE DEF AsFound
    <3> QED BY <2>1, <3>1 DEF Named
  <2>4. DiskInv'
    BY <2>1 DEF FilesInv, DiskInv, Exist, fileVars, runVars
  <2>5. SeenInv'
    BY <2>1, <2>2, <2>3 DEF FilesInv, SeenInv, Named, fileVars, runVars
  <2>6. GuardInv'
    BY <2>1, <2>3 DEF FilesInv, GuardInv, PathInv, ShownInv, GuardedAsJudged, Recognised,
                      fileVars, runVars, guardVars
  <2> QED BY <2>4, <2>5, <2>6 DEF FilesInv
<1> QED BY <1>1, <1>2, <1>3, <1>4 DEF OpenCodeStep

LEMMA OrphanKeeps ==
  ASSUME FilesInv, OrphanStep
  PROVE  FilesInv'
<1>1. PICK r \in orphans : OrphanExits(r) \/ \E f \in Files : OrphanWrites(r, f)
  BY DEF OrphanStep
<1>2. r \in Nat
  BY DEF FilesInv, DiskInv
<1>3. ASSUME NEW f \in Files, OrphanWrites(r, f) PROVE FilesInv'
  <2>1. {f} \in SUBSET Files
    OBVIOUS
  <2> QED BY <1>2, <1>3, <2>1, DisturbKeeps DEF OrphanWrites
<1>4. CASE OrphanExits(r)
  BY <1>4, StageKeeps DEF OrphanExits, FilesInv, DiskInv
<1> QED BY <1>1, <1>3, <1>4

LEMMA PiKeeps ==
  ASSUME FilesInv, PiStep
  PROVE  FilesInv'
<1>1. ASSUME NEW f \in Files, NEW s \in Spellings, WriteEvent(f, s) PROVE FilesInv'
  BY <1>1, CarryKeeps DEF WriteEvent
<1>2. ASSUME NEW S \in SUBSET Files, NEW s \in Spellings, AgentEnd(S, s) PROVE FilesInv'
  <2>1. {f \in S : MayWrite(f, s)} \in SUBSET Files
    OBVIOUS
  <2> QED BY <1>2, <2>1, CarryKeeps DEF AgentEnd
<1>3. CASE PiExits
  BY <1>3, StageKeeps DEF PiExits, FilesInv, DiskInv
<1>4. CASE PiFails
  BY <1>4, FailsKeeps DEF PiFails, FilesInv, DiskInv, guardVars
<1> QED BY <1>1, <1>2, <1>3, <1>4 DEF PiStep

LEMMA HttpKeeps ==
  ASSUME FilesInv, HttpStep
  PROVE  FilesInv'
<1>1. ASSUME NEW S \in SUBSET Files, HttpAnswers(S) PROVE FilesInv'
  <2>1. PICK T \in SUBSET S : Put(T, run, FALSE) /\ wrote' = wrote \cup T
    BY <1>1 DEF HttpAnswers
  <2>2. T \in SUBSET Files /\ run \in Nat
    BY DEF FilesInv, DiskInv
  <2> QED BY <1>1, <2>1, <2>2, DisturbKeeps DEF HttpAnswers
<1>2. CASE HttpFails
  BY <1>2, FailsKeeps DEF HttpFails, FilesInv, DiskInv, guardVars
<1> QED BY <1>1, <1>2 DEF HttpStep

LEMMA LoopKeeps ==
  ASSUME FilesInv, LoopStep
  PROVE  FilesInv'
<1>1. ASSUME NEW b \in Backends, Start(b) PROVE FilesInv'
  <2>1. DiskInv' /\ SeenInv'
    BY <1>1 DEF Start, FilesInv, DiskInv, SeenInv, Exist
  <2>2. PathInv' /\ ShownInv'
    BY <1>1 DEF Start, FilesInv, GuardInv, PathInv, ShownInv, guardVars
  <2>3. GuardedAsJudged'
    BY <1>1 DEF Start, FilesInv, GuardInv, GuardedAsJudged, Recognised, guardVars
  <2> QED BY <2>1, <2>2, <2>3 DEF FilesInv, GuardInv
<1>2. CASE ReadBack
  <2>1. /\ stage = "delivered" /\ stage' = "judging"
        /\ shown' = [f \in {g \in Named(reported) : Readable(g)} |-> disk[f]]
        /\ UNCHANGED <<fileVars, runVars, reported, guardVars, orphans>>
    BY <1>2 DEF ReadBack
  <2>2. /\ DOMAIN shown' = {g \in Named(reported) : Readable(g)}
        /\ \A f \in DOMAIN shown' : shown'[f] = disk[f]
    BY <2>1
  <2>3. DiskInv'
    BY <2>1 DEF FilesInv, DiskInv, Exist, fileVars, runVars
  <2>4. SeenInv'
    BY <2>1, <2>2 DEF FilesInv, DiskInv, SeenInv, Readable, Named, fileVars, runVars
  <2>5. ShownInv'
    BY <2>1, <2>2 DEF ShownInv, Named, fileVars
  <2>6. PathInv' /\ GuardedAsJudged'
    BY <2>1 DEF FilesInv, GuardInv, PathInv, GuardedAsJudged, Recognised, fileVars, runVars, guardVars
  <2> QED BY <2>3, <2>4, <2>5, <2>6 DEF FilesInv, GuardInv
<1>3. CASE Reject
  BY <1>3, FailsKeeps DEF Reject, FilesInv, DiskInv, guardVars
<1>4. CASE Accept
  <2>1. /\ stage = "judging" /\ stage' = "accepted"
        /\ guarded' = guarded \cup {x \in reported : x[1] \in Exist}
        /\ disturbed' = disturbed \ {f \in Named(reported) : disk[f] = approved'[f]}
        /\ UNCHANGED <<disk, touched, wrote, runVars, foundVars, orphans>>
    BY <1>4 DEF Accept
  <2>2. /\ \A f \in Files : f \in DOMAIN shown => approved'[f] = shown[f]
        /\ \A f \in Files : f \in (Named(reported) \cap Exist) \ DOMAIN shown => approved'[f] = disk[f]
        /\ \A f \in Files :
             f \notin DOMAIN shown /\ f \notin Named(reported) \cap Exist => approved'[f] = approved[f]
    BY <1>4 DEF Accept
  <2>3. \A f \in DOMAIN shown : shown[f] = disk[f] \/ f \in disturbed
    BY <2>1 DEF FilesInv, GuardInv, ShownInv
  <2>4. ASSUME NEW x \in guarded', Recognised(x)
        PROVE  disk'[x[1]] = approved'[x[1]] \/ x[1] \in disturbed'
    <3>1. x[1] \in Files
      BY <2>1, NamedFiles DEF FilesInv, GuardInv, PathInv
    <3>2. CASE x \in guarded
      <4>1. disk[x[1]] = approved[x[1]] \/ x[1] \in disturbed
        BY <2>4, <3>2 DEF FilesInv, GuardInv, GuardedAsJudged
      <4>2. disk[x[1]] = approved'[x[1]] \/ x[1] \in disturbed
        BY <2>2, <2>3, <3>1, <4>1
      <4> QED BY <2>1, <4>2
    <3>3. CASE x[1] \in Named(reported) \cap Exist
      <4>1. disk[x[1]] = approved'[x[1]] \/ x[1] \in disturbed
        BY <2>2, <2>3, <3>1, <3>3
      <4> QED BY <2>1, <4>1
    <3> QED BY <2>1, <3>2, <3>3 DEF Named
  <2>5. GuardedAsJudged'
    BY <2>1, <2>4 DEF GuardedAsJudged, Recognised, runVars
  <2>6. PathInv' /\ ShownInv'
    BY <2>1 DEF FilesInv, GuardInv, PathInv, ShownInv, runVars, foundVars
  <2>7. DiskInv' /\ SeenInv'
    BY <2>1 DEF FilesInv, DiskInv, SeenInv, Exist, runVars, foundVars
  <2> QED BY <2>5, <2>6, <2>7 DEF FilesInv, GuardInv
<1>5. CASE VerifyFails
  BY <1>5, FailsKeeps DEF VerifyFails, FilesInv, DiskInv
<1>6. CASE Return
  BY <1>6, StageKeeps DEF Return, FilesInv, DiskInv
<1> QED BY <1>1, <1>2, <1>3, <1>4, <1>5, <1>6 DEF LoopStep

LEMMA FilesStep == FilesInv /\ [FilesNext]_filesVars => FilesInv'
BY OpenCodeKeeps, OrphanKeeps, PiKeeps, HttpKeeps, LoopKeeps, FilesUntouched DEF FilesNext, Over

LEMMA FilesInitially == FilesInit => FilesInv
BY DEF FilesInit, FilesInv, DiskInv, GuardInv, PathInv, SeenInv, ShownInv, GuardedAsJudged, Exist, Nothing

LEMMA FilesAlways == FilesSpec => []FilesInv
BY FilesInitially, FilesStep, PTL DEF FilesSpec

(* A file that accumulated_files has in the spelling the guard looks for   *)
(* holds what the judge accepted, unless a tier that asks nobody wrote it  *)
(* since (orchestrator.py:2522-2546, :893-1046); and whatever an OpenCode  *)
(* run wrote outside of .git is found when it ends well, and shown to the  *)
(* judge if it is text (:1327-1344, :2355-2378).                           *)
THEOREM FilesKept == FilesSpec => []FilesAccounted
<1>1. FilesInv => GuardedAsJudged
  BY DEF FilesInv, GuardInv
<1>2. FilesInv => NothingUnseen
  BY DEF FilesInv, SeenInv, NothingUnseen
<1>3. FilesInv => FilesAccounted
  BY <1>1, <1>2 DEF FilesAccounted
<1> QED BY <1>3, FilesAlways, PTL

-----------------------------------------------------------------------------
(* What a coder is told (CoderPrompts).                                    *)

Critique == {"", "crashed"} \cup {r.critique : r \in Replies}
Texts == {"task", "findings", "errors"}
Recorded ==
  [type : {"context_fill", "coder_output", "judge_verdict", "escalation"}, score : 0..10,
   size : {"none", "empty", "sane"}, truncated : BOOLEAN]

MonitorTyped ==
  /\ verdict.critique \in Critique /\ verdict.score \in 0..10
  /\ actions \in Seq(Recorded) /\ Len(actions) <= WindowSize

SpecTyped == spec \in Seq(Texts) /\ Len(spec) > 0 /\ spec[Len(spec)] = "task"

PromptsTyped ==
  /\ calls \in 0..MaxCalls /\ phase \in Phases
  /\ tier \in 1..Len(Tiers) /\ retry \in Nat /\ retries \in Nat /\ bonus \in BOOLEAN
  /\ feedback \in Critique /\ history \in [Range(Tiers) -> Seq(Critique)]
  /\ MonitorTyped /\ SpecTyped

\* A provisional verdict adds one attempt to a tier, and to those that follow.
AttemptsInv ==
  /\ MaxRetries <= retries /\ retries <= MaxRetries + tier - 1 + (IF bonus THEN 1 ELSE 0)
  /\ 1 <= retry /\ retry <= retries + 2
  /\ phase \in {"idle", "tier"} => retry = 1
  /\ phase = "coding" => retry <= retries
  /\ phase \in {"judging", "reported"} => retry <= retries + 1

\* A tier remembers what this call told it; what another call told it is
\* remembered only where a call ended with a result.
HistoryInv ==
  /\ feedback # "" => feedback \in told
  /\ phase \in {"idle", "tier"} => told = {}
  /\ \A t \in Range(Tiers) :
       t \notin endedOn => Range(history[t]) \subseteq (IF t = Now THEN told ELSE {})

OnceInv ==
  \A t \in Range(Tiers) :
    IsFiniteSet(Range(history[t])) /\ Len(history[t]) = Cardinality(Range(history[t]))

PromptInv ==
  /\ phase # "coding" => prompt.seen = {}
  /\ Now \notin endedOn => prompt.seen \subseteq Texts \cup told

PromptsInv == PromptsTyped /\ AttemptsInv /\ HistoryInv /\ OnceInv /\ PromptInv

LEMMA NowIsTier == PromptsTyped => Now \in Range(Tiers)
BY PromptsAssumption DEF PromptsTyped, Now, Range

LEMMA Bounds ==
  /\ MaxRetries \in Nat /\ MaxCalls \in Nat /\ WindowSize \in Nat /\ WindowSize > 0
  /\ Len(Tiers) \in Nat /\ 1 \in 1..Len(Tiers)
BY PromptsAssumption

LEMMA EmptyHistory ==
  /\ <<>> \in Seq(Critique) /\ Range(<<>>) = {} /\ Len(<<>>) = 0
  /\ IsFiniteSet({}) /\ Cardinality({}) = 0
BY FS_EmptySet DEF Range

LEMMA PromptsInitially == PromptsInit => PromptsInv
<1> SUFFICES ASSUME PromptsInit PROVE PromptsInv
  OBVIOUS
<1>1. PromptsTyped
  <2>1. history \in [Range(Tiers) -> Seq(Critique)]
    BY EmptyHistory DEF PromptsInit
  <2>2. actions = <<>> /\ spec = <<"task">>
    BY DEF PromptsInit
  <2>3. actions \in Seq(Recorded) /\ Len(actions) <= WindowSize
    BY <2>2, Bounds
  <2>4. spec \in Seq(Texts) /\ Len(spec) > 0 /\ spec[Len(spec)] = "task"
    BY <2>2 DEF Texts
  <2>5. /\ calls \in 0..MaxCalls /\ phase \in Phases /\ tier \in 1..Len(Tiers)
        /\ retry \in Nat /\ retries \in Nat /\ bonus \in BOOLEAN
    <3>1. calls = 0 /\ phase = "idle" /\ tier = 1 /\ retry = 1 /\ retries = MaxRetries /\ bonus = FALSE
      BY DEF PromptsInit
    <3>2. phase \in Phases /\ bonus \in BOOLEAN
      BY <3>1 DEF Phases
    <3>3. calls \in 0..MaxCalls
      BY <3>1, Bounds
    <3>4. tier \in 1..Len(Tiers)
      BY <3>1, Bounds
    <3>5. retry \in Nat /\ retries \in Nat
      BY <3>1, Bounds
    <3> QED BY <3>2, <3>3, <3>4, <3>5
  <2>6. feedback \in Critique /\ verdict.critique \in Critique /\ verdict.score \in 0..10
    <3>1. feedback = "" /\ verdict = NoVerdict
      BY DEF PromptsInit
    <3>2. "" \in Critique
      BY DEF Critique
    <3>3. NoVerdict.critique = "" /\ NoVerdict.score = 0
      BY DEF NoVerdict
    <3>4. 0 \in 0..10
      OBVIOUS
    <3> QED BY <3>1, <3>2, <3>3, <3>4
  <2> QED BY <2>1, <2>3, <2>4, <2>5, <2>6 DEF PromptsTyped, MonitorTyped, SpecTyped
<1>2. AttemptsInv
  <2>1. tier = 1 /\ retry = 1 /\ retries = MaxRetries /\ bonus = FALSE /\ phase = "idle"
    BY DEF PromptsInit
  <2> QED BY <2>1, Bounds DEF AttemptsInv
<1>3. HistoryInv /\ OnceInv
  BY EmptyHistory DEF PromptsInit, HistoryInv, OnceInv
<1>4. PromptInv
  BY DEF PromptsInit, PromptInv, NoPrompt
<1> QED BY <1>1, <1>2, <1>3, <1>4 DEF PromptsInv

-----------------------------------------------------------------------------
(* The window of recorded actions.                                         *)

LEMMA RecordKeeps ==
  ASSUME NEW s \in Seq(Recorded), NEW a \in Recorded, WindowSize \in Nat \ {0}
  PROVE  Record(s, a) \in Seq(Recorded) /\ Len(Record(s, a)) <= WindowSize
<1> DEFINE longer == Append(s, a)
           from == (IF Len(longer) > WindowSize THEN Len(longer) - WindowSize ELSE 0) + 1
<1>1. longer \in Seq(Recorded) /\ Len(longer) \in Nat
  OBVIOUS
<1> HIDE DEF longer
<1>2. from \in 1..(Len(longer) + 1) /\ Len(longer) - from + 1 <= WindowSize
  BY <1>1
<1> HIDE DEF from
<1>3. SubSeq(longer, from, Len(longer)) \in Seq(Recorded)
      /\ Len(SubSeq(longer, from, Len(longer))) <= WindowSize
  BY <1>1, <1>2
<1> QED BY <1>3 DEF Record, Latest, longer, from

LEMMA Recordings ==
  /\ ContextFill \in Recorded /\ Escalation \in Recorded
  /\ \A b \in BOOLEAN : CoderOutput("empty", b) \in Recorded /\ CoderOutput("sane", b) \in Recorded
  /\ \A n \in 0..10 : JudgeVerdict(n) \in Recorded
BY DEF ContextFill, Escalation, CoderOutput, JudgeVerdict, Action, Recorded

(* What the judge's reply is made into.                                    *)
LEMMA EvaluateTyped ==
  ASSUME NEW r \in Replies
  PROVE  Evaluate(r).score \in 0..10 /\ Evaluate(r).critique \in Critique
<1>1. r.score \in Int /\ r.critique \in Critique
  BY PromptsAssumption DEF Critique
<1>2. Clamp(r.score) \in 0..10
  BY <1>1 DEF Clamp
<1>3. CASE Parses(r)
  BY <1>1, <1>2, <1>3 DEF Evaluate
<1>4. CASE ~Parses(r)
  BY <1>1, <1>4 DEF Evaluate, NoVerdict
<1> QED BY <1>3, <1>4

(* Nothing is in a prompt that is neither in the specification nor among   *)
(* the critiques, however it is cut.                                       *)
LEMMA CompressedFromTexts ==
  ASSUME NEW s \in Seq(Texts), NEW h \in Seq(Critique)
  PROVE  Compressed(s, h).seen \subseteq Texts \cup Range(h)
<1> DEFINE Size(x) == IF x = "task" THEN SpecSize ELSE FixSize
           Total[i \in 0..Len(s)] == IF i = 0 THEN 0 ELSE Total[i - 1] + Size(s[i])
           full == Total[Len(s)] + FixesSize(h, Len(h)) <= Cap
           fits == IF full THEN Cap ELSE Cap - 1
           fitting == {n \in 1..Len(h) : Total[Len(s)] + FixesSize(h, n) <= fits}
<1>1. Compressed(s, h).seen = {s[i] : i \in {j \in 1..Len(s) : Total[j] <= fits}} \cup {h[n] : n \in fitting}
  BY DEF Compressed
<1> HIDE DEF Size, Total, full, fits
<1>2. {s[i] : i \in {j \in 1..Len(s) : Total[j] <= fits}} \subseteq Texts
  OBVIOUS
<1>3. {h[n] : n \in fitting} \subseteq Range(h)
  BY DEF Range
<1> QED BY <1>1, <1>2, <1>3

(* A critique is remembered once.                                          *)
LEMMA RememberedOnce ==
  ASSUME feedback \in Critique, NEW h \in Seq(Critique),
         IsFiniteSet(Range(h)), Len(h) = Cardinality(Range(h))
  PROVE  /\ Remembered(h) \in Seq(Critique)
         /\ Range(Remembered(h)) \subseteq Range(h) \cup ({feedback} \ {""})
         /\ IsFiniteSet(Range(Remembered(h)))
         /\ Len(Remembered(h)) = Cardinality(Range(Remembered(h)))
<1>1. CASE feedback # "" /\ feedback \notin Range(h)
  <2>1. Remembered(h) = Append(h, feedback)
    BY <1>1 DEF Remembered
  <2>2. Append(h, feedback) \in Seq(Critique) /\ Len(Append(h, feedback)) = Len(h) + 1
    OBVIOUS
  <2>3. Range(Append(h, feedback)) = Range(h) \cup {feedback}
    <3>1. \A x : x \in Range(Append(h, feedback)) <=> \E i \in 1..(Len(h) + 1) : Append(h, feedback)[i] = x
      <4>1. DOMAIN Append(h, feedback) = 1..(Len(h) + 1)
        BY <2>2
      <4> QED BY <4>1, Zenon DEF Range
    <3>2. \A x : x \in Range(h) <=> \E i \in 1..Len(h) : h[i] = x
      <4>1. DOMAIN h = 1..Len(h)
        OBVIOUS
      <4> QED BY <4>1, Zenon DEF Range
    <3>3. /\ \A i \in 1..Len(h) : Append(h, feedback)[i] = h[i]
          /\ Append(h, feedback)[Len(h) + 1] = feedback
          /\ 1..(Len(h) + 1) = 1..Len(h) \cup {Len(h) + 1}
      OBVIOUS
    <3> QED BY <3>1, <3>2, <3>3
  <2>4. IsFiniteSet(Range(h) \cup {feedback})
        /\ Cardinality(Range(h) \cup {feedback}) = Cardinality(Range(h)) + 1
    BY <1>1, FS_AddElement
  <2> QED BY <1>1, <2>1, <2>2, <2>3, <2>4
<1>2. CASE ~(feedback # "" /\ feedback \notin Range(h))
  BY <1>2 DEF Remembered
<1> QED BY <1>1, <1>2

-----------------------------------------------------------------------------
(* Steps.                                                                  *)

(* Leaving a tier: the attempts granted stay within those of the tiers.    *)
LEMMA LeavingCounts ==
  ASSUME PromptsInv, NextTier \/ Leave
  PROVE  /\ tier' \in 1..Len(Tiers) /\ retries' \in Nat /\ retry' = 1 /\ bonus' \in BOOLEAN
         /\ phase' \in {"idle", "tier"} /\ feedback' = "" /\ told' = {}
         /\ SpecTyped' /\ AttemptsInv'
<1>1. tier \in 1..Len(Tiers) /\ retries \in Nat /\ bonus \in BOOLEAN /\ SpecTyped /\ AttemptsInv
  BY DEF PromptsInv, PromptsTyped
<1>2. MaxRetries <= retries /\ retries <= MaxRetries + tier
  BY <1>1, Bounds DEF AttemptsInv
<1>3. retry' = 1 /\ phase' \in {"idle", "tier"} /\ feedback' = "" /\ told' = {}
  BY DEF NextTier, Leave
<1>4. bonus' \in BOOLEAN /\ ~bonus'
  BY DEF NextTier, Leave
<1>5. /\ tier' \in 1..Len(Tiers) /\ retries' \in Nat /\ SpecTyped'
      /\ MaxRetries <= retries' /\ retries' <= MaxRetries + tier' - 1
  <2>1. CASE NextTier
    <3>1. tier < Len(Tiers) /\ tier' = tier + 1 /\ retries' = retries /\ spec' = spec
      BY <2>1 DEF NextTier
    <3>2. tier' \in 1..Len(Tiers)
      BY <1>1, <3>1, Bounds
    <3>3. MaxRetries + tier' - 1 = MaxRetries + tier
      BY <1>1, <3>1, Bounds
    <3> QED BY <1>1, <1>2, <3>1, <3>2, <3>3 DEF SpecTyped
  <2>2. CASE Leave
    <3>1. spec' = <<"task">> /\ tier' = 1 /\ retries' = MaxRetries
      BY <2>2 DEF Leave
    <3>2. SpecTyped'
      BY <3>1 DEF SpecTyped, Texts
    <3>3. MaxRetries <= retries' /\ retries' <= MaxRetries + tier' - 1 /\ retries' \in Nat
      BY <3>1, Bounds
    <3> QED BY <3>1, <3>2, <3>3, Bounds
  <2> QED BY <2>1, <2>2
<1>6. AttemptsInv'
  <2>1. PICK n \in Nat : n = retries'
    BY <1>5
  <2>2. PICK i \in Nat : i = tier'
    <3>1. \A i \in 1..Len(Tiers) : i \in Nat
      BY Bounds
    <3> QED BY <1>5, <3>1
  <2>3. MaxRetries <= n /\ n <= MaxRetries + i - 1 + 0
    <3>1. MaxRetries <= n /\ n <= MaxRetries + i - 1
      BY <1>5, <2>1, <2>2
    <3> QED BY <3>1, Bounds
  <2>4. 1 <= 1 /\ 1 <= n + 2 /\ 1 <= n + 1
    OBVIOUS
  <2>5. (IF bonus' THEN 1 ELSE 0) = 0
    BY <1>4
  <2> QED BY <1>3, <2>1, <2>2, <2>3, <2>4, <2>5 DEF AttemptsInv
<1> QED BY <1>3, <1>4, <1>5, <1>6

(* A tier or the call is left, and only a result lets a tier remember.     *)
LEMMA LeavingKeeps ==
  ASSUME PromptsInv, NextTier \/ Leave, UNCHANGED <<calls, prompt>>, prompt.seen = {},
         MonitorTyped', OnceInv', history' \in [Range(Tiers) -> Seq(Critique)],
         \A t \in Range(Tiers) \ endedOn' : Range(history'[t]) = {}
  PROVE  PromptsInv'
<1>1. /\ tier' \in 1..Len(Tiers) /\ retries' \in Nat /\ retry' = 1 /\ bonus' \in BOOLEAN
      /\ phase' \in {"idle", "tier"} /\ feedback' = "" /\ told' = {}
      /\ SpecTyped' /\ AttemptsInv'
  BY LeavingCounts
<1>2. PromptsTyped'
  <2>1. phase' \in Phases /\ feedback' \in Critique /\ retry' \in Nat
    BY <1>1 DEF Phases, Critique
  <2> QED BY <1>1, <2>1 DEF PromptsInv, PromptsTyped
<1>3. HistoryInv'
  BY <1>1 DEF HistoryInv
<1>4. PromptInv'
  BY DEF PromptInv
<1> QED BY <1>1, <1>2, <1>3, <1>4 DEF PromptsInv

(* A step within a tier that sends no prompt.                              *)
LEMMA WithinTier ==
  ASSUME PromptsInv, UNCHANGED <<calls, tier, history, endedOn>>,
         phase' \in {"retry", "judging", "reported", "exhausted"},
         retry' \in Nat, retries' \in Nat, bonus' \in BOOLEAN, AttemptsInv',
         MonitorTyped', SpecTyped', prompt'.seen = {},
         told \subseteq told', feedback' \in Critique, feedback' # "" => feedback' \in told'
  PROVE  PromptsInv'
<1>1. phase' \in Phases
  BY DEF Phases
<1>2. PromptsTyped'
  BY <1>1 DEF PromptsInv, PromptsTyped
<1>3. Now' = Now
  BY DEF Now
<1>4. HistoryInv'
  BY <1>3 DEF PromptsInv, HistoryInv
<1>5. OnceInv' /\ PromptInv'
  BY DEF PromptsInv, OnceInv, PromptInv
<1> QED BY <1>2, <1>4, <1>5 DEF PromptsInv

LEMMA NoteKeeps ==
  ASSUME MonitorTyped, NEW a \in Recorded, Note(a)
  PROVE  actions' \in Seq(Recorded) /\ Len(actions') <= WindowSize
<1>1. WindowSize \in Nat \ {0}
  BY Bounds
<1> QED BY <1>1, RecordKeeps DEF MonitorTyped, Note

(* A text in front of the specification leaves the task at its end.        *)
LEMMA InFront ==
  ASSUME SpecTyped, NEW x \in Texts, spec' = <<x>> \o spec
  PROVE  SpecTyped'
<1>1. <<x>> \in Seq(Texts) /\ Len(<<x>>) = 1 /\ spec \in Seq(Texts) /\ Len(spec) \in Nat
  BY DEF SpecTyped
<1>2. spec' \in Seq(Texts) /\ Len(spec') = 1 + Len(spec)
  BY <1>1
<1>3. spec'[1 + Len(spec)] = spec[Len(spec)]
  BY <1>1 DEF SpecTyped
<1> QED BY <1>2, <1>3 DEF SpecTyped

(* A tier is skipped, left for the next, or entered.                       *)
LEMMA TierKeeps == ASSUME PromptsInv, TierStep PROVE PromptsInv'
<1>1. Now \in Range(Tiers)
  BY NowIsTier DEF PromptsInv
<1>2. PromptsTyped /\ MonitorTyped /\ OnceInv /\ history \in [Range(Tiers) -> Seq(Critique)]
  BY DEF PromptsInv, PromptsTyped
<1>3. CASE SkipTier
  <2>1. UNCHANGED <<calls, history, prompt, verdict, actions, endedOn>> /\ phase = "tier"
    BY <1>3 DEF SkipTier, monitorVars
  <2>2. MonitorTyped' /\ OnceInv'
    BY <1>2, <2>1 DEF MonitorTyped, OnceInv
  <2>3. \A t \in Range(Tiers) \ endedOn' : Range(history'[t]) = {}
    BY <2>1 DEF PromptsInv, HistoryInv
  <2>4. prompt.seen = {} /\ (NextTier \/ Leave)
    BY <1>3, <2>1 DEF PromptsInv, PromptInv, SkipTier
  <2> QED BY <1>2, <2>1, <2>2, <2>3, <2>4, LeavingKeeps
<1>4. CASE EnterTier
  <2>1. UNCHANGED <<calls, loopVars, textVars, verdict, monitorVars, historyVars>> /\ phase' = "retry"
    BY <1>4 DEF EnterTier
  <2>2. UNCHANGED <<calls, tier, retry, retries, bonus, feedback, history, spec, prompt, verdict,
                    actions, told, endedOn>>
    BY <2>1 DEF loopVars, textVars, monitorVars, historyVars
  <2>3. MonitorTyped' /\ SpecTyped' /\ AttemptsInv' /\ prompt'.seen = {}
    BY <1>4, <2>1, <2>2 DEF PromptsInv, PromptsTyped, MonitorTyped, SpecTyped, AttemptsInv, PromptInv, EnterTier
  <2> QED BY <2>1, <2>2, <2>3, WithinTier DEF PromptsInv, PromptsTyped, HistoryInv
<1>5. ASSUME Forget, NextTier \/ Leave, UNCHANGED <<calls, prompt, verdict, endedOn>>,
             phase \in {"exhausted", "retry"}, actions' \in Seq(Recorded) /\ Len(actions') <= WindowSize
      PROVE  PromptsInv'
  <2>1. history' = [history EXCEPT ![Now] = <<>>]
    BY <1>5 DEF Forget
  <2>2. history' \in [Range(Tiers) -> Seq(Critique)] /\ history'[Now] = <<>>
        /\ \A t \in Range(Tiers) : t # Now => history'[t] = history[t]
    BY <1>1, <1>2, <2>1, EmptyHistory
  <2>3. OnceInv'
    BY <1>2, <2>2, EmptyHistory DEF OnceInv
  <2>4. \A t \in Range(Tiers) \ endedOn' : Range(history'[t]) = {}
    BY <1>5, <2>2, EmptyHistory DEF PromptsInv, HistoryInv
  <2>5. MonitorTyped'
    BY <1>2, <1>5 DEF MonitorTyped
  <2>6. prompt.seen = {}
    BY <1>5 DEF PromptsInv, PromptInv
  <2> QED BY <1>5, <2>2, <2>3, <2>4, <2>5, <2>6, LeavingKeeps
<1>6. CASE Exhaust
  <2>1. actions' \in Seq(Recorded) /\ Len(actions') <= WindowSize
    BY <1>2, <1>6, NoteKeeps, Recordings DEF Exhaust
  <2> QED BY <1>5, <1>6, <2>1 DEF Exhaust
<1>7. CASE FailUp
  <2>1. actions' = actions
    BY <1>7 DEF FailUp, monitorVars
  <2> QED BY <1>2, <1>5, <1>7, <2>1 DEF FailUp, MonitorTyped
<1> QED BY <1>3, <1>4, <1>6, <1>7 DEF TierStep

(* A prompt is put together: what is remembered of the tier, and of it     *)
(* what fits.                                                              *)
LEMMA AssembleKeeps == ASSUME PromptsInv, Assemble PROVE PromptsInv'
<1> DEFINE h == Remembered(history[Now])
<1>1. Now \in Range(Tiers) /\ PromptsTyped /\ MonitorTyped
  BY NowIsTier DEF PromptsInv, PromptsTyped
<1>2. /\ phase = "retry" /\ retry <= retries /\ phase' = "coding" /\ Note(ContextFill)
      /\ history' = [history EXCEPT ![Now] = h] /\ prompt' = Compressed(spec, h)
      /\ UNCHANGED <<calls, tier, retry, retries, bonus, feedback, spec, verdict, told, endedOn>>
  BY DEF Assemble, loopVars, historyVars
<1>3. /\ h \in Seq(Critique) /\ Range(h) \subseteq Range(history[Now]) \cup ({feedback} \ {""})
      /\ IsFiniteSet(Range(h)) /\ Len(h) = Cardinality(Range(h))
  BY <1>1, RememberedOnce DEF PromptsInv, PromptsTyped, OnceInv
<1>4. Compressed(spec, h).seen \subseteq Texts \cup Range(h)
  <2>1. spec \in Seq(Texts)
    BY <1>1 DEF PromptsTyped, SpecTyped
  <2> QED BY <1>3, <2>1, CompressedFromTexts
<1> HIDE DEF h
<1>5. /\ history' \in [Range(Tiers) -> Seq(Critique)] /\ history'[Now] = h
      /\ \A t \in Range(Tiers) : t # Now => history'[t] = history[t]
  BY <1>1, <1>2, <1>3 DEF PromptsTyped
<1>6. MonitorTyped'
  <2>1. actions' \in Seq(Recorded) /\ Len(actions') <= WindowSize
    BY <1>1, <1>2, NoteKeeps, Recordings
  <2> QED BY <1>1, <1>2, <2>1 DEF MonitorTyped
<1>7. PromptsTyped'
  <2>1. phase' \in Phases
    BY <1>2 DEF Phases
  <2>2. SpecTyped'
    BY <1>1, <1>2 DEF PromptsTyped, SpecTyped
  <2> QED BY <1>1, <1>2, <1>5, <1>6, <2>1, <2>2 DEF PromptsTyped
<1>8. AttemptsInv'
  BY <1>2 DEF PromptsInv, AttemptsInv
<1>9. OnceInv'
  BY <1>3, <1>5 DEF PromptsInv, OnceInv
<1>10. Now' = Now
  BY <1>2 DEF Now
<1>11. Now \notin endedOn => Range(h) \subseteq told
  BY <1>1, <1>3 DEF PromptsInv, HistoryInv
<1>12. HistoryInv'
  BY <1>2, <1>5, <1>10, <1>11 DEF PromptsInv, HistoryInv
<1>13. PromptInv'
  BY <1>2, <1>4, <1>10, <1>11 DEF PromptInv
<1> QED BY <1>7, <1>8, <1>9, <1>12, <1>13 DEF PromptsInv

(* An attempt more: what a coder got and what a verdict said both leave    *)
(* room for it.                                                            *)
LEMMA OneMore ==
  ASSUME tier \in 1..Len(Tiers), retry \in Nat, retries \in Nat, bonus \in BOOLEAN, AttemptsInv,
         tier' = tier, bonus' = bonus \/ bonus' = TRUE,
         retry' = retry + 1,
         retries' = IF bonus' = bonus THEN retries ELSE retries + 1,
         \/ phase = "coding" /\ phase' \in {"retry", "judging", "exhausted"}
         \/ phase = "reported" /\ phase' = "retry"
  PROVE  AttemptsInv' /\ retry' \in Nat /\ retries' \in Nat /\ bonus' \in BOOLEAN
<1> DEFINE more == IF bonus' = bonus THEN retries ELSE retries + 1
<1>1. /\ MaxRetries <= retries /\ 1 <= retry /\ retry <= retries + 1
      /\ (phase = "coding" => retry <= retries)
      /\ retries <= MaxRetries + tier - 1 + (IF bonus THEN 1 ELSE 0)
  BY DEF AttemptsInv
<1>2. more \in Nat /\ retries <= more
  OBVIOUS
<1>3. MaxRetries <= more
  BY <1>1, <1>2, Bounds
<1>4. 1 <= retry + 1 /\ retry + 1 <= more + 2 /\ (phase = "coding" => retry + 1 <= more + 1)
  <2> HIDE DEF more
  <2> QED BY <1>1, <1>2
<1>5. more <= MaxRetries + tier - 1 + (IF bonus' THEN 1 ELSE 0)
  <2>1. CASE bonus' = bonus
    BY <1>1, <2>1
  <2>2. CASE bonus' # bonus
    <3>1. bonus = FALSE /\ bonus' = TRUE
      BY <2>2
    <3>2. retries <= MaxRetries + tier - 1 + 0
      BY <1>1, <3>1
    <3>3. more = retries + 1
      BY <2>2
    <3>4. (IF bonus' THEN 1 ELSE 0) = 1
      BY <3>1
    <3>5. retries + 1 <= MaxRetries + tier - 1 + 1
      BY <3>2, Bounds
    <3> QED BY <3>3, <3>4, <3>5
  <2> QED BY <2>1, <2>2
<1>6. retry' = retry + 1 /\ retries' = more
  OBVIOUS
<1> HIDE DEF more
<1>7. /\ phase' \notin {"idle", "tier", "coding", "reported"}
      /\ (phase' = "judging" => phase = "coding")
  OBVIOUS
<1>8. AttemptsInv'
  BY <1>3, <1>4, <1>5, <1>6, <1>7 DEF AttemptsInv
<1>9. retry' \in Nat /\ retries' \in Nat
  BY <1>2, <1>6
<1> QED BY <1>8, <1>9

(* The other steps of an attempt.                                          *)
LEMMA AttemptKeeps == ASSUME PromptsInv, AttemptStep PROVE PromptsInv'
<1>1. /\ MonitorTyped /\ SpecTyped /\ retry \in Nat /\ retries \in Nat /\ bonus \in BOOLEAN
      /\ tier \in 1..Len(Tiers)
      /\ feedback \in Critique /\ (feedback # "" => feedback \in told) /\ AttemptsInv
  BY DEF PromptsInv, PromptsTyped, HistoryInv
<1>2. NoPrompt.seen = {} /\ (phase # "coding" => prompt.seen = {})
  BY DEF NoPrompt, PromptsInv, PromptInv
<1>3. CASE ProcessFails
  <2>1. /\ phase = "coding" /\ retry' = retry + 1 /\ prompt' = NoPrompt
        /\ Note(CoderOutput("empty", FALSE))
        /\ UNCHANGED <<calls, tier, retries, bonus, history, spec, verdict, endedOn>>
    BY <1>3 DEF ProcessFails
  <2>2. MonitorTyped'
    <3>1. actions' \in Seq(Recorded) /\ Len(actions') <= WindowSize
      BY <1>1, <2>1, NoteKeeps, Recordings
    <3> QED BY <1>1, <2>1, <3>1 DEF MonitorTyped
  <2>3. /\ phase' \in {"retry", "exhausted"} /\ feedback' \in Critique /\ told \subseteq told'
        /\ feedback' # "" => feedback' \in told'
    <3>1. CASE retry + 1 <= retries
      <4>1. feedback' = "crashed" /\ told' = told \cup {"crashed"} /\ phase' = "retry"
        BY <1>3, <3>1 DEF ProcessFails, Told
      <4> QED BY <4>1 DEF Critique
    <3>2. CASE ~(retry + 1 <= retries)
      <4>1. UNCHANGED <<feedback, told>> /\ phase' = "exhausted"
        BY <1>3, <3>2 DEF ProcessFails
      <4> QED BY <1>1, <4>1
    <3> QED BY <3>1, <3>2
  <2>4. AttemptsInv' /\ retry' \in Nat /\ retries' \in Nat /\ bonus' \in BOOLEAN
    BY <1>1, <2>1, <2>3, OneMore
  <2>5. SpecTyped' /\ prompt'.seen = {}
    BY <1>1, <1>2, <2>1 DEF SpecTyped
  <2> QED BY <2>1, <2>2, <2>3, <2>4, <2>5, WithinTier
<1>4. CASE GivesUp
  <2>1. /\ phase = "coding" /\ phase' = "exhausted" /\ prompt' = NoPrompt
        /\ UNCHANGED <<calls, tier, retry, retries, bonus, feedback, history, spec, verdict, actions,
                       told, endedOn>>
    BY <1>4 DEF GivesUp, loopVars, monitorVars, historyVars
  <2>2. MonitorTyped' /\ SpecTyped' /\ AttemptsInv'
    BY <1>1, <2>1 DEF MonitorTyped, SpecTyped, AttemptsInv
  <2> QED BY <1>1, <1>2, <2>1, <2>2, WithinTier
<1>5. CASE Delivers
  <2>1. /\ phase = "coding" /\ phase' = "judging" /\ retry' = retry + 1 /\ prompt' = NoPrompt
        /\ UNCHANGED <<calls, tier, retries, bonus, feedback, history, spec, verdict, told, endedOn>>
    BY <1>5 DEF Delivers, historyVars
  <2>2. MonitorTyped'
    <3>1. CASE \E truncated \in BOOLEAN : Note(CoderOutput("sane", truncated))
      <4>1. actions' \in Seq(Recorded) /\ Len(actions') <= WindowSize
        BY <1>1, <3>1, NoteKeeps, Recordings
      <4> QED BY <1>1, <2>1, <4>1 DEF MonitorTyped
    <3>2. CASE UNCHANGED <<actions, latest>>
      BY <1>1, <2>1, <3>2 DEF MonitorTyped
    <3> QED BY <1>5, <3>1, <3>2 DEF Delivers
  <2>3. AttemptsInv' /\ retry' \in Nat /\ retries' \in Nat /\ bonus' \in BOOLEAN
    BY <1>1, <2>1, OneMore
  <2>4. SpecTyped' /\ prompt'.seen = {}
    BY <1>1, <1>2, <2>1 DEF SpecTyped
  <2> QED BY <1>1, <2>1, <2>2, <2>3, <2>4, WithinTier
<1>6. CASE AuditFails
  <2>1. /\ phase = "judging" /\ phase' \in {"retry", "exhausted"}
        /\ spec' = spec \/ spec' = <<"findings">> \o spec
        /\ UNCHANGED <<calls, tier, retry, retries, bonus, feedback, history, prompt, verdict,
                       actions, told, endedOn>>
    BY <1>6 DEF AuditFails, loopVars, monitorVars, historyVars
  <2>2. SpecTyped'
    <3>1. "findings" \in Texts
      BY DEF Texts
    <3>2. CASE spec' = spec
      BY <1>1, <3>2 DEF SpecTyped
    <3>3. CASE spec' = <<"findings">> \o spec
      BY <1>1, <3>1, <3>3, InFront
    <3> QED BY <2>1, <3>2, <3>3
  <2>3. MonitorTyped' /\ AttemptsInv'
    BY <1>1, <2>1 DEF MonitorTyped, AttemptsInv
  <2> QED BY <1>1, <1>2, <2>1, <2>2, <2>3, WithinTier
<1>7. CASE Judged
  <2>1. /\ phase = "judging" /\ phase' = "reported"
        /\ UNCHANGED <<calls, tier, retry, retries, bonus, feedback, history, spec, prompt, told,
                       endedOn>>
    BY <1>7 DEF Judged, loopVars, textVars, historyVars
  <2>2. PICK r \in Replies : verdict' = Evaluate(r)
                             /\ actions' = Record(actions, JudgeVerdict(Evaluate(r).score))
    BY <1>7 DEF Judged
  <2>3. JudgeVerdict(Evaluate(r).score) \in Recorded
    BY EvaluateTyped, Recordings
  <2>4. MonitorTyped'
    <3>1. actions \in Seq(Recorded)
      BY <1>1 DEF MonitorTyped
    <3>2. WindowSize \in Nat \ {0}
      BY Bounds
    <3>3. actions' \in Seq(Recorded) /\ Len(actions') <= WindowSize
      BY <2>2, <2>3, <3>1, <3>2, RecordKeeps
    <3> QED BY <2>2, <3>3, EvaluateTyped DEF MonitorTyped
  <2>5. AttemptsInv' /\ SpecTyped'
    BY <1>1, <2>1 DEF AttemptsInv, SpecTyped
  <2> QED BY <1>1, <1>2, <2>1, <2>4, <2>5, WithinTier
<1> QED BY <1>3, <1>4, <1>5, <1>6, <1>7, AssembleKeeps DEF AttemptStep

(* What the verdict leads to.                                              *)
LEMMA VerdictKeeps == ASSUME PromptsInv, VerdictStep PROVE PromptsInv'
<1>1. /\ MonitorTyped /\ SpecTyped /\ retry \in Nat /\ retries \in Nat /\ bonus \in BOOLEAN
      /\ tier \in 1..Len(Tiers)
      /\ feedback \in Critique /\ (feedback # "" => feedback \in told) /\ AttemptsInv
      /\ history \in [Range(Tiers) -> Seq(Critique)] /\ verdict.critique \in Critique
  BY DEF PromptsInv, PromptsTyped, HistoryInv, MonitorTyped
<1>2. phase = "reported" /\ prompt.seen = {} /\ retry <= retries + 1
  BY <1>1 DEF VerdictStep, AcceptResult, VerificationFails, Provisional, RejectResult,
              PromptsInv, PromptInv, AttemptsInv
<1>3. MonitorTyped'
  <2>1. verdict' = NoVerdict /\ actions' = actions
    BY DEF VerdictStep, AcceptResult, VerificationFails, Provisional, RejectResult, Decided
  <2>2. NoVerdict.critique = "" /\ NoVerdict.score = 0 /\ "" \in Critique /\ 0 \in 0..10
    BY DEF NoVerdict, Critique
  <2> QED BY <1>1, <2>1, <2>2 DEF MonitorTyped
<1>4. CASE AcceptResult
  <2>1. Leave /\ endedOn' = endedOn \cup {Now} /\ UNCHANGED <<calls, history, prompt>>
    BY <1>4 DEF AcceptResult
  <2>2. OnceInv'
    BY <2>1 DEF PromptsInv, OnceInv
  <2>3. \A t \in Range(Tiers) \ endedOn' : Range(history'[t]) = {}
    BY <2>1 DEF PromptsInv, HistoryInv
  <2> QED BY <1>1, <1>2, <1>3, <2>1, <2>2, <2>3, LeavingKeeps
<1>5. CASE VerificationFails
  <2>1. /\ spec' = <<"errors">> \o spec /\ retry' = retry + 1 /\ phase' = "retry"
        /\ UNCHANGED <<calls, tier, retries, bonus, feedback, history, prompt, told, endedOn>>
    BY <1>5 DEF VerificationFails, historyVars
  <2>2. SpecTyped'
    <3>1. "errors" \in Texts
      BY DEF Texts
    <3> QED BY <1>1, <2>1, <3>1, InFront
  <2>3. AttemptsInv' /\ retry' \in Nat /\ retries' \in Nat /\ bonus' \in BOOLEAN
    BY <1>1, <1>2, <2>1, OneMore
  <2> QED BY <1>1, <1>2, <1>3, <2>1, <2>2, <2>3, WithinTier
<1>6. CASE Provisional
  <2>1. /\ retries' = (IF bonus THEN retries ELSE retries + 1) /\ bonus' = TRUE
        /\ retry' = retry + 1 /\ phase' = "retry"
        /\ feedback' = verdict.critique /\ told' = told \cup {verdict.critique}
        /\ UNCHANGED <<calls, tier, history, spec, prompt, endedOn>>
    BY <1>6 DEF Provisional, Told
  <2>2. SpecTyped' /\ prompt'.seen = {}
    BY <1>1, <1>2, <2>1 DEF SpecTyped
  <2>3. AttemptsInv' /\ retry' \in Nat /\ retries' \in Nat /\ bonus' \in BOOLEAN
    <3>1. retries' = IF bonus' = bonus THEN retries ELSE retries + 1
      BY <1>1, <2>1
    <3> QED BY <1>1, <1>2, <2>1, <3>1, OneMore
  <2> QED BY <1>1, <1>3, <2>1, <2>2, <2>3, WithinTier
<1>7. CASE RejectResult
  <2>1. /\ phase' = "retry" /\ feedback' = verdict.critique /\ told' = told \cup {verdict.critique}
        /\ UNCHANGED <<calls, tier, retry, retries, bonus, history, spec, prompt, endedOn>>
    BY <1>7 DEF RejectResult, Told, loopVars
  <2>2. AttemptsInv' /\ SpecTyped'
    BY <1>1, <2>1 DEF AttemptsInv, SpecTyped
  <2> QED BY <1>1, <1>2, <1>3, <2>1, <2>2, WithinTier
<1> QED BY <1>4, <1>5, <1>6, <1>7 DEF VerdictStep

LEMMA PromptsAlways == PromptsSpec => []PromptsInv
<1>1. ASSUME PromptsInv, StartCall PROVE PromptsInv'
  <2>1. /\ phase = "idle" /\ calls < MaxCalls /\ calls' = calls + 1 /\ phase' = "tier"
        /\ UNCHANGED <<tier, retry, retries, bonus, feedback, history, spec, prompt, verdict,
                       actions, told, endedOn>>
    BY <1>1 DEF StartCall, loopVars, textVars, monitorVars, historyVars
  <2>2. calls' \in 0..MaxCalls /\ phase' \in Phases
    BY <1>1, <2>1, Bounds DEF PromptsInv, PromptsTyped, Phases
  <2>3. PromptsTyped'
    BY <1>1, <2>1, <2>2 DEF PromptsInv, PromptsTyped, MonitorTyped, SpecTyped
  <2>4. AttemptsInv'
    BY <1>1, <2>1 DEF PromptsInv, AttemptsInv
  <2>5. HistoryInv' /\ OnceInv' /\ PromptInv'
    BY <1>1, <2>1 DEF PromptsInv, HistoryInv, OnceInv, PromptInv, Now
  <2> QED BY <2>3, <2>4, <2>5 DEF PromptsInv
<1>2. ASSUME PromptsInv, UNCHANGED promptVars PROVE PromptsInv'
  <2>1. UNCHANGED <<calls, phase, tier, retry, retries, bonus, feedback, history, spec, prompt,
                    verdict, actions, told, endedOn>>
    BY <1>2 DEF promptVars, loopVars, textVars, monitorVars, historyVars
  <2> QED BY <1>2, <2>1 DEF PromptsInv, PromptsTyped, MonitorTyped, SpecTyped, AttemptsInv,
                            HistoryInv, OnceInv, PromptInv, Now
<1>3. PromptsInv /\ [PromptsNext]_promptVars => PromptsInv'
  BY <1>1, <1>2, TierKeeps, AttemptKeeps, VerdictKeeps DEF PromptsNext, CallsMade
<1> QED BY <1>3, PromptsInitially, PTL DEF PromptsSpec

(* Attempts are granted within what the tiers allow, the monitor's window  *)
(* keeps its size, no critique is remembered twice, and the task stays at  *)
(* the end of its specification.                                           *)
THEOREM PromptsAreTyped == PromptsSpec => []PromptsTypeOK
<1>1. PromptsInv => PromptsTypeOK
  <2> SUFFICES ASSUME PromptsInv PROVE PromptsTypeOK
    OBVIOUS
  <2>1. /\ tier \in 1..Len(Tiers) /\ retry \in Nat /\ retries \in Nat /\ bonus \in BOOLEAN
    BY DEF PromptsInv, PromptsTyped
  <2>2. retries \in MaxRetries..(MaxRetries + Len(Tiers)) /\ retry \in 1..(retries + 2)
    <3>1. CASE bonus
      BY <2>1, <3>1, Bounds DEF PromptsInv, AttemptsInv
    <3>2. CASE ~bonus
      BY <2>1, <3>2, Bounds DEF PromptsInv, AttemptsInv
    <3> QED BY <3>1, <3>2
  <2> QED BY <2>1, <2>2 DEF PromptsInv, PromptsTyped, MonitorTyped, SpecTyped, OnceInv, PromptsTypeOK
<1> QED BY <1>1, PromptsAlways, PTL

(* However many calls, tiers and attempts there are and however a prompt   *)
(* is cut: what a judge said in an earlier call reaches a coder only from  *)
(* a tier on which a call ended with a result.                             *)
THEOREM OldFixesForgotten == PromptsSpec => []OldFixesOnlyAfterResult
<1>1. PromptsInv => OldFixesOnlyAfterResult
  BY DEF PromptsInv, PromptInv, OldFixesOnlyAfterResult, Texts
<1> QED BY <1>1, PromptsAlways, PTL

-----------------------------------------------------------------------------
(* The monitor's alarm (PipelineMonitor).                                  *)

\* A list of the last verdicts, oldest first, against the window: where the k-th of
\* them is, 0 or less once it is out; each is there until it leaves.
Seen == [score : 0..10, age : 0..WindowSize]
At(list, window, k) == Len(window) - list[k].age
Traces(list, window) ==
  /\ list \in Seq(Seen) /\ Len(list) <= LowScores
  /\ \A i, k \in DOMAIN list : i < k => list[i].age > list[k].age \/ list[i].age = WindowSize
  /\ \A k \in DOMAIN list :
       list[k].age < WindowSize =>
         /\ At(list, window, k) \in Verdicts(window)
         /\ window[At(list, window, k)].score = list[k].score

\* A position is that of a listed verdict, or is older than all a full list has.
Covered(list, window, p) ==
  \/ \E k \in DOMAIN list : list[k].age < WindowSize /\ At(list, window, k) = p
  \/ Len(list) = LowScores /\ p < At(list, window, 1)

LatestInv == Traces(latest, actions) /\ \A p \in Verdicts(actions) : Covered(latest, actions, p)

\* What is reported is what was found when the last verdict was recorded.
AlarmInv == phase = "reported" => alarms = Errors(actions) \cup Warnings(actions)

LEMMA MonitorBounds == WindowSize \in Nat /\ WindowSize > 0 /\ LowScores \in Nat /\ LowScores > 0
BY PromptsAssumption

(* A full list loses its first element when another is put at its end.     *)
IsPushed(new, s, x, n) ==
  \E d \in {0, 1}, m \in 1..n :
    /\ m = Len(s) + 1 - d /\ (d = 1 <=> Len(s) = n)
    /\ Len(new) = m /\ new[m] = x
    /\ \A k \in 1..m : k # m => k + d \in 1..Len(s) /\ new[k] = s[k + d]

LEMMA PushShifts ==
  ASSUME NEW S, NEW s \in Seq(S), NEW x \in S, NEW n \in Nat, n > 0, Len(s) <= n
  PROVE  Latest(Append(s, x), n) \in Seq(S) /\ IsPushed(Latest(Append(s, x), n), s, x, n)
<1> DEFINE longer == Append(s, x)
           d == IF Len(s) = n THEN 1 ELSE 0
           new == SubSeq(longer, d + 1, Len(s) + 1)
           m == Len(s) + 1 - d
<1>1. Len(s) \in Nat
  OBVIOUS
<1>2. (d = 1 /\ Len(s) = n) \/ (d = 0 /\ Len(s) < n)
  BY <1>1
<1> HIDE DEF d
<1>3. d \in {0, 1} /\ m \in 1..n /\ (d = 1 <=> Len(s) = n)
  BY <1>1, <1>2
<1>4. /\ longer \in Seq(S) /\ Len(longer) = Len(s) + 1 /\ longer[Len(s) + 1] = x
      /\ \A k \in 1..Len(s) : longer[k] = s[k]
  OBVIOUS
<1> HIDE DEF longer
<1>5. Latest(longer, n) = new
  <2>1. (IF Len(longer) > n THEN Len(longer) - n ELSE 0) = d
    BY <1>1, <1>2, <1>4
  <2> QED BY <1>4, <2>1 DEF Latest
<1>6. new \in Seq(S) /\ Len(new) = m /\ \A k \in 1..m : new[k] = longer[k + d]
  <2>1. Len(longer) = Len(s) + 1 /\ d + 1 \in 1..(Len(s) + 2)
    BY <1>1, <1>3, <1>4
  <2>2. new \in Seq(S) /\ Len(new) = m
    BY <1>1, <1>3, <1>4, <2>1
  <2>3. \A k \in 1..((Len(s) + 1) - (d + 1) + 1) : new[k] = longer[(d + 1) + k - 1]
    BY <1>1, <1>4, <2>1
  <2>4. \A k \in 1..m : k \in 1..((Len(s) + 1) - (d + 1) + 1) /\ (d + 1) + k - 1 = k + d
    BY <1>1, <1>3
  <2> QED BY <2>2, <2>3, <2>4
<1> HIDE DEF new
<1>7. new[m] = x /\ \A k \in 1..m : k # m => k + d \in 1..Len(s) /\ new[k] = s[k + d]
  <2>1. m + d = Len(s) + 1 /\ m \in 1..m
    BY <1>1, <1>2, <1>3
  <2>2. \A k \in 1..m : k # m => k + d \in 1..Len(s)
    BY <1>1, <1>3, <2>1
  <2> QED BY <1>4, <1>6, <2>1, <2>2
<1> HIDE DEF m
<1> QED BY <1>3, <1>5, <1>6, <1>7 DEF longer, m, IsPushed

(* A full window loses its first action when another is recorded.          *)
LEMMA RecordShifts ==
  ASSUME NEW s \in Seq(Recorded), Len(s) <= WindowSize, NEW a \in Recorded
  PROVE  Record(s, a) \in Seq(Recorded) /\ IsPushed(Record(s, a), s, a, WindowSize)
BY PushShifts, MonitorBounds DEF Record

(* A verdict's age grows by one, up to where it has left the window.       *)
OlderBy1(x) == [x EXCEPT !.age = IF @ + 1 > WindowSize THEN WindowSize ELSE @ + 1]

LEMMA SeenFields ==
  ASSUME NEW x \in Seen
  PROVE  /\ x.score \in 0..10 /\ x.age \in Nat /\ x.age <= WindowSize
         /\ OlderBy1(x) \in Seen /\ OlderBy1(x).score = x.score
         /\ OlderBy1(x).age = IF x.age = WindowSize THEN WindowSize ELSE x.age + 1
<1>1. x.score \in 0..10 /\ x.age \in 0..WindowSize
  BY DEF Seen
<1>2. x.age \in Nat /\ x.age <= WindowSize
  BY <1>1, MonitorBounds
<1> DEFINE grown == IF x.age + 1 > WindowSize THEN WindowSize ELSE x.age + 1
<1>3. grown = (IF x.age = WindowSize THEN WindowSize ELSE x.age + 1) /\ grown \in 0..WindowSize
  BY <1>2, MonitorBounds
<1>4. OlderBy1(x) = [score |-> x.score, age |-> grown]
  BY DEF OlderBy1, Seen
<1> HIDE DEF grown
<1> QED BY <1>1, <1>2, <1>3, <1>4 DEF Seen

LEMMA OlderList ==
  ASSUME NEW list \in Seq(Seen), NEW old, old = [k \in DOMAIN list |-> OlderBy1(list[k])]
  PROVE  /\ old \in Seq(Seen) /\ Len(old) = Len(list)
         /\ \A k \in 1..Len(list) : old[k] = OlderBy1(list[k])
<1>1. DOMAIN list = 1..Len(list) /\ Len(list) \in Nat /\ \A k \in 1..Len(list) : list[k] \in Seen
  OBVIOUS
<1>2. \A k \in 1..Len(list) : OlderBy1(list[k]) \in Seen
  BY <1>1, SeenFields
<1> QED BY <1>1, <1>2

(* Every action recorded makes the verdicts a place older.                 *)
LEMMA OlderTraces ==
  ASSUME NEW s \in Seq(Recorded), Len(s) <= WindowSize, NEW a \in Recorded,
         NEW list, Traces(list, s), \A p \in Verdicts(s) : Covered(list, s, p),
         NEW old \in Seq(Seen), Len(old) = Len(list),
         \A k \in 1..Len(list) : old[k] = OlderBy1(list[k])
  PROVE  /\ Traces(old, Record(s, a)) /\ \A k \in 1..Len(old) : old[k].age > 0
         /\ \A p \in Verdicts(Record(s, a)) : p = Len(Record(s, a)) \/ Covered(old, Record(s, a), p)
<1> DEFINE r == Record(s, a)
<1> HIDE DEF r
<1>0. r \in Seq(Recorded) /\ IsPushed(r, s, a, WindowSize)
  BY RecordShifts DEF r
<1>1. PICK d \in {0, 1} :
        /\ r \in Seq(Recorded) /\ Len(r) = Len(s) + 1 - d /\ r[Len(r)] = a
        /\ d = 1 <=> Len(s) = WindowSize
        /\ \A q \in 1..Len(r) : q # Len(r) => q + d \in 1..Len(s) /\ r[q] = s[q + d]
  BY <1>0 DEF IsPushed
<1>2. /\ list \in Seq(Seen) /\ Len(list) <= LowScores /\ Len(list) \in Nat
      /\ DOMAIN list = 1..Len(list) /\ DOMAIN old = 1..Len(list)
  BY DEF Traces
<1>3. ASSUME NEW k \in 1..Len(list)
      PROVE  /\ list[k].score \in 0..10 /\ list[k].age \in Nat /\ list[k].age <= WindowSize
             /\ old[k].score = list[k].score
             /\ old[k].age = IF list[k].age = WindowSize THEN WindowSize ELSE list[k].age + 1
  <2>1. list[k] \in Seen /\ old[k] = OlderBy1(list[k])
    BY <1>2
  <2> QED BY <2>1, SeenFields
<1>4. \A k \in 1..Len(list) : old[k].score = list[k].score
  BY <1>3
<1>5. \A k \in 1..Len(list) : old[k].age \in Nat /\ old[k].age > 0 /\ old[k].age <= WindowSize
                              /\ (old[k].age < WindowSize => old[k].age = list[k].age + 1 /\ list[k].age < WindowSize)
                              /\ (list[k].age < WindowSize => old[k].age = list[k].age + 1)
  <2> TAKE k \in 1..Len(list)
  <2>1. /\ list[k].age \in Nat /\ list[k].age <= WindowSize
        /\ old[k].age = IF list[k].age = WindowSize THEN WindowSize ELSE list[k].age + 1
    BY <1>3
  <2> QED BY <2>1, MonitorBounds
<1>6. \A p \in 1..Len(s) : p > d => (p - d \in Verdicts(r) <=> p \in Verdicts(s)) /\ r[p - d].score = s[p].score
  <2>1. DOMAIN s = 1..Len(s) /\ DOMAIN r = 1..(Len(s) + 1 - d) /\ Len(s) \in Nat
    BY <1>1
  <2>2. ASSUME NEW p \in 1..Len(s), p > d PROVE r[p - d] = s[p] /\ p - d \in 1..(Len(s) + 1 - d)
    <3>1. p - d \in 1..Len(r) /\ p - d # Len(r) /\ (p - d) + d = p
      BY <1>1, <2>1, <2>2
    <3> QED BY <1>1, <2>1, <3>1
  <2> QED BY <2>1, <2>2 DEF Verdicts
\* While a verdict is in the window, it has moved with the window.
<1>7. ASSUME NEW k \in 1..Len(list), list[k].age < WindowSize
      PROVE  /\ At(list, s, k) \in 1..Len(s) /\ At(list, s, k) \in Verdicts(s)
             /\ old[k].age < WindowSize => At(list, s, k) > d
             /\ At(old, r, k) = At(list, s, k) - d
             /\ s[At(list, s, k)].score = list[k].score
  <2>1. At(list, s, k) \in Verdicts(s) /\ s[At(list, s, k)].score = list[k].score
    BY <1>2, <1>7 DEF Traces
  <2>2. At(list, s, k) \in 1..Len(s)
    BY <2>1 DEF Verdicts
  <2>3. At(list, s, k) = Len(s) - list[k].age /\ At(old, r, k) = (Len(s) + 1 - d) - old[k].age
    BY <1>1 DEF At
  <2>4. Len(s) \in Nat /\ list[k].age \in Nat
    <3>1. Len(s) \in Nat
      OBVIOUS
    <3>2. list[k].age \in Nat
      BY <1>3, Zenon
    <3> QED BY <3>1, <3>2
  <2>5. At(old, r, k) = At(list, s, k) - d
    <3>1. old[k].age = list[k].age + 1
      BY <1>5, <1>7, Zenon
    <3> QED BY <2>3, <2>4, <3>1
  <2>6. old[k].age < WindowSize => Len(s) - list[k].age > d
    <3>1. CASE d = 0
      BY <2>2, <2>3, <2>4, <3>1
    <3>2. CASE d = 1
      BY <1>1, <1>5, <1>7, <2>4, <3>2, MonitorBounds
    <3> QED BY <3>1, <3>2
  <2> QED BY <2>1, <2>2, <2>3, <2>5, <2>6
<1>8. ASSUME NEW k \in 1..Len(list), old[k].age < WindowSize
      PROVE  At(old, r, k) \in Verdicts(r) /\ r[At(old, r, k)].score = old[k].score
  <2>1. list[k].age < WindowSize
    BY <1>5, <1>8
  <2> QED BY <1>4, <1>6, <1>7, <1>8, <2>1
<1>9. \A i, k \in 1..Len(list) : i < k => old[i].age > old[k].age \/ old[i].age = WindowSize
  <2>1. \A i, k \in 1..Len(list) : i < k => list[i].age > list[k].age \/ list[i].age = WindowSize
    BY <1>2 DEF Traces
  <2> QED BY <1>3, <1>4, <2>1, MonitorBounds
<1>10. Traces(old, r)
  BY <1>2, <1>4, <1>8, <1>9 DEF Traces
<1>11. ASSUME NEW q \in Verdicts(r), q # Len(r) PROVE Covered(old, r, q)
  <2> DEFINE p == q + d
  <2>1. q \in 1..Len(r) /\ Len(r) = Len(s) + 1 - d /\ Len(s) \in Nat
    BY <1>1 DEF Verdicts
  <2>2. p \in 1..Len(s) /\ p > d /\ p - d = q
    BY <1>11, <2>1
  <2>3. p \in Verdicts(s)
    BY <1>6, <1>11, <2>2
  <2> HIDE DEF p
  <2>4. Covered(list, s, p)
    BY <2>3
  <2>5. ASSUME NEW k \in 1..Len(list), list[k].age < WindowSize, At(list, s, k) = p
        PROVE  Covered(old, r, q)
    <3>1. At(old, r, k) = q
      BY <1>7, <2>2, <2>5
    <3>2. old[k].age < WindowSize
      <4>1. q = Len(s) + 1 - d - old[k].age /\ 0 < q /\ q \in Nat
        <5>1. At(old, r, k) = Len(r) - old[k].age
          BY DEF At
        <5>2. Len(r) = Len(s) + 1 - d /\ Len(s) \in Nat
          BY <2>1
        <5>3. q = Len(s) + 1 - d - old[k].age
          <6>1. q = Len(r) - old[k].age
            BY <3>1, <5>1, Zenon
          <6>2. old[k].age \in Nat /\ Len(s) + 1 - d \in Int
            BY <1>5, <5>2
          <6> QED BY <5>2, <6>1, <6>2
        <5>4. q \in Nat /\ 0 < q
          BY <2>1, <5>2
        <5> QED BY <5>3, <5>4
      <4>2. Len(s) + 1 - d <= WindowSize
        BY <1>1, <2>1, MonitorBounds
      <4>3. old[k].age \in Nat
        BY <1>5, <2>5
      <4> QED BY <2>1, <4>1, <4>2, <4>3, MonitorBounds
    <3> QED BY <1>4, <3>1, <3>2 DEF Covered
  <2>6. ASSUME Len(list) = LowScores, p < At(list, s, 1)
        PROVE  Covered(old, r, q)
    <3>1. 1 \in 1..Len(list)
      BY <1>2, <2>6, MonitorBounds
    <3>2. list[1].age < WindowSize
      <4>1. list[1].age \in Nat /\ p < Len(s) - list[1].age /\ 0 < p /\ p \in Nat
        BY <1>3, <2>2, <2>6, <3>1 DEF At
      <4> QED BY <2>1, <4>1, MonitorBounds
    <3>3. At(old, r, 1) = At(list, s, 1) - d /\ At(list, s, 1) \in 1..Len(s)
      BY <1>7, <3>1, <3>2
    <3>4. q < At(old, r, 1)
      BY <2>2, <2>6, <3>3
    <3> QED BY <1>4, <2>6, <3>4 DEF Covered
  <2> QED BY <1>2, <2>4, <2>5, <2>6 DEF Covered
<1>12. \A k \in 1..Len(old) : old[k].age > 0
  BY <1>5
<1> QED BY <1>4, <1>10, <1>11, <1>12 DEF r

(* A new verdict pushes the oldest off a full list.                        *)
LEMMA NewestTraces ==
  ASSUME NEW r \in Seq(Recorded), Len(r) <= WindowSize, Len(r) \in Verdicts(r),
         NEW old, Traces(old, r), \A k \in 1..Len(old) : old[k].age > 0,
         \A p \in Verdicts(r) : p = Len(r) \/ Covered(old, r, p),
         NEW new, new = Latest(Append(old, [score |-> r[Len(r)].score, age |-> 0]), LowScores)
  PROVE  Traces(new, r) /\ \A p \in Verdicts(r) : Covered(new, r, p)
<1> DEFINE x == [score |-> r[Len(r)].score, age |-> 0]
<1>1. old \in Seq(Seen) /\ Len(old) \in Nat /\ Len(old) <= LowScores /\ DOMAIN old = 1..Len(old)
  BY DEF Traces
<1>2. x \in Seen /\ x.age = 0 /\ x.score = r[Len(r)].score
  <2>1. Len(r) \in 1..Len(r)
    BY DEF Verdicts
  <2>2. r[Len(r)] \in Recorded
    BY <2>1
  <2>3. r[Len(r)].score \in 0..10
    BY <2>2 DEF Recorded
  <2>4. 0 \in 0..WindowSize
    BY MonitorBounds
  <2> QED BY <2>3, <2>4 DEF Seen
<1> HIDE DEF x
<1>3. new = Latest(Append(old, x), LowScores)
  BY DEF x
<1>3a. new \in Seq(Seen) /\ IsPushed(new, old, x, LowScores)
  BY <1>1, <1>2, <1>3, PushShifts, MonitorBounds
<1>4. PICK d \in {0, 1}, m \in 1..LowScores :
        /\ m = Len(old) + 1 - d /\ (d = 1 <=> Len(old) = LowScores)
        /\ new \in Seq(Seen) /\ Len(new) = m /\ new[m] = x
        /\ \A k \in 1..m : k # m => k + d \in 1..Len(old) /\ new[k] = old[k + d]
  BY <1>3a DEF IsPushed
<1>8. ASSUME NEW k \in 1..Len(old)
      PROVE  old[k].age \in Nat /\ old[k].age > 0 /\ old[k].age <= WindowSize
  <2>1. old[k] \in Seen
    BY <1>1
  <2> QED BY <2>1, SeenFields
<1>9. m \in Nat /\ 1 <= m /\ m <= LowScores
  BY <1>4, MonitorBounds
<1>10. ASSUME NEW i \in 1..m, NEW k \in 1..m, i < k
       PROVE  new[i].age > new[k].age \/ new[i].age = WindowSize
  <2>0. i # m
    BY <1>9, <1>10
  <2>1. i + d \in 1..Len(old) /\ new[i] = old[i + d]
    BY <1>4, <2>0
  <2>2. CASE k = m
    BY <1>2, <1>4, <1>8, <2>1, <2>2
  <2>3. CASE k # m
    <3>1. k + d \in 1..Len(old) /\ new[k] = old[k + d]
      BY <1>4, <2>3
    <3>2. i + d < k + d
      BY <1>10
    <3> QED BY <1>1, <2>1, <3>1, <3>2 DEF Traces
  <2> QED BY <2>2, <2>3
<1>11. ASSUME NEW k \in 1..m, new[k].age < WindowSize
       PROVE  At(new, r, k) \in Verdicts(r) /\ r[At(new, r, k)].score = new[k].score
  <2>1. CASE k = m
    <3>1. At(new, r, k) = Len(r)
      BY <1>2, <1>4, <2>1 DEF At
    <3> QED BY <1>2, <1>4, <2>1, <3>1
  <2>2. CASE k # m
    <3>1. k + d \in 1..Len(old) /\ new[k] = old[k + d] /\ At(new, r, k) = At(old, r, k + d)
      BY <1>4, <2>2 DEF At
    <3> QED BY <1>1, <1>11, <3>1 DEF Traces
  <2> QED BY <2>1, <2>2
<1>12. Traces(new, r)
  <2>1. DOMAIN new = 1..m /\ Len(new) <= LowScores
    BY <1>4, <1>9, MonitorBounds
  <2> QED BY <1>4, <1>10, <1>11, <2>1 DEF Traces
<1>13. ASSUME NEW p \in Verdicts(r) PROVE Covered(new, r, p)
  <2>1. DOMAIN new = 1..m
    BY <1>4, <1>9
  <2>2. CASE p = Len(r)
    <3>1. At(new, r, m) = p /\ new[m].age < WindowSize /\ m \in 1..m
      BY <1>2, <1>4, <1>9, <2>2, MonitorBounds DEF At
    <3> QED BY <2>1, <3>1 DEF Covered
  <2>3. ASSUME NEW k \in 1..Len(old), old[k].age < WindowSize, At(old, r, k) = p, k > d
        PROVE  Covered(new, r, p)
    <3>1. k - d \in 1..m /\ (k - d) + d = k /\ k - d # m
      BY <1>1, <1>4, <2>3
    <3>2. new[k - d] = old[k]
      BY <1>4, <3>1
    <3>3. At(new, r, k - d) = p /\ new[k - d].age < WindowSize
      BY <2>3, <3>2 DEF At
    <3> QED BY <2>1, <3>1, <3>3 DEF Covered
\* What the list has lost is older than what it has.
  <2>4. ASSUME d = 1, p <= At(old, r, 1)
        PROVE  Covered(new, r, p)
    <3>1. Len(new) = LowScores /\ 1 \in 1..m /\ 1 \in 1..Len(old)
      <4>1. Len(old) = LowScores /\ Len(new) = m /\ m = Len(old) + 1 - d
        BY <1>4, <2>4, Zenon
      <4>2. m = LowScores
        BY <2>4, <4>1, MonitorBounds
      <4> QED BY <4>1, <4>2, MonitorBounds
    <3>5. old[1].age \in Nat /\ old[1].age > 0 /\ old[1].age <= WindowSize
      BY <1>8, <3>1
    <3>2. p \in Nat /\ p > 0 /\ Len(r) \in Nat /\ p <= Len(r)
      BY DEF Verdicts
    <3>3. CASE m = 1
      <4>1. At(new, r, 1) = Len(r)
        BY <1>2, <1>4, <3>2, <3>3 DEF At
      <4>2. p < Len(r)
        BY <2>4, <3>2, <3>5 DEF At
      <4> QED BY <3>1, <4>1, <4>2 DEF Covered
    <3>4. CASE m # 1
      <4>1. 2 \in 1..Len(old) /\ 1 \in 1..Len(old) /\ new[1] = old[2] /\ At(new, r, 1) = At(old, r, 2)
        BY <1>4, <2>4, <3>1, <3>4, <1>1 DEF At
      <4>2. old[1].age > old[2].age \/ old[1].age = WindowSize
        BY <1>1, <4>1 DEF Traces
      <4>3. old[2].age \in Nat /\ p <= Len(r) - old[1].age
        BY <1>8, <2>4, <4>1 DEF At
      <4>4. p < Len(r) - old[2].age
        BY <3>2, <3>5, <4>2, <4>3
      <4> QED BY <3>1, <4>1, <4>4 DEF Covered, At
    <3> QED BY <3>3, <3>4
  <2>5. CASE p # Len(r)
    <3>1. CASE \E k \in 1..Len(old) : old[k].age < WindowSize /\ At(old, r, k) = p
      <4>1. PICK k \in 1..Len(old) : old[k].age < WindowSize /\ At(old, r, k) = p
        BY <3>1
      <4>2. CASE k > d
        BY <2>3, <4>1, <4>2
      <4>3. CASE ~(k > d)
        <5>1. d = 1 /\ k = 1 /\ p \in Nat
          BY <1>1, <4>1, <4>3 DEF Verdicts
        <5> QED BY <2>4, <4>1, <5>1
      <4> QED BY <4>2, <4>3
    <3>2. CASE Len(old) = LowScores /\ p < At(old, r, 1)
      <4>1. 1 \in 1..Len(old)
        BY <1>1, <3>2, MonitorBounds
      <4>2. At(old, r, 1) = Len(r) - old[1].age /\ old[1].age \in Nat
        BY <1>8, <4>1 DEF At
      <4>3. p <= At(old, r, 1)
        BY <3>2, <4>2 DEF Verdicts
      <4> QED BY <1>4, <2>4, <3>2, <4>3
    <3> QED BY <1>1, <2>5, <3>1, <3>2 DEF Covered
  <2> QED BY <2>2, <2>5
<1> QED BY <1>12, <1>13

(* What a step does to the monitor.                                        *)
Notes ==
  {ContextFill, Escalation, CoderOutput("empty", FALSE)} \cup {CoderOutput("sane", b) : b \in BOOLEAN}

LEMMA NotesRecorded == \A a \in Notes : a \in Recorded /\ a.type # "judge_verdict"
<1>1. \A a \in Notes : a \in Recorded
  BY Recordings DEF Notes
<1>2. \A a \in Notes : a.type # "judge_verdict"
  BY DEF Notes, ContextFill, Escalation, CoderOutput, Action
<1> QED BY <1>1, <1>2

LEMMA MonitorSteps ==
  ASSUME PromptsNext
  PROVE  \/ Judged
         \/ phase' # "reported" /\ UNCHANGED <<actions, latest>>
         \/ phase' # "reported" /\ \E a \in Notes : Note(a)
<1>1. CASE StartCall \/ CallsMade
  BY <1>1 DEF StartCall, CallsMade, promptVars, monitorVars
<1>2. CASE TierStep
  <2>1. ContextFill \in Notes /\ Escalation \in Notes
    BY DEF Notes
  <2> QED BY <1>2, <2>1 DEF TierStep, SkipTier, EnterTier, Exhaust, FailUp, NextTier, Leave, monitorVars
<1>3. CASE AttemptStep
  <2>1. /\ ContextFill \in Notes /\ CoderOutput("empty", FALSE) \in Notes
        /\ \A b \in BOOLEAN : CoderOutput("sane", b) \in Notes
    BY DEF Notes
  <2> QED BY <1>3, <2>1 DEF AttemptStep, Assemble, ProcessFails, GivesUp, Delivers, AuditFails, monitorVars
<1>4. CASE VerdictStep
  BY <1>4 DEF VerdictStep, AcceptResult, VerificationFails, Provisional, RejectResult, Decided, Leave
<1> QED BY <1>1, <1>2, <1>3, <1>4 DEF PromptsNext

LEMMA NoteLatest ==
  ASSUME MonitorTyped, LatestInv, NEW a \in Notes, Note(a)
  PROVE  LatestInv'
<1>1. /\ actions \in Seq(Recorded) /\ Len(actions) <= WindowSize /\ latest \in Seq(Seen)
      /\ Traces(latest, actions) /\ \A p \in Verdicts(actions) : Covered(latest, actions, p)
  BY DEF MonitorTyped, LatestInv, Traces
<1>2. /\ actions' = Record(actions, a) /\ a \in Recorded /\ a.type # "judge_verdict"
      /\ latest' = [k \in DOMAIN latest |-> OlderBy1(latest[k])]
  BY NotesRecorded DEF Note, Grown, OlderBy1
<1>3. latest' \in Seq(Seen) /\ Len(latest') = Len(latest)
      /\ \A k \in 1..Len(latest) : latest'[k] = OlderBy1(latest[k])
  BY <1>1, <1>2, OlderList
<1>4. /\ Traces(latest', actions')
      /\ \A p \in Verdicts(actions') : p = Len(actions') \/ Covered(latest', actions', p)
  BY <1>1, <1>2, <1>3, OlderTraces
<1>5. Len(actions') \notin Verdicts(actions')
  <2>1. IsPushed(actions', actions, a, WindowSize)
    BY <1>1, <1>2, RecordShifts
  <2>2. actions'[Len(actions')] = a
    BY <2>1 DEF IsPushed
  <2> QED BY <1>2, <2>2 DEF Verdicts
<1> QED BY <1>4, <1>5 DEF LatestInv

LEMMA JudgedLatest ==
  ASSUME MonitorTyped, LatestInv, Judged
  PROVE  LatestInv'
<1>1. /\ actions \in Seq(Recorded) /\ Len(actions) <= WindowSize /\ latest \in Seq(Seen)
      /\ Traces(latest, actions) /\ \A p \in Verdicts(actions) : Covered(latest, actions, p)
  BY DEF MonitorTyped, LatestInv, Traces
<1>2. PICK r \in Replies :
        /\ actions' = Record(actions, JudgeVerdict(Evaluate(r).score))
        /\ latest' = Latest(Append(Grown(1), [score |-> Evaluate(r).score, age |-> 0]), LowScores)
  BY DEF Judged
<1> DEFINE a == JudgeVerdict(Evaluate(r).score)
           old == Grown(1)
<1>3. a \in Recorded /\ a.type = "judge_verdict" /\ a.score = Evaluate(r).score
  <2>1. a \in Recorded
    BY EvaluateTyped, Recordings
  <2> QED BY <2>1 DEF JudgeVerdict, Action
<1>4. old = [k \in DOMAIN latest |-> OlderBy1(latest[k])]
  BY DEF Grown, OlderBy1
<1> HIDE DEF a, old
<1>5. old \in Seq(Seen) /\ Len(old) = Len(latest) /\ \A k \in 1..Len(latest) : old[k] = OlderBy1(latest[k])
  BY <1>1, <1>4, OlderList
<1>6. /\ Traces(old, Record(actions, a)) /\ \A k \in 1..Len(old) : old[k].age > 0
      /\ \A p \in Verdicts(Record(actions, a)) :
           p = Len(Record(actions, a)) \/ Covered(old, Record(actions, a), p)
  BY <1>1, <1>3, <1>5, OlderTraces
<1>7. /\ actions' \in Seq(Recorded) /\ Len(actions') <= WindowSize /\ Len(actions') \in Verdicts(actions')
      /\ actions'[Len(actions')].score = Evaluate(r).score
  <2>1. actions' = Record(actions, a) /\ actions' \in Seq(Recorded) /\ IsPushed(actions', actions, a, WindowSize)
    BY <1>1, <1>2, <1>3, RecordShifts DEF a
  <2>2. PICK m \in 1..WindowSize : Len(actions') = m /\ actions'[m] = a
    BY <2>1 DEF IsPushed
  <2>3. m <= WindowSize /\ m \in 1..m
    BY MonitorBounds
  <2>4. m \in Verdicts(actions')
    BY <1>3, <2>1, <2>2, <2>3 DEF Verdicts
  <2> QED BY <1>3, <2>1, <2>2, <2>3, <2>4
<1>8. latest' = Latest(Append(old, [score |-> actions'[Len(actions')].score, age |-> 0]), LowScores)
  BY <1>2, <1>7 DEF old
<1>9. Traces(latest', actions') /\ \A p \in Verdicts(actions') : Covered(latest', actions', p)
  <2>1. actions' = Record(actions, a)
    BY <1>2 DEF a
  <2> QED BY <1>6, <1>7, <1>8, <2>1, NewestTraces
<1> QED BY <1>9 DEF LatestInv

LEMMA LatestInitially == PromptsInit => LatestInv /\ AlarmInv
<1> SUFFICES ASSUME PromptsInit PROVE LatestInv /\ AlarmInv
  OBVIOUS
<1>1. latest = <<>> /\ actions = <<>> /\ phase = "idle"
  BY DEF PromptsInit
<1>2. DOMAIN latest = {} /\ Len(latest) = 0 /\ latest \in Seq(Seen) /\ DOMAIN actions = {}
  BY <1>1
<1> QED BY <1>1, <1>2, MonitorBounds DEF LatestInv, AlarmInv, Traces, Verdicts

LEMMA LatestAlways == PromptsSpec => [](PromptsInv /\ LatestInv /\ AlarmInv)
<1>1. ASSUME PromptsInv, LatestInv, AlarmInv, PromptsNext PROVE LatestInv' /\ AlarmInv'
  <2>1. MonitorTyped
    BY <1>1 DEF PromptsInv, PromptsTyped
  <2>2. CASE Judged
    BY <1>1, <2>1, <2>2, JudgedLatest DEF Judged, AlarmInv
  <2>3. CASE phase' # "reported" /\ UNCHANGED <<actions, latest>>
    BY <1>1, <2>3 DEF LatestInv, AlarmInv
  <2>4. CASE phase' # "reported" /\ \E a \in Notes : Note(a)
    BY <1>1, <2>1, <2>4, NoteLatest DEF AlarmInv
  <2> QED BY <1>1, <2>2, <2>3, <2>4, MonitorSteps
<1>2. ASSUME LatestInv, AlarmInv, UNCHANGED promptVars PROVE LatestInv' /\ AlarmInv'
  BY <1>2 DEF LatestInv, AlarmInv, promptVars, monitorVars
<1>3. LatestInv /\ AlarmInv /\ PromptsInv /\ [PromptsNext]_promptVars => LatestInv' /\ AlarmInv'
  BY <1>1, <1>2
<1> QED BY <1>3, LatestInitially, PromptsAlways, PTL DEF PromptsSpec

-----------------------------------------------------------------------------
(* Positions named by a set of indices are no more than the indices.       *)
LEMMA NoMoreThanIndices ==
  ASSUME NEW K, IsFiniteSet(K), NEW f, NEW T, \A p \in T : \E k \in K : f[k] = p
  PROVE  IsFiniteSet(T) /\ Cardinality(T) <= Cardinality(K)
<1> DEFINE g == [k \in K |-> f[k]]
           image == {g[k] : k \in K}
<1>1. g \in Surjection(K, image)
  BY DEF Surjection
<1>2. IsFiniteSet(image) /\ Cardinality(image) <= Cardinality(K)
  BY <1>1, FS_Surjection
<1>3. T \in SUBSET image
  OBVIOUS
<1>4. IsFiniteSet(T) /\ Cardinality(T) <= Cardinality(image)
  BY <1>2, <1>3, FS_Subset
<1> QED BY <1>2, <1>4, FS_CardinalityType

LEMMA NoFewerThanIndices ==
  ASSUME NEW T, IsFiniteSet(T), NEW K, NEW f, \A k \in K : f[k] \in T,
         \A i, k \in K : i # k => f[i] # f[k]
  PROVE  IsFiniteSet(K) /\ Cardinality(K) <= Cardinality(T)
<1> DEFINE g == [k \in K |-> f[k]]
<1>1. g \in [K -> T] /\ \A i, k \in K : g[i] = g[k] => i = k
  OBVIOUS
<1>2. g \in Injection(K, T)
  BY <1>1 DEF Injection, IsInjective
<1> QED BY <1>2, FS_Injection

(* A report of low scores says of the last verdicts what it claims.        *)
LEMMA LowStreakCounts ==
  ASSUME MonitorTyped, LatestInv
  PROVE  Streak(Verdicts(actions), Low(actions)) >= LowScores
           <=> /\ Len(latest) = LowScores
               /\ \A i \in DOMAIN latest : latest[i].score < 5 /\ latest[i].age < WindowSize
<1> DEFINE S == {i \in Verdicts(actions) : \A j \in Verdicts(actions) : j >= i => j \in Low(actions)}
           where == [k \in 1..Len(latest) |-> Len(actions) - latest[k].age]
<1>1. /\ actions \in Seq(Recorded) /\ Len(actions) \in Nat /\ Len(actions) <= WindowSize
      /\ DOMAIN actions = 1..Len(actions)
      /\ latest \in Seq(Seen) /\ Len(latest) \in Nat /\ Len(latest) <= LowScores
      /\ DOMAIN latest = 1..Len(latest)
  BY DEF MonitorTyped, LatestInv, Traces
<1>2. ASSUME NEW k \in 1..Len(latest)
      PROVE  latest[k].score \in 0..10 /\ latest[k].age \in Nat /\ latest[k].age <= WindowSize
  <2>1. latest[k] \in Seen
    BY <1>1
  <2> QED BY <2>1, SeenFields
<1>3. \A k \in 1..Len(latest) : where[k] = Len(actions) - latest[k].age
  OBVIOUS
<1> HIDE DEF where
<1>4. ASSUME NEW k \in 1..Len(latest), latest[k].age < WindowSize
      PROVE  where[k] \in Verdicts(actions) /\ actions[where[k]].score = latest[k].score
  BY <1>1, <1>3, <1>4 DEF LatestInv, Traces, At
<1>5. \A i, k \in 1..Len(latest) : i < k => latest[i].age > latest[k].age \/ latest[i].age = WindowSize
  BY <1>1 DEF LatestInv, Traces
<1>6. ASSUME NEW p \in Verdicts(actions)
      PROVE  \/ \E k \in 1..Len(latest) : latest[k].age < WindowSize /\ where[k] = p
             \/ Len(latest) = LowScores /\ p < where[1]
  <2>1. Covered(latest, actions, p)
    BY DEF LatestInv
  <2>2. CASE \E k \in DOMAIN latest : latest[k].age < WindowSize /\ At(latest, actions, k) = p
    BY <1>1, <1>3, <2>2 DEF At
  <2>3. CASE Len(latest) = LowScores /\ p < At(latest, actions, 1)
    <3>1. 1 \in 1..Len(latest)
      BY <1>1, <2>3, MonitorBounds
    <3> QED BY <1>3, <2>3, <3>1 DEF At
  <2> QED BY <2>1, <2>2, <2>3 DEF Covered
<1>7. \A p \in Verdicts(actions) : p \in Nat /\ p > 0 /\ p <= Len(actions)
                                   /\ (p \in Low(actions) <=> actions[p].score < 5)
  BY <1>1 DEF Verdicts, Low
<1>8. IsFiniteSet(S)
  <2>1. IsFiniteSet(1..Len(actions))
    BY <1>1, FS_Interval
  <2> QED BY <1>1, <2>1, FS_Subset DEF Verdicts
<1>9. Streak(Verdicts(actions), Low(actions)) = Cardinality(S) /\ Cardinality(S) \in Nat
  BY <1>8, FS_CardinalityType DEF Streak
<1>10. \A p \in S : p \in Verdicts(actions) /\ \A j \in Verdicts(actions) : j >= p => actions[j].score < 5
  BY <1>7
<1>11. \A p \in Verdicts(actions) : p \in S <=> \A j \in Verdicts(actions) : j >= p => actions[j].score < 5
  BY <1>7
<1> HIDE DEF S
\* All low and in the window: each of their places is in the streak.
<1>12. ASSUME Len(latest) = LowScores,
              \A i \in 1..Len(latest) : latest[i].score < 5 /\ latest[i].age < WindowSize
       PROVE  Cardinality(S) >= LowScores
  <2>1. ASSUME NEW k \in 1..Len(latest), NEW j \in Verdicts(actions), j >= where[k]
        PROVE  actions[j].score < 5
    <3>1. CASE \E i \in 1..Len(latest) : latest[i].age < WindowSize /\ where[i] = j
      BY <1>4, <1>12, <3>1
    <3>2. CASE j < where[1]
      <4>1. 1 \in 1..Len(latest)
        BY <1>1, <1>12, MonitorBounds
      <4>2. /\ latest[1].age \in Nat /\ latest[k].age \in Nat
            /\ where[1] = Len(actions) - latest[1].age /\ where[k] = Len(actions) - latest[k].age
        BY <1>2, <1>3, <4>1
      <4>3. k = 1 \/ latest[1].age > latest[k].age \/ latest[1].age = WindowSize
        BY <1>1, <1>5, <4>1
      <4>4. latest[1].age < WindowSize /\ j \in Nat
        BY <1>7, <1>12, <4>1
      <4> QED BY <1>1, <2>1, <3>2, <4>2, <4>3, <4>4, MonitorBounds
    <3> QED BY <1>6, <3>1, <3>2
  <2>2. \A k \in 1..Len(latest) : where[k] \in S
    BY <1>4, <1>11, <1>12, <2>1
  <2>3. ASSUME NEW i \in 1..Len(latest), NEW k \in 1..Len(latest), i < k PROVE where[i] # where[k]
    BY <1>1, <1>2, <1>3, <1>5, <1>12, <2>3, MonitorBounds
  <2>4. \A i, k \in 1..Len(latest) : i # k => where[i] # where[k]
    BY <1>1, <2>3
  <2>5. Cardinality(1..Len(latest)) <= Cardinality(S)
    BY <1>8, <2>2, <2>4, NoFewerThanIndices
  <2>6. Cardinality(1..Len(latest)) = Len(latest)
    <3>1. Len(latest) \in Nat /\ ~(1 > Len(latest))
      BY <1>1, <1>12, MonitorBounds
    <3>2. Cardinality(1..Len(latest)) = Len(latest) - 1 + 1
      BY <3>1, FS_Interval
    <3> QED BY <3>1, <3>2
  <2> QED BY <1>9, <1>12, <2>5, <2>6, MonitorBounds
\* One that is missing, not low or out of the window: the streak is shorter.
<1>13. ASSUME NEW K \in SUBSET (1..LowScores), K # 1..LowScores, \A p \in S : \E k \in K : where[k] = p
       PROVE  Cardinality(S) < LowScores
  <2>1. PICK i \in 1..LowScores : i \notin K
    BY <1>13
  <2>2. IsFiniteSet(1..LowScores) /\ Cardinality(1..LowScores) = LowScores
    BY FS_Interval, MonitorBounds
  <2>3. IsFiniteSet((1..LowScores) \ {i}) /\ Cardinality((1..LowScores) \ {i}) = LowScores - 1
    BY <2>2, FS_RemoveElement
  <2>4. K \in SUBSET ((1..LowScores) \ {i})
    BY <2>1
  <2>5. \A p \in S : \E k \in (1..LowScores) \ {i} : where[k] = p
    BY <1>13, <2>4
  <2>6. Cardinality(S) <= LowScores - 1
    BY <2>3, <2>5, NoMoreThanIndices
  <2> QED BY <1>9, <2>6, MonitorBounds
<1>14. ASSUME Len(latest) # LowScores PROVE Cardinality(S) < LowScores
  <2>1. 1..Len(latest) \in SUBSET (1..LowScores) /\ LowScores \in 1..LowScores /\ LowScores \notin 1..Len(latest)
    <3>0. Len(latest) \in Nat /\ Len(latest) <= LowScores
      BY <1>1, Zenon
    <3>1. Len(latest) \in Nat /\ Len(latest) < LowScores
      BY <1>14, <3>0, MonitorBounds
    <3> QED BY <3>1, MonitorBounds
  <2>2. \A p \in S : \E k \in 1..Len(latest) : where[k] = p
    BY <1>6, <1>10, <1>14
  <2> QED BY <1>13, <2>1, <2>2
<1>15. ASSUME Len(latest) = LowScores, NEW i \in 1..Len(latest),
              ~(latest[i].score < 5 /\ latest[i].age < WindowSize)
       PROVE  Cardinality(S) < LowScores
  <2>1. (1..LowScores) \ {i} \in SUBSET (1..LowScores) /\ (1..LowScores) \ {i} # 1..LowScores
    BY <1>15
  <2>2. ASSUME NEW p \in S PROVE \E k \in (1..LowScores) \ {i} : where[k] = p
    <3>1. p \in Verdicts(actions) /\ p \in Nat /\ p > 0 /\ \A j \in Verdicts(actions) : j >= p => actions[j].score < 5
      BY <1>7, <1>10
    <3>2. /\ latest[i].age \in Nat /\ latest[i].age <= WindowSize
          /\ where[i] = Len(actions) - latest[i].age
      BY <1>2, <1>3
    <3>3. latest[i].age < WindowSize => where[i] \in Verdicts(actions) /\ ~(actions[where[i]].score < 5)
      BY <1>4, <1>15
    <3>4. ASSUME p < where[1], p >= 0 PROVE FALSE
      <4>1. 1 \in 1..Len(latest)
        BY <1>1, <1>15, MonitorBounds
      <4>2. latest[1].age \in Nat /\ latest[1].age <= WindowSize /\ where[1] = Len(actions) - latest[1].age
        BY <1>2, <1>3, <4>1
      <4>3. i = 1 \/ latest[1].age > latest[i].age \/ latest[1].age = WindowSize
        BY <1>1, <1>5, <4>1
      <4>4. latest[1].age # WindowSize
        BY <1>1, <3>1, <3>4, <4>2, MonitorBounds
      <4>5. latest[i].age < WindowSize /\ where[i] >= p
        BY <1>1, <3>1, <3>2, <3>4, <4>2, <4>3, <4>4, MonitorBounds
      <4> QED BY <3>1, <3>3, <4>5
    <3>5. PICK k \in 1..Len(latest) : latest[k].age < WindowSize /\ where[k] = p
      BY <1>6, <3>1, <3>4
    <3>6. k # i
      BY <3>1, <3>3, <3>5
    <3> QED BY <1>15, <3>5, <3>6
  <2> QED BY <1>13, <2>1, <2>2
<1> QED BY <1>1, <1>9, <1>12, <1>14, <1>15, MonitorBounds

(* Whatever tiers and calls the verdicts came from, whatever was recorded  *)
(* in between and however long the window is: low scores are reported      *)
(* exactly when the last verdicts, as many as it takes, are below 0.5 and  *)
(* still in the window (pipeline_monitor.py:66-89, :124-145).              *)
THEOREM LowScoresAreReported == PromptsSpec => []LowScoresReported
<1>1. PromptsInv /\ LatestInv /\ AlarmInv => LowScoresReported
  <2> SUFFICES ASSUME PromptsInv, LatestInv, AlarmInv, phase = "reported"
               PROVE  "low_scores" \in alarms
                        <=> /\ Len(latest) = LowScores
                            /\ \A i \in DOMAIN latest : latest[i].score < 5 /\ latest[i].age < WindowSize
    BY DEF LowScoresReported
  <2>1. MonitorTyped /\ alarms = Errors(actions) \cup Warnings(actions)
    BY DEF PromptsInv, PromptsTyped, AlarmInv
  <2>2. "low_scores" \in alarms <=> Streak(Verdicts(actions), Low(actions)) >= LowScores
    BY <2>1 DEF Errors, Warnings
  <2> QED BY <2>1, <2>2, LowStreakCounts
<1> QED BY <1>1, LatestAlways, PTL

-----------------------------------------------------------------------------
(* How its work is audited (IntegrationAudit).                             *)

\* What the checks find nothing in, once a coder followed the instructions one
\* time, two times and three times.
Clean ==
  /\ \A f \in program : f.stubs = {}
  /\ \A f \in Trees : \A h \in f.handlers : ~Swallows(h)
  /\ \A f \in Trees : ~f.test => f.imports \cap Forbidden = {}
Complete ==
  /\ Undone = {}
  /\ \A f \in Trees : Undefined(f) = {}
Wired ==
  /\ Defined \cap demands.required \subseteq Called
  /\ demands.call \cap Defined \subseteq Called
StubNamed == \E f \in program : Names(f) \cap StubNames # {}

Word == STRING \cup {"none", "import", "assign"}
SourceHandler == [line : STRING, types : STRING, recovers : BOOLEAN, pass : BOOLEAN]
Source ==
  [name : Word, python : BOOLEAN, parses : BOOLEAN, test : BOOLEAN, stubs : SUBSET Stub,
   defs : SUBSET Word, calls : SUBSET Word, imports : SUBSET Word, loads : SUBSET Word,
   binds : SUBSET (Word \X Word), handlers : SUBSET SourceHandler]
Requirement ==
  [required : SUBSET Word, define : SUBSET Word, call : SUBSET Word,
   only : {"any", "stdlib", "listed"}, listed : SUBSET STRING]
Finding == [severity : {"error", "warning"}, category : Categories, file : Word, name : Word]

AuditTyped ==
  /\ program \in SUBSET Source /\ demands \in Requirement
  /\ findings \in SUBSET Finding /\ audits \in 0..MaxRounds
  /\ turn \in {"audit", "fix", "passed"} /\ hidden \in BOOLEAN
  /\ \A x \in findings : x.file \in FileNames

\* What is left of stubs, swallowed errors and forbidden imports is told.
ToldToClean ==
  /\ \A f \in program : \A s \in f.stubs : s.line \in ToldFile(f, "stub")
  /\ \A f \in Trees : \A h \in f.handlers : Swallows(h) => h.line \in ToldFile(f, "swallowed_error")
  /\ \A f \in Trees : ~f.test => f.imports \cap Forbidden \subseteq ToldFile(f, "bad_import")

\* How far a coder is who was shown everything.
RoundInv ==
  /\ turn = "audit" =>
       /\ audits >= 1 => Clean
       /\ audits >= 2 => Complete
       /\ audits >= 3 => Wired
  /\ turn = "fix" =>
       /\ audits >= 1 /\ ToldToClean
       /\ audits >= 2 => Clean /\ findings = AllFindings
       /\ audits >= 3 => Complete
       /\ audits >= 4 => Wired
  /\ audits >= 4 /\ turn # "passed" => StubNamed

AuditInv ==
  /\ AuditTyped
  /\ turn = "fix" => findings # {}
  /\ ~hidden => RoundInv
  /\ turn = "passed" => demands.define \cap StubNames = {}

(* Where each kind of finding comes from.                                  *)
LEMMA Sources ==
  ASSUME NEW x
  PROVE  /\ x \in CheckCallGraph <=>
              \E n \in (Defined \cap demands.required) \ Called :
                x = Error("dead_function", Home(n).name, n)
         /\ x \in CheckStubs <=>
              \E f \in program : \E l \in StubLines(f) : x = Error("stub", f.name, l)
         /\ x \in BadImports <=>
              \E f \in Trees : ~f.test /\ \E m \in f.imports \cap Forbidden :
                x = Error("bad_import", f.name, m)
         /\ x \in MissingImports <=>
              \E f \in Trees : \E n \in Undefined(f) : x = Error("missing_import", f.name, n)
         /\ x \in CheckErrorPaths <=>
              \E f \in Trees : \E h \in f.handlers :
                Swallows(h) /\ x = IF h.pass THEN Error("swallowed_error", f.name, h.line)
                                             ELSE Warning("swallowed_error", f.name, h.line)
         /\ x \in CheckRequirements <=>
              \/ \E n \in Undone : x = Error("requirement_missing", "none", n)
              \/ \E n \in (demands.call \cap Defined) \ Called :
                   x = Error("requirement_dead", Home(n).name, n)
<1>1. x \in CheckCallGraph <=>
        \E n \in (Defined \cap demands.required) \ Called :
          x = Error("dead_function", Home(n).name, n)
  BY Zenon DEF CheckCallGraph
<1>2. x \in CheckStubs <=>
        \E f \in program : \E l \in StubLines(f) : x = Error("stub", f.name, l)
  BY DEF CheckStubs
<1>3. x \in BadImports <=>
        \E f \in Trees : ~f.test /\ \E m \in f.imports \cap Forbidden :
          x = Error("bad_import", f.name, m)
  BY DEF BadImports
<1>4. x \in MissingImports <=>
        \E f \in Trees : \E n \in Undefined(f) : x = Error("missing_import", f.name, n)
  BY DEF MissingImports
<1>5. x \in CheckErrorPaths <=>
        \E f \in Trees : \E h \in f.handlers :
          Swallows(h) /\ x = IF h.pass THEN Error("swallowed_error", f.name, h.line)
                                       ELSE Warning("swallowed_error", f.name, h.line)
  BY DEF CheckErrorPaths
<1>6. x \in CheckRequirements <=>
        \/ \E n \in Undone : x = Error("requirement_missing", "none", n)
        \/ \E n \in (demands.call \cap Defined) \ Called :
             x = Error("requirement_dead", Home(n).name, n)
  BY Zenon DEF CheckRequirements
<1> QED BY <1>1, <1>2, <1>3, <1>4, <1>5, <1>6

(* A function that is defined has a file to be reported in.                *)
LEMMA HomeIsTree == ASSUME NEW n \in Defined PROVE Home(n) \in Trees /\ n \in Home(n).defs
<1>1. \E f \in Trees : n \in f.defs
  BY DEF Defined
<1> QED BY <1>1 DEF Home

(* The findings of a program of files.                                     *)
LEMMA FindingsTyped ==
  ASSUME AuditTyped, NEW x \in AllFindings
  PROVE  x \in Finding /\ x.file \in FileNames
<1>1. demands \in Requirement
  BY DEF AuditTyped
<1>2. /\ demands.required \in SUBSET Word /\ demands.call \in SUBSET Word
      /\ Undone \in SUBSET Word
  BY <1>1 DEF Requirement, Undone
<1>3. ASSUME NEW f \in program
      PROVE  /\ f.name \in Word /\ f.imports \in SUBSET Word
             /\ f.loads \in SUBSET Word /\ StubLines(f) \in SUBSET Word
             /\ \A h \in f.handlers : h.line \in Word
             /\ f.name \in FileNames
  <2>1. f \in Source
    BY DEF AuditTyped
  <2>2. \A b \in f.binds : b[1] \in Word
    BY <2>1 DEF Source
  <2>3. Names(f) \in SUBSET Word
    BY <2>1, <2>2 DEF Source, Names
  <2>4. \A s \in f.stubs : s.line \in Word
    BY <2>1 DEF Source, Stub, Word
  <2>5. \A h \in f.handlers : h.line \in Word
    BY <2>1 DEF Source, SourceHandler, Word
  <2> QED BY <2>1, <2>3, <2>4, <2>5 DEF Source, FileNames, StubLines
<1>4. Trees \subseteq program /\ "none" \in FileNames /\ "none" \in Word
  BY DEF Trees, FileNames, Word
<1>5. \A c \in Categories, n, d \in Word :
        /\ Error(c, n, d) \in Finding /\ Error(c, n, d).file = n
        /\ Warning(c, n, d) \in Finding /\ Warning(c, n, d).file = n
  BY DEF Error, Warning, Finding, Categories, Word
<1>6. \A f \in program : Undefined(f) \in SUBSET Word
  BY <1>3 DEF Undefined
<1>7. CASE x \in CheckCallGraph
  <2>1. PICK n \in (Defined \cap demands.required) \ Called :
               x = Error("dead_function", Home(n).name, n)
    BY <1>7, Sources
  <2>2. Home(n) \in program
    BY <2>1, <1>4, HomeIsTree
  <2> QED BY <2>1, <2>2, <1>2, <1>3, <1>5 DEF Categories
<1>8. CASE x \in CheckStubs
  <2>1. PICK f \in program : \E l \in StubLines(f) : x = Error("stub", f.name, l)
    BY <1>8, Sources
  <2> QED BY <2>1, <1>3, <1>5 DEF Categories
<1>9. CASE x \in BadImports
  <2>1. PICK f \in Trees : \E m \in f.imports \cap Forbidden : x = Error("bad_import", f.name, m)
    BY <1>9, Sources
  <2> QED BY <2>1, <1>3, <1>4, <1>5 DEF Categories
<1>10. CASE x \in MissingImports
  <2>1. PICK f \in Trees : \E n \in Undefined(f) : x = Error("missing_import", f.name, n)
    BY <1>10, Sources
  <2> QED BY <2>1, <1>3, <1>4, <1>5, <1>6 DEF Categories
<1>11. CASE x \in CheckErrorPaths
  <2>1. PICK f \in Trees : \E h \in f.handlers : \/ x = Error("swallowed_error", f.name, h.line)
                                                 \/ x = Warning("swallowed_error", f.name, h.line)
    BY <1>11, Sources
  <2> QED BY <2>1, <1>3, <1>4, <1>5 DEF Categories
<1>12. CASE x \in CheckRequirements
  <2>1. \/ \E n \in Undone : x = Error("requirement_missing", "none", n)
        \/ \E n \in demands.call \cap Defined : x = Error("requirement_dead", Home(n).name, n)
    BY <1>12, Sources
  <2>2. \A n \in Defined : Home(n) \in program
    BY <1>4, HomeIsTree
  <2> QED BY <2>1, <2>2, <1>2, <1>3, <1>4, <1>5 DEF Categories
<1> QED BY <1>7, <1>8, <1>9, <1>10, <1>11, <1>12 DEF AllFindings, CheckImports

(* What a program is cleared of, by what its last repairs were about.      *)
LEMMA FindingsOf ==
  ASSUME AuditTyped, NEW x \in AllFindings
  PROVE  /\ Clean => x.category \notin {"bad_import", "swallowed_error"}
         /\ Complete => x.category \notin {"missing_import", "requirement_missing"}
         /\ Wired => x.category \notin {"dead_function", "requirement_dead"}
         /\ x.category = "stub" => \E f \in program : x.name \in StubLines(f)
         /\ x.category \in Categories
<1>1. \A c, n, d : /\ Error(c, n, d).category = c /\ Warning(c, n, d).category = c
                   /\ Error(c, n, d).name = d
  BY DEF Error, Warning
<1>2. CASE x \in CheckCallGraph
  <2>1. \E n \in (Defined \cap demands.required) \ Called :
          x = Error("dead_function", Home(n).name, n)
    BY <1>2, Sources
  <2> QED BY <1>1, <2>1 DEF Categories, Wired
<1>3. CASE x \in CheckStubs
  <2>1. \E f \in program : \E l \in StubLines(f) : x = Error("stub", f.name, l)
    BY <1>3, Sources
  <2> QED BY <1>1, <2>1 DEF Categories
<1>4. CASE x \in BadImports
  <2>1. \E f \in Trees : ~f.test /\ \E m \in f.imports \cap Forbidden :
          x = Error("bad_import", f.name, m)
    BY <1>4, Sources
  <2> QED BY <1>1, <2>1 DEF Categories, Clean
<1>5. CASE x \in MissingImports
  <2>1. \E f \in Trees : \E n \in Undefined(f) : x = Error("missing_import", f.name, n)
    BY <1>5, Sources
  <2> QED BY <1>1, <2>1 DEF Categories, Complete
<1>6. CASE x \in CheckErrorPaths
  <2>1. \E f \in Trees : \E h \in f.handlers :
          Swallows(h) /\ \/ x = Error("swallowed_error", f.name, h.line)
                         \/ x = Warning("swallowed_error", f.name, h.line)
    BY <1>6, Sources
  <2> QED BY <1>1, <2>1 DEF Categories, Clean
<1>7. CASE x \in CheckRequirements
  <2>1. \/ \E n \in Undone : x = Error("requirement_missing", "none", n)
        \/ \E n \in (demands.call \cap Defined) \ Called :
             x = Error("requirement_dead", Home(n).name, n)
    BY <1>7, Sources
  <2> QED BY <1>1, <2>1 DEF Categories, Complete, Wired
<1> QED BY <1>2, <1>3, <1>4, <1>5, <1>6, <1>7 DEF AllFindings, CheckImports

(* A program without findings demands no name that looks like a stub: it   *)
(* would have to define one.                                               *)
LEMMA PassedPlain ==
  ASSUME OnlyErrors(AllFindings) = {}
  PROVE  demands.define \cap StubNames = {}
<1> SUFFICES ASSUME NEW m \in demands.define \cap StubNames PROVE FALSE
  OBVIOUS
<1>1. \A c, n, d : Error(c, n, d).severity = "error"
  BY DEF Error
<1>2. m \notin Undone
  <2> SUFFICES ASSUME m \in Undone PROVE FALSE
    OBVIOUS
  <2>1. Error("requirement_missing", "none", m) \in AllFindings
    BY Sources DEF AllFindings
  <2> QED BY <1>1, <2>1 DEF OnlyErrors
<1>3. PICK d \in Defined : d = m \/ <<d, m>> \in Extends
  BY <1>2 DEF Undone
<1>4. d \in StubNames
  BY <1>3, AuditAssumption
<1>5. PICK f \in Trees : d \in f.defs
  BY DEF Defined
<1>6. f \in program /\ d \in StubLines(f)
  BY <1>4, <1>5 DEF Trees, StubLines, Names
<1>7. Error("stub", f.name, d) \in AllFindings
  BY <1>6, Sources DEF AllFindings
<1> QED BY <1>1, <1>7 DEF OnlyErrors

(* What a coder is told of a program that was just audited.                *)
LEMMA ToldAll ==
  ASSUME findings = AllFindings
  PROVE  /\ \A n \in (Defined \cap demands.required) \ Called :
              Home(n) \in Trees /\ n \in ToldFile(Home(n), "dead_function")
         /\ \A f \in Trees : Undefined(f) \subseteq ToldFile(f, "missing_import")
         /\ Undone \subseteq ToldOfAll("requirement_missing")
         /\ (demands.call \cap Defined) \ Called \subseteq ToldOfAll("requirement_dead")
<1>1. ASSUME NEW f, NEW c, NEW n, Error(c, f.name, n) \in AllFindings
      PROVE  n \in ToldFile(f, c)
  <2>1. /\ Error(c, f.name, n).category = c /\ Error(c, f.name, n).file = f.name
        /\ Error(c, f.name, n).name = n
    BY DEF Error
  <2> QED BY <1>1, <2>1 DEF ToldFile
<1>2. ASSUME NEW c, NEW g, NEW n, Error(c, g, n) \in AllFindings
      PROVE  n \in ToldOfAll(c)
  <2>1. Error(c, g, n).category = c /\ Error(c, g, n).name = n
    BY DEF Error
  <2> QED BY <1>2, <2>1 DEF ToldOfAll
<1>3. ASSUME NEW n \in (Defined \cap demands.required) \ Called
      PROVE  Home(n) \in Trees /\ n \in ToldFile(Home(n), "dead_function")
  <2>1. Error("dead_function", Home(n).name, n) \in AllFindings
    BY Sources DEF AllFindings
  <2> QED BY <1>1, <2>1, HomeIsTree
<1>4. \A f \in Trees : Undefined(f) \subseteq ToldFile(f, "missing_import")
  BY <1>1, Sources DEF AllFindings, CheckImports
<1>5. Undone \subseteq ToldOfAll("requirement_missing")
  BY <1>2, Sources DEF AllFindings
<1>6. (demands.call \cap Defined) \ Called \subseteq ToldOfAll("requirement_dead")
  <2> SUFFICES ASSUME NEW n \in (demands.call \cap Defined) \ Called
               PROVE  n \in ToldOfAll("requirement_dead")
    OBVIOUS
  <2>1. Error("requirement_dead", Home(n).name, n) \in AllFindings
    BY Sources DEF AllFindings
  <2> QED BY <1>2, <2>1
<1> QED BY <1>3, <1>4, <1>5, <1>6

(* The names of findings are names.                                        *)
LEMMA ToldNames ==
  ASSUME AuditTyped, NEW f, NEW c
  PROVE  ToldFile(f, c) \subseteq Word /\ ToldOfAll(c) \subseteq Word
BY DEF AuditTyped, Finding, ToldFile, ToldOfAll

(* The first three checks on a file are told in full, if everything is.    *)
LEMMA TellsToClean ==
  ASSUME findings' = AllFindings, program' = program, Forbidden' = Forbidden
  PROVE  ToldToClean'
<1>1. ASSUME NEW f, NEW c, NEW n, Error(c, f.name, n) \in AllFindings
      PROVE  n \in ToldFile(f, c)'
  <2>1. /\ Error(c, f.name, n).category = c /\ Error(c, f.name, n).file = f.name
        /\ Error(c, f.name, n).name = n
    BY DEF Error
  <2> QED BY <1>1, <2>1 DEF ToldFile
<1>2. Trees' = Trees
  BY DEF Trees
<1>3. ASSUME NEW f \in Trees, ~f.test PROVE f.imports \cap Forbidden \subseteq ToldFile(f, "bad_import")'
  <2> SUFFICES ASSUME NEW m \in f.imports \cap Forbidden PROVE m \in ToldFile(f, "bad_import")'
    OBVIOUS
  <2>1. Error("bad_import", f.name, m) \in AllFindings
    BY <1>3, Sources DEF AllFindings, CheckImports
  <2> QED BY <1>1, <2>1
<1>4. ASSUME NEW f \in program, NEW s \in f.stubs PROVE s.line \in ToldFile(f, "stub")'
  <2>1. s.line \in StubLines(f)
    BY DEF StubLines
  <2>2. Error("stub", f.name, s.line) \in AllFindings
    BY <2>1, Sources DEF AllFindings
  <2> QED BY <1>1, <2>2
<1>5. ASSUME NEW f \in Trees, NEW h \in f.handlers, Swallows(h)
      PROVE  h.line \in ToldFile(f, "swallowed_error")'
  <2> DEFINE x == IF h.pass THEN Error("swallowed_error", f.name, h.line)
                            ELSE Warning("swallowed_error", f.name, h.line)
  <2>1. x.category = "swallowed_error" /\ x.file = f.name /\ x.name = h.line
    BY DEF Error, Warning
  <2>2. x \in AllFindings
    BY <1>5, Sources DEF AllFindings
  <2> HIDE DEF x
  <2> QED BY <2>1, <2>2 DEF ToldFile
<1> QED BY <1>2, <1>3, <1>4, <1>5 DEF ToldToClean

(* Something is shown of what was found.                                   *)
LEMMA CappedSome ==
  ASSUME AuditTyped, NEW F \in Capped(AllFindings), OnlyErrors(AllFindings) # {}
  PROVE  F \in SUBSET AllFindings /\ F # {}
<1>1. PICK x \in AllFindings : TRUE
  BY DEF OnlyErrors
<1>2. PICK c \in Categories : x \in OfCategory(AllFindings, c)
  BY FindingsOf DEF OfCategory
<1>3. F \in SUBSET AllFindings
  BY DEF Capped
<1>4. F = {} => OfCategory(F, c) = {}
  BY DEF OfCategory
<1>5. Cardinality({}) = 0 /\ MaxPerCategory \in Nat \ {0}
  BY FS_EmptySet, AuditAssumption
<1>6. OfCategory(F, c) = OfCategory(AllFindings, c) \/ Cardinality(OfCategory(F, c)) = MaxPerCategory
  BY <1>2 DEF Capped
<1>7. F # {}
  BY <1>2, <1>4, <1>5, <1>6
<1> QED BY <1>3, <1>7

\* A revision, field by field.
IsRevision(r, f, first, imported) ==
  /\ r.name = f.name /\ r.python = f.python /\ r.parses = f.parses /\ r.test = f.test
  /\ r.stubs = {s \in f.stubs : s.line \notin ToldFile(f, "stub")} /\ r.loads = f.loads
  /\ r.calls = f.calls \cup ToldFile(f, "dead_function")
                 \cup IF f = first THEN ToldOfAll("requirement_dead") ELSE {}
  /\ r.defs = f.defs \cup IF f = first THEN ToldOfAll("requirement_missing") ELSE {}
  /\ r.imports = (f.imports \ ToldFile(f, "bad_import"))
                   \cup (ToldFile(f, "missing_import") \cap imported)
  /\ r.binds = {b \in f.binds : ~(b[2] = "import" /\ b[1] \in ToldFile(f, "bad_import"))}
                 \cup Bound(f, imported)
  /\ (\A h \in f.handlers : Swallows(h) => h.line \in ToldFile(f, "swallowed_error"))
       => \A h \in r.handlers : ~Swallows(h)
  /\ r \in Source

LEMMA RevisedFields ==
  ASSUME AuditTyped, NEW f \in Source, NEW first, NEW imported \in SUBSET Word
  PROVE  IsRevision(Revised(f, first, imported), f, first, imported)
<1> DEFINE r == Revised(f, first, imported)
           G(h) == IF h.line \in ToldFile(f, "swallowed_error")
                   THEN [h EXCEPT !.recovers = TRUE, !.pass = FALSE] ELSE h
           quiet == {G(h) : h \in f.handlers}
           Heard == \A h \in f.handlers : Swallows(h) => h.line \in ToldFile(f, "swallowed_error")
<1>1. ASSUME NEW h \in f.handlers
      PROVE  G(h) \in SourceHandler /\ (Heard => ~Swallows(G(h)))
  <2>1. h \in SourceHandler
    BY DEF Source
  <2>2. [h EXCEPT !.recovers = TRUE, !.pass = FALSE] \in SourceHandler
        /\ [h EXCEPT !.recovers = TRUE, !.pass = FALSE].recovers = TRUE
    BY <2>1 DEF SourceHandler
  <2> QED BY <2>1, <2>2 DEF Swallows
<1>2. quiet \in SUBSET SourceHandler /\ (Heard => \A h \in quiet : ~Swallows(h))
  <2> HIDE DEF G, Heard
  <2> QED BY <1>1
<1>3. Bound(f, imported) \in SUBSET (Word \X Word)
  BY ToldNames DEF Bound, Word
<1> DEFINE called == f.calls \cup ToldFile(f, "dead_function")
                      \cup IF f = first THEN ToldOfAll("requirement_dead") ELSE {}
           defs == f.defs \cup IF f = first THEN ToldOfAll("requirement_missing") ELSE {}
           imports == (f.imports \ ToldFile(f, "bad_import"))
                        \cup (ToldFile(f, "missing_import") \cap imported)
           binds == {b \in f.binds : ~(b[2] = "import" /\ b[1] \in ToldFile(f, "bad_import"))}
                      \cup Bound(f, imported)
           left == {s \in f.stubs : s.line \notin ToldFile(f, "stub")}
<1>4. r = [f EXCEPT !.stubs = left, !.calls = called, !.defs = defs, !.imports = imports,
                    !.binds = binds, !.handlers = quiet]
  BY DEF Revised
<1>5. /\ called \in SUBSET Word /\ defs \in SUBSET Word /\ imports \in SUBSET Word
      /\ binds \in SUBSET (Word \X Word) /\ left \in SUBSET Stub
  BY <1>3, ToldNames DEF Source
<1> HIDE DEF r, quiet, called, defs, imports, binds, left, Heard
<1>6. r \in Source
  BY <1>2, <1>4, <1>5 DEF Source
<1>7. /\ r.name = f.name /\ r.python = f.python /\ r.parses = f.parses /\ r.test = f.test
      /\ r.stubs = left /\ r.loads = f.loads
      /\ r.calls = called /\ r.defs = defs /\ r.imports = imports /\ r.binds = binds
      /\ r.handlers = quiet
  BY <1>4 DEF Source
<1>8. IsRevision(r, f, first, imported)
  BY <1>2, <1>6, <1>7 DEF IsRevision, called, defs, imports, binds, left, Heard
<1> QED BY <1>8 DEF r

(* What a revision of all the files does to what the checks look at.       *)
LEMMA FixEffects ==
  ASSUME AuditTyped, NEW imported \in SUBSET (ToldOfAll("missing_import") \cap Stdlib),
         NEW first \in Trees,
         program' = {Revised(f, first, imported) : f \in program}, demands' = demands
  PROVE  /\ program' \in SUBSET Source /\ FileNames' = FileNames
         /\ \A g \in program' : \E f \in program : g = Revised(f, first, imported)
         /\ \A f \in program : Revised(f, first, imported) \in program'
         /\ \A g \in Trees' : \E f \in Trees : g = Revised(f, first, imported)
         /\ Called \subseteq Called' /\ Defined \subseteq Defined' /\ Forbidden' \subseteq Forbidden
         /\ \A f \in Trees : ToldFile(f, "dead_function") \subseteq Called'
         /\ ToldOfAll("requirement_missing") \subseteq Defined'
         /\ ToldOfAll("requirement_dead") \subseteq Called'
<1> DEFINE R(f) == Revised(f, first, imported)
<1>1. imported \in SUBSET Word /\ program \in SUBSET Source /\ Trees \subseteq program
  BY ToldNames DEF AuditTyped, Trees
<1>0. \A f \in program : IsRevision(R(f), f, first, imported)
  BY <1>1, RevisedFields
<1>2. \A f \in program : /\ R(f) \in Source /\ R(f).name = f.name
                         /\ R(f).python = f.python /\ R(f).parses = f.parses
  <2> HIDE DEF R
  <2> QED BY <1>0 DEF IsRevision
<1>3. ASSUME NEW f \in program
      PROVE  /\ f.calls \subseteq R(f).calls /\ f.defs \subseteq R(f).defs
             /\ R(f).imports \subseteq f.imports \cup Stdlib
             /\ ToldFile(f, "dead_function") \subseteq R(f).calls
             /\ f = first => /\ ToldOfAll("requirement_missing") \subseteq R(f).defs
                            /\ ToldOfAll("requirement_dead") \subseteq R(f).calls
  <2> HIDE DEF R
  <2> QED BY <1>0 DEF IsRevision
<1>4. ToldOfAll("requirement_missing") \subseteq R(first).defs
      /\ ToldOfAll("requirement_dead") \subseteq R(first).calls
  BY <1>1, <1>3
<1> HIDE DEF R
<1>5. program' = {R(f) : f \in program}
  BY DEF R
<1>6. Trees' = {R(f) : f \in Trees}
  BY <1>2, <1>5 DEF Trees
<1>7. FileNames' = FileNames
  <2>1. {g.name : g \in {R(f) : f \in program}} = {f.name : f \in program}
    BY <1>2
  <2> QED BY <1>5, <2>1 DEF FileNames
<1>8. \A f \in Trees : R(f).calls \subseteq Called' /\ R(f).defs \subseteq Defined'
  BY <1>6 DEF Called, Defined
<1>9. Called \subseteq Called' /\ Defined \subseteq Defined'
  BY <1>1, <1>3, <1>8 DEF Called, Defined
<1>10. Forbidden' \subseteq Forbidden
  <2> SUFFICES ASSUME NEW m \in Forbidden' PROVE m \in Forbidden
    OBVIOUS
  <2>1. PICK g \in Trees' : m \in g.imports
    BY DEF Forbidden
  <2>2. PICK f \in Trees : g = R(f)
    BY <1>6
  <2>3. m \in f.imports \/ m \in Stdlib
    BY <1>1, <1>3, <2>1, <2>2
  <2>4. m \notin Stdlib /\ (demands.only = "stdlib" \/ (demands.only = "listed"
          /\ demands.listed # {} /\ m \notin demands.listed))
    BY DEF Forbidden
  <2> QED BY <2>3, <2>4 DEF Forbidden
<1>11. program' \in SUBSET Source
  BY <1>2, <1>5
<1>12. /\ \A g \in Trees' : \E f \in Trees : g = R(f)
       /\ \A g \in program' : \E f \in program : g = R(f)
       /\ \A f \in program : R(f) \in program'
  BY <1>5, <1>6
<1> QED BY <1>1, <1>3, <1>4, <1>7, <1>8, <1>9, <1>10, <1>11, <1>12 DEF R

(* What one revision achieves: a clean program from any, a complete one    *)
(* from a clean one, a wired one from a complete one.  Names are not taken *)
(* out of a clean program.                                                 *)
LEMMA FixAchieves ==
  ASSUME AuditTyped, Fix
  PROVE  /\ ToldToClean => Clean'
         /\ findings = AllFindings /\ Clean => Complete'
         /\ findings = AllFindings /\ Clean /\ Complete => Wired'
         /\ findings = AllFindings /\ Clean /\ StubNamed => StubNamed'
<1>1. PICK imported \in SUBSET (ToldOfAll("missing_import") \cap Stdlib), first \in Trees :
        program' = {Revised(f, first, imported) : f \in program}
  BY DEF Fix
<1>2. demands' = demands
  BY DEF Fix
<1> DEFINE R(f) == Revised(f, first, imported)
<1>3. /\ \A g \in program' : \E f \in program : g = R(f)
      /\ \A f \in program : R(f) \in program'
      /\ \A g \in Trees' : \E f \in Trees : g = R(f)
      /\ Called \subseteq Called' /\ Defined \subseteq Defined' /\ Forbidden' \subseteq Forbidden
      /\ \A f \in Trees : ToldFile(f, "dead_function") \subseteq Called'
      /\ ToldOfAll("requirement_missing") \subseteq Defined'
      /\ ToldOfAll("requirement_dead") \subseteq Called'
  BY <1>1, <1>2, FixEffects
<1>4. ASSUME NEW f \in program
      PROVE  IsRevision(R(f), f, first, imported)
  <2>1. imported \in SUBSET Word /\ f \in Source
    BY ToldNames DEF AuditTyped
  <2> QED BY <2>1, RevisedFields
<1>5. Trees \subseteq program /\ Trees' \subseteq program'
  BY DEF Trees
<1> HIDE DEF R
<1>6. ASSUME ToldToClean PROVE Clean'
  <2>1. \A g \in program' : g.stubs = {}
    <3> SUFFICES ASSUME NEW g \in program', NEW s \in g.stubs PROVE FALSE
      OBVIOUS
    <3>1. PICK f \in program : g = R(f)
      BY <1>3
    <3>2. s \in f.stubs /\ s.line \notin ToldFile(f, "stub")
      BY <1>4, <3>1 DEF IsRevision
    <3> QED BY <1>6, <3>2 DEF ToldToClean
  <2>2. \A g \in Trees' : \A h \in g.handlers : ~Swallows(h)
    <3> SUFFICES ASSUME NEW g \in Trees' PROVE \A h \in g.handlers : ~Swallows(h)
      OBVIOUS
    <3>1. PICK f \in Trees : g = R(f)
      BY <1>3
    <3>2. \A h \in f.handlers : Swallows(h) => h.line \in ToldFile(f, "swallowed_error")
      BY <1>6 DEF ToldToClean
    <3> QED BY <1>4, <1>5, <3>1, <3>2 DEF IsRevision
  <2>3. ASSUME NEW g \in Trees', ~g.test PROVE g.imports \cap Forbidden' = {}
    <3>1. PICK f \in Trees : g = R(f)
      BY <1>3
    <3>2. ~f.test /\ g.imports \subseteq (f.imports \ ToldFile(f, "bad_import")) \cup Stdlib
      BY <1>1, <1>4, <1>5, <2>3, <3>1 DEF IsRevision
    <3>3. Forbidden \cap Stdlib = {}
      BY DEF Forbidden
    <3>4. f.imports \cap Forbidden \subseteq ToldFile(f, "bad_import")
      BY <1>6, <3>2 DEF ToldToClean
    <3> QED BY <1>3, <3>2, <3>3, <3>4
  <2> QED BY <2>1, <2>2, <2>3 DEF Clean
<1>7. ASSUME findings = AllFindings, Clean
      PROVE  \A f : ToldFile(f, "bad_import") = {}
  <2>1. \A x \in findings : x.category # "bad_import"
    BY <1>7, FindingsOf
  <2> QED BY <2>1 DEF ToldFile
<1>8. ASSUME findings = AllFindings, Clean, NEW f \in program
      PROVE  /\ R(f).loads = f.loads /\ R(f).binds = f.binds \cup Bound(f, imported)
             /\ Names(f) \subseteq Names(R(f))
  <2>1. ToldFile(f, "bad_import") = {}
    BY <1>7, <1>8
  <2>2. /\ R(f).loads = f.loads /\ R(f).binds = f.binds \cup Bound(f, imported)
        /\ f.imports \subseteq R(f).imports /\ f.calls \subseteq R(f).calls
        /\ f.defs \subseteq R(f).defs
    BY <1>4, <2>1 DEF IsRevision
  <2>3. {b[1] : b \in f.binds} \subseteq {b[1] : b \in R(f).binds}
    BY <2>2
  <2> QED BY <2>2, <2>3 DEF Names
<1>9. ASSUME findings = AllFindings, Clean PROVE Complete'
  <2>1. ASSUME NEW m \in demands.define PROVE \E d \in Defined' : d = m \/ <<d, m>> \in Extends
    <3>1. CASE m \in Undone
      BY <1>3, <1>9, <3>1, ToldAll
    <3>2. CASE m \notin Undone
      BY <1>3, <3>2 DEF Undone
    <3> QED BY <3>1, <3>2
  <2>2. Undone' = {}
    BY <1>2, <2>1 DEF Undone
  <2>3. ASSUME NEW g \in Trees' PROVE Undefined(g) = {}
    <3>1. PICK f \in Trees : g = R(f)
      BY <1>3
    <3> SUFFICES ASSUME NEW n \in Undefined(g) PROVE FALSE
      OBVIOUS
    <3>2. n \in f.loads \ Builtins /\ \A b \in f.binds \cup Bound(f, imported) : b[1] = n => b[2] \notin BindingForms
      BY <1>5, <1>8, <1>9, <3>1 DEF Undefined
    <3>3. n \in Undefined(f)
      BY <3>2 DEF Undefined
    <3>4. n \in ToldFile(f, "missing_import")
      BY <1>9, <3>3, ToldAll
    <3>5. <<n, IF n \in imported THEN "import" ELSE "assign">> \in Bound(f, imported)
      BY <3>4 DEF Bound
    <3> QED BY <3>2, <3>5 DEF BindingForms
  <2>4. \A g \in Trees' : Undefined(g)' = {}
    BY <2>3 DEF Undefined
  <2> QED BY <2>2, <2>4 DEF Complete
<1>10. ASSUME findings = AllFindings, Clean, Complete PROVE Wired'
  <2>1. ToldOfAll("requirement_missing") = {}
    BY <1>10, FindingsOf DEF ToldOfAll
  <2>2. \A f \in program : R(f).defs \subseteq f.defs
    BY <1>4, <2>1 DEF IsRevision
  <2>3. Defined' = Defined
    <3>1. Defined' \subseteq Defined
      BY <1>3, <1>5, <2>2 DEF Defined
    <3> QED BY <1>3, <3>1
  <2>4. Defined \cap demands.required \subseteq Called'
    <3> SUFFICES ASSUME NEW n \in Defined \cap demands.required, n \notin Called PROVE n \in Called'
      BY <1>3
    <3> QED BY <1>3, <1>10, ToldAll
  <2>5. demands.call \cap Defined \subseteq Called'
    BY <1>3, <1>10, ToldAll
  <2> QED BY <1>2, <2>3, <2>4, <2>5 DEF Wired
<1>11. ASSUME findings = AllFindings, Clean, StubNamed PROVE StubNamed'
  <2>1. PICK f \in program : Names(f) \cap StubNames # {}
    BY <1>11 DEF StubNamed
  <2>2. Names(R(f)) \cap StubNames # {} /\ R(f) \in program'
    BY <1>3, <1>8, <1>11, <2>1
  <2> QED BY <2>2 DEF StubNamed, Names
<1> QED BY <1>6, <1>9, <1>10, <1>11

LEMMA AuditAlways == AuditSpec => []AuditInv
<1>1. AuditInit => AuditInv
  <2> SUFFICES ASSUME AuditInit PROVE AuditInv
    OBVIOUS
  <2>1. program \in SUBSET File /\ demands \in Specification /\ audits \in 0..MaxRounds
    BY AuditAssumption DEF AuditInit
  <2>2. File \subseteq Source
    BY DEF File, Source, Word, Handler, SourceHandler
  <2>3. Specification \subseteq Requirement
    BY DEF Specification, Requirement, Word
  <2>4. AuditTyped
    BY <2>1, <2>2, <2>3 DEF AuditInit, AuditTyped
  <2>5. RoundInv
    BY DEF AuditInit, RoundInv
  <2> QED BY <2>4, <2>5 DEF AuditInit, AuditInv
<1>2. ASSUME AuditInv, NoErrors PROVE AuditInv'
  <2>1. audits' \in 0..MaxRounds
    BY <1>2, AuditAssumption DEF AuditInv, AuditTyped, NoErrors
  <2>2. AuditTyped'
    BY <1>2, <2>1 DEF AuditInv, AuditTyped, NoErrors, FileNames
  <2>3. turn' = "passed" /\ demands' = demands
    BY <1>2 DEF NoErrors
  <2>4. demands.define \cap StubNames = {}
    BY <1>2, PassedPlain DEF NoErrors
  <2> QED BY <2>2, <2>3, <2>4 DEF AuditInv, RoundInv
<1>3. ASSUME AuditInv, ErrorsFound PROVE AuditInv'
  <2>1. PICK F \in Capped(AllFindings) :
          /\ findings' = F /\ hidden' = (hidden \/ F # AllFindings)
          /\ demands' = [demands EXCEPT !.required = @ \cup Asked(F), !.define = @ \cup Asked(F)]
    BY <1>3 DEF ErrorsFound
  <2>2. /\ turn = "audit" /\ turn' = "fix" /\ audits' = audits + 1 /\ program' = program
        /\ OnlyErrors(AllFindings) # {} /\ audits \in Nat /\ audits' \in 0..MaxRounds
    BY <1>3, AuditAssumption DEF AuditInv, AuditTyped, ErrorsFound
  <2>3. F \in SUBSET AllFindings /\ F # {}
    BY <1>3, <2>2, CappedSome DEF AuditInv
  <2>4. F \in SUBSET Finding /\ \A x \in F : x.file \in FileNames
    BY <1>3, <2>3, FindingsTyped DEF AuditInv
  <2>5. /\ demands \in Requirement /\ demands' \in Requirement
        /\ demands'.only = demands.only /\ demands'.listed = demands.listed
        /\ demands'.required = demands.required \cup Asked(F)
        /\ demands'.define = demands.define \cup Asked(F) /\ demands'.call = demands.call
    <3>1. demands \in Requirement
      BY <1>3 DEF AuditInv, AuditTyped
    <3>2. \A f \in program : \A s \in f.stubs : s.asks \in Word
      BY <1>3 DEF AuditInv, AuditTyped, Source, Stub, Word
    <3>3. Asked(F) \in SUBSET Word
      BY <3>2 DEF Asked
    <3> HIDE DEF Asked
    <3>4. demands.required \cup Asked(F) \in SUBSET Word /\ demands.define \cup Asked(F) \in SUBSET Word
      BY <3>1, <3>3 DEF Requirement
    <3> QED BY <2>1, <3>1, <3>4 DEF Requirement
  <2>6. AuditTyped'
    BY <1>3, <2>1, <2>2, <2>4, <2>5 DEF AuditInv, AuditTyped, FileNames
  <2>7. Forbidden' = Forbidden
    BY <2>2, <2>5 DEF Forbidden, Trees
  <2>8. ASSUME ~hidden' PROVE RoundInv'
    <3>1. ~hidden /\ F = AllFindings
      BY <2>1, <2>8
    <3>2. /\ audits >= 1 => Clean
          /\ audits >= 2 => Complete
          /\ audits >= 3 => Wired
      BY <1>3, <2>2, <3>1 DEF AuditInv, RoundInv
    <3>3. ToldToClean'
      BY <2>1, <2>2, <2>7, <3>1, TellsToClean
    <3>4. audits >= 1 => demands' = demands
      <4> SUFFICES ASSUME audits >= 1 PROVE demands' = demands
        OBVIOUS
      <4>1. Asked(F) = {}
        BY <3>2 DEF Clean, Asked
      <4> QED BY <2>1, <2>5, <4>1 DEF Requirement
    <3>5. Clean' = Clean
      BY <2>2, <2>7 DEF Clean, Trees
    <3>6. demands' = demands => /\ AllFindings' = AllFindings
                                /\ Complete' = Complete /\ Wired' = Wired
      BY <2>2, <2>7 DEF AllFindings, CheckCallGraph, CheckStubs, CheckImports, BadImports,
           MissingImports, CheckErrorPaths, CheckRequirements, Undone, Trees, Called, Defined, Home,
           Complete, Wired
    <3>7. audits >= 3 => StubNamed
      <4> SUFFICES ASSUME audits >= 3 PROVE StubNamed
        OBVIOUS
      <4>1. PICK x \in AllFindings : TRUE
        BY <2>2 DEF OnlyErrors
      <4>2. x.category = "stub"
        BY <1>3, <2>2, <3>2, <4>1, FindingsOf DEF AuditInv, Categories
      <4>3. PICK f \in program : x.name \in StubLines(f)
        BY <1>3, <4>1, <4>2, FindingsOf DEF AuditInv
      <4>4. f.stubs = {}
        BY <2>2, <3>2 DEF Clean
      <4> QED BY <4>3, <4>4 DEF StubLines, StubNamed
    <3>8. StubNamed' = StubNamed
      BY <2>2 DEF StubNamed
    <3> QED BY <2>1, <2>2, <3>1, <3>2, <3>3, <3>4, <3>5, <3>6, <3>7, <3>8 DEF RoundInv
  <2> QED BY <2>1, <2>2, <2>3, <2>6, <2>8 DEF AuditInv
<1>4. ASSUME AuditInv, Fix PROVE AuditInv'
  <2>1. UNCHANGED <<demands, findings, audits, hidden>> /\ turn = "fix" /\ turn' = "audit"
    BY <1>4 DEF Fix
  <2>2. program' \in SUBSET Source /\ FileNames' = FileNames
    BY <1>4, FixEffects DEF Fix, AuditInv
  <2>3. AuditTyped'
    BY <1>4, <2>1, <2>2 DEF AuditInv, AuditTyped
  <2>4. ASSUME ~hidden PROVE RoundInv'
    <3>1. /\ audits >= 1 /\ ToldToClean
          /\ audits >= 2 => Clean /\ findings = AllFindings
          /\ audits >= 3 => Complete
          /\ audits >= 4 => StubNamed
      BY <1>4, <2>1, <2>4 DEF AuditInv, RoundInv
    <3>2. /\ Clean'
          /\ audits >= 2 => Complete'
          /\ audits >= 3 => Wired'
          /\ audits >= 4 => StubNamed'
      <4>1. audits \in Nat
        BY <1>4 DEF AuditInv, AuditTyped
      <4> QED BY <1>4, <3>1, <4>1, FixAchieves DEF AuditInv
    <3> QED BY <2>1, <3>2 DEF RoundInv
  <2> QED BY <2>1, <2>3, <2>4 DEF AuditInv
<1>5. ASSUME AuditInv, UNCHANGED auditVars PROVE AuditInv'
  <2>1. AuditTyped'
    BY <1>5 DEF auditVars, AuditInv, AuditTyped, FileNames
  <2>2. Clean' = Clean /\ Complete' = Complete /\ Wired' = Wired /\ StubNamed' = StubNamed
    BY <1>5 DEF auditVars, Clean, Complete, Wired, StubNamed, Undone, Trees, Called, Defined, Forbidden
  <2>3. ToldToClean' = ToldToClean
    BY <1>5 DEF auditVars, ToldToClean, ToldFile, Trees, Forbidden
  <2>4. AllFindings' = AllFindings
    BY <1>5 DEF auditVars, AllFindings, CheckCallGraph, CheckStubs, CheckImports, BadImports,
         MissingImports, CheckErrorPaths, CheckRequirements, Undone, Trees, Called, Defined, Home,
         Forbidden
  <2> QED BY <1>5, <2>1, <2>2, <2>3, <2>4 DEF auditVars, AuditInv, RoundInv
<1>6. AuditInv /\ [AuditNext]_auditVars => AuditInv'
  BY <1>2, <1>3, <1>4, <1>5 DEF AuditNext, Audit, AuditsOver
<1> QED BY <1>1, <1>6, PTL DEF AuditSpec

(* A finding points at a file of the program or at none, and a coder who   *)
(* is sent back is shown what for, whatever is left out                    *)
(* (integration_audit.py:597-622).                                         *)
THEOREM AuditsTyped == AuditSpec => []AuditTypeOK
<1>1. AuditInv => AuditTypeOK
  BY DEF AuditInv, AuditTyped, AuditTypeOK, Finding
<1> QED BY <1>1, AuditAlways, PTL

(* For any program and specification: a coder who is shown every finding   *)
(* and does what they say passes the audit at the fourth time, unless a    *)
(* name in its program looks like a stub.  The first revision leaves       *)
(* neither stubs nor swallowed errors nor forbidden imports; the second no *)
(* name undefined, be it demanded by the specification or by a stub that   *)
(* was quoted in front of it; the third calls what the second defined.     *)
(* And a specification that demands a name which looks like a stub is      *)
(* never passed, whatever is shown (integration_audit.py:26-40, :201).     *)
THEOREM ThreeFixesSuffice == AuditSpec => []FixesSuffice
<1>1. AuditInv => FixesSuffice
  BY DEF AuditInv, RoundInv, FixesSuffice, StubNamed
<1> QED BY <1>1, AuditAlways, PTL

-----------------------------------------------------------------------------
(* What is learned from it (SelfImprovement).                              *)

\* What is taught of a level, and of some levels.
Lesson == {S \in SUBSET STRING : IsFiniteSet(S) /\ Cardinality(S) <= MaxPatterns}
Taught == UNION {[V -> Lesson] : V \in SUBSET (Levels \cup {"unknown"})}

ImproveTyped ==
  /\ IsFiniteSet(DOMAIN dumped) /\ \A k \in DOMAIN dumped : dumped[k] \in Dumps
  /\ logger \in [Orchestrators -> [seq : 0..MaxDumps, enabled : BOOLEAN]]
  /\ duty \in [Orchestrators -> {"task", "reading", "writing", "rewriting", "over"}]
  /\ learned \in [Orchestrators -> Taught]
  /\ kept \in [Orchestrators -> [manual : BOOLEAN, auto : {{}}, after : BOOLEAN]]
  /\ profiles \in [manual : BOOLEAN, after : BOOLEAN,
                   auto : SUBSET [level : Levels \cup {"unknown"}, phrase : STRING]]
  /\ collided \in BOOLEAN /\ torn \in BOOLEAN

\* Who is not at the end of the profiles' rewriting has something to inject.
DutyInv ==
  \A o \in Orchestrators :
    /\ logger[o].seq > 0 => logger[o].enabled
    /\ duty[o] \notin {"task", "over"} => DOMAIN learned[o] # {}

\* The section in the profiles is that of one lesson of one level.
SectionInv ==
  \E S \in Lesson, v \in Levels \cup {"unknown"} :
    profiles.auto = {[level |-> v, phrase |-> p] : p \in S}

\* Before a collision or a torn file whoever will write the profiles has the manual
\* entries, and they are missing only while somebody writes.
ManualInv ==
  ~collided /\ ~torn =>
    /\ \A o \in Orchestrators : duty[o] \in {"writing", "rewriting"} => kept[o].manual
    /\ Quiet => profiles.manual

ImproveInv == ImproveTyped /\ DutyInv /\ SectionInv /\ ManualInv

(* The image of a finite set under a function.                             *)
LEMMA ImageFinite ==
  ASSUME NEW S, IsFiniteSet(S), NEW T, NEW f \in [S -> T], \A t \in T : \E s \in S : f[s] = t
  PROVE  IsFiniteSet(T) /\ Cardinality(T) <= Cardinality(S)
<1>1. f \in Surjection(S, T)
  BY DEF Surjection
<1> QED BY <1>1, FS_Surjection

LEMMA EmptyLesson == {} \in Lesson
BY FS_EmptySet, ImproveAssumption DEF Lesson

LEMMA ImproveInitially == ImproveInit => ImproveInv
<1> SUFFICES ASSUME ImproveInit PROVE ImproveInv
  OBVIOUS
<1>1. IsFiniteSet(DOMAIN dumped) /\ \A k \in DOMAIN dumped : dumped[k] \in Dumps
  <2>1. DOMAIN dumped = {}
    BY DEF ImproveInit, Nobody
  <2> QED BY <2>1, FS_EmptySet
<1>2. PICK on \in Enabled : logger = [o \in Orchestrators |-> [seq |-> 0, enabled |-> on]]
  BY DEF ImproveInit
<1>3. [seq |-> 0, enabled |-> on] \in [seq : 0..MaxDumps, enabled : BOOLEAN]
  BY ImproveAssumption
<1>4. logger \in [Orchestrators -> [seq : 0..MaxDumps, enabled : BOOLEAN]]
  BY <1>2, <1>3
<1>5. Nobody \in Taught
  <2>1. Nobody \in [{} -> Lesson]
    BY DEF Nobody
  <2>2. {} \in SUBSET (Levels \cup {"unknown"})
    OBVIOUS
  <2> QED BY <2>1, <2>2 DEF Taught
<1>6. learned \in [Orchestrators -> Taught]
  BY <1>5 DEF ImproveInit
<1>7. ImproveTyped
  BY <1>1, <1>4, <1>6 DEF ImproveInit, ImproveTyped, NoProfiles
<1>8. DutyInv
  <2>1. \A o \in Orchestrators : logger[o].seq = 0
    BY <1>2
  <2> QED BY <2>1 DEF ImproveInit, DutyInv
<1>9. SectionInv
  <2>1. profiles.auto = {[level |-> "unknown", phrase |-> p] : p \in {}}
    BY DEF ImproveInit
  <2> QED BY <2>1, EmptyLesson DEF SectionInv
<1>10. ManualInv
  BY DEF ImproveInit, ManualInv
<1> QED BY <1>7, <1>8, <1>9, <1>10 DEF ImproveInv

(* Rejected verdicts are finitely many, and so are their phrases.          *)
LEMMA PhrasesFinite ==
  ASSUME ImproveTyped, NEW v
  PROVE  IsFiniteSet(Significant(v)) /\ Significant(v) \subseteq STRING
<1>1. IsFiniteSet(Rejected(v))
  <2>1. Rejected(v) \subseteq DOMAIN dumped
    BY DEF Rejected
  <2> QED BY <2>1, FS_Subset DEF ImproveTyped
<1> DEFINE Of(k) == {dumped[k].phrases[i] : i \in DOMAIN dumped[k].phrases}
<1>2. ASSUME NEW k \in Rejected(v)
      PROVE  IsFiniteSet(Of(k)) /\ Of(k) \subseteq STRING
  <2>1. dumped[k].phrases \in Seq(STRING)
    <3>1. dumped[k] \in [level : STRING, score : Int, phrases : Seq(STRING)]
      BY ImproveAssumption DEF ImproveTyped, Rejected
    <3> QED BY <3>1
  <2>2. DOMAIN dumped[k].phrases = 1..Len(dumped[k].phrases) /\ Len(dumped[k].phrases) \in Nat
    BY <2>1
  <2>3. IsFiniteSet(DOMAIN dumped[k].phrases)
    <3>1. PICK n \in Nat : DOMAIN dumped[k].phrases = 1..n
      BY <2>2
    <3>2. 1 \in Int /\ n \in Int
      OBVIOUS
    <3>3. IsFiniteSet(1..n)
      BY <3>2, FS_Interval
    <3> QED BY <3>1, <3>3
  <2>4. IsFiniteSet(Of(k))
    <3> DEFINE phrases == dumped[k].phrases
    <3>1. phrases \in [DOMAIN phrases -> Of(k)] /\ \A p \in Of(k) : \E i \in DOMAIN phrases : phrases[i] = p
      BY <2>1
    <3> HIDE DEF phrases, Of
    <3>2. IsFiniteSet(DOMAIN phrases)
      BY <2>3 DEF phrases
    <3> QED BY <3>1, <3>2, ImageFinite
  <2> QED BY <2>1, <2>4
<1>3. IsFiniteSet({Of(k) : k \in Rejected(v)})
  <2> DEFINE all == {Of(k) : k \in Rejected(v)}
             of == [k \in Rejected(v) |-> Of(k)]
  <2> HIDE DEF Of
  <2>1. of \in [Rejected(v) -> all] /\ \A T \in all : \E k \in Rejected(v) : of[k] = T
    OBVIOUS
  <2> HIDE DEF all, of
  <2>2. IsFiniteSet(all)
    BY <1>1, <2>1, ImageFinite
  <2> QED BY <2>2 DEF all
<1>4. IsFiniteSet(UNION {Of(k) : k \in Rejected(v)})
  <2> HIDE DEF Of
  <2>1. \A T \in {Of(k) : k \in Rejected(v)} : IsFiniteSet(T)
    BY <1>2
  <2> QED BY <1>3, <2>1, FS_UNION
<1>5. Significant(v) \subseteq UNION {Of(k) : k \in Rejected(v)}
  BY DEF Significant, Phrases
<1>6. UNION {Of(k) : k \in Rejected(v)} \subseteq STRING
  <2> HIDE DEF Of
  <2> QED BY <1>2
<1> HIDE DEF Of
<1> QED BY <1>4, <1>5, <1>6, FS_Subset

LEMMA SmallerOfTwo ==
  ASSUME NEW m \in Nat, NEW n \in Nat
  PROVE  Min({m, n}) \in Nat /\ Min({m, n}) <= m
<1>1. \E x \in {m, n} : \A y \in {m, n} : x =< y
  OBVIOUS
<1> QED BY <1>1 DEF Min

(* What is taken of a level's phrases is a lesson.                         *)
LEMMA SelectionsAreLessons ==
  ASSUME ImproveTyped, NEW v, NEW S \in Selections(v)
  PROVE  S \in Lesson
<1>1. S \subseteq Significant(v) /\ Cardinality(S) = Min({MaxPatterns, Cardinality(Significant(v))})
  BY DEF Selections
<1>2. IsFiniteSet(S) /\ S \subseteq STRING
  BY <1>1, PhrasesFinite, FS_Subset
<1>3. Cardinality(Significant(v)) \in Nat
  BY PhrasesFinite, FS_CardinalityType
<1>4. Cardinality(S) <= MaxPatterns
  BY <1>1, <1>3, SmallerOfTwo, ImproveAssumption
<1> QED BY <1>2, <1>4 DEF Lesson

LEMMA LogKeeps ==
  ASSUME ImproveInv, NEW o \in Orchestrators, Log(o)
  PROVE  ImproveInv'
<1>1. UNCHANGED <<duty, learned, kept, profiles, collided, torn>> /\ logger[o].enabled
  BY DEF Log
<1>2. IsFiniteSet(DOMAIN dumped') /\ \A k \in DOMAIN dumped' : dumped'[k] \in Dumps
  <2> DEFINE key == <<TaskOf[o], logger[o].seq + 1>>
  <2>1. PICK d \in Dumps : dumped' = [k \in DOMAIN dumped \cup {key} |-> IF k = key THEN d ELSE dumped[k]]
    BY DEF Log
  <2>2. IsFiniteSet(DOMAIN dumped \cup {key})
    <3> HIDE DEF key
    <3> QED BY FS_AddElement DEF ImproveInv, ImproveTyped
  <2> HIDE DEF key
  <2>3. DOMAIN dumped' = DOMAIN dumped \cup {key}
    BY <2>1
  <2> QED BY <2>1, <2>2, <2>3 DEF ImproveInv, ImproveTyped
<1>3. logger' \in [Orchestrators -> [seq : 0..MaxDumps, enabled : BOOLEAN]]
  <2>1. logger[o].seq + 1 \in 0..MaxDumps
    BY ImproveAssumption DEF ImproveInv, ImproveTyped, Log
  <2> QED BY <2>1 DEF ImproveInv, ImproveTyped, Log
<1>4. ImproveTyped'
  BY <1>1, <1>2, <1>3 DEF ImproveInv, ImproveTyped
<1>5. DutyInv'
  <2> SUFFICES ASSUME NEW u \in Orchestrators
               PROVE  /\ logger'[u].seq > 0 => logger'[u].enabled
                      /\ duty'[u] \notin {"task", "over"} => DOMAIN learned'[u] # {}
    BY DEF DutyInv
  <2>1. logger'[u].enabled = logger[u].enabled /\ (u # o => logger'[u] = logger[u])
    BY DEF ImproveInv, ImproveTyped, Log
  <2> QED BY <1>1, <2>1 DEF ImproveInv, DutyInv
<1>6. SectionInv' /\ ManualInv'
  BY <1>1 DEF ImproveInv, SectionInv, ManualInv, Quiet
<1> QED BY <1>4, <1>5, <1>6 DEF ImproveInv

LEMMA SwitchOnKeeps ==
  ASSUME ImproveInv, NEW o \in Orchestrators, SwitchOn(o)
  PROVE  ImproveInv'
<1>1. UNCHANGED <<dumped, duty, learned, kept, profiles, collided, torn>>
  BY DEF SwitchOn
<1>2. logger' \in [Orchestrators -> [seq : 0..MaxDumps, enabled : BOOLEAN]]
  BY DEF ImproveInv, ImproveTyped, SwitchOn
<1>3. \A u \in Orchestrators : logger'[u].enabled \/ logger'[u] = logger[u]
  BY DEF ImproveInv, ImproveTyped, SwitchOn
<1>4. ImproveTyped' /\ DutyInv'
  BY <1>1, <1>2, <1>3 DEF ImproveInv, ImproveTyped, DutyInv
<1>5. SectionInv' /\ ManualInv'
  BY <1>1 DEF ImproveInv, SectionInv, ManualInv, Quiet
<1> QED BY <1>4, <1>5 DEF ImproveInv

LEMMA ImproveKeeps ==
  ASSUME ImproveInv, NEW o \in Orchestrators, Improve(o)
  PROVE  ImproveInv'
<1> DEFINE taught == {v \in Levels \cup {"unknown"} : Significant(v) # {}}
<1>1. PICK L \in [taught -> SUBSET UNION {Phrases(v) : v \in taught}] :
        /\ \A v \in taught : L[v] \in Selections(v)
        /\ learned' = [learned EXCEPT ![o] = L]
        /\ duty' = [duty EXCEPT ![o] = IF taught = {} THEN "over" ELSE "reading"]
  BY DEF Improve
<1>2. UNCHANGED <<dumped, logger, kept, profiles, collided, torn>> /\ duty[o] = "task"
  BY DEF Improve
<1>3. taught \subseteq Levels \cup {"unknown"} /\ L = [v \in taught |-> L[v]] /\ DOMAIN L = taught
  OBVIOUS
<1>4. \A v \in taught : L[v] \in Lesson
  BY <1>1, SelectionsAreLessons DEF ImproveInv
<1> HIDE DEF taught
<1>5. L \in Taught
  <2>1. L \in [taught -> Lesson]
    BY <1>3, <1>4
  <2> QED BY <2>1, <1>3 DEF Taught
<1>6. ImproveTyped'
  BY <1>1, <1>2, <1>5 DEF ImproveInv, ImproveTyped
<1>7. DutyInv'
  BY <1>1, <1>2, <1>3 DEF ImproveInv, ImproveTyped, DutyInv
<1>8. SectionInv'
  BY <1>2 DEF ImproveInv, SectionInv
<1>9. ManualInv'
  BY <1>1, <1>2 DEF ImproveInv, ImproveTyped, ManualInv, Quiet
<1> QED BY <1>6, <1>7, <1>8, <1>9 DEF ImproveInv

LEMMA ReadKeeps ==
  ASSUME ImproveInv, NEW o \in Orchestrators, ReadProfiles(o)
  PROVE  ImproveInv'
<1>1. UNCHANGED <<dumped, logger, learned, profiles, torn>> /\ duty[o] = "reading"
  BY DEF ReadProfiles
<1>2. PICK content \in [manual : BOOLEAN, auto : {{}}, after : BOOLEAN] :
        kept' = [kept EXCEPT ![o] = content] /\ content.manual = profiles.manual
  <2>1. profiles \in [manual : BOOLEAN, after : BOOLEAN,
                      auto : SUBSET [level : Levels \cup {"unknown"}, phrase : STRING]]
    BY DEF ImproveInv, ImproveTyped
  <2>2. WithoutAuto(profiles) \in [manual : BOOLEAN, auto : {{}}, after : BOOLEAN]
    BY <2>1 DEF WithoutAuto, NoProfiles
  <2>3. WithoutAuto(profiles).manual = profiles.manual
    BY <2>1 DEF WithoutAuto, NoProfiles
  <2> QED BY <2>2, <2>3 DEF ReadProfiles
<1>3. ImproveTyped'
  BY <1>1, <1>2 DEF ImproveInv, ImproveTyped, ReadProfiles
<1>4. DutyInv' /\ SectionInv'
  <2>1. DutyInv'
    BY <1>1 DEF ImproveInv, ImproveTyped, DutyInv, ReadProfiles
  <2>2. SectionInv'
    BY <1>1 DEF ImproveInv, SectionInv
  <2> QED BY <2>1, <2>2
<1>5. ManualInv'
  BY <1>1, <1>2 DEF ImproveInv, ImproveTyped, ManualInv, Quiet, ReadProfiles
<1> QED BY <1>3, <1>4, <1>5 DEF ImproveInv

LEMMA TruncateKeeps ==
  ASSUME ImproveInv, NEW o \in Orchestrators, Truncate(o)
  PROVE  ImproveInv'
<1>1. UNCHANGED <<dumped, logger, learned, kept, collided, torn>> /\ duty[o] = "writing"
      /\ profiles' = NoProfiles
  BY DEF Truncate
<1>2. ImproveTyped' /\ DutyInv'
  BY <1>1 DEF ImproveInv, ImproveTyped, DutyInv, Truncate, NoProfiles
<1>3. SectionInv'
  <2>1. profiles'.auto = {[level |-> "unknown", phrase |-> p] : p \in {}}
    BY <1>1 DEF NoProfiles
  <2> QED BY <2>1, EmptyLesson DEF SectionInv
<1>4. ManualInv'
  BY <1>1 DEF ImproveInv, ImproveTyped, ManualInv, Quiet, Truncate
<1> QED BY <1>2, <1>3, <1>4 DEF ImproveInv

LEMMA RewriteKeeps ==
  ASSUME ImproveInv, NEW o \in Orchestrators, Rewrite(o)
  PROVE  ImproveInv'
<1>1. UNCHANGED <<dumped, logger, collided, torn>> /\ duty[o] = "rewriting"
      /\ kept' = [kept EXCEPT ![o] = NoProfiles]
  BY DEF Rewrite
<1>2. PICK v \in DOMAIN learned[o] :
        /\ profiles' = [kept[o] EXCEPT !.auto = {[level |-> v, phrase |-> p] : p \in learned[o][v]}]
        /\ learned' = [learned EXCEPT ![o] = [w \in DOMAIN learned[o] \ {v} |-> learned[o][w]]]
        /\ duty' = [duty EXCEPT ![o] = IF DOMAIN learned[o] = {v} THEN "over" ELSE "reading"]
  BY DEF Rewrite
<1>3. PICK V \in SUBSET (Levels \cup {"unknown"}) : learned[o] \in [V -> Lesson]
  BY DEF ImproveInv, ImproveTyped, Taught
<1>4. v \in Levels \cup {"unknown"} /\ learned[o][v] \in Lesson
  BY <1>2, <1>3
<1> DEFINE rest == [w \in DOMAIN learned[o] \ {v} |-> learned[o][w]]
<1>5. rest \in Taught
  <2>1. rest \in [V \ {v} -> Lesson] /\ V \ {v} \in SUBSET (Levels \cup {"unknown"})
    BY <1>3
  <2> HIDE DEF rest
  <2> QED BY <2>1 DEF Taught
<1>6. DOMAIN rest = DOMAIN learned[o] \ {v} /\ learned' = [learned EXCEPT ![o] = rest]
  BY <1>2
<1>7. kept[o] \in [manual : BOOLEAN, auto : {{}}, after : BOOLEAN]
  BY DEF ImproveInv, ImproveTyped
<1>8. /\ profiles'.manual = kept[o].manual /\ kept[o].manual \in BOOLEAN
      /\ profiles'.auto = {[level |-> v, phrase |-> p] : p \in learned[o][v]}
  BY <1>2, <1>7
<1> HIDE DEF rest
<1>9. ImproveTyped'
  <2>1. kept' \in [Orchestrators -> [manual : BOOLEAN, auto : {{}}, after : BOOLEAN]]
    BY <1>1 DEF ImproveInv, ImproveTyped, NoProfiles
  <2>2. learned' \in [Orchestrators -> Taught]
    BY <1>5, <1>6 DEF ImproveInv, ImproveTyped
  <2>3. duty' \in [Orchestrators -> {"task", "reading", "writing", "rewriting", "over"}]
    BY <1>2 DEF ImproveInv, ImproveTyped
  <2>4. profiles' \in [manual : BOOLEAN, after : BOOLEAN,
                       auto : SUBSET [level : Levels \cup {"unknown"}, phrase : STRING]]
    <3>1. {[level |-> v, phrase |-> p] : p \in learned[o][v]}
            \in SUBSET [level : Levels \cup {"unknown"}, phrase : STRING]
      BY <1>4 DEF Lesson
    <3>2. profiles' = [manual |-> kept[o].manual, after |-> kept[o].after,
                       auto |-> {[level |-> v, phrase |-> p] : p \in learned[o][v]}]
      BY <1>2, <1>7
    <3> QED BY <1>7, <3>1, <3>2
  <2> QED BY <2>1, <2>2, <2>3, <2>4, <1>1 DEF ImproveInv, ImproveTyped
<1>10. DutyInv'
  <2> SUFFICES ASSUME NEW u \in Orchestrators
               PROVE  /\ logger'[u].seq > 0 => logger'[u].enabled
                      /\ duty'[u] \notin {"task", "over"} => DOMAIN learned'[u] # {}
    BY DEF DutyInv
  <2>1. CASE u = o
    <3>1. learned'[o] = rest
      BY <1>6 DEF ImproveInv, ImproveTyped
    <3>2. duty'[o] = "reading" => DOMAIN learned[o] # {v}
      BY <1>2 DEF ImproveInv, ImproveTyped
    <3>3. duty'[o] \in {"over", "reading"}
      BY <1>2 DEF ImproveInv, ImproveTyped
    <3> QED BY <1>1, <1>6, <2>1, <3>1, <3>2, <3>3 DEF ImproveInv, DutyInv
  <2>2. CASE u # o
    <3>1. learned'[u] = learned[u] /\ duty'[u] = duty[u]
      BY <1>2, <2>2 DEF ImproveInv, ImproveTyped
    <3> QED BY <1>1, <3>1 DEF ImproveInv, DutyInv
  <2> QED BY <2>1, <2>2
<1>11. SectionInv'
  BY <1>4, <1>8 DEF SectionInv
<1>12. ManualInv'
  <2>1. ~collided /\ ~torn => kept[o].manual
    BY <1>1 DEF ImproveInv, ManualInv
  <2>2. \A u \in Orchestrators : u # o => kept'[u] = kept[u] /\ duty'[u] = duty[u]
    BY <1>1, <1>2 DEF ImproveInv, ImproveTyped
  <2>3. duty'[o] \in {"over", "reading"}
    BY <1>2 DEF ImproveInv, ImproveTyped
  <2> QED BY <1>1, <1>8, <2>1, <2>2, <2>3 DEF ImproveInv, ManualInv
<1> QED BY <1>9, <1>10, <1>11, <1>12 DEF ImproveInv

LEMMA DieTornKeeps ==
  ASSUME ImproveInv, NEW o \in Orchestrators, DieTorn(o)
  PROVE  ImproveInv'
<1>1. UNCHANGED <<dumped, logger, profiles, collided>> /\ torn'
      /\ duty' = [duty EXCEPT ![o] = "over"]
      /\ learned' = [learned EXCEPT ![o] = Nobody]
      /\ kept' = [kept EXCEPT ![o] = NoProfiles]
  BY DEF DieTorn
<1>2. Nobody \in Taught
  <2>1. Nobody \in [{} -> Lesson] /\ {} \in SUBSET (Levels \cup {"unknown"})
    BY DEF Nobody
  <2> QED BY <2>1 DEF Taught
<1>3. kept' \in [Orchestrators -> [manual : BOOLEAN, auto : {{}}, after : BOOLEAN]]
  BY <1>1 DEF ImproveInv, ImproveTyped, NoProfiles
<1>4. learned' \in [Orchestrators -> Taught]
  BY <1>1, <1>2 DEF ImproveInv, ImproveTyped
<1>5. ImproveTyped'
  BY <1>1, <1>3, <1>4, torn' = TRUE DEF ImproveInv, ImproveTyped, DieTorn
<1>6. DutyInv'
  BY <1>1 DEF ImproveInv, ImproveTyped, DutyInv
<1>7. SectionInv' /\ ManualInv'
  BY <1>1 DEF ImproveInv, SectionInv, ManualInv
<1> QED BY <1>5, <1>6, <1>7 DEF ImproveInv

LEMMA WriteByHandKeeps == ImproveInv /\ WriteByHand => ImproveInv'
<1> SUFFICES ASSUME ImproveInv, WriteByHand PROVE ImproveInv'
  OBVIOUS
<1>1. UNCHANGED <<dumped, logger, duty, learned, kept, collided, torn>>
      /\ profiles' = [profiles EXCEPT !.after = TRUE]
  BY DEF WriteByHand
<1>2. profiles \in [manual : BOOLEAN, after : BOOLEAN,
                    auto : SUBSET [level : Levels \cup {"unknown"}, phrase : STRING]]
  BY DEF ImproveInv, ImproveTyped
<1>3. profiles'.manual = profiles.manual /\ profiles'.auto = profiles.auto
  BY <1>1, <1>2
<1>4. profiles' \in [manual : BOOLEAN, after : BOOLEAN,
                     auto : SUBSET [level : Levels \cup {"unknown"}, phrase : STRING]]
  BY <1>1, <1>2
<1>5. ImproveTyped' /\ DutyInv'
  BY <1>1, <1>4 DEF ImproveInv, ImproveTyped, DutyInv
<1>6. SectionInv' /\ ManualInv'
  BY <1>1, <1>3 DEF ImproveInv, SectionInv, ManualInv, Quiet
<1> QED BY <1>5, <1>6 DEF ImproveInv

LEMMA ImproveAlways == ImproveSpec => []ImproveInv
<1>1. ImproveInv /\ [ImproveNext]_improveVars => ImproveInv'
  <2> SUFFICES ASSUME ImproveInv, [ImproveNext]_improveVars PROVE ImproveInv'
    OBVIOUS
  <2>1. CASE UNCHANGED improveVars
    BY <2>1 DEF improveVars, ImproveInv, ImproveTyped, DutyInv, SectionInv, ManualInv, Quiet
  <2>2. CASE ImproveNext
    BY <2>1, <2>2, LogKeeps, SwitchOnKeeps, ImproveKeeps, ReadKeeps, TruncateKeeps, RewriteKeeps,
       DieTornKeeps, WriteByHandKeeps
       DEF ImproveNext, ImproveStep, Improved
  <2> QED BY <2>1, <2>2
<1> QED BY <1>1, ImproveInitially, PTL DEF ImproveSpec

(* The profiles hold the section of one level with at most MaxPatterns     *)
(* phrases, whatever the dumps of all the tasks hold.                      *)
THEOREM ProfilesTyped == ImproveSpec => []ImproveTypeOK
<1>1. ImproveInv => ImproveTypeOK
  <2> SUFFICES ASSUME ImproveInv PROVE ImproveTypeOK
    OBVIOUS
  <2>1. PICK S \in Lesson, v \in Levels \cup {"unknown"} :
          profiles.auto = {[level |-> v, phrase |-> p] : p \in S}
    BY DEF ImproveInv, SectionInv
  <2>2. Cardinality(profiles.auto) <= MaxPatterns
    <3>1. IsFiniteSet(S) /\ Cardinality(S) <= MaxPatterns
      BY DEF Lesson
    <3> DEFINE T == {[level |-> v, phrase |-> p] : p \in S}
               f == [p \in S |-> [level |-> v, phrase |-> p]]
    <3>2. f \in [S -> T] /\ \A t \in T : \E p \in S : f[p] = t
      OBVIOUS
    <3> HIDE DEF T, f
    <3>3. IsFiniteSet(T) /\ Cardinality(T) <= Cardinality(S)
      BY <3>1, <3>2, ImageFinite
    <3>4. Cardinality(S) \in Nat /\ Cardinality(T) \in Nat
      BY <3>1, <3>3, FS_CardinalityType
    <3>5. profiles.auto = T
      BY <2>1 DEF T
    <3> QED BY <3>1, <3>3, <3>4, <3>5, ImproveAssumption
  <2>3. Cardinality({x.level : x \in profiles.auto}) <= 1
    <3>1. {x.level : x \in profiles.auto} \subseteq {v}
      BY <2>1
    <3>2. IsFiniteSet({v}) /\ Cardinality({v}) = 1
      BY FS_Singleton
    <3> QED BY <3>1, <3>2, FS_Subset
  <2> QED BY <2>2, <2>3 DEF ImproveInv, ImproveTyped, DutyInv, ImproveTypeOK
<1> QED BY <1>1, ImproveAlways, PTL

(* However many orchestrators learn at a time and however many levels each *)
(* rewrites: the profiles written by hand before the generated section are *)
(* lost only if one read the file while another was rewriting it, or died  *)
(* while it did.                                                           *)
THEOREM ManualKept == ImproveSpec => []LostByAccidentOnly
<1>1. ImproveInv => LostByAccidentOnly
  BY DEF ImproveInv, ManualInv, LostByAccidentOnly
<1> QED BY <1>1, ImproveAlways, PTL

-----------------------------------------------------------------------------
(* Model profiles and settings (Configuration).                            *)

\* What a task reads, consults and keeps was in the file at some time.
ConfigTyped ==
  /\ file \in Contents /\ edits \in 0..MaxEdits
  /\ cache \in Contents \cup {NoContent}
  /\ step \in [Runs -> Steps] /\ tierNo \in [Runs -> 1..Len(Chain)]
  /\ read \in [Runs -> Contents \cup {NoContent}]
  /\ table \in [Runs -> Contents \cup {NoContent}]
  /\ own \in [Runs -> {NothingKept} \cup {Kept(c) : c \in Contents}]
  /\ ended \in [Runs -> {"not", "raised", "handed_over", "verified", "accepted", "denied", "failed"}]
  /\ overlap \in BOOLEAN

\* A content that raised is neither stored nor cached.
ReadInv ==
  /\ cache # NoContent => Loads(cache)
  /\ \A t \in Runs : step[t] = "storing" => Loads(read[t])
  /\ \A t \in Runs : step[t] \notin {"new", "storing", "ended"} => table[t] # NoContent

\* Without an overlap those who are about to store the same will store the same
\* content, and it is the one that is cached if one is.
TableInv ==
  ~overlap =>
    /\ \A t, u \in Runs : step[t] = "storing" /\ step[u] = "storing" => read[t] = read[u]
    /\ \A t \in Runs : step[t] = "storing" /\ cache # NoContent => read[t] = cache
    /\ \A t \in Runs : table[t] \in {cache, NoContent}

ConfigInv == ConfigTyped /\ ReadInv /\ TableInv

LEMMA NoContentRaises == ~Loads(NoContent)
BY DEF Loads, NoContent

LEMMA ConfigInitially == ConfigInit => ConfigInv
<1> SUFFICES ASSUME ConfigInit PROVE ConfigInv
  OBVIOUS
<1>1. 1 \in 1..Len(Chain) /\ 0 \in 0..MaxEdits
  BY ConfigAssumption
<1>2. ConfigTyped
  BY <1>1 DEF ConfigInit, ConfigTyped, Steps
<1>3. ReadInv /\ TableInv
  BY DEF ConfigInit, ReadInv, TableInv
<1> QED BY <1>2, <1>3 DEF ConfigInv

(* An edit changes nothing that a task holds.                              *)
LEMMA EditKeeps == ConfigInv /\ Edit => ConfigInv'
<1> SUFFICES ASSUME ConfigInv, Edit PROVE ConfigInv'
  OBVIOUS
<1>1. edits' \in 0..MaxEdits /\ file' \in Contents
  BY ConfigAssumption DEF ConfigInv, ConfigTyped, Edit
<1>2. UNCHANGED <<cache, step, read, table, own, tierNo, ended, overlap>>
  BY DEF Edit
<1> QED BY <1>1, <1>2 DEF ConfigInv, ConfigTyped, ReadInv, TableInv

(* A constructor: the table and the cache are set to one content.          *)
LEMMA ConstructKeeps ==
  ASSUME ConfigInv, NEW t \in Runs, ConstructStep(t)
  PROVE  ConfigInv'
<1> USE DEF ConfigInv, ConfigTyped, Go, Ends, Steps
<1>1. CASE UseCache(t)
  BY <1>1 DEF UseCache, ReadInv, TableInv
<1>2. CASE LoadRaises(t)
  BY <1>2 DEF LoadRaises, ReadInv, TableInv
<1>3. CASE Load(t)
  <2>1. ConfigTyped'
    BY <1>3 DEF Load
  <2>2. ReadInv'
    BY <1>3 DEF Load, ReadInv
  <2>3. TableInv'
    BY <1>3 DEF Load, TableInv
  <2> QED BY <2>1, <2>2, <2>3
<1>4. CASE Store(t)
  <2>1. ConfigTyped'
    BY <1>4 DEF Store
  <2>2. Loads(read[t]) /\ read[t] # NoContent
    BY <1>4, NoContentRaises DEF Store, ReadInv
  <2>3. ReadInv'
    <3>1. cache' # NoContent => Loads(cache')
      BY <1>4, <2>2 DEF Store
    <3>2. \A u \in Runs : step'[u] = "storing" => Loads(read'[u])
      BY <1>4 DEF Store, ReadInv
    <3>3. \A u \in Runs : step'[u] \notin {"new", "storing", "ended"} => table'[u] # NoContent
      BY <1>4, <2>2 DEF Store, ReadInv
    <3> QED BY <3>1, <3>2, <3>3 DEF ReadInv
  <2>4. TableInv'
    BY <1>4, <2>2 DEF Store, TableInv
  <2> QED BY <2>1, <2>3, <2>4
<1>5. CASE ReadFresh(t)
  BY <1>5 DEF ReadFresh, ReadInv, TableInv
<1> QED BY <1>1, <1>2, <1>3, <1>4, <1>5 DEF ConstructStep

(* The chain of a task goes by its tables and changes none.                *)
LEMMA ChainKeeps ==
  ASSUME ConfigInv, NEW t \in Runs, ChainStep(t)
  PROVE  ConfigInv'
<1> USE DEF ConfigInv, ConfigTyped
<1>1. UNCHANGED <<file, edits, cache, read, table, own, overlap>>
  BY DEF ChainStep, HandOver, StartTier, Deliver, JudgeAccepts, TierFails
<1>2. step[t] \in {"tier", "coding", "judging"}
  BY DEF ChainStep, HandOver, StartTier, Deliver, JudgeAccepts, TierFails
<1>3. PICK s \in {"tier", "coding", "judging", "ended"} : Go(t, s)
  BY DEF ChainStep, HandOver, StartTier, Deliver, JudgeAccepts, TierFails, Ends
<1>4. tierNo' \in [Runs -> 1..Len(Chain)]
  <2>1. CASE tierNo' = tierNo
    BY <2>1
  <2>2. CASE tierNo' = [tierNo EXCEPT ![t] = @ + 1] /\ tierNo[t] # Len(Chain)
    <3>1. tierNo[t] + 1 \in 1..Len(Chain)
      BY <2>2, ConfigAssumption
    <3> QED BY <3>1, <2>2
  <2> QED BY <2>1, <2>2 DEF ChainStep, HandOver, StartTier, Deliver, JudgeAccepts, TierFails
<1>5. ended' \in [Runs -> {"not", "raised", "handed_over", "verified", "accepted", "denied", "failed"}]
  <2>1. CASE ended' = ended
    BY <2>1
  <2>2. CASE \E how \in {"raised", "handed_over", "verified", "accepted", "denied", "failed"} : Ends(t, how)
    BY <2>2 DEF Ends
  <2> QED BY <2>1, <2>2 DEF ChainStep, HandOver, StartTier, Deliver, JudgeAccepts, TierFails
<1>6. step' \in [Runs -> Steps]
  BY <1>3 DEF Go, Steps
<1>7. ReadInv' /\ TableInv'
  BY <1>1, <1>2, <1>3 DEF Go, ReadInv, TableInv
<1> QED BY <1>1, <1>4, <1>5, <1>6, <1>7

LEMMA ConfigAlways == ConfigSpec => []ConfigInv
<1>1. ConfigInv /\ [ConfigNext]_configVars => ConfigInv'
  <2> SUFFICES ASSUME ConfigInv, [ConfigNext]_configVars PROVE ConfigInv'
    OBVIOUS
  <2>1. CASE UNCHANGED configVars
    BY <2>1 DEF configVars, ConfigInv, ConfigTyped, ReadInv, TableInv
  <2>2. CASE ConfigNext
    BY <2>1, <2>2, EditKeeps, ConstructKeeps, ChainKeeps DEF ConfigNext, RunsOver
  <2> QED BY <2>1, <2>2
<1> QED BY <1>1, ConfigInitially, PTL DEF ConfigSpec

(* The types of a task's configuration; what is cached was read without an *)
(* error, and a task that is past its constructor has a table.             *)
THEOREM ConfigurationTyped == ConfigSpec => []ConfigTypeOK
<1>1. ConfigInv => ConfigTypeOK
  BY DEF ConfigInv, ConfigTyped, ReadInv, ConfigTypeOK
<1> QED BY <1>1, ConfigAlways, PTL

(* However often the file is edited and however it is broken: PI runs only *)
(* for a task that kept the patterns of protected files (OpenCode looks at *)
(* none), and all tasks consult one table unless their first readings      *)
(* overlapped an edit.                                                     *)
THEOREM ConfigurationIsKept == ConfigSpec => []ConfigurationKept
<1>1. ConfigInv => PiProtected
  <2> SUFFICES ASSUME ConfigInv, NEW t \in Runs, Backend(t) = "pi"
               PROVE  own[t].protected
    BY DEF PiProtected
  <2>1. own[t] \in {NothingKept} \cup {Kept(c) : c \in Contents}
    BY DEF ConfigInv, ConfigTyped
  <2>2. own[t] # NothingKept
    BY DEF Backend, NothingKept
  <2>3. PICK c \in Contents : own[t] = Kept(c)
    BY <2>1, <2>2
  <2> QED BY <2>2, <2>3 DEF Kept
<1>2. ConfigInv => OneTable
  BY DEF ConfigInv, ConfigTyped, TableInv, OneTable
<1>3. ConfigInv => ConfigurationKept
  BY <1>1, <1>2 DEF ConfigurationKept
<1> QED BY <1>3, ConfigAlways, PTL
=============================================================================
