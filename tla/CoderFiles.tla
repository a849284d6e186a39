------------------------------ MODULE CoderFiles ------------------------------
(***************************************************************************)
(* What a coder's runs do to the files of a project, and what              *)
(* execute_with_judge (src/core/orchestrator.py) knows of it: OpenCode     *)
(* writes by itself and its files are found by comparing the project       *)
(* before and after (_execute_opencode_tier); PI reports writes in a       *)
(* stream of events and the orchestrator carries them out                  *)
(* (_execute_pi_tier); the answer of an HTTP tier is searched for tool     *)
(* calls (ToolExecutor).  What was found is read back for the judge; what  *)
(* the judge accepted is in accumulated_files, which PI may not write.     *)
(* That set holds strings, and one file has several: what OpenCode wrote   *)
(* is spelled after the project_root of the call, as it was given; what PI *)
(* wrote is spelled with symbolic links resolved.  The project_root is     *)
(* relative to that of the orchestrator, and the process runs there.       *)
(***************************************************************************)
EXTENDS Integers, FiniteSets

CONSTANTS
  Files,      \* files of the project
  There,      \* those that exist before the call
  Blocked,    \* <<file, spelling>>: protected by a pattern, or outside of project_root;
              \* a pattern with a directory, .git/*, matches relative paths only
  Hidden,     \* below a directory .git
  Unreadable, \* not text: file_read fails
  Clears,     \* file -> the files whose path ends with its name
  Backends,   \* "opencode", "pi", "http": of the tiers of the call
  Roots,      \* project_root: "resolved" (absolute, without links), "linked" (absolute,
              \* through a symbolic link), "relative", or "none"
  MaxRuns     \* bound: coder runs of the call

ASSUME FilesAssumption == Roots \subseteq {"resolved", "linked", "relative", "none"}

VARIABLES
  root,      \* project_root of the call
  disk,      \* file -> the run that wrote what it holds; 0 before the call, -1 if absent
  run,       \* number of the coder run
  stage,     \* "idle", "coding", "delivered", "judging", "accepted" or "over"
  backend,   \* of this run
  before,    \* before_files, the snapshot of an OpenCode run
  touched,   \* files whose mtime is after the start of this run
  reported,  \* written_paths: set of <<file, spelling>>
  shown,     \* file -> what the judge was shown of it
  guarded,   \* accumulated_files: set of <<file, spelling>>
  orphans,   \* timed-out OpenCode runs that still write
  approved,  \* history: file -> what the last accepting judge was shown of it, or
             \* what it held then if it could not be shown
  disturbed, \* history: files that others than PI wrote since
  wrote      \* history: files the process of this run wrote

runVars == <<root, run, backend, before>>
foundVars == <<reported, shown>>
guardVars == <<guarded, approved>>
fileVars == <<disk, touched, disturbed, wrote>>
filesVars == <<fileVars, stage, runVars, foundVars, guardVars, orphans>>

Nothing == [f \in {} |-> 0]
Exist == {f \in Files : disk[f] >= 0}
Named(paths) == {x[1] : x \in paths}

FilesInit ==
  /\ root \in Roots
  /\ disk = [f \in Files |-> IF f \in There THEN 0 ELSE -1]
  /\ run = 0 /\ stage = "idle" /\ backend = "none"
  /\ before = {} /\ touched = {} /\ reported = {} /\ shown = Nothing
  /\ guarded = {} /\ approved = [f \in Files |-> -1]
  /\ orphans = {} /\ disturbed = {} /\ wrote = {}

\* file_write, or a process, puts what run r makes of them into files.
Put(S, r, byPi) ==
  /\ disk' = [f \in Files |-> IF f \in S THEN r ELSE disk[f]]
  /\ touched' = touched \cup S
  /\ disturbed' = IF byPi THEN disturbed ELSE disturbed \cup S

-----------------------------------------------------------------------------
(* A run begins.                                                           *)

Start(b) ==
  /\ stage = "idle" /\ run < MaxRuns
  /\ b \in Backends
  /\ run' = run + 1 /\ backend' = b
  /\ before' = IF b = "opencode" THEN Exist \ Hidden ELSE {}
  /\ stage' = "coding"
  /\ touched' = {} /\ wrote' = {} /\ reported' = {} /\ shown' = Nothing
  /\ UNCHANGED <<root, disk, guardVars, orphans, disturbed>>

\* The run has come to nothing; what it wrote stays.
Fails == stage' = "idle" /\ reported' = {} /\ shown' = Nothing

-----------------------------------------------------------------------------
(* OpenCode.                                                               *)

OpenCodeWrites(f) ==
  /\ stage = "coding" /\ backend = "opencode"
  /\ Put({f}, run, FALSE)
  /\ wrote' = wrote \cup {f}
  /\ UNCHANGED <<stage, runVars, foundVars, guardVars, orphans>>

\* Killed is the shell; the process it started may go on.
OpenCodeTimesOut ==
  /\ stage = "coding" /\ backend = "opencode"
  /\ Fails
  /\ orphans' \in {orphans, orphans \cup {run}}
  /\ UNCHANGED <<fileVars, runVars, guardVars>>

OrphanWrites(r, f) ==
  /\ Put({f}, r, FALSE)
  /\ UNCHANGED <<wrote, stage, runVars, foundVars, guardVars, orphans>>

OrphanExits(r) ==
  /\ orphans' = orphans \ {r}
  /\ UNCHANGED <<fileVars, stage, runVars, foundVars, guardVars>>

\* Mutant of Discovered: files that were there before are not looked at.
DiscoveredNew == (Exist \ Hidden) \ before

Discovered == {f \in Exist \ Hidden : f \notin before \/ f \in touched}
AsFound(f) == <<f, IF root = "resolved" THEN "resolved" ELSE "given">>

\* An exit code other than 0 counts only if no file was found.
OpenCodeExits ==
  /\ stage = "coding" /\ backend = "opencode"
  /\ reported' = {AsFound(f) : f \in Discovered}
  /\ stage' = "delivered"
  /\ UNCHANGED <<fileVars, runVars, shown, guardVars, orphans>>

OpenCodeFails ==
  /\ stage = "coding" /\ backend = "opencode"
  /\ Discovered = {}
  /\ Fails
  /\ UNCHANGED <<fileVars, runVars, guardVars, orphans>>

\* The output, or one of its files, is the judge's form for coaching replies.
TemplateEcho ==
  /\ stage = "coding" /\ backend = "opencode"
  /\ Fails
  /\ UNCHANGED <<fileVars, runVars, guardVars, orphans>>

-----------------------------------------------------------------------------
(* PI.                                                                     *)

\* The strings PI may use for a file: relative to the root, absolute without
\* links, absolute through the link it was given.
Spellings == {"relative", "resolved"} \cup IF root \in {"linked", "none"} THEN {"given"} ELSE {}

\* Without a project_root there is no sandbox: the string is taken as it is.
SafePath(f, s) == <<f, IF root = "none" THEN s ELSE "resolved">>

MayWrite(f, s) == <<f, s>> \notin Blocked /\ {SafePath(f, s), <<f, s>>} \cap guarded = {}

\* A write counts as made whether or not file_write succeeds.
Carry(S, s) ==
  /\ stage = "coding" /\ backend = "pi"
  /\ \E T \in SUBSET S : Put(T, run, TRUE) /\ wrote' = wrote \cup T
  /\ reported' = reported \cup {SafePath(f, s) : f \in S}
  /\ UNCHANGED <<stage, runVars, shown, guardVars, orphans>>

\* An event for one write, in the current or in the older form.
WriteEvent(f, s) == MayWrite(f, s) /\ Carry({f}, s)

\* Mutant of AgentEnd: files of earlier runs are not looked up.
AgentEndUnguarded(S, s) == S # {} /\ Carry({f \in S : <<f, s>> \notin Blocked}, s)

\* The last event repeats the writes of the messages; one with several
\* spellings is as good as several.
AgentEnd(S, s) == S # {} /\ Carry({f \in S : MayWrite(f, s)}, s)

PiExits ==
  /\ stage = "coding" /\ backend = "pi"
  /\ stage' = "delivered"
  /\ UNCHANGED <<fileVars, runVars, foundVars, guardVars, orphans>>

\* The deadline, an exit code, or neither text nor file.
PiFails ==
  /\ stage = "coding" /\ backend = "pi"
  /\ Fails
  /\ UNCHANGED <<fileVars, runVars, guardVars, orphans>>

-----------------------------------------------------------------------------
(* HTTP.  Nothing keeps a tool call from a file, and nobody reads its      *)
(* result.                                                                 *)

HttpAnswers(S) ==
  /\ stage = "coding" /\ backend = "http"
  /\ \E T \in SUBSET S : Put(T, run, FALSE) /\ wrote' = wrote \cup T
  /\ stage' = "delivered"
  /\ UNCHANGED <<runVars, foundVars, guardVars, orphans>>

HttpFails ==
  /\ stage = "coding" /\ backend = "http"
  /\ Fails
  /\ UNCHANGED <<fileVars, runVars, guardVars, orphans>>

-----------------------------------------------------------------------------
(* The loop.                                                               *)

Readable(f) == f \in Exist \ Unreadable

ReadBack ==
  /\ stage = "delivered"
  /\ shown' = [f \in {g \in Named(reported) : Readable(g)} |-> disk[f]]
  /\ stage' = "judging"
  /\ UNCHANGED <<fileVars, runVars, reported, guardVars, orphans>>

\* The audit found errors, or the judge did not accept.
Reject ==
  /\ stage = "judging"
  /\ Fails
  /\ UNCHANGED <<fileVars, runVars, guardVars, orphans>>

Accept ==
  /\ stage = "judging"
  /\ guarded' = guarded \cup {x \in reported : x[1] \in Exist}
  /\ approved' = [f \in Files |->
       CASE f \in DOMAIN shown -> shown[f]
         [] f \in (Named(reported) \cap Exist) \ DOMAIN shown -> disk[f]
         [] OTHER -> approved[f]]
  /\ disturbed' = disturbed \ {f \in Named(reported) : disk[f] = approved'[f]}
  /\ stage' = "accepted"
  /\ UNCHANGED <<disk, touched, wrote, runVars, foundVars, orphans>>

\* The files of the run are released for its next attempt.
VerifyFails ==
  /\ stage = "accepted"
  /\ guarded' = {x \in guarded : x[1] \notin UNION {Clears[f] : f \in DOMAIN shown}}
  /\ Fails
  /\ UNCHANGED <<fileVars, runVars, approved, orphans>>

Return ==
  /\ stage = "accepted" \/ (stage = "idle" /\ run = MaxRuns)
  /\ stage' = "over"
  /\ UNCHANGED <<fileVars, runVars, foundVars, guardVars, orphans>>

OpenCodeStep ==
  \/ \E f \in Files : OpenCodeWrites(f)
  \/ OpenCodeTimesOut \/ OpenCodeExits \/ OpenCodeFails \/ TemplateEcho
OrphanStep == \E r \in orphans : OrphanExits(r) \/ \E f \in Files : OrphanWrites(r, f)
PiStep ==
  \/ \E f \in Files, s \in Spellings : WriteEvent(f, s)
  \/ \E S \in SUBSET Files, s \in Spellings : AgentEnd(S, s)
  \/ PiExits \/ PiFails
HttpStep == (\E S \in SUBSET Files : HttpAnswers(S)) \/ HttpFails
LoopStep == (\E b \in Backends : Start(b)) \/ ReadBack \/ Reject \/ Accept \/ VerifyFails \/ Return
Over == stage = "over" /\ UNCHANGED filesVars

FilesNext == OpenCodeStep \/ OrphanStep \/ PiStep \/ HttpStep \/ LoopStep \/ Over

FilesSpec == FilesInit /\ [][FilesNext]_filesVars

-----------------------------------------------------------------------------
(* The type of every variable.                                             *)
FilesTypeOK ==
  /\ disk \in [Files -> -1..MaxRuns] /\ run \in 0..MaxRuns
  /\ stage \in {"idle", "coding", "delivered", "judging", "accepted", "over"}
  /\ backend \in Backends \cup {"none"}
  /\ before \subseteq Files /\ touched \subseteq Files /\ wrote \subseteq Files
  /\ root \in Roots
  /\ reported \cup guarded \subseteq Files \X {"relative", "resolved", "given"}
  /\ DOMAIN shown \subseteq Named(reported) /\ orphans \subseteq 1..MaxRuns
  /\ approved \in [Files -> -1..MaxRuns] /\ disturbed \subseteq Files

(* "Only judge-verified files enter the set" (orchestrator.py:2530), and   *)
(* "resolved paths from accumulated_files are guarded against" (:770): a   *)
(* file of the set holds what the judge accepted, or what it held then if  *)
(* it is no text, through later runs of PI in each of its forms of events, *)
(* unless a tier that asks nobody -- OpenCode, its orphans, HTTP -- wrote  *)
(* it since.  That holds of all files under a project_root without links,  *)
(* and of the files PI wrote itself under any other.  What OpenCode wrote  *)
(* under a relative or linked root, PI may overwrite: the set has it in    *)
(* another spelling than the guard looks for.                              *)
Recognised(x) == root = "resolved" \/ (root # "none" /\ x[2] = "resolved")
GuardedAsJudged ==
  \A x \in guarded : Recognised(x) => disk[x[1]] = approved[x[1]] \/ x[1] \in disturbed

(* Whatever an OpenCode run wrote is found when it ends well, new or not,  *)
(* and shown to the judge if it is text, unless it is below .git.          *)
NothingUnseen ==
  backend = "opencode" =>
    /\ stage \in {"delivered", "judging"} => wrote \subseteq Named(reported) \cup Hidden
    /\ stage = "judging" => wrote \subseteq DOMAIN shown \cup Unreadable \cup Hidden

\* What was written and what was accepted, accounted for together.
FilesAccounted == NothingUnseen /\ GuardedAsJudged

=============================================================================
