---------------------------- MODULE Configuration ----------------------------
(***************************************************************************)
(* ~/.mrkrabs/config.yaml while tasks run: the process-wide cache of       *)
(* get_config (src/core/config_loader.py), the fresh reading of the        *)
(* orchestrator's constructor, and the chain of tiers that consults both.  *)
(* Every task has an orchestrator of its own.  The file may be edited at   *)
(* any time; tasks that run keep what they were built with.                *)
(***************************************************************************)
EXTENDS Integers, Sequences, FiniteSets, Functions

CONSTANTS
  Runs,      \* tasks
  Chain,     \* the tiers asked for, in normalized spelling
  Contents,  \* what the file may hold
  JudgeKey,  \* judge_model
  Fallback,  \* tier -> the action get_tier_failure_action derives from its number
  MaxEdits   \* bound: edits of the file

\* A chain has a tier, and every tier a number to derive an action from.
ASSUME ConfigAssumption ==
  Chain \in Seq(DOMAIN Fallback) /\ Len(Chain) > 0 /\ MaxEdits \in Nat

\* A content: yaml ("fine", "missing", "broken"), providers, the providers with
\* an API key (keyed), models (key -> entry), tiers named by workflows, actions
\* (tier -> string), coders (tier -> "opencode" or "pi"), whether the sections
\* of the coders are mappings, and whether verification is enabled.  An entry
\* has a form ("mapping", "scalar", "bad_number"), a provider and roles.
NoContent ==
  [yaml |-> "missing", providers |-> {}, keyed |-> {}, models |-> <<>>, workflow |-> {},
   actions |-> <<>>, coders |-> <<>>, mappings |-> TRUE, verify |-> FALSE]

VARIABLES
  file,    \* on disk
  edits,
  cache,   \* _config_cache, or NoContent
  step,    \* task -> where it stands
  read,    \* task -> what load_config returned to its get_config
  table,   \* task -> _tiers of its ProviderRouter
  own,     \* task -> what its constructor kept of the fresh reading
  tierNo,  \* task -> index in Chain
  ended,   \* task -> how it ended
  overlap  \* history: two first readings overlapped and an edit came between

configVars == <<file, edits, cache, step, read, table, own, tierNo, ended, overlap>>

NothingKept == [coders |-> <<>>, verify |-> FALSE, protected |-> FALSE]

ConfigInit ==
  /\ file \in Contents /\ edits = 0
  /\ cache = NoContent
  /\ step = [t \in Runs |-> "new"]
  /\ read = [t \in Runs |-> NoContent]
  /\ table = [t \in Runs |-> NoContent]
  /\ own = [t \in Runs |-> NothingKept]
  /\ tierNo = [t \in Runs |-> 1]
  /\ ended = [t \in Runs |-> "not"]
  /\ overlap = FALSE

-----------------------------------------------------------------------------
(* Reading a content.                                                      *)

\* An entry that is no mapping is passed over without a word.
Models(c) == {k \in DOMAIN c.models : c.models[k].form # "scalar"}

IsPrincipal(m) == "principal" \in Range(m.roles)

\* load_config returns; otherwise it raises.
Loads(c) ==
  /\ c.yaml = "fine"
  /\ \A k \in Models(c) :
       /\ c.models[k].form = "mapping"
       /\ c.models[k].provider \in c.providers \cup {""} \/ IsPrincipal(c.models[k])
  /\ c.workflow \subseteq Models(c) \cup {"principal"}

\* In the table of legacy_models a model has the first of its roles.
Role(m) == IF m.roles = <<>> THEN "coder" ELSE m.roles[1]
HandsOver(c, k) == k \in Models(c) /\ Role(c.models[k]) = "principal"

\* Adapters go by the provider's name, not by its type.
NamedProviders == {"openrouter", "lmstudio", "litellm", "anthropic", "vertex"}
HasAdapter(c, k) ==
  k \in Models(c) /\ ~HandsOver(c, k) /\ c.models[k].provider \in NamedProviders

\* The judge sends nothing without an API key.
JudgeAnswers(c) == JudgeKey \in Models(c) /\ c.models[JudgeKey].provider \in c.keyed

\* A configured "log_only" gives way to the default of the tier's number.
FailureAction(c, k) ==
  IF k \in DOMAIN c.actions /\ c.actions[k] # "log_only" THEN c.actions[k] ELSE Fallback[k]

-----------------------------------------------------------------------------
(* Construction: the router's table, then the orchestrator's own reading.  *)

Go(t, s) == step' = [step EXCEPT ![t] = s]
Ends(t, how) == Go(t, "ended") /\ ended' = [ended EXCEPT ![t] = how]

Edit ==
  /\ edits < MaxEdits
  /\ edits' = edits + 1
  /\ file' \in Contents \ {file}
  /\ UNCHANGED <<cache, step, read, table, own, tierNo, ended, overlap>>

UseCache(t) ==
  /\ step[t] = "new" /\ cache # NoContent
  /\ table' = [table EXCEPT ![t] = cache]
  /\ Go(t, "constructed")
  /\ UNCHANGED <<file, edits, cache, read, own, tierNo, ended, overlap>>

\* Nothing is cached: the next task tries again.
LoadRaises(t) ==
  /\ step[t] = "new" /\ cache = NoContent /\ ~Loads(file)
  /\ Ends(t, "raised")
  /\ UNCHANGED <<file, edits, cache, read, table, own, tierNo, overlap>>

Load(t) ==
  /\ step[t] = "new" /\ cache = NoContent /\ Loads(file)
  /\ read' = [read EXCEPT ![t] = file]
  /\ overlap' = (overlap \/ \E u \in Runs : step[u] = "storing" /\ read[u] # file)
  /\ Go(t, "storing")
  /\ UNCHANGED <<file, edits, cache, table, own, tierNo, ended>>

Store(t) ==
  /\ step[t] = "storing"
  /\ cache' = read[t]
  /\ table' = [table EXCEPT ![t] = read[t]]
  /\ read' = [read EXCEPT ![t] = NoContent]
  /\ Go(t, "constructed")
  /\ UNCHANGED <<file, edits, own, tierNo, ended, overlap>>

\* Mutant of Kept: only what comes after the sections of the coders is cleared.
KeptPartly(c) ==
  IF Loads(c) THEN [coders |-> c.coders, verify |-> c.verify, protected |-> c.mappings]
  ELSE NothingKept

\* What fails in any section clears them all, the protected files too.
Kept(c) ==
  IF Loads(c) /\ c.mappings THEN [coders |-> c.coders, verify |-> c.verify, protected |-> TRUE]
  ELSE NothingKept

ReadFresh(t) ==
  /\ step[t] = "constructed"
  /\ own' = [own EXCEPT ![t] = Kept(file)]
  /\ Go(t, "tier")
  /\ UNCHANGED <<file, edits, cache, read, table, tierNo, ended, overlap>>

-----------------------------------------------------------------------------
(* The chain of tiers, without what EscalationLoop models of it.           *)

Tier(t) == Chain[tierNo[t]]

HandOver(t) ==
  /\ step[t] = "tier" /\ HandsOver(cache, Tier(t))
  /\ Ends(t, "handed_over")
  /\ UNCHANGED <<file, edits, cache, read, table, own, tierNo, overlap>>

Backend(t) ==
  CASE Tier(t) \in DOMAIN own[t].coders -> own[t].coders[Tier(t)]
    [] Tier(t) \notin DOMAIN own[t].coders /\ HasAdapter(table[t], Tier(t)) -> "http"
    [] OTHER -> "none"

StartTier(t) ==
  /\ step[t] = "tier" /\ ~HandsOver(cache, Tier(t))
  /\ Go(t, "coding")
  /\ UNCHANGED <<file, edits, cache, read, table, own, tierNo, ended, overlap>>

Deliver(t) ==
  /\ step[t] = "coding" /\ Backend(t) # "none"
  /\ Go(t, "judging")
  /\ UNCHANGED <<file, edits, cache, read, table, own, tierNo, ended, overlap>>

JudgeAccepts(t) ==
  /\ step[t] = "judging" /\ JudgeAnswers(cache)
  /\ Ends(t, IF own[t].verify THEN "verified" ELSE "accepted")
  /\ UNCHANGED <<file, edits, cache, read, table, own, tierNo, overlap>>

\* A tier that ran out of attempts, for whatever reason; three that failed
\* alike hand over as well.  An action nobody knows raises.
TierFails(t) ==
  /\ step[t] \in {"coding", "judging"}
  /\ LET act == FailureAction(cache, Tier(t))
         last == tierNo[t] = Len(Chain)
     IN  \/ /\ act \in {"log_only", "notify_and_escalate", "notify_and_wait"} /\ ~last
            /\ tierNo' = [tierNo EXCEPT ![t] = @ + 1]
            /\ Go(t, "tier")
            /\ UNCHANGED ended
         \/ /\ act \in {"log_only", "notify_and_escalate", "notify_and_wait"} /\ last
            /\ Ends(t, "failed")
            /\ UNCHANGED tierNo
         \/ act = "notify_and_wait" /\ Ends(t, "denied") /\ UNCHANGED tierNo
         \/ tierNo[t] >= 3 /\ Ends(t, "handed_over") /\ UNCHANGED tierNo
         \/ /\ act \notin {"log_only", "notify_and_escalate", "notify_and_wait"}
            /\ Ends(t, "raised")
            /\ UNCHANGED tierNo
  /\ UNCHANGED <<file, edits, cache, read, table, own, overlap>>

ConstructStep(t) == UseCache(t) \/ LoadRaises(t) \/ Load(t) \/ Store(t) \/ ReadFresh(t)
ChainStep(t) == HandOver(t) \/ StartTier(t) \/ Deliver(t) \/ JudgeAccepts(t) \/ TierFails(t)
RunsOver == (\A t \in Runs : step[t] = "ended") /\ UNCHANGED configVars

ConfigNext == Edit \/ (\E t \in Runs : ConstructStep(t) \/ ChainStep(t)) \/ RunsOver

ConfigSpec == ConfigInit /\ [][ConfigNext]_configVars

-----------------------------------------------------------------------------
Steps == {"new", "storing", "constructed", "tier", "coding", "judging", "ended"}

(* The type of every variable; what is cached was read without an error.   *)
ConfigTypeOK ==
  /\ file \in Contents /\ edits \in 0..MaxEdits
  /\ cache # NoContent => Loads(cache)
  /\ step \in [Runs -> Steps] /\ tierNo \in [Runs -> 1..Len(Chain)]
  /\ \A t \in Runs : step[t] \notin {"new", "storing", "ended"} => table[t] # NoContent
  /\ ended \in [Runs -> {"not", "raised", "handed_over", "verified", "accepted", "denied", "failed"}]

(* The patterns of protected files are lost when a constructor cannot read *)
(* the file (orchestrator.py:351).  They are consulted for the writes of   *)
(* PI only (:917, :978, :1020): OpenCode runs with                         *)
(* --dangerously-skip-permissions (:1274), patterns or not.  A tier runs   *)
(* PI only if its patterns were read, whatever the table of models still   *)
(* says of it.                                                             *)
PiProtected ==
  \A t \in Runs : step[t] \in {"coding", "judging"} /\ Backend(t) = "pi" => own[t].protected

(* A task calls the models of the table everybody consults, however often  *)
(* the file was edited since: tasks see two tables only if their first     *)
(* readings overlapped an edit.                                            *)
OneTable == \A t \in Runs : table[t] # NoContent => table[t] = cache \/ overlap

(* Together: no run of PI without protected files, and one table for       *)
(* everybody, whatever is done to the file meanwhile.                      *)
ConfigurationKept == PiProtected /\ OneTable

(* "Judge scoring will be less calibrated than a cloud reasoning model --  *)
(* expect more false accepts" (docs/MODEL_CONFIG.md line 139, of a file    *)
(* whose judge needs no key): an output that was delivered can be judged.  *)
DeliveredIsJudged ==
  \A t \in Runs : step[t] = "judging" => JudgeAnswers(cache)
=============================================================================
