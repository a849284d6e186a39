--------------------------- MODULE SelfImprovement ---------------------------
(***************************************************************************)
(* The loop from a run's debug dumps to the model profiles: the            *)
(* PromptFlowLogger of an orchestrator (src/core/prompt_flow_logger.py)    *)
(* writes what its coders sent, and at the end of a task the SelfImprover  *)
(* (self_improver.py) takes phrases of rejected verdicts from all the      *)
(* dumps there are and rewrites model_profiles.py.  The orchestrators of a *)
(* pool do so at the same time; nothing locks either directory or file,    *)
(* and a process may die between the two halves of write_text.  A          *)
(* developer adds entries to the profiles by hand, at the end of the file. *)
(***************************************************************************)
EXTENDS Integers, Sequences, FiniteSets, FiniteSetsExt

CONSTANTS
  Orchestrators,
  TaskOf,          \* orchestrator -> task id: the directory of its dumps
  Levels,          \* tiers a file name may show; any other is "unknown"
  Dumps,           \* what a dump may hold: [level, score, phrases], score -1 for no verdict
  Passing,         \* the score of 0.7
  MinOccurrences,  \* MIN_OCCURRENCES
  MinPercent,      \* MIN_FREQUENCY
  MaxPatterns,     \* MAX_DISCOVERED_PATTERNS
  Enabled,         \* MRKRABS_PROMPT_FLOW_DEBUG=1 for a process: a set of its values
  MaxDumps         \* bound: dumps of an orchestrator

ASSUME ImproveAssumption ==
  /\ Dumps \subseteq [level : STRING, score : Int, phrases : Seq(STRING)]
  /\ Enabled \subseteq BOOLEAN
  /\ MaxPatterns \in Nat \ {0} /\ MaxDumps \in Nat

VARIABLES
  dumped,    \* <<task id, sequence number>> -> dump, for the files there are
  logger,    \* orchestrator -> [seq, enabled]
  duty,      \* orchestrator -> "task", "reading", "writing", "rewriting" or "over"
  learned,   \* orchestrator -> level -> phrases still to be injected
  kept,      \* orchestrator -> the part of the profiles it read that it will write back
  profiles,  \* model_profiles.py, nothing at all while it is rewritten: whether it has the
             \* entries written by hand before the generated section (manual), the section
             \* (auto), whether there are others behind it (after)
  collided,  \* history: somebody read the profiles while they were rewritten
  torn       \* history: somebody died while it rewrote them

improveVars == <<dumped, logger, duty, learned, kept, profiles, collided, torn>>

NoProfiles == [manual |-> FALSE, auto |-> {}, after |-> FALSE]
Nobody == [n \in {} |-> 0]

ImproveInit ==
  /\ dumped = Nobody
  /\ \E on \in Enabled : logger = [o \in Orchestrators |-> [seq |-> 0, enabled |-> on]]
  /\ duty = [o \in Orchestrators |-> "task"]
  /\ learned = [o \in Orchestrators |-> Nobody]
  /\ kept = [o \in Orchestrators |-> NoProfiles]
  /\ profiles = [manual |-> TRUE, auto |-> {}, after |-> FALSE]
  /\ collided = FALSE /\ torn = FALSE

-----------------------------------------------------------------------------
(* A task and its dumps.                                                   *)

\* A coder process has ended, well or not.  An orchestrator numbers its dumps
\* from one: those of an earlier one with the same task id are overwritten.
Log(o) ==
  /\ duty[o] = "task" /\ logger[o].enabled /\ logger[o].seq < MaxDumps
  /\ logger' = [logger EXCEPT ![o].seq = @ + 1]
  /\ \E d \in Dumps :
       dumped' = [k \in DOMAIN dumped \cup {<<TaskOf[o], logger[o].seq + 1>>} |->
                    IF k = <<TaskOf[o], logger[o].seq + 1>> THEN d ELSE dumped[k]]
  /\ UNCHANGED <<duty, learned, kept, profiles, collided, torn>>

\* A verdict below the threshold switches the dumps on.
SwitchOn(o) ==
  /\ duty[o] = "task" /\ ~logger[o].enabled
  /\ logger' = [logger EXCEPT ![o].enabled = TRUE]
  /\ UNCHANGED <<dumped, duty, learned, kept, profiles, collided, torn>>

-----------------------------------------------------------------------------
(* What the dumps teach.                                                   *)

\* A dump with a score is a verdict, whoever wrote it.
Rejected(v) == {k \in DOMAIN dumped : dumped[k].level = v
                                      /\ dumped[k].score >= 0 /\ dumped[k].score < Passing}

Occurrences(v, p) ==
  FoldSet(LAMBDA k, n : n + Cardinality({i \in DOMAIN dumped[k].phrases :
                                                         dumped[k].phrases[i] = p}),
                        0, Rejected(v))

Phrases(v) == UNION {{dumped[k].phrases[i] : i \in DOMAIN dumped[k].phrases} : k \in Rejected(v)}

Significant(v) ==
  {p \in Phrases(v) : /\ Occurrences(v, p) >= MinOccurrences
                      /\ Occurrences(v, p) * 100 >= MinPercent * Cardinality(Rejected(v))}

\* The most frequent ones; of equally frequent ones, those found first.
Selections(v) ==
  {S \in SUBSET Significant(v) :
     /\ Cardinality(S) = Min({MaxPatterns, Cardinality(Significant(v))})
     /\ \A p \in S, q \in Significant(v) \ S : Occurrences(v, p) >= Occurrences(v, q)}

\* The task has ended: accepted, handed over or out of tiers.
Improve(o) ==
  /\ duty[o] = "task"
  /\ LET taught == {v \in Levels \cup {"unknown"} : Significant(v) # {}}
     IN  \E L \in [taught -> SUBSET UNION {Phrases(v) : v \in taught}] :
           /\ \A v \in taught : L[v] \in Selections(v)
           /\ learned' = [learned EXCEPT ![o] = L]
           /\ duty' = [duty EXCEPT ![o] = IF taught = {} THEN "over" ELSE "reading"]
  /\ UNCHANGED <<dumped, logger, kept, profiles, collided, torn>>

-----------------------------------------------------------------------------
(* The profiles, rewritten once for each level.                            *)

\* Mutant of WithoutAuto: what comes after the marker is kept, not what comes
\* before it.
WithoutAutoAfter(content) ==
  IF content.auto = {} THEN content ELSE [content EXCEPT !.manual = FALSE]

\* From the marker of the section to the end of the file.
WithoutAuto(content) ==
  IF content.auto = {} THEN content ELSE [NoProfiles EXCEPT !.manual = content.manual]

ReadProfiles(o) ==
  /\ duty[o] = "reading"
  /\ kept' = [kept EXCEPT ![o] = WithoutAuto(profiles)]
  /\ collided' = (collided \/ \E u \in Orchestrators : duty[u] = "rewriting")
  /\ duty' = [duty EXCEPT ![o] = "writing"]
  /\ UNCHANGED <<dumped, logger, learned, profiles, torn>>

Truncate(o) ==
  /\ duty[o] = "writing"
  /\ profiles' = NoProfiles
  /\ duty' = [duty EXCEPT ![o] = "rewriting"]
  /\ UNCHANGED <<dumped, logger, learned, kept, collided, torn>>

\* Dying elsewhere is like going no further.
DieTorn(o) ==
  /\ duty[o] = "rewriting"
  /\ duty' = [duty EXCEPT ![o] = "over"]
  /\ learned' = [learned EXCEPT ![o] = Nobody]
  /\ kept' = [kept EXCEPT ![o] = NoProfiles]
  /\ torn' = TRUE
  /\ UNCHANGED <<dumped, logger, profiles, collided>>

\* The section of the level before is in what was read, and is replaced.
Rewrite(o) ==
  /\ duty[o] = "rewriting"
  /\ \E v \in DOMAIN learned[o] :
       /\ profiles' = [kept[o] EXCEPT !.auto = {[level |-> v, phrase |-> p] : p \in learned[o][v]}]
       /\ learned' = [learned EXCEPT ![o] = [w \in DOMAIN @ \ {v} |-> @[w]]]
       /\ duty' = [duty EXCEPT ![o] = IF DOMAIN learned[o] = {v} THEN "over" ELSE "reading"]
  /\ kept' = [kept EXCEPT ![o] = NoProfiles]
  /\ UNCHANGED <<dumped, logger, collided, torn>>

\* A developer finds the section at the end of the file and goes on behind it.
WriteByHand ==
  /\ profiles.auto # {} /\ ~profiles.after
  /\ profiles' = [profiles EXCEPT !.after = TRUE]
  /\ UNCHANGED <<dumped, logger, duty, learned, kept, collided, torn>>

ImproveStep(o) ==
  \/ Log(o) \/ SwitchOn(o) \/ Improve(o)
  \/ ReadProfiles(o) \/ Truncate(o) \/ Rewrite(o) \/ DieTorn(o)
Improved == (\A o \in Orchestrators : duty[o] = "over") /\ UNCHANGED improveVars

ImproveNext == (\E o \in Orchestrators : ImproveStep(o)) \/ WriteByHand \/ Improved

ImproveSpec == ImproveInit /\ [][ImproveNext]_improveVars

-----------------------------------------------------------------------------
(* The type of every variable; only a logger that is on has dumped.        *)
ImproveTypeOK ==
  /\ \A o \in Orchestrators :
       logger[o].seq \in 0..MaxDumps /\ (logger[o].seq > 0 => logger[o].enabled)
  /\ duty \in [Orchestrators -> {"task", "reading", "writing", "rewriting", "over"}]
  /\ \A k \in DOMAIN dumped : dumped[k] \in Dumps
  /\ \A o \in Orchestrators : duty[o] # "task" /\ duty[o] # "over" => DOMAIN learned[o] # {}
  /\ Cardinality({x.level : x \in profiles.auto}) <= 1
  /\ Cardinality(profiles.auto) <= MaxPatterns

Quiet == \A o \in Orchestrators : duty[o] # "rewriting"

(* "Existing manual entries are never modified" (self_improver.py:268).    *)
(* Those before the generated section survive any number of improvers and  *)
(* rewrites, unless one of them read the file while another was rewriting  *)
(* it, or died while it did.  Nothing of the kind is true of entries       *)
(* written behind the section: the next rewriting cuts the file at the     *)
(* marker.                                                                 *)
LostByAccidentOnly == Quiet /\ ~profiles.manual => collided \/ torn

=============================================================================
