------------------------------ MODULE MultiPass ------------------------------
(***************************************************************************)
(* A task that names several files: Orchestrator.execute_with_judge sizes  *)
(* passes from the context window of the first tier (token_budget.py),     *)
(* splits the file references (task_splitter.py) and runs one child call   *)
(* of execute_with_judge per pass (_execute_multi_pass), re-splitting what *)
(* is left when a child reports truncation.  A child is its coder runs:    *)
(* each writes files through the overwrite guard and is lost, rejected,    *)
(* sent back by the verifier or accepted.                                  *)
(***************************************************************************)
EXTENDS Integers, Sequences, FiniteSets, SequencesExt

CONSTANTS
  Refs,        \* extract_file_refs of the task: a sequence of distinct files
  Dir,         \* file -> everything before its name
  OutTokens,   \* file -> estimate_file_output_tokens
  Windows,     \* what query_context_window may answer; 0 is None
  InputTokens, \* tokens of spec, prompts, rules and overhead
  PlanFirst,   \* the argument plan_first
  Backend,     \* the coder behind the tiers: "pi" or "opencode"
  ProjectRoot, \* project_root is given
  MaxRuns      \* bound: coder runs of one child that are not its last

Files == Range(Refs)
Ceiling == 50
Floor == 2

ASSUME RefsAssumption ==
  /\ Refs \in Seq(Files) /\ IsInjective(Refs) /\ Len(Refs) > 1
  /\ OutTokens \in [Files -> Nat]
  /\ Windows \subseteq Nat /\ InputTokens \in Nat
  /\ PlanFirst \in BOOLEAN /\ MaxRuns \in Nat
  /\ Backend \in {"pi", "opencode"} /\ ProjectRoot \in BOOLEAN

Larger(a, b) == IF a >= b THEN a ELSE b
Smaller(a, b) == IF a <= b THEN a ELSE b

-----------------------------------------------------------------------------
(* Sizing and splitting.                                                   *)

\* The pieces one after the other, and a sequence without some of its elements.
Joined(pieces) ==
  LET upTo[i \in 0..Len(pieces)] == IF i = 0 THEN <<>> ELSE upTo[i - 1] \o pieces[i]
  IN  upTo[Len(pieces)]
Without(s, T) == Joined([i \in DOMAIN s |-> IF s[i] \in T THEN <<>> ELSE <<s[i]>>])

\* calculate_pass_capacity: 60% of what the input leaves, over the average
\* output of a file, between the floor and the ceiling.
AverageOutput ==
  LET sum[i \in 0..Len(Refs)] == IF i = 0 THEN 0 ELSE sum[i - 1] + OutTokens[Refs[i]]
  IN  Larger(1, sum[Len(Refs)] \div Len(Refs))
PassCapacity(window) ==
  LET available == ((window - InputTokens) * 6) \div 10
  IN  IF available <= 0 THEN Floor
      ELSE Larger(Floor, Smaller(Larger(1, available \div AverageOutput), Ceiling))

\* group_by_directory: largest groups first, else in order of appearance.
Dirs(refs) == {Dir[f] : f \in Range(refs)}
Group(refs, d) == Without(refs, {f \in Range(refs) : Dir[f] # d})
FirstOf(refs, d) == CHOOSE i \in DOMAIN refs : Dir[refs[i]] = d /\ \A j \in 1..(i - 1) : Dir[refs[j]] # d
Ahead(refs, d) ==
  {c \in Dirs(refs) :
     \/ Len(Group(refs, c)) > Len(Group(refs, d))
     \/ Len(Group(refs, c)) = Len(Group(refs, d)) /\ FirstOf(refs, c) < FirstOf(refs, d)}
GroupByDirectory(refs) ==
  LET Nth(k) == CHOOSE d \in Dirs(refs) : Cardinality(Ahead(refs, d)) = k - 1
  IN  [k \in 1..Cardinality(Dirs(refs)) |-> Group(refs, Nth(k))]

Slices(s, n) == [i \in 1..((Len(s) + n - 1) \div n) |-> SubSeq(s, (i - 1) * n + 1, Smaller(i * n, Len(s)))]
Flush(packed) == IF packed.open = <<>> THEN packed.full ELSE Append(packed.full, packed.open)

Pack(packed, group, n) ==
  IF Len(packed.open) + Len(group) <= n THEN [packed EXCEPT !.open = @ \o group]
  ELSE IF Len(group) > n THEN [full |-> Flush(packed) \o Slices(group, n), open |-> <<>>]
  ELSE [full |-> Flush(packed), open |-> group]

Packed(groups, n) ==
  LET packed[i \in 0..Len(groups)] ==
        IF i = 0 THEN [full |-> <<>>, open |-> <<>>] ELSE Pack(packed[i - 1], groups[i], n)
  IN  packed[Len(groups)]

SplitIntoPasses(refs, n) ==
  IF Len(refs) <= n THEN <<refs>> ELSE Flush(Packed(GroupByDirectory(refs), n))

-----------------------------------------------------------------------------
VARIABLES
  pc,         \* start, pass, child, done
  passes,     \* passes: [files, num]
  index,      \* pass_idx, from 1
  limit,      \* the limit of the last split
  known,      \* accumulated_files of _execute_multi_pass, a set of names
  guarded,    \* accumulated_files of the child: what its PI runs may not write
  runs,       \* coder runs of this child that were not its last
  succeeded,  \* history: files of the passes whose child succeeded
  overwrote,  \* history: a file an earlier pass delivered was written again
  outcome     \* how the task ended

passVars  == <<passes, index, limit, known>>
childVars == <<guarded, runs>>
vars == <<pc, passVars, childVars, succeeded, overwrote, outcome>>

Init ==
  /\ pc = "start" /\ outcome = "none"
  /\ passes = <<>> /\ index = 1 /\ limit = 0 /\ known = {}
  /\ guarded = {} /\ runs = 0
  /\ succeeded = {} /\ overwrote = FALSE

\* The name a coder's file is reported under, and the one the task uses:
\* OpenCode's files are found by walking the root, PI's resolved against it.
Rooted == Backend = "opencode" \/ ProjectRoot
Name(f) == [file |-> f, rooted |-> Rooted]
RefName(f) == [file |-> f, rooted |-> FALSE]

End(o) == pc' = "done" /\ outcome' = o
ChildEnds == guarded' = {} /\ runs' = 0

-----------------------------------------------------------------------------
(* Deciding on passes.                                                     *)

\* The server of the first tier says nothing of its context window.
QueryFails == 0 \in Windows

WindowUnknown ==
  /\ pc = "start"
  /\ QueryFails
  /\ End("principal")
  /\ UNCHANGED <<passVars, childVars, succeeded, overwrote>>

SplitTask ==
  /\ pc = "start"
  /\ \E window \in Windows \ {0} :
       LET n == PassCapacity(window)
           split == SplitIntoPasses(Refs, n)
       IN  IF Len(Refs) > n \/ PlanFirst
           THEN /\ limit' = n
                /\ passes' = [i \in DOMAIN split |-> [files |-> split[i], num |-> i]]
                /\ pc' = "pass"
                /\ UNCHANGED outcome
           ELSE End("single") /\ UNCHANGED <<limit, passes>>
  /\ UNCHANGED <<index, known, childVars, succeeded, overwrote>>

-----------------------------------------------------------------------------
(* A child call.                                                           *)

StartChild ==
  /\ pc = "pass"
  /\ index <= Len(passes)
  /\ pc' = "child"
  /\ UNCHANGED <<passVars, childVars, succeeded, overwrote, outcome>>

\* Writes of PI to guarded files are skipped; OpenCode writes by itself.
PiWrites(S) == S \subseteq Files \ guarded
OpenCodeWrites(S) == S \subseteq Files
CoderWrites(S) ==
  /\ pc = "child"
  /\ IF Backend = "pi" THEN PiWrites(S) ELSE OpenCodeWrites(S)
  /\ overwrote' = (overwrote \/ \E f \in S : Name(f) \in known)

\* Mutant of RunIsLost: the retries start over when they are spent.
RunIsLostStartsOver ==
  /\ \E S \in SUBSET Files : CoderWrites(S)
  /\ runs' = (runs + 1) % (MaxRuns + 1)
  /\ UNCHANGED <<pc, passVars, guarded, succeeded, outcome>>

\* Timed out, exited with an error, failed the audit, or was not accepted:
\* the files stay on disk, the list of them is dropped.
RunIsLost ==
  /\ \E S \in SUBSET Files : CoderWrites(S)
  /\ runs < MaxRuns
  /\ runs' = runs + 1
  /\ UNCHANGED <<pc, passVars, guarded, succeeded, outcome>>

\* Accepted by the judge, refused by the verifier: the files read back
\* are released, those that could not be stay guarded.
RunFailsVerification ==
  /\ \E S \in SUBSET Files : CoderWrites(S) /\ guarded' \in {guarded, guarded \cup S}
  /\ runs < MaxRuns
  /\ runs' = runs + 1
  /\ UNCHANGED <<pc, passVars, succeeded, outcome>>

-----------------------------------------------------------------------------
(* The child's result, after its last run.                                 *)

\* `files` of a success are those of the accepted run that could be read
\* back (one that could not is as good as not written); no result of
\* execute_with_judge has written_paths.
ChildSucceeds ==
  /\ \E S \in SUBSET Files : CoderWrites(S) /\ known' = known \cup {Name(f) : f \in S}
  /\ succeeded' = succeeded \cup Range(passes[index].files)
  /\ index' = index + 1
  /\ pc' = "pass"
  /\ ChildEnds
  /\ UNCHANGED <<passes, limit, outcome>>

\* Also what becomes of a child that reached the principal: the caller gets
\* neither its escalation_context nor the flag.
ChildFails ==
  /\ pc = "child"
  /\ End("failed")
  /\ ChildEnds
  /\ UNCHANGED <<passVars, succeeded, overwrote>>

Written == {f \in Files : RefName(f) \in known}
Unwritten(pass) == Without(pass.files, Written)

\* Mutant of Remaining: the passes from the failed one on, with it.
RemainingWithItself ==
  Unwritten(passes[index])
    \o Joined([i \in 1..(Len(passes) - index + 1) |-> passes[index + i - 1].files])

\* Mutant of Remaining: only the failed pass is split again.
RemainingOfPass == Unwritten(passes[index])

Remaining ==
  Unwritten(passes[index])
    \o Joined([i \in 1..(Len(passes) - index) |-> passes[index + i].files])

Truncated == pc = "child" /\ ChildEnds /\ UNCHANGED <<succeeded, overwrote>>

TruncatedNothingLeft ==
  /\ Truncated
  /\ Remaining = <<>>
  /\ End("failed")
  /\ UNCHANGED passVars

HalfLimit(n) == Larger(Floor, n \div 2)

TruncatedAtFloor ==
  /\ Truncated
  /\ Remaining # <<>>
  /\ HalfLimit(Len(passes[index].files)) >= Len(passes[index].files)
  /\ End("at_floor")
  /\ UNCHANGED passVars

\* The new passes without files already written, and without empty ones.
Resplit(n) ==
  LET split == SplitIntoPasses(Remaining, n)
  IN  Without([i \in DOMAIN split |-> Without(split[i], Written)], {<<>>})

TruncatedResplit ==
  /\ Truncated
  /\ Remaining # <<>>
  /\ LET n == HalfLimit(Len(passes[index].files))
         new == Resplit(n)
     IN  /\ n < Len(passes[index].files)
         /\ new # <<>>
         /\ limit' = n
         /\ passes' = SubSeq(passes, 1, index - 1)
                        \o [i \in DOMAIN new |-> [files |-> new[i], num |-> passes[index].num + i - 1]]
  /\ pc' = "pass"
  /\ UNCHANGED <<index, known, outcome>>

\* Every remaining file was written by an earlier pass: go on to the next.
TruncatedAllWritten ==
  /\ Truncated
  /\ Remaining # <<>>
  /\ LET n == HalfLimit(Len(passes[index].files))
     IN  n < Len(passes[index].files) /\ Resplit(n) = <<>>
  /\ index' = index + 1
  /\ pc' = "pass"
  /\ UNCHANGED <<passes, limit, known, outcome>>

AllPassesDone ==
  /\ pc = "pass"
  /\ index > Len(passes)
  /\ End("success")
  /\ UNCHANGED <<passVars, childVars, succeeded, overwrote>>

Returned == pc = "done" /\ UNCHANGED vars

SplitStep == WindowUnknown \/ SplitTask
ChildStep ==
  StartChild \/ RunIsLost \/ RunFailsVerification \/ ChildSucceeds \/ ChildFails
ResplitStep ==
  TruncatedNothingLeft \/ TruncatedAtFloor \/ TruncatedResplit \/ TruncatedAllWritten
Next == SplitStep \/ ChildStep \/ ResplitStep \/ AllPassesDone \/ Returned

Spec == Init /\ [][Next]_vars

\* One thread runs the passes; a child call returns (CallReturns of
\* EscalationLoop).
FairSpec == Spec /\ WF_vars(Next)

-----------------------------------------------------------------------------
Names == [file : Files, rooted : BOOLEAN]
SubTasks == [files : Seq(Files), num : Nat \ {0}]

(* The type of every variable.                                             *)
TypeOK ==
  /\ pc \in {"start", "pass", "child", "done"}
  /\ passes \in Seq(SubTasks) /\ index \in 1..(Len(passes) + 1) /\ limit \in {0} \cup Floor..Ceiling
  /\ known \subseteq Names
  /\ guarded \subseteq Files /\ runs \in 0..MaxRuns
  /\ succeeded \subseteq Files /\ overwrote \in BOOLEAN
  /\ outcome \in {"none", "principal", "single", "success", "failed", "at_floor"}

\* Where a file is: a pass, and a position in it.
Places(f) == {p \in (DOMAIN passes) \X (1..Len(Refs)) :
                p[2] \in DOMAIN passes[p[1]].files /\ passes[p[1]].files[p[2]] = f}

(* Through any re-split every file of the task stays in exactly one pass;  *)
(* only a file an earlier pass has delivered may be dropped.               *)
EveryFileOnce ==
  pc \in {"pass", "child"} =>
    \A f \in Files : \/ Cardinality(Places(f)) = 1
                     \/ Places(f) = {} /\ RefName(f) \in known

(* A task that succeeds has had every file in a pass that succeeded, or    *)
(* has been delivered by an earlier one.                                   *)
SuccessLeavesNothingOut ==
  outcome = "success" => \A f \in Files : f \in succeeded \/ RefName(f) \in known

(* The task ends, whatever its children report: each delivers a pass,      *)
(* halves the limit or ends the task.                                      *)
TaskEnds == (pc = "pass") ~> (pc = "done")
=============================================================================
