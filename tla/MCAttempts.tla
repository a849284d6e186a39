------------------------------ MODULE MCAttempts ------------------------------
(***************************************************************************)
(* What surrounds an attempt of a tier, for TLC: the breaker that admits   *)
(* it (CircuitBreaker), the configuration it goes by (Configuration), the  *)
(* prompts it sends (CoderPrompts), the files its coder writes             *)
(* (CoderFiles), the audit of what comes back (IntegrationAudit) and what  *)
(* is learned from it (SelfImprovement).  The six have no state in common  *)
(* here, so a behaviour runs one of them and leaves the others in their    *)
(* initial state.                                                          *)
(***************************************************************************)
EXTENDS CircuitBreaker, CoderFiles, CoderPrompts, Configuration, IntegrationAudit,
        SelfImprovement, TLC

VARIABLE area

-----------------------------------------------------------------------------
\* CoderPrompts: an OpenCode tier and an HTTP tier; a judge who accepts with a
\* score beyond the scale, one who accepts provisionally, one who is down.
MCTiers == <<"L0", "L1">>
MCBackendOf == "L0" :> "coder" @@ "L1" :> "http"
Reply(k, s, c, p) == [kind |-> k, score |-> s, critique |-> c, provisional |-> p]
MCReplies == {Reply("fenced", 85, "", FALSE), Reply("single_quotes", 6, "b", TRUE), Reply("none", 0, "a", FALSE)}

\* IntegrationAudit: programs of two files put together from the shapes the
\* checks tell apart; of two names one contains the other, and a specification
\* demands one with a stub word in it.  A file without functions is a stub that
\* names the one to write.
Plain(name) ==
  [name |-> name, python |-> TRUE, parses |-> TRUE, test |-> FALSE, stubs |-> {},
   defs |-> {}, calls |-> {}, imports |-> {}, loads |-> {}, binds |-> {}, handlers |-> {}]
ExceptBlock(k) ==
  CASE k = "plain"  -> [line |-> "h", types |-> "bare", recovers |-> FALSE, pass |-> TRUE]
    [] k = "test"   -> [line |-> "h", types |-> "broad", recovers |-> FALSE, pass |-> FALSE]
    [] k = "broken" -> [line |-> "h", types |-> "specific", recovers |-> FALSE, pass |-> TRUE]
Apps ==
  {[Plain("app") EXCEPT !.defs = d, !.calls = c, !.loads = l,
                        !.stubs = IF d = {} THEN {[line |-> "pass", asks |-> "load"]} ELSE {},
                        !.binds = {<<"fh", b>>}] :
     d \in SUBSET {"save", "load_all"}, c \in SUBSET {"save"},
     l \in {{"print"}, {"re", "fh", "cfg"}}, b \in {"with", "assign"}}
Libs ==
  {[Plain("lib") EXCEPT !.parses = (k # "broken"), !.test = (k = "test"), !.calls = c,
                        !.imports = {m}, !.binds = {<<m, "import">>}, !.loads = {m},
                        !.handlers = {ExceptBlock(k)}] :
     k \in {"plain", "test", "broken"}, c \in {{}, {"load"}}, m \in {"json", "requests", "app"}}
MCProgram == {{a, l} : a \in Apps, l \in Libs}
MCSpecs ==
  {[required |-> x[1], define |-> x[2], call |-> x[3], only |-> o, listed |-> {"requests"}] :
     x \in {<<{}, {}, {}>>, <<{"save"}, {}, {"load"}>>, <<{"save"}, {"load"}, {}>>,
            <<{}, {"load"}, {"load"}>>, <<{}, {"todo_list"}, {}>>},
     o \in {"any", "stdlib", "listed"}}
MCExtends == {<<"load_all", "load">>}
MCStubNames == {"todo_list"}
MCBuiltins == {"print"}
MCStdlib == {"json", "re"}

\* Configuration: a file like the first example of docs/MODEL_CONFIG.md, and what
\* editing makes of it: a section of the wrong shape, a bad number, a failure
\* action nobody knows.
MCChain == <<"l0-coder", "l1-coder", "l2-coder", "principal">>
MCFallback == "l0-coder" :> "log_only" @@ "l1-coder" :> "notify_and_escalate"
              @@ "l2-coder" :> "notify_and_wait" @@ "principal" :> "log_only"
Entry(p, r) == [form |-> "mapping", provider |-> p, roles |-> r]
Odd(f) == [form |-> f, provider |-> "", roles |-> <<>>]
Hybrid ==
  [yaml |-> "fine", providers |-> {"openrouter", "llama_cpp_23"}, keyed |-> {"openrouter"},
   models |-> "judge" :> Entry("openrouter", <<"judge">>)
                @@ "l0-coder" :> Entry("llama_cpp_23", <<"coder">>)
                @@ "l1-coder" :> Entry("openrouter", <<"coder">>)
                @@ "l2-coder" :> Entry("openrouter", <<"coder">>)
                @@ "principal" :> Entry("", <<"principal">>),
   workflow |-> {"l0-coder", "principal"},
   actions |-> "l1-coder" :> "log_only",
   coders |-> "l0-coder" :> "opencode" @@ "l1-coder" :> "pi",
   mappings |-> TRUE, verify |-> FALSE]
MCContents ==
  {Hybrid,
   [Hybrid EXCEPT !.models = @ @@ "spare" :> Odd("scalar"), !.mappings = FALSE, !.verify = TRUE],
   [Hybrid EXCEPT !.models = "judge" :> Odd("bad_number") @@ @],
   [Hybrid EXCEPT !.actions = "l0-coder" :> "wait", !.verify = TRUE, !.coders = <<>>]}

\* SelfImprovement: the same task twice; dumps of two tiers and of a tier whose
\* name the file name does not show, and one that is no verdict.
MCTaskOf == [o \in Orchestrators |-> "build"]
Dump(l, s, p) == [level |-> l, score |-> s, phrases |-> p]
MCDumps == {Dump("L0-Coder", 4, <<"missing", "add tests">>), Dump("L1-Coder", 9, <<"missing">>),
          Dump("unknown", 3, <<"missing", "missing">>), Dump("L0-Coder", -1, <<>>)}

\* CoderFiles: one of two files is below .git, no text, and ends in the name of
\* the other; tiers of all three kinds.
MCFiles == {"db.py", ".git/db.py"}
MCThere == {"db.py"}
MCBlocked == {<<".git/db.py", "relative">>}
MCHidden == {".git/db.py"}
MCUnreadable == {".git/db.py"}
MCRoots == {"resolved", "linked", "none"}
MCClears == [f \in MCFiles |-> IF f = "db.py" THEN MCFiles ELSE {f}]
MCBackends == {"opencode", "pi", "http"}

-----------------------------------------------------------------------------
\* What is not run starts in one way.
StartsIn(a, S, one) == IF area = a THEN S ELSE {one}
MCInit ==
  /\ area \in {"breaker", "prompts", "audit", "config", "improve", "files"}
  /\ demands \in StartsIn("audit", Specs, CHOOSE s \in Specs : TRUE)
  /\ program \in StartsIn("audit", Program, CHOOSE p \in Program : TRUE)
  /\ file \in StartsIn("config", Contents, Hybrid)
  /\ root \in StartsIn("files", Roots, "resolved")
  /\ logger \in StartsIn("improve", [Orchestrators -> [seq : {0}, enabled : Enabled]],
                         [o \in Orchestrators |-> [seq |-> 0, enabled |-> TRUE]])
  /\ Init /\ PromptsInit /\ AuditInit /\ ConfigInit /\ ImproveInit /\ FilesInit

InBreaker(A) ==
  area = "breaker" /\ A /\ UNCHANGED <<area, promptVars, auditVars, configVars, improveVars, filesVars>>
InPrompts(A) ==
  area = "prompts" /\ A /\ UNCHANGED <<area, vars, auditVars, configVars, improveVars, filesVars>>
InAudit(A) ==
  area = "audit" /\ A /\ UNCHANGED <<area, vars, promptVars, configVars, improveVars, filesVars>>
InConfig(A) ==
  area = "config" /\ A /\ UNCHANGED <<area, vars, promptVars, auditVars, improveVars, filesVars>>
InImprove(A) ==
  area = "improve" /\ A /\ UNCHANGED <<area, vars, promptVars, auditVars, configVars, filesVars>>
InFiles(A) ==
  area = "files" /\ A
  /\ UNCHANGED <<area, vars, promptVars, auditVars, configVars, improveVars>>

Admitting == InBreaker(Next)
StartingCall == InPrompts(StartCall)
Climbing == InPrompts(TierStep)
Attempting == InPrompts(AttemptStep)
Concluding == InPrompts(VerdictStep)
Auditing == InAudit(Audit) \/ InAudit(Fix)
Editing == InConfig(Edit)
Constructing == \E t \in Runs : InConfig(ConstructStep(t))
Chaining == \E t \in Runs : InConfig(ChainStep(t))
Improving == (\E o \in Orchestrators : InImprove(ImproveStep(o))) \/ InImprove(WriteByHand)
Coding == InFiles(OpenCodeStep) \/ InFiles(OrphanStep)
            \/ InFiles(PiStep) \/ InFiles(HttpStep)
Delivering == InFiles(LoopStep)
Rest == InPrompts(CallsMade) \/ InAudit(AuditsOver)
          \/ InConfig(RunsOver) \/ InImprove(Improved) \/ InFiles(Over)

MCNext ==
  \/ Admitting \/ StartingCall \/ Climbing \/ Attempting \/ Concluding
  \/ Auditing \/ Editing \/ Constructing \/ Chaining \/ Improving
  \/ Coding \/ Delivering \/ Rest

MCSpec ==
  MCInit /\ [][MCNext]_<<area, vars, promptVars, auditVars, configVars, improveVars, filesVars>>

=============================================================================
