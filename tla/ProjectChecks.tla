---------------------------- MODULE ProjectChecks ----------------------------
(***************************************************************************)
(* What is run of a project after the judge has accepted its output:       *)
(* RuntimeVerifier.verify (src/core/verifier.py), then QALoop.evaluate     *)
(* (qa_loop.py) with the behavioural suite of behavioral_runner.py, which  *)
(* starts the project, waits until it is healthy, runs the tests and stops *)
(* it.  The tasks of a worker pool are checked at the same time and on one *)
(* machine: their servers compete for TCP ports, a health check asks       *)
(* whoever listens on one of five ports, and the tests ask whoever listens *)
(* on the port of base_url.  A task may be checked several times, each     *)
(* time with another version of its project.  The commands of the          *)
(* verification and of the tests may start the project too, and a project  *)
(* may put processes in the background, which outlive whoever runs it.     *)
(***************************************************************************)
EXTENDS Integers, FiniteSets, Sequences

CONSTANTS
  Tasks,       \* tasks being checked
  Projects,    \* what a coder may have produced
  Produced,    \* task -> bound: for each of its checks, the projects it may meet
  HealthPorts, \* the ports _health_check_http asks
  BasePort     \* the port of base_url

ASSUME ChecksAssumption ==
  /\ Produced \in [Tasks -> Seq(SUBSET Projects)]
  /\ \A p \in Projects : p.entry \in {"server", "script", "none"}

\* A project: the test infrastructure found in its root (marks), its Python
\* files, how it starts, the port it listens on (0: none), whether it answers
\* "/" with 2xx, whether it does what its specification asks, whether it puts
\* processes in the background, and whether its answers never end.
NoProject ==
  [marks |-> {}, python |-> "none", compiles |-> FALSE,
   entry |-> "none", port |-> 0, home |-> FALSE, right |-> FALSE,
   strays |-> FALSE, endless |-> FALSE]

VARIABLES
  stage,    \* task -> where its check stands
  run,      \* task -> times it was checked
  project,  \* task -> the version under test
  procs,    \* processes alive: [task, run, project, up (listening), tie]
  left,     \* task -> tests of the suite not run yet
  failed    \* task -> a test of the suite failed

suiteVars == <<left, failed>>
vars == <<stage, run, project, procs, suiteVars>>

Init ==
  /\ stage = [t \in Tasks |-> "idle"]
  /\ run = [t \in Tasks |-> 0]
  /\ project = [t \in Tasks |-> NoProject]
  /\ procs = {}
  /\ left = [t \in Tasks |-> {}]
  /\ failed = [t \in Tasks |-> FALSE]

Go(t, s) == stage' = [stage EXCEPT ![t] = s]

\* A process is of the group that start() made and stop() kills ("group"), out
\* of it but still holding the group's stderr ("pipe"), out of it or of a command
\* ("none"), or left by someone whose wait ran out of time ("lost").
Ties == {"group", "pipe", "none", "lost"}
Fresh(t, tie) == [task |-> t, run |-> run[t], project |-> project[t], up |-> FALSE, tie |-> tie]

\* A check is over, whatever it says; what it kept is gone.
End(t) ==
  /\ Go(t, "idle")
  /\ project' = [project EXCEPT ![t] = NoProject]
  /\ left' = [left EXCEPT ![t] = {}]
  /\ failed' = [failed EXCEPT ![t] = FALSE]
  /\ UNCHANGED run

Own(t) == {p \in procs : p.task = t /\ p.run = run[t]}
Group(t) == {p \in Own(t) : p.tie = "group"}
Listening(ports) == {p \in procs : p.up /\ p.project.port \in ports}
InSuite == {t \in Tasks : stage[t] \in {"warming", "testing"}}
Running == InSuite \cup {t \in Tasks : stage[t] = "verifying"}

Check(t) ==
  /\ stage[t] = "idle" /\ run[t] < Len(Produced[t])
  /\ run' = [run EXCEPT ![t] = @ + 1]
  /\ project' \in {[project EXCEPT ![t] = p] : p \in Produced[t][run[t] + 1]}
  /\ Go(t, "verifying")
  /\ UNCHANGED <<procs, suiteVars>>

-----------------------------------------------------------------------------
(* Verification.                                                           *)

\* The command: configured, pytest, the Makefile's, npm's, an import of the
\* entry point, or none of them and a syntax check of each file.
DetectCommand(p) ==
  CASE "command" \in p.marks                       -> "configured"
    [] "command" \notin p.marks
       /\ p.marks \cap {"pytest", "test_files"} # {} -> "pytest"
    [] p.marks = {"make_test"} \/ p.marks = {"make_test", "npm_test"} -> "make"
    [] p.marks = {"npm_test"}                      -> "npm"
    [] p.marks = {} /\ p.python # "none"           -> "import"
    [] OTHER                                       -> "syntax"

\* Where no command is found there is no Python file to compile either.
SyntaxCheck(t) ==
  /\ stage[t] = "verifying"
  /\ DetectCommand(project[t]) = "syntax"
  /\ Go(t, "generating")
  /\ UNCHANGED <<run, project, procs, suiteVars>>

HasCommand(t) == stage[t] = "verifying" /\ DetectCommand(project[t]) # "syntax"

\* The command may run the project: a test that needs it, an import that does.
CommandStarts(t) ==
  /\ HasCommand(t) /\ project[t].entry = "server"
  /\ procs' = procs \cup {Fresh(t, "none")}
  /\ UNCHANGED <<stage, run, project, suiteVars>>

\* With a command end the processes it started, but for those in the background.
CommandEnds(t) ==
  \/ procs' = procs \ Own(t)
  \/ project[t].strays /\ UNCHANGED procs

\* An import fails on a file that does not compile; what other commands
\* make of it depends on the project.
VerifyPasses(t) ==
  /\ HasCommand(t)
  /\ DetectCommand(project[t]) = "import" => project[t].compiles
  /\ CommandEnds(t)
  /\ Go(t, "generating")
  /\ UNCHANGED <<run, project, suiteVars>>

VerifyFails(t) ==
  /\ HasCommand(t)
  /\ CommandEnds(t)
  /\ End(t)

\* Nobody comes back to these.
Lose(S) == procs' = (procs \ S) \cup {[p EXCEPT !.tie = "lost"] : p \in S}

\* Only the shell of a command that runs out of time is killed.
VerifyTimesOut(t) ==
  /\ HasCommand(t)
  /\ Lose(Own(t))
  /\ End(t)

-----------------------------------------------------------------------------
(* The tests: written by the judge, or guessed when there is no judge.     *)

\* What _generate_tests_heuristic finds worth asking of a project.
Guessed(p) ==
  CASE p.entry = "server" -> {{"home"}, {}}
    [] p.entry = "script" -> {{"run"}, {}}
    [] p.entry = "none"   -> {{}}

\* The judge's critique, cut into TEST blocks.  A block may lack the command
\* ("blank") or have a type nobody knows ("odd").
Written == {{"page", "run"}, {"blank", "odd"}}

GenerateTests(t) ==
  /\ stage[t] = "generating"
  /\ \E T \in Written \cup (Guessed(project[t]) \ {{}}) : left' = [left EXCEPT ![t] = T]
  /\ failed' = [failed EXCEPT ![t] = FALSE]
  /\ Go(t, "starting")
  /\ UNCHANGED <<run, project, procs>>

\* A critique without a TEST block, or a guess that finds nothing to ask.
NothingToTest(t) ==
  /\ stage[t] = "generating"
  /\ End(t)
  /\ UNCHANGED procs

-----------------------------------------------------------------------------
(* The suite.                                                              *)

\* Every test becomes an error: the suite has nothing left to run.
NotStarted(t) ==
  /\ failed' = [failed EXCEPT ![t] = left[t] # {}]
  /\ left' = [left EXCEPT ![t] = {}]
  /\ Go(t, "classifying")

NoEntryPoint(t) ==
  /\ stage[t] = "starting"
  /\ project[t].entry = "none"
  /\ NotStarted(t)
  /\ UNCHANGED <<run, project, procs>>

Launch(t) ==
  /\ stage[t] = "starting"
  /\ project[t].entry # "none"
  /\ procs' = procs \cup {Fresh(t, "group")}
  /\ Go(t, "warming")
  /\ UNCHANGED <<run, project, suiteVars>>

\* The process that start() waits for has ended; what holds its stderr is waited
\* for without a deadline, and what it left in the background is not looked for.
ExitedImmediately(t) ==
  /\ stage[t] = "warming"
  /\ Group(t) = {} /\ \A p \in Own(t) : p.tie # "pipe"
  /\ NotStarted(t)
  /\ UNCHANGED <<run, project, procs>>

Healthy == \E p \in Listening(HealthPorts) : p.project.home

StartSucceeds(t) ==
  /\ stage[t] = "warming"
  /\ Group(t) # {}
  /\ project[t].entry = "server" => Healthy
  /\ Go(t, "testing")
  /\ UNCHANGED <<run, project, procs, suiteVars>>

\* Mutant of HealthCheckTimesOut: each probe sets the deadline anew.
ProbesForEver(t) ==
  /\ stage[t] = "warming"
  /\ Group(t) # {}
  /\ project[t].entry = "server" /\ ~Healthy
  /\ UNCHANGED vars

\* start() returns without stopping the process it started.
HealthCheckTimesOut(t) ==
  /\ stage[t] = "warming"
  /\ Group(t) # {}
  /\ project[t].entry = "server" /\ ~Healthy
  /\ Lose(Group(t))
  /\ NotStarted(t)
  /\ UNCHANGED <<run, project>>

HttpTests == {"home", "page"}
Asked == Listening({BasePort})
Passes(t, x) ==
  CASE x = "home"  -> \E p \in Asked : p.project.home
    [] x = "page"  -> \E p \in Asked : p.project.right
    [] x = "run"   -> project[t].right
    [] x = "blank" -> TRUE
    [] x = "odd"   -> FALSE

\* A request has a time limit for each read, an answer as a whole has none.
Unending(x) == x \in HttpTests /\ \E p \in Asked : p.project.endless

\* The command of a test may leave a server of the project in the background.
RunTest(t) ==
  /\ stage[t] = "testing"
  /\ \E x \in left[t] :
       /\ ~Unending(x)
       /\ left' = [left EXCEPT ![t] = @ \ {x}]
       /\ failed' = [failed EXCEPT ![t] = @ \/ ~Passes(t, x)]
       /\ \/ UNCHANGED procs
          \/ x = "run" /\ project[t].strays /\ procs' = procs \cup {Fresh(t, "none")}
  /\ UNCHANGED <<stage, run, project>>

\* Only the shell of a test's command is killed when it runs out of time.
TestTimesOut(t) ==
  /\ stage[t] = "testing" /\ "run" \in left[t]
  /\ left' = [left EXCEPT ![t] = @ \ {"run"}]
  /\ failed' = [failed EXCEPT ![t] = TRUE]
  /\ procs' = procs \cup {Fresh(t, "lost")}
  /\ UNCHANGED <<stage, run, project>>

\* Mutant of Stop: the signal goes to the shell, not to its process group.
StopShell(t) ==
  /\ stage[t] = "testing"
  /\ left[t] = {}
  /\ UNCHANGED procs
  /\ Go(t, "classifying")
  /\ UNCHANGED <<run, project, suiteVars>>

Stop(t) ==
  /\ stage[t] = "testing"
  /\ left[t] = {}
  /\ procs' = procs \ Group(t)
  /\ Go(t, "classifying")
  /\ UNCHANGED <<run, project, suiteVars>>

\* A specification with requirement phrases makes _compute_spec_coverage
\* read passed_tests, which a suite result does not have.
AllPassed(t) ==
  /\ stage[t] = "classifying"
  /\ ~failed[t]
  /\ End(t)
  /\ UNCHANGED procs

\* _classify_gaps is not a method of QALoop.
SomeFailed(t) ==
  /\ stage[t] = "classifying"
  /\ failed[t]
  /\ End(t)
  /\ UNCHANGED procs

-----------------------------------------------------------------------------
(* The processes: a server binds its port or exits when it is taken, any   *)
(* of them may end, and one may go on in the background, out of its group. *)

Bind(p) ==
  /\ p \in procs /\ ~p.up /\ p.project.entry = "server"
  /\ IF Listening({p.project.port}) = {}
       THEN procs' = (procs \ {p}) \cup {[p EXCEPT !.up = TRUE]}
       ELSE procs' = procs \ {p}
  /\ UNCHANGED <<stage, run, project, suiteVars>>

Exit(p) ==
  /\ p \in procs
  /\ procs' = procs \ {p}
  /\ UNCHANGED <<stage, run, project, suiteVars>>

Detach(p) ==
  /\ p \in procs /\ p.tie = "group" /\ p.project.strays
  /\ \E tie \in {"pipe", "none"} : procs' = (procs \ {p}) \cup {[p EXCEPT !.tie = tie]}
  /\ UNCHANGED <<stage, run, project, suiteVars>>

Rest == (\A t \in Tasks : stage[t] = "idle" /\ run[t] = Len(Produced[t])) /\ UNCHANGED vars

VerifyStep(t) == SyntaxCheck(t) \/ VerifyPasses(t) \/ VerifyFails(t) \/ VerifyTimesOut(t)
SuiteStep(t) ==
  \/ NoEntryPoint(t) \/ Launch(t) \/ ExitedImmediately(t)
  \/ StartSucceeds(t) \/ HealthCheckTimesOut(t)
  \/ RunTest(t) \/ TestTimesOut(t) \/ Stop(t)
QAStep(t) == GenerateTests(t) \/ NothingToTest(t) \/ AllPassed(t) \/ SomeFailed(t)
CheckStep(t) == VerifyStep(t) \/ SuiteStep(t) \/ QAStep(t)
ProcessStep(p) == Bind(p) \/ Exit(p) \/ Detach(p)

Next ==
  \/ \E t \in Tasks : Check(t) \/ CheckStep(t) \/ CommandStarts(t)
  \/ \E p \in procs : ProcessStep(p)
  \/ Rest

\* A check goes on while it can: every wait of it has a deadline, but for the two
\* reads in WaitsForPipe and WaitsForBody.  A project's own processes need not
\* get anywhere.
Fairness == \A t \in Tasks : WF_vars(CheckStep(t))

Spec == Init /\ [][Next]_vars
FairSpec == Spec /\ Fairness

-----------------------------------------------------------------------------
Stages == {"idle", "verifying", "generating", "starting", "warming", "testing",
           "classifying"}

(* The type of every variable; a suite that is judged has no test left.    *)
TypeOK ==
  /\ stage \in [Tasks -> Stages]
  /\ run \in [Tasks -> Nat] /\ \A t \in Tasks : run[t] <= Len(Produced[t])
  /\ project \in [Tasks -> Projects \cup {NoProject}]
  /\ procs \subseteq [task : Tasks, run : Nat, project : Projects, up : BOOLEAN, tie : Ties]
  /\ \A p \in procs : p.run \in 1..Len(Produced[p.task])
  /\ left \in [Tasks -> SUBSET {"home", "page", "run", "blank", "odd"}]
  /\ failed \in [Tasks -> BOOLEAN]
  /\ \A t \in Tasks : stage[t] = "classifying" => left[t] = {}

(* The tests of a suite ask a port, not a process.  What answers them is a *)
(* process of this version of this project, or of a suite or verification  *)
(* under way at the same time, or one that a wait out of time left behind  *)
(* (a health check's, a command's), or its project puts processes in the   *)
(* background.  Nothing else of an earlier check is still there to answer. *)
AskedAreOwn ==
  \A t \in Tasks : stage[t] = "testing" /\ left[t] \cap HttpTests # {} =>
    \A p \in Asked :
      \/ p.run = run[p.task] /\ p.task \in Running
      \/ p.tie = "lost"
      \/ p.project.strays

\* The stderr of a process that has ended is held by one that has not.
WaitsForPipe(t) ==
  stage[t] = "warming" /\ Group(t) = {} /\ \E p \in Own(t) : p.tie = "pipe"

\* The next answer does not end.
WaitsForBody(t) == stage[t] = "testing" /\ \E x \in left[t] : Unending(x)

(* "run tests, stop": whatever is started of a project, its check ends,    *)
(* unless one of the two reads that have no deadline is held for ever.     *)
ChecksEnd ==
  \A t \in Tasks : []<>(stage[t] = "idle") \/ <>[](WaitsForPipe(t) \/ WaitsForBody(t))
=============================================================================
