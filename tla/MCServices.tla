------------------------------ MODULE MCServices ------------------------------
(***************************************************************************)
(* The three places where tasks meet something outside the program, for    *)
(* TLC: the processes and ports of the projects under test (ProjectChecks),*)
(* the HTTP calls under a time limit (ModelCalls) and the choice of a      *)
(* provider behind circuit breakers (ModelRouting).  They have no state in *)
(* common, so a behaviour runs one of the three and leaves the others in   *)
(* their initial state.                                                    *)
(***************************************************************************)
EXTENDS ProjectChecks, ModelCalls, ModelRouting, TLC

VARIABLE area

Shape(marks, python, compiles, entry, port, home, right) ==
  [marks |-> marks, python |-> python, compiles |-> compiles, entry |-> entry,
   port |-> port, home |-> home, right |-> right, strays |-> FALSE, endless |-> FALSE]
Wild(p) == [p EXCEPT !.strays = TRUE, !.endless = TRUE]

\* A server on the port of base_url, one there that puts processes in the
\* background and never ends an answer, one on another port without a "/" route,
\* and no Python at all; task 1 is checked twice.
Good == Shape({"test_files"}, "entry", TRUE, "server", 5000, TRUE, TRUE)
Other == Shape({}, "entry", TRUE, "server", 8000, FALSE, FALSE)
Nothing == Shape({}, "none", FALSE, "none", 0, FALSE, FALSE)
SomeProjects == {Good, Wild(Good), Other, Nothing}
TwiceAndOnce == [t \in {1, 2} |-> IF t = 1 THEN <<{Good, Wild(Good), Nothing}, {Good, Other}>>
                                          ELSE <<{Good}>>]

CheapAndDear == <<"cheap", "dear">>
TwoPrices == "cheap" :> 1 @@ "dear" :> 2

MCInit == Init /\ CallsInit /\ RouterInit /\ area \in {"checks", "calls", "routing"}

InChecks(A) == area = "checks" /\ A /\ UNCHANGED <<area, callVars, routerVars>>
InCalls(A) == area = "calls" /\ A /\ UNCHANGED <<area, vars, routerVars>>
InRouting(A) == area = "routing" /\ A /\ UNCHANGED <<area, vars, callVars>>

Checking == \E t \in Tasks : InChecks(Check(t)) \/ InChecks(VerifyStep(t))
Testing == \E t \in Tasks : InChecks(QAStep(t)) \/ InChecks(SuiteStep(t))
Processes ==
  \/ \E p \in procs : InChecks(ProcessStep(p))
  \/ \E t \in Tasks : InChecks(CommandStarts(t))
Calling == \E t \in Callers : InCalls(CallStep(t))
TimingOut ==
  \/ InCalls(AlarmSwallowed) \/ InCalls(AlarmRaises)
  \/ \E t \in Callers : InCalls(TimerFires(t))
Selecting == \E c \in Routers : InRouting(SelectStep(c))
Reporting == \E c \in Routers : InRouting(ReportStep(c))
Clock == \E p \in Models :
  InRouting(CooldownElapses(p)) \/ InRouting(LeaveWindow(p))
Over == InChecks(Rest) \/ InCalls(Left) \/ InRouting(Spent)

MCNext ==
  \/ Checking \/ Testing \/ Processes \/ Calling \/ TimingOut
  \/ Selecting \/ Reporting \/ Clock \/ Over

\* The fairness of ProjectChecks and of ModelCalls.
MCSpec ==
  /\ MCInit /\ [][MCNext]_<<area, vars, callVars, routerVars>>
  /\ \A t \in Tasks : WF_vars(InChecks(CheckStep(t)))
  /\ \A t \in Callers : WF_callVars(InCalls(CallStep(t)))

=============================================================================
