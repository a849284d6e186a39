--------------------------- MODULE MCSharedByCalls ---------------------------
(***************************************************************************)
(* What calls of one process share, for TLC: the connection slots of a     *)
(* host (ConnectionSlots), and the operator's signals and files            *)
(* (OperatorControl).  They have no state in common, so a behaviour runs   *)
(* one of the two and leaves the other in its initial state.               *)
(***************************************************************************)
EXTENDS ConnectionSlots, OperatorControl

CONSTANT Task

VARIABLE area

\* All threads run calls of one task.
MCTasks == {Task}
MCTaskOf == [c \in Threads |-> Task]

\* The environment sets both of its variables or neither.
MCInit == Init /\ ControlInit /\ area \in {"slots", "control"} /\ env \in {{}, {"now", "up"}}

InSlots(A) == area = "slots" /\ A /\ UNCHANGED <<area, controlVars>>
InControl(A) == area = "control" /\ A /\ UNCHANGED <<area, vars>>

Acquiring == \E c \in Calls : InSlots(AcquireStep(c))
Streaming == \E c \in Calls : InSlots(ProcessStep(c))
Releasing == \E c \in Calls : InSlots(ReleaseStep(c))
Relimiting == \E n \in NewLimits : InSlots(SetLimit(n))
Signalled == \E c \in Threads : InControl(SignalStep(c))
Trying == \E c \in Threads : InControl(TierStep(c))
AtTheGate == \E c \in Threads : InControl(GateStep(c))
Deciding == \E o \in Operators : InControl(OperatorStep(o))
Asking == InControl(SetFailNow) \/ InControl(PostFailUp)
Rest == InSlots(AllDone) \/ InControl(AllEnded)

MCNext == Acquiring \/ Streaming \/ Releasing \/ Relimiting
            \/ Signalled \/ Trying \/ AtTheGate \/ Deciding \/ Asking \/ Rest

\* The fairness of ConnectionSlots and of OperatorControl.
MCSpec ==
  /\ MCInit /\ [][MCNext]_<<area, vars, controlVars>>
  /\ \A c \in Calls : WF_vars(InSlots(CallStep(c)))
  /\ \A c \in Threads : WF_controlVars(InControl(ThreadStep(c)))

-----------------------------------------------------------------------------
\* Whoever waits, for a slot, a signal or a person, returns
\* (orchestrator.py:775-1199, human_gate.py:43-79).
CallsEnd == CallsReturn /\ ThreadsEnd

=============================================================================
