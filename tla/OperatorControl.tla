--------------------------- MODULE OperatorControl ---------------------------
(***************************************************************************)
(* How people and agents outside steer the calls of execute_with_judge     *)
(* that run in one process: the FailNow and FailUp flags, which are        *)
(* globals of src/core/fail_now.py, the signal file of the agent mesh, and *)
(* the pending files through which src/core/human_gate.py asks a person to *)
(* confirm an escalation.                                                  *)
(*                                                                         *)
(* A call is seen only from where it looks at a signal or waits at the     *)
(* gate; what a tier does in between is one step with any outcome.  A file *)
(* is rewritten in two steps, since open(..., "w") empties it before the   *)
(* text is written.                                                        *)
(***************************************************************************)
EXTENDS Integers, FiniteSets

CONSTANTS
  Threads,      \* threads of the pool inside execute_with_judge
  Tasks,        \* task ids
  TaskOf,       \* call -> its task_id
  NumTiers,     \* tiers of each call
  WaitTiers,    \* tiers whose failure action is notify_and_wait
  Operators,    \* runs of confirm_task and deny_task
  MaxRetries,   \* max_retries_per_tier
  MaxRequests   \* bound: requests of each kind made

ASSUME ControlAssumption ==
  /\ Tasks # {} /\ TaskOf \in [Threads -> Tasks]
  /\ NumTiers \in Nat /\ MaxRetries \in Nat \ {0} /\ MaxRequests \in Nat
  /\ WaitTiers \subseteq 1..NumTiers

VARIABLES
  failNow,    \* _fail_now_tier is set
  failUp,     \* _fail_up_active
  upFile,     \* ~/.mrkrabs/fail_up_signal.json exists
  env,        \* which of MRKRABS_FAIL_NOW and MRKRABS_FAIL_UP the process was given
  pending,    \* task id -> ~/.mrkrabs/pending/<task id>.json
  at,         \* call -> where it stands
  tier,       \* call -> its tier
  retry,      \* call -> retry_num, 0 before the retry loop of its tier
  op,         \* operator -> where it stands, what it decides and for whom
  requests,   \* history: requests made with set_fail_now, and with FailUp
  bumps,      \* history: call -> tiers FailUp moved it out of
  decided     \* history: call -> decisions written since its pending file was

signals == <<failNow, failUp, upFile, env>>
gate == <<pending, decided>>
callVars == <<at, tier, retry>>
history == <<requests, bumps>>
controlVars == <<signals, gate, callVars, op, history>>

\* A pending file is absent, torn (empty or not JSON), or holds a record with
\* the decision in it, if any.
Decisions == {"confirmed", "denied"}
Files == {"absent", "torn", "undecided"} \cup Decisions

IdleOp == [step |-> "idle", decision |-> "denied", task |-> CHOOSE k \in Tasks : TRUE]

ControlInit ==
  /\ failNow = FALSE /\ failUp = FALSE /\ upFile = FALSE
  /\ env \in SUBSET {"now", "up"}
  /\ pending = [k \in Tasks |-> "absent"]
  /\ at = [c \in Threads |-> "idle"]
  /\ tier = [c \in Threads |-> 1] /\ retry = [c \in Threads |-> 0]
  /\ op = [o \in Operators |-> IdleOp]
  /\ requests = [now |-> 0, up |-> 0]
  /\ bumps = [c \in Threads |-> 0]
  /\ decided = [c \in Threads |-> {}]

\* What the environment asks for is active in every call, and clearing the
\* flag does not clear it.
FailNowActive == failNow \/ "now" \in env
FailUpActive == failUp \/ "up" \in env

Moves(c, from, to) == at[c] = from /\ at' = [at EXCEPT ![c] = to]

-----------------------------------------------------------------------------
(* FailNow.  The flag is read when the call starts and cleared when the    *)
(* one-shot call to the model has answered.                                *)

StartCall(c) ==
  /\ Moves(c, "idle", IF FailNowActive THEN "shot" ELSE "check")
  /\ UNCHANGED <<signals, gate, tier, retry, op, history>>

Shoot(c) ==
  /\ Moves(c, "shot", "answering")
  /\ UNCHANGED <<signals, gate, tier, retry, op, history>>

ShotAnswers(c) ==
  /\ \/ Moves(c, "answering", "done")
     \/ Moves(c, "answering", "check")
  /\ failNow' = FALSE
  /\ UNCHANGED <<failUp, upFile, env, gate, tier, retry, op, history>>

-----------------------------------------------------------------------------
(* FailUp, looked for at the top of every tier and of every retry in it.   *)
(* check_mesh_fail_up sees the file, unlinks it and then sets the flag.    *)

SeeFile(c) ==
  /\ tier[c] <= NumTiers
  /\ Moves(c, "check", IF upFile THEN "unlink" ELSE "look")
  /\ UNCHANGED <<signals, gate, tier, retry, op, history>>

\* Mutant of Unlink: a thread that finds the file gone sets the flag all the same.
UnlinkAnyway(c) ==
  /\ Moves(c, "unlink", "set")
  /\ upFile' = FALSE
  /\ UNCHANGED <<failNow, failUp, env, gate, tier, retry, op, history>>

\* The second of two threads that saw the file gets an exception instead.
Unlink(c) ==
  /\ Moves(c, "unlink", IF upFile THEN "set" ELSE "look")
  /\ upFile' = FALSE
  /\ UNCHANGED <<failNow, failUp, env, gate, tier, retry, op, history>>

SetFailUp(c) ==
  /\ Moves(c, "set", "look")
  /\ failUp' = TRUE
  /\ UNCHANGED <<failNow, upFile, env, gate, tier, retry, op, history>>

Look(c) ==
  /\ Moves(c, "look", IF FailUpActive THEN "bump" ELSE IF retry[c] = 0 THEN "check" ELSE "work")
  /\ retry' = [retry EXCEPT ![c] = IF ~FailUpActive /\ @ = 0 THEN 1 ELSE @]
  /\ UNCHANGED <<signals, gate, tier, op, history>>

NextTier(c) ==
  /\ tier' = [tier EXCEPT ![c] = @ + 1]
  /\ retry' = [retry EXCEPT ![c] = 0]

Bump(c) ==
  /\ Moves(c, "bump", "check")
  /\ failUp' = FALSE
  /\ bumps' = [bumps EXCEPT ![c] = @ + 1]
  /\ NextTier(c)
  /\ UNCHANGED <<failNow, upFile, env, gate, op, requests>>

-----------------------------------------------------------------------------
(* The work of a tier, and what follows when its retries are spent.        *)

Succeed(c) ==
  /\ Moves(c, "work", "done")
  /\ UNCHANGED <<signals, gate, tier, retry, op, history>>

Fail(c) ==
  /\ at[c] = "work"
  /\ IF retry[c] < MaxRetries
     THEN /\ at' = [at EXCEPT ![c] = "check"]
          /\ retry' = [retry EXCEPT ![c] = @ + 1]
          /\ UNCHANGED tier
     ELSE IF tier[c] \in WaitTiers
     THEN at' = [at EXCEPT ![c] = "opening"] /\ UNCHANGED <<tier, retry>>
     ELSE at' = [at EXCEPT ![c] = "check"] /\ NextTier(c)
  /\ UNCHANGED <<signals, gate, op, history>>

TiersSpent(c) ==
  /\ tier[c] > NumTiers
  /\ Moves(c, "check", "done")
  /\ UNCHANGED <<signals, gate, tier, retry, op, history>>

-----------------------------------------------------------------------------
(* The gate.                                                               *)

Truncated(k) == pending' = [pending EXCEPT ![k] = "torn"]

\* The text covers what another writer put there since the file was emptied,
\* or, where it is the shorter one, leaves that one's tail behind.
Filled(k, text) ==
  \/ pending' = [pending EXCEPT ![k] = text]
  \/ pending[k] # "torn" /\ Truncated(k)

\* Mutant of OpenPending: a file that is already there is left as it is.
OpenPendingOnce(c) ==
  /\ Moves(c, "opening", IF pending[TaskOf[c]] = "absent" THEN "writing" ELSE "waiting")
  /\ IF pending[TaskOf[c]] = "absent" THEN Truncated(TaskOf[c]) ELSE UNCHANGED pending
  /\ decided' = [decided EXCEPT ![c] = {}]
  /\ UNCHANGED <<signals, tier, retry, op, history>>

OpenPending(c) ==
  /\ Moves(c, "opening", "writing")
  /\ Truncated(TaskOf[c])
  /\ decided' = [decided EXCEPT ![c] = {}]
  /\ UNCHANGED <<signals, tier, retry, op, history>>

WritePending(c) ==
  /\ Moves(c, "writing", "waiting")
  /\ Filled(TaskOf[c], "undecided")
  /\ UNCHANGED <<signals, decided, tier, retry, op, history>>

PollConfirmed(c) ==
  /\ Moves(c, "waiting", "check")
  /\ pending[TaskOf[c]] = "confirmed"
  /\ NextTier(c)
  /\ UNCHANGED <<signals, gate, op, history>>

PollDenied(c) ==
  /\ Moves(c, "waiting", "aborted")
  /\ pending[TaskOf[c]] = "denied"
  /\ UNCHANGED <<signals, gate, tier, retry, op, history>>

\* Fifteen minutes without a decision that can be read.
WaitTimesOut(c) ==
  /\ Moves(c, "waiting", "aborted")
  /\ UNCHANGED <<signals, gate, tier, retry, op, history>>

-----------------------------------------------------------------------------
(* Outside the calls.                                                      *)

SetFailNow ==
  /\ requests.now < MaxRequests
  /\ failNow' = TRUE
  /\ requests' = [requests EXCEPT !.now = @ + 1]
  /\ UNCHANGED <<failUp, upFile, env, gate, callVars, op, bumps>>

PostFailUp ==
  /\ requests.up < MaxRequests
  /\ \/ failUp' = TRUE /\ UNCHANGED upFile
     \/ upFile' = TRUE /\ UNCHANGED failUp
  /\ requests' = [requests EXCEPT !.up = @ + 1]
  /\ UNCHANGED <<failNow, env, gate, callVars, op, bumps>>

\* confirm_task or deny_task reads the file; one that is not JSON makes it raise.
ReadPending(o) ==
  /\ op[o].step = "idle"
  /\ \E k \in Tasks, d \in Decisions :
       /\ pending[k] \notin {"absent", "torn"}
       /\ op' = [op EXCEPT ![o] = [step |-> "read", decision |-> d, task |-> k]]
  /\ UNCHANGED <<signals, gate, callVars, history>>

OpenDecision(o) ==
  /\ op[o].step = "read"
  /\ op' = [op EXCEPT ![o].step = "opened"]
  /\ Truncated(op[o].task)
  /\ UNCHANGED <<signals, decided, callVars, history>>

WriteDecision(o) ==
  /\ op[o].step = "opened"
  /\ op' = [op EXCEPT ![o].step = "done"]
  /\ Filled(op[o].task, op[o].decision)
  /\ decided' = [c \in Threads |-> IF TaskOf[c] = op[o].task
                                 THEN decided[c] \cup {op[o].decision}
                                 ELSE decided[c]]
  /\ UNCHANGED <<signals, callVars, history>>

SignalStep(c) == StartCall(c) \/ Shoot(c) \/ ShotAnswers(c)
                   \/ SeeFile(c) \/ Unlink(c) \/ SetFailUp(c) \/ Look(c) \/ Bump(c)
TierStep(c) == Succeed(c) \/ Fail(c) \/ TiersSpent(c)
GateStep(c) == OpenPending(c) \/ WritePending(c) \/ PollConfirmed(c) \/ PollDenied(c) \/ WaitTimesOut(c)
ThreadStep(c) == SignalStep(c) \/ TierStep(c) \/ GateStep(c)
OperatorStep(o) == ReadPending(o) \/ OpenDecision(o) \/ WriteDecision(o)

Ended == {"done", "aborted"}
AllEnded == (\A c \in Threads : at[c] \in Ended) /\ UNCHANGED controlVars

ControlNext == \/ \E c \in Threads : ThreadStep(c)
        \/ \E o \in Operators : OperatorStep(o)
        \/ SetFailNow \/ PostFailUp \/ AllEnded

ControlSpec == ControlInit /\ [][ControlNext]_controlVars

\* A thread of the pool keeps running; nobody outside has to do anything.
ControlFairSpec == ControlSpec /\ \A c \in Threads : WF_controlVars(ThreadStep(c))

-----------------------------------------------------------------------------

ControlTypeOK ==
  /\ failNow \in BOOLEAN /\ failUp \in BOOLEAN /\ upFile \in BOOLEAN
  /\ env \subseteq {"now", "up"}
  /\ pending \in [Tasks -> Files]
  /\ at \in [Threads -> {"idle", "shot", "answering", "check", "unlink", "set", "look", "bump",
                      "work", "opening", "writing", "waiting"} \cup Ended]
  /\ tier \in [Threads -> 1..(NumTiers + 1)] /\ retry \in [Threads -> 0..MaxRetries]
  /\ op \in [Operators -> [step : {"idle", "read", "opened", "done"},
                           decision : Decisions, task : Tasks]]
  /\ requests \in [now : 0..MaxRequests, up : 0..MaxRequests]
  /\ bumps \in [Threads -> 0..NumTiers]
  /\ decided \in [Threads -> SUBSET Decisions]

\* One FailUp moves a call up at most once, whether it came through the flag or
\* the file and whichever of the threads took the file: the tiers a call was
\* moved out of never outnumber the requests.  Two calls may both spend the
\* same request.  (Where MRKRABS_FAIL_UP is set nothing bounds them: every
\* call leaves every tier.)
BumpsBounded == "up" \notin env => \A c \in Threads : bumps[c] <= requests.up

\* A call passes the gate only by a confirmation that was written after it asked:
\* one already in the file, given for an earlier tier or to an earlier call of
\* the same task, does not answer for it, however the writes interleave.  (An
\* operator who read the earlier question and writes late does answer it.)
DecisionFollowsQuestion ==
  [][\A c \in Threads :
       (at[c] = "waiting" /\ at'[c] = "check") => "confirmed" \in decided[c]]_controlVars

\* Every call returns, also when nobody decides, when the file stays unreadable,
\* and when signals arrive at any moment.
ThreadsEnd == \A c \in Threads : (at[c] # "idle") ~> (at[c] \in Ended)
=============================================================================
