------------------------ MODULE CircuitBreakerProofs ------------------------
(***************************************************************************)
(* Theorems about CircuitBreaker, for any number of callers, threshold,    *)
(* sample size and half_open_max.                                          *)
(***************************************************************************)
EXTENDS CircuitBreaker, FiniteSetTheorems, TLAPS

TicketType == [as : {"none", "call", "first", "probe"}, epoch : Nat]

NumbersOK ==
  /\ state \in States /\ failures \in Nat /\ successes \in Nat /\ total \in Nat
  /\ inFlight \in 0..HalfOpenMax /\ epoch \in Nat

(* Opening, half-opening, closing and counting keep the counters' types.   *)
LEMMA TransitionTypes ==
  ASSUME NumbersOK
  PROVE  /\ Open => NumbersOK'
         /\ Close => NumbersOK'
         /\ ToHalfOpen => NumbersOK'
         /\ UNCHANGED breaker => NumbersOK'
         /\ \A f \in Nat, s \in Nat : Count(f, s) => NumbersOK'
<1> USE BreakerAssumption DEF NumbersOK, States
<1>1. (Open => NumbersOK') /\ (Close => NumbersOK')
  BY DEF Open, Close, ResetCounters
<1>2. ToHalfOpen => NumbersOK'
  BY DEF ToHalfOpen, ResetCounters
<1>3. UNCHANGED breaker => NumbersOK'
  BY DEF breaker, counters
<1>4. ASSUME NEW f \in Nat, NEW s \in Nat, Count(f, s) PROVE NumbersOK'
  <2>1. f + s \in Nat
    OBVIOUS
  <2> QED BY <1>1, <1>4, <2>1 DEF Count
<1> QED BY <1>1, <1>2, <1>3, <1>4

(* The cooldown flag stays a truth value.                                  *)
LEMMA CooledType == cooled \in BOOLEAN /\ [Next]_vars => cooled' \in BOOLEAN
<1> SUFFICES ASSUME cooled \in BOOLEAN, [Next]_vars PROVE cooled' \in BOOLEAN
  OBVIOUS
<1>1. ASSUME Open \/ Close \/ UNCHANGED cooled PROVE cooled' \in BOOLEAN
  BY <1>1 DEF Open, Close
<1>2. ASSUME NEW c \in Callers, Call(c) PROVE cooled' \in BOOLEAN
  BY <1>1, <1>2 DEF Call, AdmitClosed, AdmitFirst, AdmitProbe, RecordSuccess, RecordFailure, Count, ToHalfOpen, breaker
<1>3. CASE CooldownElapses
  BY <1>3 DEF CooldownElapses
<1> QED BY <1>1, <1>2, <1>3 DEF Next, ReadState, Reset, ToHalfOpen, vars, breaker

(* Every call of a method keeps the types.                                 *)
LEMMA StepTypeOK == TypeOK /\ [Next]_vars => TypeOK'
<1> SUFFICES ASSUME TypeOK, [Next]_vars PROVE TypeOK'
  OBVIOUS
<1>0. /\ NumbersOK /\ ticket \in [Callers -> TicketType] /\ NoTicket \in TicketType
      /\ failures \in Nat /\ successes \in Nat /\ epoch \in Nat /\ epoch + 1 \in Nat
      /\ cooled' \in BOOLEAN
  BY CooledType DEF TypeOK, NumbersOK, TicketType, NoTicket
<1>1. ASSUME NEW c \in Callers, Call(c) PROVE NumbersOK' /\ ticket' \in [Callers -> TicketType]
  <2>1. ASSUME NEW t \in TicketType, ticket' = [ticket EXCEPT ![c] = t]
        PROVE  ticket' \in [Callers -> TicketType]
    BY <1>0, <2>1
  <2>2. ASSUME NEW how \in {"call", "first", "probe"}, NEW e \in Nat, Admit(c, how, e)
        PROVE  ticket' \in [Callers -> TicketType]
    <3>1. [as |-> how, epoch |-> e] \in TicketType
      BY DEF TicketType
    <3> QED BY <2>1, <2>2, <3>1 DEF Admit
  <2>3. CASE AdmitClosed(c)
    BY <1>0, <2>2, <2>3, TransitionTypes DEF AdmitClosed
  <2>4. CASE AdmitProbe(c)
    BY <1>0, <2>2, <2>4, BreakerAssumption DEF AdmitProbe, NumbersOK
  <2>5. CASE AdmitFirst(c)
    BY <1>0, <2>2, <2>5, TransitionTypes DEF AdmitFirst
  <2>6. CASE RecordSuccess(c)
    <3>1. failures \in Nat /\ successes + 1 \in Nat
      BY <1>0
    <3>2. ASSUME successes' = successes + 1, ReleaseSlot, UNCHANGED <<state, failures, total, epoch, cooled>>
          PROVE  NumbersOK'
      BY <1>0, <3>2, BreakerAssumption DEF NumbersOK, ReleaseSlot
    <3>3. NumbersOK'
      BY <1>0, <2>6, <3>1, <3>2, TransitionTypes DEF RecordSuccess
    <3> QED BY <1>0, <2>1, <2>6, <3>3 DEF RecordSuccess, Report
  <2>7. CASE RecordFailure(c)
    <3>1. failures + 1 \in Nat /\ successes \in Nat
      BY <1>0
    <3>2. NumbersOK'
      BY <1>0, <2>7, <3>1, TransitionTypes DEF RecordFailure
    <3> QED BY <1>0, <2>1, <2>7, <3>2 DEF RecordFailure, Report
  <2> QED BY <1>1, <2>3, <2>4, <2>5, <2>6, <2>7 DEF Call
<1>2. CooldownElapses => NumbersOK'
  BY <1>0 DEF CooldownElapses, NumbersOK, counters
<1>3. ReadState \/ Reset \/ UNCHANGED vars => NumbersOK'
  BY <1>0, TransitionTypes DEF ReadState, Reset, vars
<1>4. NumbersOK' /\ ticket' \in [Callers -> TicketType]
  BY <1>1, <1>2, <1>3, <1>0 DEF Next, CooldownElapses, ReadState, Reset, vars
<1> QED BY <1>0, <1>4 DEF TypeOK, NumbersOK, TicketType

(* Every variable of the breaker keeps its type; in particular the slots   *)
(* in flight stay between 0 and half_open_max.                             *)
THEOREM TypeCorrect == Spec => []TypeOK
<1>1. Init => TypeOK
  <2> SUFFICES ASSUME Init PROVE TypeOK
    OBVIOUS
  <2>1. NumbersOK /\ ticket \in [Callers -> TicketType]
    BY BreakerAssumption DEF Init, NumbersOK, States, NoTicket, TicketType
  <2>2. cooled \in BOOLEAN
    BY DEF Init
  <2> QED BY <2>1, <2>2 DEF TypeOK, NumbersOK, TicketType
<1> QED BY <1>1, StepTypeOK, PTL DEF Spec

-----------------------------------------------------------------------------
(***************************************************************************)
(* Probes are counted by inFlight from above and by inFlight + successes   *)
(* from below: a late result takes a slot away from inFlight without       *)
(* ending a probe, and then it is a success, or the episode is over.       *)
(***************************************************************************)
EpochsPast == \A c \in Callers : ticket[c].epoch <= epoch
SlotsInv ==
  state = "half_open" =>
    /\ inFlight <= Cardinality(Probes)
    /\ Cardinality(Probes) <= inFlight + successes
    /\ Cardinality(Firsts) <= 1
BreakerInv == EpochsPast /\ ClosedOnGoodSample /\ SlotsInv

(* Sets of calls under way are finite.                                     *)
LEMMA CallsFinite ==
  /\ IsFiniteSet(Probes) /\ Cardinality(Probes) \in Nat
  /\ IsFiniteSet(Firsts) /\ Cardinality(Firsts) \in Nat
<1>1. Probes \subseteq Callers /\ Firsts \subseteq Callers
  BY DEF Probes, Firsts
<1> QED BY <1>1, BreakerAssumption, FS_Subset, FS_CardinalityType

(* A report ends at most one probe and at most one first call.             *)
LEMMA ReportCounts ==
  ASSUME TypeOK, NEW c \in Callers, Report(c), epoch' = epoch
  PROVE  /\ Cardinality(Probes') \in {Cardinality(Probes), Cardinality(Probes) - 1}
         /\ Cardinality(Probes') \in Nat
         /\ Cardinality(Firsts') <= Cardinality(Firsts) /\ Cardinality(Firsts') \in Nat
<1>1. Probes' = Probes \ {c} /\ Firsts' = Firsts \ {c}
  BY DEF TypeOK, Report, NoTicket, Probes, Firsts
<1>2. /\ IsFiniteSet(Probes') /\ Cardinality(Probes') = IF c \in Probes THEN Cardinality(Probes) - 1
                                                                         ELSE Cardinality(Probes)
  BY <1>1, CallsFinite, FS_RemoveElement
<1>3. /\ IsFiniteSet(Firsts') /\ Cardinality(Firsts') = IF c \in Firsts THEN Cardinality(Firsts) - 1
                                                                         ELSE Cardinality(Firsts)
  BY <1>1, CallsFinite, FS_RemoveElement
<1>4. Cardinality(Probes') \in Nat /\ Cardinality(Firsts') \in Nat
  BY <1>2, <1>3, FS_CardinalityType
<1> QED BY <1>2, <1>3, <1>4, CallsFinite

(* A new episode starts without probes and with at most one first call.    *)
LEMMA EpisodeStarts ==
  ASSUME TypeOK, EpochsPast, epoch' = epoch + 1,
         \/ ticket' = ticket
         \/ \E c \in Callers : ticket' = [ticket EXCEPT ![c] = [as |-> "first", epoch |-> epoch + 1]]
  PROVE  Cardinality(Probes') = 0 /\ Cardinality(Firsts') <= 1 /\ Cardinality(Firsts') \in Nat
<1>1. Probes' = {}
  BY DEF TypeOK, EpochsPast, Probes
<1>2. Firsts' = {} \/ \E c \in Callers : Firsts' = {c}
  BY DEF TypeOK, EpochsPast, Firsts
<1>3. Cardinality(Probes') = 0
  BY <1>1, FS_EmptySet
<1>4. CASE Firsts' = {}
  BY <1>3, <1>4, FS_EmptySet
<1>5. CASE \E c \in Callers : Firsts' = {c}
  <2>1. Cardinality(Firsts') = 1
    BY <1>5, FS_Singleton
  <2> QED BY <1>3, <2>1
<1> QED BY <1>2, <1>4, <1>5

(* No method, whichever caller's result it records, breaks the invariant.  *)
LEMMA BreakerStep == TypeOK /\ BreakerInv /\ [Next]_vars => BreakerInv'
<1> SUFFICES ASSUME TypeOK, BreakerInv, [Next]_vars PROVE BreakerInv'
  OBVIOUS
<1>0. /\ epoch \in Nat /\ inFlight \in Nat /\ successes \in Nat /\ failures \in Nat /\ total \in Nat
      /\ ticket \in [Callers -> TicketType] /\ SampleSize \in Nat \ {0}
      /\ Cardinality(Probes) \in Nat /\ Cardinality(Firsts) \in Nat
  BY CallsFinite, BreakerAssumption DEF TypeOK, TicketType
<1>1. ASSUME NEW c \in Callers, Call(c) PROVE BreakerInv'
  <2>1. CASE AdmitClosed(c)
    BY <1>0, <2>1 DEF BreakerInv, EpochsPast, ClosedOnGoodSample, SlotsInv, AdmitClosed, Admit, breaker, counters, TicketType
  <2>2. CASE AdmitFirst(c)
    <3>1. EpochsPast'
      BY <1>0, <2>2 DEF BreakerInv, EpochsPast, AdmitFirst, Admit, ToHalfOpen, TicketType
    <3>2. Cardinality(Probes') = 0 /\ Cardinality(Firsts') <= 1 /\ Cardinality(Firsts') \in Nat
      BY <2>2, EpisodeStarts DEF BreakerInv, AdmitFirst, Admit, ToHalfOpen
    <3> QED BY <2>2, <3>1, <3>2 DEF BreakerInv, ClosedOnGoodSample, SlotsInv, AdmitFirst, ToHalfOpen, ResetCounters
  <2>3. CASE AdmitProbe(c)
    <3>1. EpochsPast' /\ ClosedOnGoodSample'
      BY <1>0, <2>3 DEF BreakerInv, EpochsPast, ClosedOnGoodSample, AdmitProbe, Admit, TicketType
    <3>2. Probes' = Probes \cup {c} /\ c \notin Probes /\ Firsts' = Firsts
      BY <1>0, <2>3 DEF AdmitProbe, Admit, Waiting, Probes, Firsts, TicketType
    <3>3. Cardinality(Probes') = Cardinality(Probes) + 1
      BY <3>2, CallsFinite, FS_AddElement
    <3> QED BY <1>0, <2>3, <3>1, <3>2, <3>3 DEF BreakerInv, SlotsInv, AdmitProbe
  <2>4. CASE RecordSuccess(c) \/ RecordFailure(c)
    <3>0. Report(c) /\ epoch' = epoch
      BY <2>4 DEF RecordSuccess, RecordFailure, Open, Close, Count, breaker
    <3>1. EpochsPast'
      BY <1>0, <3>0 DEF BreakerInv, EpochsPast, Report, NoTicket, TicketType
    <3>2. /\ Cardinality(Probes') \in {Cardinality(Probes), Cardinality(Probes) - 1}
          /\ Cardinality(Probes') \in Nat
          /\ Cardinality(Firsts') <= Cardinality(Firsts) /\ Cardinality(Firsts') \in Nat
      BY <3>0, ReportCounts
    <3>3. SlotsInv'
      <4>1. CASE state' = "half_open"
        <5>1. /\ state = "half_open" /\ successes' = successes + 1
              /\ inFlight' = IF inFlight = 0 THEN 0 ELSE inFlight - 1
          BY <2>4, <4>1 DEF RecordSuccess, RecordFailure, Open, Close, Count, ReleaseSlot, breaker
        <5> QED BY <1>0, <3>2, <5>1 DEF BreakerInv, SlotsInv
      <4> QED BY <4>1 DEF SlotsInv
    <3>4. ClosedOnGoodSample'
      <4>1. ASSUME NEW f \in Nat, NEW s \in Nat, Count(f, s) PROVE ClosedOnGoodSample'
        BY <4>1 DEF Count, Open, ClosedOnGoodSample
      <4>2. Close => ClosedOnGoodSample'
        BY <1>0 DEF Close, ResetCounters, ClosedOnGoodSample, TooManyFailures
      <4>3. state' # "closed" => ClosedOnGoodSample'
        BY DEF ClosedOnGoodSample
      <4> QED BY <1>0, <2>4, <4>1, <4>2, <4>3 DEF RecordSuccess, RecordFailure, Open, breaker
    <3> QED BY <3>1, <3>3, <3>4 DEF BreakerInv
  <2> QED BY <1>1, <2>1, <2>2, <2>3, <2>4 DEF Call
<1>2. CASE ReadState
  <2>1. Cardinality(Probes') = 0 /\ Cardinality(Firsts') <= 1
    BY <1>2, EpisodeStarts DEF BreakerInv, ReadState, ToHalfOpen
  <2> QED BY <1>0, <1>2, <2>1 DEF BreakerInv, EpochsPast, ClosedOnGoodSample, SlotsInv, ReadState, ToHalfOpen, ResetCounters, TicketType
<1>3. CASE CooldownElapses \/ UNCHANGED vars
  BY <1>3 DEF BreakerInv, EpochsPast, ClosedOnGoodSample, SlotsInv, Probes, Firsts, CooldownElapses, vars, breaker, counters
<1>4. CASE Reset
  BY <1>0, <1>4 DEF BreakerInv, EpochsPast, ClosedOnGoodSample, SlotsInv, Reset, Close, ResetCounters, TooManyFailures
<1> QED BY <1>1, <1>2, <1>3, <1>4 DEF Next

(* The inductive invariant of the breaker holds in every state.            *)
LEMMA BreakerInvHolds == Spec => []BreakerInv
<1>1. Init => BreakerInv
  BY BreakerAssumption DEF Init, BreakerInv, EpochsPast, ClosedOnGoodSample, SlotsInv, TooManyFailures, NoTicket
<1> QED BY <1>1, BreakerStep, TypeCorrect, PTL DEF Spec

(* A closed breaker never keeps a large enough sample with too many        *)
(* failures, whichever result came last.                                   *)
THEOREM GoodSample == Spec => []ClosedOnGoodSample
<1>1. BreakerInv => ClosedOnGoodSample
  BY DEF BreakerInv
<1> QED BY <1>1, BreakerInvHolds, PTL

(* No half-open slot is lost to a call that has ended.                     *)
THEOREM SlotsHeld == Spec => []NoPhantomSlot
<1>1. BreakerInv => NoPhantomSlot
  BY DEF BreakerInv, SlotsInv, NoPhantomSlot
<1> QED BY <1>1, BreakerInvHolds, PTL

(* An episode lets at most half_open_max + successes + 1 calls run at once. *)
THEOREM EpisodeBounded == Spec => []ProbesBounded
<1>1. TypeOK /\ BreakerInv => ProbesBounded
  BY CallsFinite, BreakerAssumption DEF TypeOK, BreakerInv, SlotsInv, ProbesBounded
<1> QED BY <1>1, BreakerInvHolds, TypeCorrect, PTL
=============================================================================
