-------------------------- MODULE CostBudgetProofs --------------------------
(***************************************************************************)
(* Theorems about CostBudget: for any finite set of calls in any modes,    *)
(* any costs, any limits and any number of tiers.                          *)
(***************************************************************************)
EXTENDS CostBudget, FiniteSetTheorems, TLAPS

(* The type invariant without reserved_total, which is only known to be a  *)
(* number because it is the sum of the reservations.                       *)
Types ==
  /\ daily_total \in Nat /\ overrun \in Nat
  /\ reservations \in SUBSET Ids
  /\ task_totals \in [Scopes -> Nat]
  /\ levels_shown \in SUBSET Levels
  /\ date \in 0..MaxDay /\ flags_date \in 0..MaxDay
  /\ pc \in [Asks -> Steps] /\ mode \in [Asks -> Modes \cup {"none"}]
  /\ tier \in [Asks -> Scopes]
  /\ amount \in [Asks -> 0..TaskLimit] /\ actual \in [Asks -> Nat]
  /\ own \in [Asks -> Nat] /\ calls \in [Asks -> 0..MaxCalls]
  /\ spent \in [Asks -> Nat]
  /\ alerts \in [Levels \X (0..MaxDay) -> Nat]

-----------------------------------------------------------------------------
(* Types.                                                                  *)

LEMMA TypesInit == Init => Types
BY BudgetAssumption
DEF Init, Types, Steps, Ended, Scopes, Modes, Ids

(* Each operation of the ledger keeps its part of the types.               *)
LEMMA BookTypes ==
  ASSUME Types, NEW a \in Asks, Book(a)
  PROVE  /\ daily_total' \in Nat /\ overrun' \in Nat
         /\ reservations' \in SUBSET Ids
         /\ task_totals' \in [Scopes -> Nat]
<1>1. actual[a] \in Nat /\ amount[a] \in Nat /\ tier[a] \in Scopes
  BY BudgetAssumption DEF Types
<1>2. Excess(a) \in Nat
  BY <1>1 DEF Excess
<1> QED BY <1>1, <1>2 DEF Book, Types

LEMMA GiveBackTypes ==
  ASSUME Types, NEW a \in Asks, GiveBack(a)
  PROVE  /\ daily_total' \in Nat /\ overrun' \in Nat
         /\ reservations' \in SUBSET Ids
         /\ task_totals' \in [Scopes -> Nat]
BY DEF GiveBack, Types

(* An alert keeps the types of the alert variables.                        *)
LEMMA WarnTypes ==
  ASSUME Types, NEW total \in Nat, Warn(total)
  PROVE  /\ levels_shown' \in SUBSET Levels /\ flags_date' \in 0..MaxDay
         /\ alerts' \in [Levels \X (0..MaxDay) -> Nat]
<1>1. WarningLevel(total) \in SUBSET Levels
  BY DEF WarningLevel
<1>2. ShownToday \in SUBSET Levels
  BY DEF ShownToday, Types
<1> DEFINE new == WarningLevel(total) \ ShownToday
<1>3. levels_shown' = ShownToday \cup new /\ flags_date' = date
  BY DEF Warn
<1>4. alerts' = [l \in DOMAIN alerts |->
                   IF l \in new \X {date} THEN alerts[l] + 1 ELSE alerts[l]]
  BY DEF Warn
<1> HIDE DEF new
<1>5. alerts' \in [Levels \X (0..MaxDay) -> Nat]
  BY <1>4 DEF Types
<1>6. levels_shown' \in SUBSET Levels
  BY <1>1, <1>2, <1>3 DEF new
<1> QED BY <1>3, <1>5, <1>6 DEF Types

(* What a step that leaves the ledger and the alerts alone has to keep.    *)
LEMMA TypesStep ==
  ASSUME Types, [Next]_vars
  PROVE  Types'
<1> USE BudgetAssumption
<1>1. ASSUME NEW a \in Asks, RefuseEarly(a)
      PROVE  Types'
  BY <1>1 DEF RefuseEarly, Types, Goto, Steps, Ended, ledgerVars, alertVars, planVars, judgeVars
<1>2. ASSUME NEW a \in Asks, NEW m \in ModesOf[a], Start(a, m)
      PROVE  Types'
  <2>1. m \in Modes
    BY <1>2
  <2>2. mode' \in [Asks -> Modes \cup {"none"}]
    BY <1>2, <2>1 DEF Start, Types
  <2>3. tier' \in [Asks -> Scopes]
    BY <1>2 DEF Start, Types, Scopes
  <2>4. pc' \in [Asks -> Steps]
    BY <1>2 DEF Start, Types, Goto, Steps
  <2> QED BY <1>2, <2>2, <2>3, <2>4
      DEF Start, Types, ledgerVars, alertVars, judgeVars
<1>3. ASSUME NEW a \in Asks, NEW c \in Costs, Reserve(a, c)
      PROVE  Types'
  <2>1. c \in 0..TaskLimit
    BY <1>3 DEF Reserve, Affordable
  <2>2. Id(a) \in Ids
    BY DEF Id, Ids, Types
  <2> QED BY <1>3, <2>1, <2>2
      DEF Reserve, Types, Goto, Steps, Ended, alertVars, judgeVars
<1>4. ASSUME NEW a \in Asks, NEW c \in Costs, ReserveRaises(a, c)
      PROVE  Types'
  BY <1>4 DEF ReserveRaises, Types, Goto, Steps, Ended, ledgerVars, alertVars, planVars, judgeVars
<1>5. ASSUME NEW a \in Asks, NEW c \in Costs, Answer(a, c)
      PROVE  Types'
  <2>1. c \in Nat
    OBVIOUS
  <2> QED BY <1>5, <2>1
      DEF Answer, Types, Goto, Steps, Ended, ledgerVars, alertVars, planVars, judgeVars
<1>6. ASSUME NEW a \in Asks, Fail(a) \/ CallRaises(a)
      PROVE  Types'
  BY <1>6 DEF Fail, CallRaises, Types, Goto, Steps, Ended, ledgerVars, alertVars, planVars, judgeVars
<1>7. ASSUME NEW a \in Asks, FinalizeRaises(a)
      PROVE  Types'
  <2>1. Book(a)
    BY <1>7 DEF FinalizeRaises
  <2> QED BY <1>7, <2>1, BookTypes
      DEF FinalizeRaises, Types, Goto, Steps, Ended, alertVars, planVars, judgeVars
<1>8. ASSUME NEW a \in Asks, Finalize(a)
      PROVE  Types'
  <2>1. Book(a)
    BY <1>8 DEF Finalize
  <2>2. daily_total + actual[a] \in Nat
    BY DEF Types
  <2>3. /\ levels_shown' \in SUBSET Levels /\ flags_date' \in 0..MaxDay
        /\ alerts' \in [Levels \X (0..MaxDay) -> Nat]
    <3>1. CASE Warn(daily_total + actual[a])
      BY <3>1, <2>2, WarnTypes
    <3>2. CASE UNCHANGED alertVars
      BY <3>2 DEF Types, alertVars
    <3> QED BY <1>8, <3>1, <3>2 DEF Finalize
  <2> QED BY <1>8, <2>1, <2>3, BookTypes
      DEF Finalize, Types, Goto, Steps, Ended, planVars, judgeVars
<1>9. ASSUME NEW a \in Asks, Release(a) \/ ReleaseAndRaise(a)
      PROVE  Types'
  <2>1. GiveBack(a)
    BY <1>9 DEF Release, ReleaseAndRaise
  <2> QED BY <1>9, <2>1, GiveBackTypes
      DEF Release, ReleaseAndRaise, Types, Goto, Steps, Ended, alertVars, planVars, judgeVars
<1>10. ASSUME NEW a \in Asks, NextTier(a)
       PROVE  Types'
  <2>1. GiveBack(a)
    BY <1>10 DEF NextTier
  <2>2. tier' \in [Asks -> Scopes]
    <3>1. tier \in [Asks -> 0..Tiers] /\ Tiers \in Nat
      BY BudgetAssumption DEF Types, Scopes
    <3>2. CASE tier[a] < Tiers /\ tier' = [tier EXCEPT ![a] = @ + 1]
      <4>1. tier[a] + 1 \in 0..Tiers
        BY <3>1, <3>2
      <4> QED BY <3>1, <3>2, <4>1 DEF Scopes
    <3>3. CASE tier' = tier
      BY <3>1, <3>3 DEF Scopes
    <3> QED BY <1>10, <3>2, <3>3 DEF NextTier
  <2> QED BY <1>10, <2>1, <2>2, GiveBackTypes
      DEF NextTier, Types, Goto, Steps, Ended, alertVars, judgeVars
<1>11. ASSUME NEW a \in Asks, NEW c \in Costs, JudgedCall(a, c)
       PROVE  Types'
  <2>1. c \in Nat
    OBVIOUS
  <2>2. calls' \in [Asks -> 0..MaxCalls]
    <3>1. calls[a] \in 0..MaxCalls /\ calls[a] < MaxCalls /\ MaxCalls \in Nat
      BY <1>11, BudgetAssumption DEF JudgedCall, Types
    <3>2. calls[a] + 1 \in 0..MaxCalls
      BY <3>1
    <3> QED BY <1>11, <3>2 DEF JudgedCall, Types
  <2>3. spent' \in [Asks -> Nat]
    BY <1>11, <2>1 DEF JudgedCall, Types
  <2>4. own' \in [Asks -> Nat]
    <3>1. own' = own \/ own' = [own EXCEPT ![a] = @ + c]
      BY <1>11 DEF JudgedCall
    <3> QED BY <2>1, <3>1 DEF Types
  <2>5. UNCHANGED <<ledgerVars, alertVars, date, pc, planVars, actual>>
    BY <1>11 DEF JudgedCall
  <2> QED BY <2>2, <2>3, <2>4, <2>5 DEF Types, ledgerVars, alertVars, planVars
<1>12. ASSUME NEW a \in Asks, JudgeReturns(a)
       PROVE  Types'
  BY <1>12 DEF JudgeReturns, Types, Goto, Steps, Ended, ledgerVars, alertVars, planVars, judgeVars
<1>13. ASSUME NewDay
       PROVE  Types'
  BY <1>13 DEF NewDay, Types, ledgerVars, alertVars, planVars, judgeVars
<1>14. CASE UNCHANGED vars
  BY <1>14 DEF vars, Types, ledgerVars, alertVars, planVars, judgeVars
<1> QED
  BY <1>1, <1>2, <1>3, <1>4, <1>5, <1>6, <1>7, <1>8, <1>9, <1>10, <1>11, <1>12, <1>13, <1>14
  DEF Next, AskStep, ReserveStep, CallStep, FinalStep, JudgeStep, Rest

(* The types hold in every reachable state.                                *)
THEOREM TypesKept == Spec => []Types
<1>1. Init => Types
  BY TypesInit
<1>2. Types /\ [Next]_vars => Types'
  BY TypesStep
<1> QED BY <1>1, <1>2, PTL DEF Spec

-----------------------------------------------------------------------------
(* Reservations and the calls they belong to.                              *)

Live == Holding \cup {"raising"}

(* A call that neither holds nor gives back has no reservation.            *)
LEMMA NoReservation ==
  ASSUME Types, ReservationsOwned, NEW a \in Asks, pc[a] \notin Live
  PROVE  \A s : <<a, s>> \notin reservations
BY DEF ReservationsOwned, Live

(* A step of one call that changes no reservation keeps them owned.        *)
LEMMA OwnedSame ==
  ASSUME Types, ReservationsOwned, NEW a \in Asks, NEW p, Goto(a, p),
         reservations' = reservations, tier' = tier,
         (p \in Holding) => (pc[a] \in Holding),
         (pc[a] \in Live) => (p \in Live)
  PROVE  ReservationsOwned'
<1>1. \A b \in Asks : pc'[b] = IF b = a THEN p ELSE pc[b]
  BY DEF Goto, Types
<1>2. \A b : Id(b)' = Id(b)
  BY DEF Id
<1>3. ASSUME NEW b \in Asks, pc'[b] \in Holding
      PROVE  Id(b)' \in reservations'
  BY <1>1, <1>2, <1>3 DEF ReservationsOwned
<1>4. ASSUME NEW r \in reservations'
      PROVE  r = Id(r[1])' /\ pc'[r[1]] \in Live
  <2>1. r[1] \in Asks /\ r = Id(r[1]) /\ pc[r[1]] \in Live
    BY DEF Types, Ids, ReservationsOwned, Live
  <2> QED BY <1>1, <1>2, <2>1
<1> QED BY <1>3, <1>4 DEF ReservationsOwned, Live

(* A step of a call that gives its reservation up, or had none, keeps the  *)
(* reservations of the others owned.                                       *)
LEMMA OwnedDropped ==
  ASSUME Types, ReservationsOwned, NEW a \in Asks, NEW p, Goto(a, p), p \notin Holding,
         reservations' = reservations \ {Id(a)},
         \A b \in Asks : b # a => tier'[b] = tier[b]
  PROVE  ReservationsOwned'
<1>1. \A b \in Asks : pc'[b] = IF b = a THEN p ELSE pc[b]
  BY DEF Goto, Types
<1>2. \A b \in Asks : b # a => Id(b)' = Id(b)
  BY DEF Id
<1>3. ASSUME NEW b \in Asks, pc'[b] \in Holding
      PROVE  Id(b)' \in reservations'
  <2>1. b # a /\ pc[b] \in Holding
    BY <1>1, <1>3
  <2>2. Id(b) # Id(a)
    BY <2>1 DEF Id
  <2> QED BY <1>2, <2>1, <2>2 DEF ReservationsOwned
<1>4. ASSUME NEW r \in reservations'
      PROVE  r = Id(r[1])' /\ pc'[r[1]] \in Live
  <2>1. r[1] \in Asks /\ r = Id(r[1]) /\ pc[r[1]] \in Live /\ r # Id(a)
    BY DEF Types, Ids, ReservationsOwned, Live
  <2>2. r[1] # a
    BY <2>1
  <2> QED BY <1>1, <1>2, <2>1, <2>2
<1> QED BY <1>3, <1>4 DEF ReservationsOwned, Live

LEMMA OwnedStep ==
  ASSUME Types, ReservationsOwned, [Next]_vars
  PROVE  ReservationsOwned'
<1>1. ASSUME NEW a \in Asks,
             \/ RefuseEarly(a) \/ (\E c \in Costs : ReserveRaises(a, c))
             \/ (\E c \in Costs : Answer(a, c)) \/ Fail(a) \/ CallRaises(a)
             \/ JudgeReturns(a)
      PROVE  ReservationsOwned'
  <2>1. reservations' = reservations /\ tier' = tier
    BY <1>1 DEF RefuseEarly, ReserveRaises, Answer, Fail, CallRaises, JudgeReturns,
                ledgerVars, planVars
  <2>2. PICK p : /\ Goto(a, p)
                 /\ (p \in Holding) => (pc[a] \in Holding)
                 /\ (pc[a] \in Live) => (p \in Live)
    BY <1>1 DEF RefuseEarly, ReserveRaises, Answer, Fail, CallRaises, JudgeReturns,
                Holding, Live
  <2> QED BY <2>1, <2>2, OwnedSame
<1>2. ASSUME NEW a \in Asks, NEW m \in ModesOf[a], Start(a, m)
      PROVE  ReservationsOwned'
  <2>1. Id(a) \notin reservations
    BY <1>2, NoReservation DEF Start, Live, Holding, Id
  <2>2. reservations' = reservations \ {Id(a)}
    BY <1>2, <2>1 DEF Start, ledgerVars
  <2>3. \A b \in Asks : b # a => tier'[b] = tier[b]
    BY <1>2 DEF Start, Types
  <2>4. PICK p : Goto(a, p) /\ p \notin Holding
    BY <1>2 DEF Start, Holding
  <2> QED BY <2>2, <2>3, <2>4, OwnedDropped
<1>3. ASSUME NEW a \in Asks, NEW c \in Costs, Reserve(a, c)
      PROVE  ReservationsOwned'
  <2>1. \A b \in Asks : pc'[b] = IF b = a THEN "calling" ELSE pc[b]
    BY <1>3 DEF Reserve, Goto, Types
  <2>2. \A b : Id(b)' = Id(b)
    BY <1>3 DEF Reserve, Id
  <2>3. reservations' = reservations \cup {Id(a)}
    BY <1>3 DEF Reserve
  <2>4. ASSUME NEW b \in Asks, pc'[b] \in Holding
        PROVE  Id(b)' \in reservations'
    BY <2>1, <2>2, <2>3, <2>4 DEF ReservationsOwned
  <2>5. ASSUME NEW r \in reservations'
        PROVE  r = Id(r[1])' /\ pc'[r[1]] \in Live
    <3>1. CASE r = Id(a)
      BY <2>1, <2>2, <3>1 DEF Id, Live, Holding
    <3>2. CASE r \in reservations
      <4>1. r[1] \in Asks /\ r = Id(r[1]) /\ pc[r[1]] \in Live
        BY <3>2 DEF Types, Ids, ReservationsOwned, Live
      <4> QED BY <2>1, <2>2, <4>1 DEF Live, Holding
    <3> QED BY <2>3, <2>5, <3>1, <3>2
  <2> QED BY <2>4, <2>5 DEF ReservationsOwned, Live
<1>4. ASSUME NEW a \in Asks, FinalizeRaises(a) \/ Finalize(a) \/ Release(a) \/ ReleaseAndRaise(a)
      PROVE  ReservationsOwned'
  <2>1. reservations' = reservations \ {Id(a)} /\ tier' = tier
    BY <1>4 DEF FinalizeRaises, Finalize, Release, ReleaseAndRaise, Book, GiveBack, planVars
  <2>2. PICK p : Goto(a, p) /\ p \notin Holding
    BY <1>4 DEF FinalizeRaises, Finalize, Release, ReleaseAndRaise, Holding
  <2> QED BY <2>1, <2>2, OwnedDropped
<1>5. ASSUME NEW a \in Asks, NextTier(a)
      PROVE  ReservationsOwned'
  <2>1. reservations' = reservations \ {Id(a)}
    BY <1>5 DEF NextTier, GiveBack
  <2>2. \A b \in Asks : b # a => tier'[b] = tier[b]
    BY <1>5 DEF NextTier, Types
  <2>3. PICK p : Goto(a, p) /\ p \notin Holding
    BY <1>5 DEF NextTier, Holding
  <2> QED BY <2>1, <2>2, <2>3, OwnedDropped
<1>6. ASSUME UNCHANGED <<reservations, tier, pc>>
      PROVE  ReservationsOwned'
  BY <1>6 DEF ReservationsOwned, Id
<1>7. ASSUME NEW a \in Asks, NEW c \in Costs, JudgedCall(a, c)
      PROVE  ReservationsOwned'
  BY <1>6, <1>7 DEF JudgedCall, ledgerVars, planVars
<1>8. ASSUME NewDay
      PROVE  ReservationsOwned'
  BY <1>6, <1>8 DEF NewDay, ledgerVars, planVars
<1>9. CASE UNCHANGED vars
  BY <1>6, <1>9 DEF vars, ledgerVars, planVars
<1> QED
  BY <1>1, <1>2, <1>3, <1>4, <1>5, <1>7, <1>8, <1>9
  DEF Next, AskStep, ReserveStep, CallStep, FinalStep, JudgeStep, Rest

(* Every reservation belongs to a call that will settle it, and a call     *)
(* whose model works has one: finalize_spending always finds its id.       *)
THEOREM OwnedKept == Spec => []ReservationsOwned
<1>1. Init => ReservationsOwned
  BY DEF Init, ReservationsOwned, Holding
<1>2. Types /\ ReservationsOwned /\ [Next]_vars => ReservationsOwned'
  BY OwnedStep
<1> QED BY <1>1, <1>2, TypesKept, PTL DEF Spec

-----------------------------------------------------------------------------
(* Sums, counted unit by unit: what a member adds, takes away or changes.   *)

Amounts == [Asks -> 0..TaskLimit]

LEMMA FiniteUnits ==
  ASSUME NEW H \in SUBSET Asks, NEW f \in Amounts
  PROVE  IsFiniteSet(UnitsOf(H, f)) /\ Cardinality(UnitsOf(H, f)) \in Nat
<1>1. IsFiniteSet(1..TaskLimit)
  BY FS_Interval, BudgetAssumption
<1>2. IsFiniteSet(Asks \X (1..TaskLimit))
  BY <1>1, FS_Product, BudgetAssumption
<1>3. UnitsOf(H, f) \in SUBSET (Asks \X (1..TaskLimit))
  <2>1. ASSUME NEW x \in H
        PROVE  ({x} \X (1..f[x])) \in SUBSET (Asks \X (1..TaskLimit))
    <3>1. f[x] \in 0..TaskLimit
      BY DEF Amounts
    <3> QED BY <3>1, BudgetAssumption
  <2> QED BY <2>1 DEF UnitsOf
<1> QED BY <1>2, <1>3, FS_Subset, FS_CardinalityType

(* The units of one member.                                                *)
LEMMA UnitsOfOne ==
  ASSUME NEW x, NEW n \in Nat
  PROVE  IsFiniteSet({x} \X (1..n)) /\ Cardinality({x} \X (1..n)) = n
<1>1. IsFiniteSet(1..n) /\ Cardinality(1..n) = n
  BY FS_Interval
<1>2. IsFiniteSet({x}) /\ Cardinality({x}) = 1
  BY FS_Singleton
<1>3. /\ IsFiniteSet({x} \X (1..n))
      /\ Cardinality({x} \X (1..n)) = Cardinality({x}) * Cardinality(1..n)
  BY <1>1, <1>2, FS_Product
<1> QED BY <1>1, <1>2, <1>3

(* A member that joins brings its amount.                                  *)
LEMMA UnitsAdded ==
  ASSUME NEW H, NEW f, NEW x, x \notin H, f[x] \in Nat, IsFiniteSet(UnitsOf(H, f))
  PROVE  /\ IsFiniteSet(UnitsOf(H \cup {x}, f))
         /\ Cardinality(UnitsOf(H \cup {x}, f)) = Cardinality(UnitsOf(H, f)) + f[x]
<1> DEFINE New == {x} \X (1..f[x])
<1>1. UnitsOf(H \cup {x}, f) = UnitsOf(H, f) \cup New
  BY DEF UnitsOf
<1>2. UnitsOf(H, f) \cap New = {}
  BY DEF UnitsOf
<1>3. IsFiniteSet(New) /\ Cardinality(New) = f[x]
  BY UnitsOfOne
<1> HIDE DEF New
<1>4. /\ IsFiniteSet(UnitsOf(H, f) \cup New)
      /\ Cardinality(UnitsOf(H, f) \cup New) =
           Cardinality(UnitsOf(H, f)) + Cardinality(New) - Cardinality(UnitsOf(H, f) \cap New)
  BY <1>3, FS_Union
<1>5. Cardinality(UnitsOf(H, f) \cap New) = 0
  BY <1>2, FS_EmptySet
<1>6. Cardinality(UnitsOf(H, f)) \in Nat
  BY FS_CardinalityType
<1>7. Cardinality(UnitsOf(H, f) \cup New) = Cardinality(UnitsOf(H, f)) + f[x]
  BY <1>3, <1>4, <1>5, <1>6
<1> QED BY <1>1, <1>4, <1>7

(* A member that leaves takes its amount with it, and no other.            *)
LEMMA UnitsDropped ==
  ASSUME NEW H, NEW f, NEW x \in H, f[x] \in Nat, IsFiniteSet(UnitsOf(H, f))
  PROVE  /\ IsFiniteSet(UnitsOf(H \ {x}, f))
         /\ Cardinality(UnitsOf(H \ {x}, f)) = Cardinality(UnitsOf(H, f)) - f[x]
<1>1. (H \ {x}) \cup {x} = H
  OBVIOUS
<1>2. UnitsOf(H \ {x}, f) \in SUBSET UnitsOf(H, f)
  BY DEF UnitsOf
<1>3. IsFiniteSet(UnitsOf(H \ {x}, f)) /\ Cardinality(UnitsOf(H \ {x}, f)) \in Nat
  BY <1>2, FS_Subset, FS_CardinalityType
<1>4. Cardinality(UnitsOf((H \ {x}) \cup {x}, f)) = Cardinality(UnitsOf(H \ {x}, f)) + f[x]
  BY <1>3, UnitsAdded
<1>5. Cardinality(UnitsOf(H, f)) = Cardinality(UnitsOf(H \ {x}, f)) + f[x]
  BY <1>1, <1>4
<1>6. Cardinality(UnitsOf(H \ {x}, f)) = Cardinality(UnitsOf(H, f)) - f[x]
  BY <1>3, <1>5
<1> QED BY <1>3, <1>6

(* A member whose amount grows adds what it grows by.                      *)
LEMMA UnitsRaised ==
  ASSUME NEW H, NEW f, NEW x \in H, f[x] \in Nat, NEW n \in Nat, NEW g, g[x] = f[x] + n,
         \A y \in H \ {x} : g[y] = f[y], IsFiniteSet(UnitsOf(H, f))
  PROVE  /\ IsFiniteSet(UnitsOf(H, g))
         /\ Cardinality(UnitsOf(H, g)) = Cardinality(UnitsOf(H, f)) + n
<1>2. /\ IsFiniteSet(UnitsOf(H \ {x}, f))
      /\ Cardinality(UnitsOf(H \ {x}, f)) = Cardinality(UnitsOf(H, f)) - f[x]
  BY UnitsDropped
<1> DEFINE Others == H \ {x}
<1>3. Others \cup {x} = H /\ x \notin Others /\ g[x] \in Nat
  OBVIOUS
<1>4. UnitsOf(Others, g) = UnitsOf(Others, f)
  BY DEF UnitsOf
<1>5. /\ IsFiniteSet(UnitsOf(Others, g))
      /\ Cardinality(UnitsOf(Others, g)) = Cardinality(UnitsOf(H, f)) - f[x]
  BY <1>2, <1>4
<1> HIDE DEF Others
<1>6. /\ IsFiniteSet(UnitsOf(Others \cup {x}, g))
      /\ Cardinality(UnitsOf(Others \cup {x}, g)) = Cardinality(UnitsOf(Others, g)) + g[x]
  BY <1>3, <1>5, UnitsAdded
<1>7. Cardinality(UnitsOf(H, f)) \in Nat
  BY FS_CardinalityType
<1>8. Cardinality(UnitsOf(Others, g)) + g[x] = Cardinality(UnitsOf(H, f)) + n
  BY <1>5, <1>7
<1> QED BY <1>3, <1>6, <1>8

-----------------------------------------------------------------------------
(* The sum of the reservations.                                            *)

LEMMA HeldSubset == Held \in SUBSET Asks
BY DEF Held

LEMMA AmountsType == Types => amount \in Amounts
BY DEF Types, Amounts

(* The sum is kept by a step that leaves ids, amounts and total alone.     *)
LEMMA SumSame ==
  ASSUME ReservedIsSum, Held' = Held, amount' = amount, reserved_total' = reserved_total
  PROVE  ReservedIsSum'
BY DEF ReservedIsSum, Units, UnitsOf

(* The reservation of one call goes: those of the others stay.             *)
LEMMA HeldDropped ==
  ASSUME Types, ReservationsOwned, NEW a \in Asks,
         reservations' = reservations \ {Id(a)},
         \A b \in Asks : b # a => tier'[b] = tier[b]
  PROVE  Held' = Held \ {a}
<1>1. Id(a)' \notin reservations'
  BY DEF Types, Ids, ReservationsOwned, Id
<1>2. ASSUME NEW b \in Asks, b # a
      PROVE  Id(b)' \in reservations' <=> Id(b) \in reservations
  <2>1. Id(b)' = Id(b) /\ Id(b) # Id(a)
    BY <1>2 DEF Id
  <2> QED BY <2>1
<1> QED BY <1>1, <1>2 DEF Held

(* Settling a reservation, or releasing it while it is there.              *)
LEMMA SumDropped ==
  ASSUME Types, ReservationsOwned, ReservedIsSum, NEW a \in Asks,
         reservations' = reservations \ {Id(a)}, amount' = amount,
         \A b \in Asks : b # a => tier'[b] = tier[b],
         reserved_total' = IF Id(a) \in reservations THEN reserved_total - amount[a]
                           ELSE reserved_total
  PROVE  ReservedIsSum'
<1>1. Held' = Held \ {a}
  BY HeldDropped
<1>2. Units' = UnitsOf(Held \ {a}, amount)
  BY <1>1 DEF Units, UnitsOf
<1>3. CASE a \in Held
  <2>1. Cardinality(UnitsOf(Held \ {a}, amount)) = Cardinality(UnitsOf(Held, amount)) - amount[a]
    <3>1. IsFiniteSet(UnitsOf(Held, amount)) /\ amount[a] \in Nat
      BY HeldSubset, AmountsType, FiniteUnits, BudgetAssumption DEF Types
    <3> QED BY <1>3, <3>1, UnitsDropped
  <2>2. reserved_total' = reserved_total - amount[a]
    BY <1>3 DEF Held
  <2> QED BY <1>2, <2>1, <2>2 DEF ReservedIsSum, Units
<1>4. CASE a \notin Held
  <2>1. Held \ {a} = Held
    BY <1>4
  <2>2. reserved_total' = reserved_total
    BY <1>4 DEF Held
  <2> QED BY <1>2, <2>1, <2>2 DEF ReservedIsSum, Units
<1> QED BY <1>3, <1>4

LEMMA SumStep ==
  ASSUME Types, ReservationsOwned, ReservedIsSum, [Next]_vars
  PROVE  ReservedIsSum'
<1>1. ASSUME UNCHANGED <<reservations, tier, amount, reserved_total>>
      PROVE  ReservedIsSum'
  <2>1. Held' = Held
    BY <1>1 DEF Held, Id
  <2> QED BY <1>1, <2>1, SumSame
<1>2. ASSUME NEW a \in Asks,
             \/ RefuseEarly(a) \/ (\E c \in Costs : ReserveRaises(a, c))
             \/ (\E c \in Costs : Answer(a, c)) \/ Fail(a) \/ CallRaises(a)
             \/ (\E c \in Costs : JudgedCall(a, c)) \/ JudgeReturns(a)
      PROVE  ReservedIsSum'
  <2>1. UNCHANGED <<reservations, tier, amount, reserved_total>>
    BY <1>2 DEF RefuseEarly, ReserveRaises, Answer, Fail, CallRaises, JudgedCall,
                JudgeReturns, ledgerVars, planVars
  <2> QED BY <1>1, <2>1
<1>3. ASSUME NEW a \in Asks, NEW m \in ModesOf[a], Start(a, m)
      PROVE  ReservedIsSum'
  <2>1. Id(a) \notin reservations
    BY <1>3, NoReservation DEF Start, Live, Holding, Id
  <2>2. reservations' = reservations \ {Id(a)} /\ amount' = amount
    BY <1>3, <2>1 DEF Start, ledgerVars
  <2>3. reserved_total' = reserved_total
    BY <1>3 DEF Start, ledgerVars
  <2>4. \A b \in Asks : b # a => tier'[b] = tier[b]
    BY <1>3 DEF Start, Types
  <2> QED BY <2>1, <2>2, <2>3, <2>4, SumDropped
<1>4. ASSUME NEW a \in Asks, NEW c \in Costs, Reserve(a, c)
      PROVE  ReservedIsSum'
  <2>1. c \in Nat /\ c \in 0..TaskLimit
    BY <1>4, BudgetAssumption DEF Reserve, Affordable
  <2>2. a \notin Held
    BY <1>4, NoReservation DEF Reserve, Live, Holding, Held, Id
  <2>3. Held' = Held \cup {a}
    BY <1>4 DEF Reserve, Held, Id
  <2>4. amount' = [amount EXCEPT ![a] = c] /\ reserved_total' = reserved_total + c
    BY <1>4 DEF Reserve
  <2>5. amount' \in Amounts /\ amount'[a] = c /\ \A b \in Held : amount'[b] = amount[b]
    BY <2>1, <2>2, <2>4, AmountsType, HeldSubset DEF Amounts
  <2>6. Cardinality(UnitsOf(Held \cup {a}, amount')) = Cardinality(UnitsOf(Held, amount)) + c
    <3>1. IsFiniteSet(UnitsOf(Held, amount))
      BY HeldSubset, AmountsType, FiniteUnits
    <3>2. UnitsOf(Held, amount') = UnitsOf(Held, amount)
      BY <2>5 DEF UnitsOf
    <3> QED BY <2>1, <2>2, <2>5, <3>1, <3>2, UnitsAdded
  <2>7. Units' = UnitsOf(Held \cup {a}, amount')
    BY <2>3 DEF Units, UnitsOf
  <2> QED BY <2>4, <2>6, <2>7 DEF ReservedIsSum, Units
<1>5. ASSUME NEW a \in Asks, FinalizeRaises(a) \/ Finalize(a)
      PROVE  ReservedIsSum'
  <2>1. Book(a) /\ pc[a] = "finalizing" /\ UNCHANGED planVars
    BY <1>5 DEF FinalizeRaises, Finalize
  <2>2. Id(a) \in reservations
    BY <2>1 DEF ReservationsOwned, Holding
  <2>3. reserved_total' = reserved_total - amount[a]
    BY <2>1 DEF Book
  <2>4. reservations' = reservations \ {Id(a)} /\ amount' = amount /\ tier' = tier
    BY <2>1 DEF Book, planVars
  <2> QED BY <2>2, <2>3, <2>4, SumDropped
<1>6. ASSUME NEW a \in Asks, Release(a) \/ ReleaseAndRaise(a) \/ NextTier(a)
      PROVE  ReservedIsSum'
  <2>1. GiveBack(a) /\ amount' = amount
    BY <1>6 DEF Release, ReleaseAndRaise, NextTier, planVars
  <2>2. \A b \in Asks : b # a => tier'[b] = tier[b]
    BY <1>6 DEF Release, ReleaseAndRaise, NextTier, planVars, Types
  <2> QED BY <2>1, <2>2, SumDropped DEF GiveBack
<1>7. ASSUME NewDay
      PROVE  ReservedIsSum'
  BY <1>1, <1>7 DEF NewDay, ledgerVars, planVars
<1>8. CASE UNCHANGED vars
  BY <1>1, <1>8 DEF vars, ledgerVars, planVars
<1> QED
  BY <1>2, <1>3, <1>4, <1>5, <1>6, <1>7, <1>8
  DEF Next, AskStep, ReserveStep, CallStep, FinalStep, JudgeStep, Rest

(* What is reserved is the sum of the live reservations.                   *)
THEOREM SumKept == Spec => []ReservedIsSum
<1>1. Init => ReservedIsSum
  <2>1. ASSUME Init
        PROVE  Units = {}
    BY <2>1 DEF Init, Units, UnitsOf, Held
  <2> QED BY <2>1, FS_EmptySet DEF Init, ReservedIsSum
<1>2. Types /\ ReservationsOwned /\ ReservedIsSum /\ [Next]_vars => ReservedIsSum'
  BY SumStep
<1> QED BY <1>1, <1>2, TypesKept, OwnedKept, PTL DEF Spec

(* The type invariant: no double release makes what is reserved negative.  *)
THEOREM TypeCorrect == Spec => []TypeOK
<1>1. Types /\ ReservedIsSum => TypeOK
  <2>1. ASSUME Types, ReservedIsSum
        PROVE  TypeOK
    <3>1. reserved_total \in Nat
      BY <2>1, HeldSubset, AmountsType, FiniteUnits DEF ReservedIsSum, Units
    <3>2. amount \in [Asks -> Nat]
      BY <2>1, BudgetAssumption DEF Types
    <3> QED BY <2>1, <3>1, <3>2 DEF Types, TypeOK
  <2> QED BY <2>1
<1> QED BY <1>1, TypesKept, SumKept, PTL

-----------------------------------------------------------------------------
(* The limit.                                                              *)

LEMMA OverrunStep ==
  ASSUME TypeOK, OverrunBounded, [Next]_vars
  PROVE  OverrunBounded'
<1>1. ASSUME UNCHANGED <<daily_total, reserved_total, overrun>>
      PROVE  OverrunBounded'
  BY <1>1 DEF OverrunBounded
<1>2. ASSUME NEW a \in Asks,
             \/ RefuseEarly(a) \/ (\E m \in ModesOf[a] : Start(a, m))
             \/ (\E c \in Costs : ReserveRaises(a, c))
             \/ (\E c \in Costs : Answer(a, c)) \/ Fail(a) \/ CallRaises(a)
             \/ (\E c \in Costs : JudgedCall(a, c)) \/ JudgeReturns(a)
      PROVE  OverrunBounded'
  <2>1. UNCHANGED <<daily_total, reserved_total, overrun>>
    BY <1>2 DEF RefuseEarly, Start, ReserveRaises, Answer, Fail, CallRaises, JudgedCall,
                JudgeReturns, ledgerVars
  <2> QED BY <1>1, <2>1
<1>3. ASSUME NEW a \in Asks, NEW c \in Costs, Reserve(a, c)
      PROVE  OverrunBounded'
  <2>1. c \in Nat /\ Limit \in Nat
    BY BudgetAssumption
  <2>2. /\ daily_total + reserved_total + c <= Limit /\ daily_total' = daily_total
        /\ reserved_total' = reserved_total + c /\ overrun' = overrun
    BY <1>3 DEF Reserve, Affordable
  <2> QED BY <2>1, <2>2 DEF OverrunBounded, TypeOK
<1>4. ASSUME NEW a \in Asks, FinalizeRaises(a) \/ Finalize(a)
      PROVE  OverrunBounded'
  <2>1. Book(a)
    BY <1>4 DEF FinalizeRaises, Finalize
  <2>2. /\ daily_total' = daily_total + actual[a] /\ overrun' = overrun + Excess(a)
        /\ reserved_total' = reserved_total - amount[a]
    BY <2>1 DEF Book
  <2>3. actual[a] \in Nat /\ amount[a] \in Nat
    BY DEF TypeOK
  <2>4. Excess(a) \in Nat /\ actual[a] <= amount[a] + Excess(a)
    BY <2>3 DEF Excess
  <2> QED BY <2>2, <2>3, <2>4, BudgetAssumption DEF OverrunBounded, TypeOK
<1>5. ASSUME NEW a \in Asks, Release(a) \/ ReleaseAndRaise(a) \/ NextTier(a)
      PROVE  OverrunBounded'
  <2>1. GiveBack(a)
    BY <1>5 DEF Release, ReleaseAndRaise, NextTier
  <2>2. amount[a] \in Nat
    BY DEF TypeOK
  <2>3. /\ daily_total' = daily_total /\ overrun' = overrun
        /\ reserved_total' = reserved_total \/ reserved_total' = reserved_total - amount[a]
    BY <2>1 DEF GiveBack
  <2> QED BY <2>2, <2>3, BudgetAssumption DEF OverrunBounded, TypeOK
<1>6. ASSUME NewDay
      PROVE  OverrunBounded'
  BY <1>1, <1>6 DEF NewDay, ledgerVars
<1>7. CASE UNCHANGED vars
  BY <1>1, <1>7 DEF vars, ledgerVars
<1> QED
  BY <1>2, <1>3, <1>4, <1>5, <1>6, <1>7
  DEF Next, AskStep, ReserveStep, CallStep, FinalStep, JudgeStep, Rest

(* What is spent and reserved exceeds the limit by no more than answers    *)
(* cost beyond their reservations.                                         *)
THEOREM BudgetKept == Spec => []OverrunBounded
<1>1. Init => OverrunBounded
  BY BudgetAssumption DEF Init, OverrunBounded
<1>2. TypeOK /\ OverrunBounded /\ [Next]_vars => OverrunBounded'
  BY OverrunStep
<1> QED BY <1>1, <1>2, TypeCorrect, PTL DEF Spec
-----------------------------------------------------------------------------

-----------------------------------------------------------------------------
(***************************************************************************)
(* What was paid.  An idle call has cost nothing, and a call goes through  *)
(* the judge exactly when it started that way.                             *)
(***************************************************************************)
ModesFixed ==
  \A a \in Asks :
    /\ pc[a] = "idle" => spent[a] = 0
    /\ pc[a] = "judging" => mode[a] = "judge"
    /\ mode[a] = "judge" => pc[a] \in {"judging", "answered"}
CountsFinite ==
  /\ IsFiniteSet(UnitsOf(Unjudged, spent))
  /\ IsFiniteSet(UnitsOf(Unbooked, actual))
  /\ IsFiniteSet(UnitsOf(Scopes, task_totals))
BookedInv == ModesFixed /\ CountsFinite /\ SpendingBooked

(* Nothing was paid and nothing booked.                                    *)
LEMMA BookedSame ==
  ASSUME CountsFinite, SpendingBooked, Unjudged' = Unjudged, Unbooked' = Unbooked,
         UNCHANGED <<spent, actual, task_totals, daily_total>>
  PROVE  CountsFinite' /\ SpendingBooked'
<1>1. /\ UnitsOf(Unjudged, spent)' = UnitsOf(Unjudged, spent)
      /\ UnitsOf(Unbooked, actual)' = UnitsOf(Unbooked, actual)
      /\ UnitsOf(Scopes, task_totals)' = UnitsOf(Scopes, task_totals)
  BY DEF UnitsOf
<1> QED BY <1>1 DEF CountsFinite, SpendingBooked

(* A call that starts has cost nothing, in whichever mode.                 *)
LEMMA BookedStart ==
  ASSUME Types, BookedInv, NEW a \in Asks, NEW m \in ModesOf[a], Start(a, m)
  PROVE  CountsFinite' /\ SpendingBooked'
<1>1. pc[a] = "idle" /\ spent[a] = 0 /\ UNCHANGED <<spent, actual, task_totals, daily_total>>
  BY DEF Start, BookedInv, ModesFixed, ledgerVars
<1>2. Unbooked' = Unbooked
  BY <1>1 DEF Unbooked, Start, Goto, Types
<1>3. UnitsOf(Unjudged, spent)' = UnitsOf(Unjudged, spent)
  <2>1. \A b \in Asks : b # a => mode'[b] = mode[b]
    BY DEF Start, Types
  <2>2. ({a} \X (1..spent[a])) = {}
    BY <1>1
  <2> QED BY <1>1, <2>1, <2>2 DEF UnitsOf, Unjudged
<1>4. /\ UnitsOf(Unbooked, actual)' = UnitsOf(Unbooked, actual)
      /\ UnitsOf(Scopes, task_totals)' = UnitsOf(Scopes, task_totals)
  BY <1>1, <1>2 DEF UnitsOf
<1> QED BY <1>1, <1>3, <1>4 DEF BookedInv, CountsFinite, SpendingBooked

(* What an answer costs is paid, and not booked yet.                       *)
LEMMA BookedAnswer ==
  ASSUME Types, BookedInv, NEW a \in Asks, NEW c \in Costs, Answer(a, c)
  PROVE  CountsFinite' /\ SpendingBooked'
<1>1. c \in Nat /\ pc[a] = "calling" /\ UNCHANGED <<task_totals, daily_total, mode>>
  BY BudgetAssumption DEF Answer, ledgerVars, planVars
<1>2. a \in Unjudged /\ Unjudged' = Unjudged
  BY <1>1 DEF BookedInv, ModesFixed, Unjudged
<1>3. a \notin Unbooked /\ Unbooked' = Unbooked \cup {a}
  BY <1>1 DEF Answer, Goto, Types, Unbooked
<1>4. /\ spent[a] \in Nat /\ spent'[a] = spent[a] + c
      /\ \A b \in Unjudged \ {a} : spent'[b] = spent[b]
  BY DEF Answer, Types, Unjudged
<1>5. /\ IsFiniteSet(UnitsOf(Unjudged, spent'))
      /\ Cardinality(UnitsOf(Unjudged, spent')) = Cardinality(UnitsOf(Unjudged, spent)) + c
  BY <1>1, <1>2, <1>4, UnitsRaised DEF BookedInv, CountsFinite
<1>6. actual'[a] = c /\ \A b \in Unbooked : actual'[b] = actual[b]
  BY <1>3 DEF Answer, Types, Unbooked
<1>7. /\ IsFiniteSet(UnitsOf(Unbooked \cup {a}, actual'))
      /\ Cardinality(UnitsOf(Unbooked \cup {a}, actual')) = Cardinality(UnitsOf(Unbooked, actual)) + c
  <2>1. IsFiniteSet(UnitsOf(Unbooked, actual)) /\ actual'[a] \in Nat
    BY <1>1, <1>6 DEF BookedInv, CountsFinite
  <2>2. UnitsOf(Unbooked, actual') = UnitsOf(Unbooked, actual)
    BY <1>6 DEF UnitsOf
  <2> QED BY <1>3, <1>6, <2>1, <2>2, UnitsAdded
<1>8. /\ UnitsOf(Unjudged, spent)' = UnitsOf(Unjudged, spent')
      /\ UnitsOf(Unbooked, actual)' = UnitsOf(Unbooked \cup {a}, actual')
      /\ UnitsOf(Scopes, task_totals)' = UnitsOf(Scopes, task_totals)
  BY <1>1, <1>2, <1>3 DEF UnitsOf
<1>9. CountsFinite'
  BY <1>5, <1>7, <1>8 DEF BookedInv, CountsFinite
<1>10. /\ Cardinality(UnitsOf(Unbooked, actual)) \in Nat
       /\ Cardinality(UnitsOf(Unjudged, spent)) \in Nat
  BY FS_CardinalityType DEF BookedInv, CountsFinite
<1>11. SpendingBooked'
  <2>1. /\ Cardinality(UnitsOf(Unjudged, spent)) =
             daily_total + Cardinality(UnitsOf(Unbooked, actual))
        /\ daily_total = Cardinality(UnitsOf(Scopes, task_totals)) /\ daily_total \in Nat
    BY DEF BookedInv, SpendingBooked, Types
  <2>2. Cardinality(UnitsOf(Unjudged, spent')) =
          daily_total + Cardinality(UnitsOf(Unbooked \cup {a}, actual'))
    BY <1>1, <1>5, <1>7, <1>10, <2>1
  <2> QED BY <1>1, <1>8, <2>1, <2>2 DEF SpendingBooked
<1> QED BY <1>9, <1>11

(* A booking moves what was paid into the total and into its scope.        *)
LEMMA BookedBook ==
  ASSUME Types, BookedInv, NEW a \in Asks, FinalizeRaises(a) \/ Finalize(a)
  PROVE  CountsFinite' /\ SpendingBooked'
<1>1. /\ Book(a) /\ pc[a] = "finalizing" /\ UNCHANGED <<mode, tier, actual, spent>>
      /\ Goto(a, "raising") \/ Goto(a, "answered")
  BY DEF FinalizeRaises, Finalize, planVars
<1>2. actual[a] \in Nat /\ tier[a] \in Scopes
  BY DEF Types
<1>3. Unjudged' = Unjudged /\ a \in Unbooked /\ Unbooked' = Unbooked \ {a}
  BY <1>1 DEF Unjudged, Unbooked, Goto, Types
<1>4. /\ IsFiniteSet(UnitsOf(Unbooked \ {a}, actual))
      /\ Cardinality(UnitsOf(Unbooked \ {a}, actual)) =
           Cardinality(UnitsOf(Unbooked, actual)) - actual[a]
  BY <1>2, <1>3, UnitsDropped DEF BookedInv, CountsFinite
<1>5. /\ daily_total' = daily_total + actual[a]
      /\ task_totals[tier[a]] \in Nat
      /\ task_totals'[tier[a]] = task_totals[tier[a]] + actual[a]
      /\ \A s \in Scopes \ {tier[a]} : task_totals'[s] = task_totals[s]
  BY <1>1, <1>2 DEF Book, Types
<1>6. /\ IsFiniteSet(UnitsOf(Scopes, task_totals'))
      /\ Cardinality(UnitsOf(Scopes, task_totals')) =
           Cardinality(UnitsOf(Scopes, task_totals)) + actual[a]
  <2> DEFINE before == task_totals
             after == task_totals'
             scope == tier[a]
             paid == actual[a]
  <2>1. /\ scope \in Scopes /\ paid \in Nat /\ before[scope] \in Nat
        /\ after[scope] = before[scope] + paid
        /\ \A s \in Scopes \ {scope} : after[s] = before[s]
        /\ IsFiniteSet(UnitsOf(Scopes, before))
    BY <1>2, <1>5 DEF BookedInv, CountsFinite
  <2> HIDE DEF before, after, scope, paid
  <2>2. /\ IsFiniteSet(UnitsOf(Scopes, after))
        /\ Cardinality(UnitsOf(Scopes, after)) = Cardinality(UnitsOf(Scopes, before)) + paid
    BY <2>1, UnitsRaised
  <2> QED BY <2>2 DEF before, after, paid
<1>7. /\ UnitsOf(Unjudged, spent)' = UnitsOf(Unjudged, spent)
      /\ UnitsOf(Unbooked, actual)' = UnitsOf(Unbooked \ {a}, actual)
      /\ UnitsOf(Scopes, task_totals)' = UnitsOf(Scopes, task_totals')
  BY <1>1, <1>3 DEF UnitsOf
<1>8. CountsFinite'
  BY <1>4, <1>6, <1>7 DEF BookedInv, CountsFinite
<1>9. Cardinality(UnitsOf(Unbooked, actual)) \in Nat
  BY FS_CardinalityType DEF BookedInv, CountsFinite
<1>10. /\ Cardinality(UnitsOf(Unjudged, spent)) =
             daily_total + Cardinality(UnitsOf(Unbooked, actual))
       /\ daily_total = Cardinality(UnitsOf(Scopes, task_totals)) /\ daily_total \in Nat
  BY DEF BookedInv, SpendingBooked, Types
<1>11. /\ Cardinality(UnitsOf(Unjudged, spent)) =
             daily_total + actual[a] + Cardinality(UnitsOf(Unbooked \ {a}, actual))
       /\ daily_total + actual[a] = Cardinality(UnitsOf(Scopes, task_totals'))
  BY <1>2, <1>4, <1>6, <1>9, <1>10
<1>12. SpendingBooked'
  BY <1>5, <1>7, <1>11 DEF SpendingBooked
<1> QED BY <1>8, <1>12

(* A judged call is paid by the tracker of its own orchestrator.           *)
LEMMA BookedJudged ==
  ASSUME Types, BookedInv, NEW a \in Asks, NEW c \in Costs, JudgedCall(a, c)
  PROVE  CountsFinite' /\ SpendingBooked'
<1>1. /\ pc[a] = "judging" /\ UNCHANGED <<pc, mode, actual, task_totals, daily_total>>
      /\ spent' = [spent EXCEPT ![a] = @ + c]
  BY DEF JudgedCall, ledgerVars, planVars
<1>2. a \notin Unjudged /\ Unjudged' = Unjudged /\ Unbooked' = Unbooked
  BY <1>1 DEF BookedInv, ModesFixed, Unjudged, Unbooked
<1>3. \A b \in Unjudged : spent'[b] = spent[b]
  BY <1>1, <1>2 DEF Types, Unjudged
<1>4. /\ UnitsOf(Unjudged, spent)' = UnitsOf(Unjudged, spent)
      /\ UnitsOf(Unbooked, actual)' = UnitsOf(Unbooked, actual)
      /\ UnitsOf(Scopes, task_totals)' = UnitsOf(Scopes, task_totals)
  BY <1>1, <1>2, <1>3 DEF UnitsOf
<1> QED BY <1>1, <1>4 DEF BookedInv, CountsFinite, SpendingBooked

(* The mode of a call is chosen once, before it costs anything.            *)
LEMMA ModesStep == ASSUME Types, ModesFixed, [Next]_vars PROVE ModesFixed'
<1> USE DEF ModesFixed, Types
<1>1. ASSUME NEW a \in Asks,
             \/ RefuseEarly(a) \/ (\E c \in Costs : Reserve(a, c) \/ ReserveRaises(a, c))
             \/ (\E c \in Costs : Answer(a, c)) \/ Fail(a) \/ CallRaises(a)
             \/ FinalizeRaises(a) \/ Finalize(a) \/ Release(a) \/ ReleaseAndRaise(a)
             \/ NextTier(a) \/ JudgeReturns(a)
      PROVE  ModesFixed'
  <2>1. /\ mode' = mode
        /\ \A b \in Asks : b # a => spent'[b] = spent[b]
        /\ (mode[a] = "judge") => (pc[a] = "judging")
    BY <1>1 DEF RefuseEarly, Reserve, ReserveRaises, Answer, Fail, CallRaises, FinalizeRaises,
                Finalize, Release, ReleaseAndRaise, NextTier, JudgeReturns, planVars
  <2>2. PICK p : /\ Goto(a, p) /\ p \notin {"idle", "judging"}
                 /\ (pc[a] = "judging") => (p = "answered")
    BY <1>1 DEF RefuseEarly, Reserve, ReserveRaises, Answer, Fail, CallRaises, FinalizeRaises,
                Finalize, Release, ReleaseAndRaise, NextTier, JudgeReturns
  <2>3. \A b \in Asks : pc'[b] = IF b = a THEN p ELSE pc[b]
    BY <2>2 DEF Goto
  <2> QED BY <2>1, <2>2, <2>3
<1>2. ASSUME NEW a \in Asks, NEW m \in ModesOf[a], Start(a, m)
      PROVE  ModesFixed'
  BY <1>2 DEF Start, Goto
<1>3. ASSUME NEW a \in Asks, NEW c \in Costs, JudgedCall(a, c)
      PROVE  ModesFixed'
  BY <1>3 DEF JudgedCall, planVars
<1>4. ASSUME NewDay \/ UNCHANGED vars
      PROVE  ModesFixed'
  BY <1>4 DEF NewDay, vars, planVars
<1> QED
  BY <1>1, <1>2, <1>3, <1>4
  DEF Next, AskStep, ReserveStep, CallStep, FinalStep, JudgeStep, Rest

LEMMA BookedStep == ASSUME Types, BookedInv, [Next]_vars PROVE BookedInv'
<1>1. ASSUME NEW a \in Asks,
             \/ RefuseEarly(a) \/ (\E c \in Costs : Reserve(a, c) \/ ReserveRaises(a, c))
             \/ Fail(a) \/ CallRaises(a) \/ Release(a) \/ ReleaseAndRaise(a)
             \/ NextTier(a) \/ JudgeReturns(a)
      PROVE  CountsFinite' /\ SpendingBooked'
  <2>1. UNCHANGED <<mode, spent, actual, task_totals, daily_total>>
    BY <1>1 DEF RefuseEarly, Reserve, ReserveRaises, Fail, CallRaises, Release, ReleaseAndRaise,
                NextTier, JudgeReturns, GiveBack, planVars, ledgerVars
  <2>2. PICK p : Goto(a, p) /\ p # "finalizing" /\ pc[a] # "finalizing"
    BY <1>1 DEF RefuseEarly, Reserve, ReserveRaises, Fail, CallRaises, Release, ReleaseAndRaise,
                NextTier, JudgeReturns
  <2>3. Unjudged' = Unjudged /\ Unbooked' = Unbooked
    BY <2>1, <2>2 DEF Unjudged, Unbooked, Goto, Types
  <2> QED BY <2>1, <2>3, BookedSame DEF BookedInv
<1>2. ASSUME NewDay \/ UNCHANGED vars
      PROVE  CountsFinite' /\ SpendingBooked'
  <2>1. UNCHANGED <<mode, pc, spent, actual, task_totals, daily_total>>
    BY <1>2 DEF NewDay, vars, planVars, ledgerVars
  <2>2. Unjudged' = Unjudged /\ Unbooked' = Unbooked
    BY <2>1 DEF Unjudged, Unbooked
  <2> QED BY <2>1, <2>2, BookedSame DEF BookedInv
<1>3. CountsFinite' /\ SpendingBooked'
  BY <1>1, <1>2, BookedStart, BookedAnswer, BookedBook, BookedJudged
  DEF Next, AskStep, ReserveStep, CallStep, FinalStep, JudgeStep, Rest
<1> QED BY <1>3, ModesStep DEF BookedInv

(* Every answer of a reserved call is booked once.                         *)
THEOREM AnswersBookedOnce == Spec => []SpendingBooked
<1>1. Init => BookedInv
  <2>1. ASSUME Init
        PROVE  BookedInv
    <3>1. /\ UnitsOf(Unjudged, spent) = {} /\ UnitsOf(Unbooked, actual) = {}
          /\ UnitsOf(Scopes, task_totals) = {} /\ daily_total = 0
      BY <2>1 DEF Init, UnitsOf, Unjudged, Unbooked
    <3>2. IsFiniteSet({}) /\ Cardinality({}) = 0
      BY FS_EmptySet
    <3>3. ModesFixed
      BY <2>1 DEF Init, ModesFixed
    <3> QED BY <3>1, <3>2, <3>3 DEF BookedInv, CountsFinite, SpendingBooked
  <2> QED BY <2>1
<1>2. Types /\ BookedInv /\ [Next]_vars => BookedInv'
  BY BookedStep
<1>3. BookedInv => SpendingBooked
  BY DEF BookedInv
<1> QED BY <1>1, <1>2, <1>3, TypesKept, PTL DEF Spec

-----------------------------------------------------------------------------
(***************************************************************************)
(* The flags of the tracker say which levels were raised on their date,    *)
(* once each; no alert bears a later date.                                 *)
(***************************************************************************)
AlertInv ==
  /\ flags_date <= date
  /\ \A l \in Levels : \A d \in 0..MaxDay : d > flags_date => alerts[<<l, d>>] = 0
  /\ \A l \in Levels : alerts[<<l, flags_date>>] = IF l \in levels_shown THEN 1 ELSE 0

(* An alert raises what was not shown today, and nothing else.             *)
LEMMA WarnStep ==
  ASSUME Types, AlertInv, NEW total \in Nat, Warn(total), date' = date
  PROVE  AlertInv' /\ \A l \in WarningLevel(total) : alerts'[<<l, date>>] = 1
<1> DEFINE new == WarningLevel(total) \ ShownToday
<1>1. /\ date \in 0..MaxDay /\ flags_date \in 0..MaxDay /\ MaxDay \in Nat
      /\ alerts \in [Levels \X (0..MaxDay) -> Nat]
  BY BudgetAssumption DEF Types
<1>2. flags_date' = date /\ levels_shown' = ShownToday \cup new
  BY DEF Warn
<1>3. \A l \in Levels : \A d \in 0..MaxDay :
        alerts'[<<l, d>>] = IF l \in new /\ d = date THEN alerts[<<l, d>>] + 1 ELSE alerts[<<l, d>>]
  BY <1>1 DEF Warn
<1>4. \A l \in Levels : alerts[<<l, date>>] = IF l \in ShownToday THEN 1 ELSE 0
  BY <1>1 DEF AlertInv, ShownToday
<1>5. \A l \in new : l \notin ShownToday
  OBVIOUS
<1> HIDE DEF new
<1>6. \A l \in Levels : alerts'[<<l, date>>] = IF l \in ShownToday \cup new THEN 1 ELSE 0
  BY <1>1, <1>3, <1>4, <1>5
<1>7. \A l \in Levels : \A d \in 0..MaxDay : d > date => alerts'[<<l, d>>] = 0
  BY <1>1, <1>3 DEF AlertInv
<1>8. AlertInv'
  BY <1>1, <1>2, <1>6, <1>7 DEF AlertInv
<1>9. ASSUME NEW l \in WarningLevel(total)
      PROVE  l \in Levels /\ l \in ShownToday \cup new
  BY DEF WarningLevel, new
<1> QED BY <1>6, <1>8, <1>9

LEMMA AlertStep ==
  ASSUME Types, AlertInv, [Next]_vars
  PROVE  AlertInv' /\ \A a \in Asks : LevelWarned(a)
<1>1. ASSUME NEW a \in Asks, Finalize(a)
      PROVE  AlertInv' /\ \A b \in Asks : LevelWarned(b)
  <2>1. /\ daily_total + actual[a] \in Nat /\ daily_total' = daily_total + actual[a]
        /\ date' = date /\ Goto(a, "answered") /\ pc \in [Asks -> Steps]
    BY <1>1 DEF Finalize, Book, Types
  <2>2. CASE Reached(WarnAt, daily_total + actual[a])
    <3>1. Warn(daily_total + actual[a])
      BY <1>1, <2>2 DEF Finalize
    <3> QED BY <2>1, <3>1, WarnStep DEF LevelWarned
  <2>3. CASE ~Reached(WarnAt, daily_total + actual[a])
    <3>1. UNCHANGED alertVars
      BY <1>1, <2>3 DEF Finalize
    <3>2. AlertInv'
      BY <2>1, <3>1 DEF AlertInv, alertVars
    <3> QED BY <2>1, <2>3, <3>2 DEF LevelWarned
  <2> QED BY <2>2, <2>3
<1>2. ASSUME UNCHANGED <<levels_shown, flags_date, alerts>>, date' = date \/ date' = date + 1
      PROVE  AlertInv'
  <2>1. date \in Nat /\ flags_date \in Nat
    BY BudgetAssumption DEF Types
  <2> QED BY <1>2, <2>1 DEF AlertInv
<1>3. ASSUME NEW a \in Asks,
             \/ RefuseEarly(a) \/ (\E m \in ModesOf[a] : Start(a, m))
             \/ (\E c \in Costs : Reserve(a, c) \/ ReserveRaises(a, c))
             \/ (\E c \in Costs : Answer(a, c)) \/ Fail(a) \/ CallRaises(a)
             \/ FinalizeRaises(a) \/ Release(a) \/ ReleaseAndRaise(a) \/ NextTier(a)
             \/ JudgeReturns(a)
      PROVE  AlertInv' /\ \A b \in Asks : LevelWarned(b)
  <2>1. UNCHANGED <<levels_shown, flags_date, alerts>> /\ date' = date
    BY <1>3 DEF RefuseEarly, Start, Reserve, ReserveRaises, Answer, Fail, CallRaises,
                FinalizeRaises, Release, ReleaseAndRaise, NextTier, JudgeReturns, alertVars
  <2>2. PICK p : Goto(a, p) /\ (pc[a] # "finalizing" \/ p # "answered")
    BY <1>3 DEF RefuseEarly, Start, Reserve, ReserveRaises, Answer, Fail, CallRaises,
                FinalizeRaises, Release, ReleaseAndRaise, NextTier, JudgeReturns
  <2>3. \A b \in Asks : LevelWarned(b)
    BY <2>2 DEF LevelWarned, Goto, Types
  <2> QED BY <1>2, <2>1, <2>3
<1>4. ASSUME \/ \E a \in Asks, c \in Costs : JudgedCall(a, c)
             \/ NewDay \/ UNCHANGED vars
      PROVE  AlertInv' /\ \A b \in Asks : LevelWarned(b)
  <2>1. /\ UNCHANGED <<levels_shown, flags_date, alerts, pc>>
        /\ date' = date \/ date' = date + 1
    BY <1>4 DEF JudgedCall, NewDay, vars, alertVars
  <2>2. \A b \in Asks : LevelWarned(b)
    BY <2>1 DEF LevelWarned
  <2> QED BY <1>2, <2>1, <2>2
<1> QED
  BY <1>1, <1>3, <1>4
  DEF Next, AskStep, ReserveStep, CallStep, FinalStep, JudgeStep, Rest

(* The level an answer reaches has been raised once on its date.           *)
THEOREM LevelsShownOnce == Spec => WarnedOnceToday
<1>1. Init => AlertInv
  BY BudgetAssumption DEF Init, AlertInv
<1>2. Types /\ AlertInv /\ [Next]_vars => AlertInv' /\ \A a \in Asks : LevelWarned(a)
  BY AlertStep
<1> QED BY <1>1, <1>2, TypesKept, PTL DEF Spec, WarnedOnceToday

-----------------------------------------------------------------------------
(***************************************************************************)
(* Why a call of ask returns: its own steps count down, and nothing else   *)
(* sets it back.  A tier takes six steps and is not entered again.         *)
(***************************************************************************)
TiersAhead(a) == 6 * (Tiers - tier[a])
AskLeft(a) ==
  CASE pc[a] = "idle" -> 0
    [] pc[a] = "judging" -> 1 + (MaxCalls - calls[a])
    [] pc[a] = "reserving" -> TiersAhead(a) + 5
    [] pc[a] = "calling" -> TiersAhead(a) + 4
    [] pc[a] \in {"finalizing", "releasing"} -> TiersAhead(a) + 3
    [] pc[a] = "raising" -> TiersAhead(a) + 2
    [] pc[a] = "leaving_tier" -> TiersAhead(a) + 1
    [] OTHER -> 0

LEMMA TiersCounted ==
  ASSUME Types, NEW a \in Asks
  PROVE  /\ TiersAhead(a) \in Nat /\ AskLeft(a) \in Nat
         /\ tier[a] \in Nat /\ Tiers \in Nat /\ calls[a] \in Nat /\ MaxCalls \in Nat
<1>1. /\ tier[a] \in Nat /\ tier[a] <= Tiers /\ Tiers \in Nat
      /\ calls[a] \in Nat /\ calls[a] <= MaxCalls /\ MaxCalls \in Nat
  BY BudgetAssumption DEF Types, Scopes
<1>2. TiersAhead(a) \in Nat
  BY <1>1 DEF TiersAhead
<1> QED BY <1>1, <1>2 DEF AskLeft

LEMMA AskCounts ==
  ASSUME Types, NEW a \in Asks, AskStep(a)
  PROVE  AskLeft(a)' < AskLeft(a)
<1>0. pc \in [Asks -> Steps] /\ tier \in [Asks -> Scopes] /\ calls \in [Asks -> 0..MaxCalls]
  BY DEF Types
<1>1. TiersAhead(a) \in Nat /\ tier[a] \in Nat /\ Tiers \in Nat /\ calls[a] \in Nat /\ MaxCalls \in Nat
  BY TiersCounted
<1> USE DEF Goto
<1>2. CASE NextTier(a) /\ tier[a] < Tiers
  <2>1. pc[a] = "leaving_tier" /\ pc'[a] = "reserving" /\ tier'[a] = tier[a] + 1
    BY <1>0, <1>2 DEF NextTier
  <2>2. TiersAhead(a)' = TiersAhead(a) - 6
    BY <1>1, <2>1 DEF TiersAhead
  <2> QED BY <1>1, <2>1, <2>2 DEF AskLeft
<1>3. CASE \E c \in Costs : JudgedCall(a, c)
  <2>1. pc[a] = "judging" /\ pc' = pc /\ calls'[a] = calls[a] + 1
    BY <1>0, <1>3 DEF JudgedCall
  <2> QED BY <1>1, <2>1 DEF AskLeft
<1>4. CASE ~(NextTier(a) /\ tier[a] < Tiers) /\ ~(\E c \in Costs : JudgedCall(a, c))
  <2>1. tier' = tier
    <3>1. CASE ReserveStep(a) \/ CallStep(a) \/ JudgeStep(a)
      BY <1>4, <3>1 DEF ReserveStep, CallStep, JudgeStep, Reserve, ReserveRaises, Answer, Fail,
                       CallRaises, JudgeReturns, planVars
    <3>2. CASE FinalStep(a)
      BY <1>4, <3>2 DEF FinalStep, Finalize, FinalizeRaises, Release, ReleaseAndRaise, NextTier, planVars
    <3> QED BY <3>1, <3>2 DEF AskStep
  <2>2. TiersAhead(a)' = TiersAhead(a)
    BY <2>1 DEF TiersAhead
  <2>3. CASE ReserveStep(a)
    <3>1. pc[a] = "reserving" /\ pc'[a] \in {"calling", "raised"}
      BY <1>0, <2>3 DEF ReserveStep, Reserve, ReserveRaises
    <3> QED BY <1>1, <2>2, <3>1 DEF AskLeft
  <2>4. CASE CallStep(a)
    <3>1. pc[a] = "calling" /\ pc'[a] \in {"finalizing", "releasing", "leaving_tier", "raising"}
      BY <1>0, <2>4 DEF CallStep, Answer, Fail, CallRaises
    <3> QED BY <1>1, <2>2, <3>1 DEF AskLeft
  <2>5. CASE FinalStep(a)
    <3>1. \/ pc[a] = "finalizing" /\ pc'[a] \in {"answered", "raising"}
          \/ pc[a] = "releasing" /\ pc'[a] = "raising"
          \/ pc[a] = "raising" /\ pc'[a] = "raised"
          \/ pc[a] = "leaving_tier" /\ pc'[a] = "answered"
      BY <1>0, <1>4, <2>5 DEF FinalStep, Finalize, FinalizeRaises, Release, ReleaseAndRaise, NextTier
    <3> QED BY <1>1, <2>2, <3>1 DEF AskLeft
  <2>6. CASE JudgeReturns(a)
    <3>1. pc[a] = "judging" /\ pc'[a] = "answered" /\ calls[a] <= MaxCalls
      BY <1>0, <1>1, <2>6 DEF JudgeReturns
    <3> QED BY <1>1, <3>1 DEF AskLeft
  <2> QED BY <1>4, <2>3, <2>4, <2>5, <2>6 DEF AskStep, JudgeStep
<1> QED BY <1>2, <1>3, <1>4

LEMMA AsksApart ==
  ASSUME Types, NEW b \in Asks, NEW a \in Asks \ {b},
         RefuseEarly(b) \/ (\E m \in ModesOf[b] : Start(b, m)) \/ AskStep(b)
  PROVE  AskLeft(a)' = AskLeft(a)
<1>0. pc \in [Asks -> Steps] /\ tier \in [Asks -> Scopes] /\ calls \in [Asks -> 0..MaxCalls]
  BY DEF Types
<1> USE DEF Goto
<1>1. pc'[a] = pc[a] /\ tier'[a] = tier[a] /\ calls'[a] = calls[a]
  <2>1. CASE RefuseEarly(b) \/ (\E m \in ModesOf[b] : Start(b, m))
    BY <1>0, <2>1 DEF RefuseEarly, Start, planVars, judgeVars
  <2>2. CASE ReserveStep(b) \/ CallStep(b)
    BY <1>0, <2>2 DEF ReserveStep, CallStep, Reserve, ReserveRaises, Answer, Fail, CallRaises,
                      planVars, judgeVars
  <2>3. CASE FinalStep(b)
    BY <1>0, <2>3 DEF FinalStep, Finalize, FinalizeRaises, Release, ReleaseAndRaise, NextTier,
                      planVars, judgeVars
  <2>4. CASE JudgeStep(b)
    BY <1>0, <2>4 DEF JudgeStep, JudgedCall, JudgeReturns, planVars, judgeVars
  <2> QED BY <2>1, <2>2, <2>3, <2>4 DEF AskStep
<1> QED BY <1>1 DEF AskLeft, TiersAhead

(* Each step a call of ask takes after it began brings its return nearer,  *)
(* whatever fails, is refused or booked by it and by the calls it shares   *)
(* the tracker with (orchestrator.py:2509-2830): no tier and no booking is *)
(* tried again.  What is left is a natural number.                         *)
AsksAdvance ==
  [][\A a \in Asks : /\ AskStep(a) => AskLeft(a)' < AskLeft(a)
                     /\ pc[a] # "idle" /\ ~AskStep(a) => AskLeft(a)' = AskLeft(a)]_vars
AsksCounted == \A a \in Asks : AskLeft(a) \in Nat
THEOREM AsksCountDown == Spec => AsksAdvance /\ []AsksCounted
<1> DEFINE Advance == \A a \in Asks : /\ AskStep(a) => AskLeft(a)' < AskLeft(a)
                                      /\ pc[a] # "idle" /\ ~AskStep(a) => AskLeft(a)' = AskLeft(a)
<1>1. ASSUME Types, Next, NEW a \in Asks, pc[a] # "idle", ~AskStep(a)
      PROVE  AskLeft(a)' = AskLeft(a)
  <2>1. CASE NewDay \/ UNCHANGED vars
    <3>1. UNCHANGED <<pc, tier, calls>>
      BY <2>1 DEF NewDay, vars, planVars, judgeVars
    <3> QED BY <3>1 DEF AskLeft, TiersAhead
  <2>2. ASSUME NEW b \in Asks, RefuseEarly(b) \/ (\E m \in ModesOf[b] : Start(b, m)) \/ AskStep(b)
        PROVE  AskLeft(a)' = AskLeft(a)
    <3>1. a # b
      BY <1>1, <2>2 DEF RefuseEarly, Start
    <3> QED BY <1>1, <2>2, <3>1, AsksApart
  <2> QED BY <1>1, <2>1, <2>2 DEF Next, Rest
<1>2. Types /\ [Next]_vars => [Advance]_vars
  BY <1>1, AskCounts
<1>3. Types => AsksCounted
  BY TiersCounted DEF AsksCounted
<1> QED BY <1>2, <1>3, TypesKept, PTL DEF Spec, AsksAdvance
=============================================================================
