------------------------- MODULE LoginGuard_proofs -------------------------
(***************************************************************************)
(* Theorems about LoginGuard for every finite set of attempts, any limits  *)
(* and any length of the window.                                           *)
(***************************************************************************)
EXTENDS LoginGuard, FiniteSetTheorems, TLAPS

\* The attempts that have been admitted and will be counted under k.
InFlight(k) == {a \in Attempts : k \in carries[a]}

\* A window that has not begun has no guesses, and one that has keeps at least
\* as many failures, up to the bound of the column.
Recorded ==
  \A k \in Keys :
    /\ left[k] = 0 => guesses[k] = 0
    /\ guesses[k] <= failures[k] \/ failures[k] = Cap \/ left[k] = 0

\* What was guessed and what may still be guessed under a name or an address.
Budgeted ==
  \A k \in Keys :
    guesses[k] + Cardinality(InFlight(k)) <= MaxFailures(k) + Cardinality(Attempts) - 1

IInv == TypeOK /\ Recorded /\ Budgeted

-----------------------------------------------------------------------------
\* An attempt is counted under keys.
LEMMA PayloadKeys ==
  ASSUME NEW P \in Payloads, NEW ip \in Addresses
  PROVE  P \cup {ip} \subseteq Keys
BY GuardAssumption DEF Keys

\* Limits are positive and within the column.
LEMMA LimitRange ==
  ASSUME NEW k \in Keys
  PROVE  MaxFailures(k) \in Nat /\ MaxFailures(k) > 0 /\ MaxFailures(k) <= Cap
BY GuardAssumption DEF MaxFailures

\* The attempts in flight are counted by a number, at most one for each.
LEMMA InFlightFinite ==
  ASSUME NEW k \in Keys
  PROVE  /\ IsFiniteSet(InFlight(k))
         /\ Cardinality(InFlight(k)) \in Nat
         /\ Cardinality(InFlight(k)) <= Cardinality(Attempts)
         /\ Cardinality(Attempts) \in Nat
BY GuardAssumption, FS_Subset, FS_CardinalityType DEF InFlight

LEMMA InFlightFinitePrime ==
  ASSUME NEW k \in Keys
  PROVE  /\ IsFiniteSet(InFlight(k)')
         /\ Cardinality(InFlight(k)') \in Nat
         /\ Cardinality(InFlight(k)') <= Cardinality(Attempts)
BY GuardAssumption, FS_Subset, FS_CardinalityType DEF InFlight

\* Fewer attempts in flight are counted by a smaller number.
LEMMA InFlightShrinks ==
  ASSUME NEW k \in Keys, InFlight(k)' \subseteq InFlight(k)
  PROVE  Cardinality(InFlight(k)') <= Cardinality(InFlight(k))
BY InFlightFinite, FS_Subset

\* An attempt that was in flight and has ended leaves one less.
LEMMA InFlightLoses ==
  ASSUME NEW k \in Keys, NEW a \in Attempts, a \in InFlight(k),
         InFlight(k)' = InFlight(k) \ {a}
  PROVE  Cardinality(InFlight(k)') = Cardinality(InFlight(k)) - 1
BY InFlightFinite, FS_RemoveElement

\* The counter stays within the column, and grows until it meets its bound.
LEMMA CountedRange ==
  ASSUME TypeOK, NEW k \in Keys
  PROVE  /\ Counted(k) \in 0 .. Cap
         /\ left[k] > 0 => Counted(k) >= failures[k]
         /\ left[k] > 0 => Counted(k) = Cap \/ Counted(k) = failures[k] + 1
         /\ left[k] = 0 => Counted(k) = 1
BY GuardAssumption DEF TypeOK, Counted

-----------------------------------------------------------------------------
\* Every step keeps the shape of the rows.
LEMMA TypeStep ==
  ASSUME TypeOK, [Next]_vars
  PROVE  TypeOK'
<1>1. ASSUME NEW a \in Attempts, Attempt(a) PROVE TypeOK'
  <2>1. ASSUME NEW P \in Payloads, NEW ip \in Addresses, Admit(a, P \cup {ip})
        PROVE  TypeOK'
    BY <2>1, PayloadKeys DEF Admit, TypeOK, rowVars
  <2>2. ASSUME NEW P \in Payloads, NEW ip \in Addresses, Refuse(a, P \cup {ip})
        PROVE  TypeOK'
    BY <2>2 DEF Refuse, RefusedWindow, TypeOK
  <2>3. ASSUME NEW outcome \in {"right", "wrong"}, LogIn(a, outcome) PROVE TypeOK'
    BY <2>3 DEF LogIn, TypeOK, rowVars
  <2>4. CASE GiveUp(a)
    BY <2>4 DEF GiveUp, Finish, TypeOK, rowVars
  <2>5. ASSUME NEW Swept \in SUBSET Lapsed, RecordFailure(a, Swept) PROVE TypeOK'
    <3>1. failures' \in [Keys -> 0 .. Cap]
      BY <2>5, CountedRange, GuardAssumption DEF RecordFailure, TypeOK
    <3>2. left' \in [Keys -> 0 .. Window]
      BY <2>5, GuardAssumption DEF RecordFailure, TypeOK
    <3>3. guesses' \in [Keys -> Nat]
      BY <2>5 DEF RecordFailure, TypeOK
    <3> QED
      BY <2>5, <3>1, <3>2, <3>3 DEF RecordFailure, Finish, TypeOK
  <2>6. CASE ClearFailures(a)
    BY <2>6, GuardAssumption DEF ClearFailures, Finish, TypeOK
  <2>7. CASE FailOutcome(a)
    BY <2>7 DEF FailOutcome, Finish, TypeOK, rowVars
  <2> QED
    BY <1>1, <2>1, <2>2, <2>3, <2>4, <2>5, <2>6, <2>7 DEF Attempt
<1>2. CASE Tick
  <2>1. left' \in [Keys -> 0 .. Window]
    BY <1>2, GuardAssumption DEF Tick, TypeOK
  <2> QED
    BY <1>2, <2>1 DEF Tick, TypeOK
<1>3. CASE UNCHANGED vars
  BY <1>3 DEF vars, rowVars, TypeOK
<1> QED
  BY <1>1, <1>2, <1>3 DEF Next

\* The failures of a window never fall behind its guesses.
LEMMA RecordedStep ==
  ASSUME TypeOK, Recorded, [Next]_vars
  PROVE  Recorded'
<1> SUFFICES ASSUME NEW k \in Keys
             PROVE  /\ left'[k] = 0 => guesses'[k] = 0
                    /\ guesses'[k] <= failures'[k] \/ failures'[k] = Cap \/ left'[k] = 0
  BY DEF Recorded
<1> DEFINE Goal == /\ left'[k] = 0 => guesses'[k] = 0
                   /\ guesses'[k] <= failures'[k] \/ failures'[k] = Cap \/ left'[k] = 0
<1>0. /\ failures[k] \in Nat /\ left[k] \in Nat /\ guesses[k] \in Nat
      /\ left[k] = 0 => guesses[k] = 0
      /\ guesses[k] <= failures[k] \/ failures[k] = Cap \/ left[k] = 0
  BY GuardAssumption DEF TypeOK, Recorded
<1>1. ASSUME failures' = failures, left' = left, guesses' = guesses PROVE Goal
  BY <1>0, <1>1
<1>2. ASSUME NEW a \in Attempts, Attempt(a) PROVE Goal
  <2>1. ASSUME NEW Swept \in SUBSET Lapsed, RecordFailure(a, Swept) PROVE Goal
    <3>1. CASE k \in carries[a]
      <4>1. failures'[k] = Counted(k) /\ guesses'[k] = guesses[k] + 1
        BY <2>1, <3>1 DEF RecordFailure
      <4>2. left'[k] > 0
        BY <1>0, <2>1, <3>1, GuardAssumption DEF RecordFailure
      <4>3. CASE left[k] = 0
        BY <1>0, <4>1, <4>2, <4>3, CountedRange
      <4>4. CASE left[k] > 0
        BY <1>0, <4>1, <4>2, <4>4, CountedRange, GuardAssumption DEF Counted, TypeOK
      <4> QED
        BY <1>0, <4>3, <4>4
    <3>2. CASE k \notin carries[a]
      <4>1. left'[k] = left[k] /\ guesses'[k] = guesses[k]
        BY <2>1, <3>2 DEF RecordFailure
      <4>2. failures'[k] = failures[k] \/ left[k] = 0
        BY <2>1, <3>2 DEF RecordFailure, Lapsed
      <4> QED
        BY <1>0, <4>1, <4>2
    <3> QED
      BY <3>1, <3>2
  <2>2. CASE ClearFailures(a)
    <3>1. CASE k \in Cleared(a)
      BY <2>2, <3>1 DEF ClearFailures, Cleared
    <3>2. CASE k \notin Cleared(a)
      BY <1>0, <2>2, <3>2 DEF ClearFailures, Cleared
    <3> QED
      BY <3>1, <3>2
  <2>3. \/ \E Swept \in SUBSET Lapsed : RecordFailure(a, Swept)
        \/ ClearFailures(a)
        \/ failures' = failures /\ left' = left /\ guesses' = guesses
    BY <1>2 DEF Attempt, Admit, Refuse, RefusedWindow, LogIn, GiveUp, FailOutcome, rowVars
  <2> QED
    BY <1>1, <2>1, <2>2, <2>3
<1>3. CASE Tick
  <2>1. CASE left[k] > 1
    BY <1>0, <1>3, <2>1 DEF Tick
  <2>2. CASE ~(left[k] > 1)
    BY <1>0, <1>3, <2>2 DEF Tick
  <2> QED
    BY <2>1, <2>2
<1>4. CASE UNCHANGED vars
  BY <1>1, <1>4 DEF vars, rowVars
<1> QED
  BY <1>2, <1>3, <1>4 DEF Next

\* An admitted attempt takes its place in the budget of its keys, and gives it up
\* when it is recorded or ends.
LEMMA BudgetedStep ==
  ASSUME TypeOK, Recorded, Budgeted, [Next]_vars
  PROVE  Budgeted'
<1> SUFFICES ASSUME NEW k \in Keys
             PROVE  guesses'[k] + Cardinality(InFlight(k)')
                      <= MaxFailures(k) + Cardinality(Attempts) - 1
  BY DEF Budgeted, MaxFailures
<1> DEFINE Goal == guesses'[k] + Cardinality(InFlight(k)')
                     <= MaxFailures(k) + Cardinality(Attempts) - 1
<1>0. /\ failures[k] \in Nat /\ left[k] \in Nat /\ guesses[k] \in Nat
      /\ left[k] = 0 => guesses[k] = 0
      /\ guesses[k] <= failures[k] \/ failures[k] = Cap \/ left[k] = 0
      /\ guesses[k] + Cardinality(InFlight(k)) <= MaxFailures(k) + Cardinality(Attempts) - 1
  BY GuardAssumption DEF TypeOK, Recorded, Budgeted
<1>1. ASSUME guesses'[k] \in Nat, guesses'[k] <= guesses[k], InFlight(k)' \subseteq InFlight(k)
      PROVE  Goal
  BY <1>0, <1>1, InFlightShrinks, InFlightFinite, InFlightFinitePrime, LimitRange
<1>2. ASSUME NEW a \in Attempts, Attempt(a) PROVE Goal
  <2>1. ASSUME NEW P \in Payloads, NEW ip \in Addresses, Admit(a, P \cup {ip}) PROVE Goal
    <3>1. guesses' = guesses
      BY <2>1 DEF Admit
    <3>2. CASE k \in P \cup {ip}
      <4>1. ~Blocked(k)
        BY <2>1, <3>2 DEF Admit
      <4>2. guesses[k] <= MaxFailures(k) - 1
        BY <1>0, <4>1, LimitRange DEF Blocked
      <4> QED
        BY <1>0, <3>1, <4>2, InFlightFinite, InFlightFinitePrime, LimitRange
    <3>3. CASE k \notin P \cup {ip}
      <4>1. InFlight(k)' \subseteq InFlight(k)
        BY <2>1, <3>3 DEF Admit, InFlight, TypeOK
      <4> QED
        BY <1>0, <1>1, <3>1, <4>1
    <3> QED
      BY <3>2, <3>3
  <2>2. ASSUME NEW Swept \in SUBSET Lapsed, RecordFailure(a, Swept) PROVE Goal
    <3>1. CASE k \in carries[a]
      <4>1. guesses'[k] = guesses[k] + 1
        BY <2>2, <3>1 DEF RecordFailure
      <4>2. a \in InFlight(k) /\ InFlight(k)' = InFlight(k) \ {a}
        BY <2>2, <3>1 DEF RecordFailure, Finish, InFlight, TypeOK
      <4>3. Cardinality(InFlight(k)') = Cardinality(InFlight(k)) - 1
        BY <4>2, InFlightLoses
      <4> QED
        BY <1>0, <4>1, <4>3, InFlightFinite, LimitRange
    <3>2. CASE k \notin carries[a]
      <4>1. guesses'[k] = guesses[k]
        BY <2>2, <3>2 DEF RecordFailure
      <4>2. InFlight(k)' \subseteq InFlight(k)
        BY <2>2 DEF RecordFailure, Finish, InFlight, TypeOK
      <4> QED
        BY <1>0, <1>1, <4>1, <4>2
    <3> QED
      BY <3>1, <3>2
  <2>3. CASE ClearFailures(a)
    <3>1. InFlight(k)' \subseteq InFlight(k)
      BY <2>3 DEF ClearFailures, Finish, InFlight, TypeOK
    <3>2. guesses'[k] \in Nat /\ guesses'[k] <= guesses[k]
      BY <1>0, <2>3 DEF ClearFailures
    <3> QED
      BY <1>1, <3>1, <3>2
  <2>4. CASE GiveUp(a) \/ FailOutcome(a)
    <3>1. InFlight(k)' \subseteq InFlight(k)
      BY <2>4 DEF GiveUp, FailOutcome, Finish, InFlight, TypeOK
    <3>2. guesses'[k] = guesses[k]
      BY <2>4 DEF GiveUp, FailOutcome
    <3> QED
      BY <1>0, <1>1, <3>1, <3>2
  <2>5. ASSUME carries' = carries, guesses' = guesses PROVE Goal
    BY <1>0, <1>1, <2>5 DEF InFlight
  <2> QED
    BY <1>2, <2>1, <2>2, <2>3, <2>4, <2>5 DEF Attempt, Refuse, LogIn
<1>3. CASE Tick
  <2>1. InFlight(k)' = InFlight(k)
    BY <1>3 DEF Tick, InFlight
  <2>2. guesses'[k] \in Nat /\ guesses'[k] <= guesses[k]
    BY <1>0, <1>3 DEF Tick
  <2> QED
    BY <1>1, <2>1, <2>2
<1>4. CASE UNCHANGED vars
  <2>1. InFlight(k)' = InFlight(k) /\ guesses'[k] = guesses[k]
    BY <1>4 DEF vars, InFlight
  <2> QED
    BY <1>0, <1>1, <2>1
<1> QED
  BY <1>2, <1>3, <1>4 DEF Next

LEMMA Initially == Init => IInv
<1> SUFFICES ASSUME Init PROVE IInv
  OBVIOUS
<1>1. TypeOK
  BY GuardAssumption DEF Init, TypeOK
<1>2. Recorded
  BY DEF Init, Recorded
<1>3. Budgeted
  <2> SUFFICES ASSUME NEW k \in Keys
               PROVE  guesses[k] + Cardinality(InFlight(k))
                        <= MaxFailures(k) + Cardinality(Attempts) - 1
    BY DEF Budgeted
  <2>1. guesses[k] = 0
    BY DEF Init
  <2> QED
    BY <2>1, InFlightFinite, LimitRange
<1> QED
  BY <1>1, <1>2, <1>3 DEF IInv

LEMMA Inductive == Spec => []IInv
<1>1. IInv /\ [Next]_vars => IInv'
  BY TypeStep, RecordedStep, BudgetedStep DEF IInv
<1> QED
  BY <1>1, Initially, PTL DEF Spec

-----------------------------------------------------------------------------
\* The counters, the windows and the attempts are well typed.
THEOREM TypeCorrect == Spec => []TypeOK
<1>1. IInv => TypeOK
  BY DEF IInv
<1> QED
  BY <1>1, Inductive, PTL

\* However many attempts race, the passwords tried against a name or from an
\* address within a window are bounded by its limit and the attempts at once.
THEOREM GuessesBounded == Spec => []OvershootBounded
<1>1. ASSUME IInv, NEW k \in Keys
      PROVE  guesses[k] <= MaxFailures(k) + Cardinality(Attempts) - 1
  <2>1. guesses[k] \in Nat
    BY <1>1 DEF IInv, TypeOK
  <2>2. guesses[k] + Cardinality(InFlight(k)) <= MaxFailures(k) + Cardinality(Attempts) - 1
    BY <1>1 DEF IInv, Budgeted
  <2> QED
    BY <2>1, <2>2, InFlightFinite, LimitRange
<1>2. IInv => OvershootBounded
  BY <1>1 DEF OvershootBounded
<1> QED
  BY <1>2, Inductive, PTL

\* Only the end of its window takes failures back from an address.
THEOREM AddressKept == Spec => AddressBudgetKept
<1>1. IInv /\ [Next]_vars =>
        [\A k \in Addresses : failures'[k] < failures[k] => left[k] = 0]_vars
  <2> SUFFICES ASSUME TypeOK, Next, NEW k \in Addresses, failures'[k] < failures[k]
               PROVE  left[k] = 0
    BY DEF IInv
  <2>0. k \in Keys /\ k \notin Names /\ failures[k] \in Nat /\ left[k] \in Nat
    BY GuardAssumption DEF TypeOK, Keys
  <2>1. ASSUME NEW a \in Attempts, NEW Swept \in SUBSET Lapsed, RecordFailure(a, Swept)
        PROVE  left[k] = 0
    <3>1. CASE k \in carries[a]
      BY <2>0, <2>1, <3>1, CountedRange, GuardAssumption DEF RecordFailure
    <3>2. CASE k \notin carries[a]
      BY <2>0, <2>1, <3>2 DEF RecordFailure, Lapsed
    <3> QED
      BY <3>1, <3>2
  <2>2. ASSUME NEW a \in Attempts, ClearFailures(a) PROVE FALSE
    BY <2>0, <2>2 DEF ClearFailures, Cleared
  <2>3. \/ failures' = failures
        \/ \E a \in Attempts : ClearFailures(a)
        \/ \E a \in Attempts, Swept \in SUBSET Lapsed : RecordFailure(a, Swept)
    BY DEF Next, Attempt, Admit, Refuse, LogIn, GiveUp, FailOutcome, Tick, rowVars
  <2> QED
    BY <2>0, <2>1, <2>2, <2>3
<1> QED
  BY <1>1, Inductive, PTL DEF Spec, AddressBudgetKept
=============================================================================
