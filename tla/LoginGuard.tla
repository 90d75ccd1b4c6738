----------------------------- MODULE LoginGuard -----------------------------
(***************************************************************************)
(* The guard against failed logins.  POST /auth/login reads the counters   *)
(* of the account names and of the client address it was sent with, waits  *)
(* a while if there were failures, checks the password, and writes the     *)
(* outcome to the counters before it answers.  The counters are rows of    *)
(* auth.login_failures, shared by all replicas; each of these accesses is  *)
(* one statement or transaction, and other attempts run between them.      *)
(*                                                                         *)
(* The windows of the rows are measured in ticks of the database's clock.  *)
(***************************************************************************)
EXTENDS Naturals, FiniteSets

CONSTANTS
  Attempts,      \* the requests that can be under way at once
  Names,         \* account names and addresses of mail, folded
  Addresses,     \* client addresses
  Payloads,      \* the sets of names a request may carry
  AccountMax,    \* loginGuardAccountMaxFailure
  IPMax,         \* loginGuardIPMaxFailure
  Window,        \* loginGuardWindow, in ticks
  Cap            \* the bound of the failures column

Keys == Names \cup Addresses

ASSUME GuardAssumption ==
  /\ IsFiniteSet(Attempts) /\ Attempts # {}
  /\ Payloads \subseteq SUBSET Names /\ Names \cap Addresses = {}
  /\ AccountMax \in Nat \ {0} /\ IPMax \in Nat \ {0} /\ Window \in Nat \ {0}
  /\ Cap \in Nat /\ AccountMax <= Cap /\ IPMax <= Cap

VARIABLES
  failures,   \* the failures of a key, 0 if it has no row
  left,       \* what is left of its window
  pc,         \* where an attempt stands
  carries,    \* the keys it is counted under
  guesses     \* history: failures recorded in the present window of a key, for a
              \* name only those since somebody logged in with it

rowVars == <<failures, left>>
vars == <<rowVars, pc, carries, guesses>>

-----------------------------------------------------------------------------
TypeOK ==
  /\ failures \in [Keys -> 0 .. Cap]
  /\ left \in [Keys -> 0 .. Window]
  /\ pc \in [Attempts -> {"idle", "admitted", "right", "wrong"}]
  /\ carries \in [Attempts -> SUBSET Keys]
  /\ guesses \in [Keys -> Nat]

Init ==
  /\ failures = [k \in Keys |-> 0]
  /\ left = [k \in Keys |-> 0]
  /\ pc = [a \in Attempts |-> "idle"]
  /\ carries = [a \in Attempts |-> {}]
  /\ guesses = [k \in Keys |-> 0]

MaxFailures(k) == IF k \in Addresses THEN IPMax ELSE AccountMax

\* The row of k is in its window and has reached the limit.
Blocked(k) == left[k] > 0 /\ failures[k] >= MaxFailures(k)

Finish(a) ==
  /\ pc' = [pc EXCEPT ![a] = "idle"]
  /\ carries' = [carries EXCEPT ![a] = {}]

-----------------------------------------------------------------------------
(* An attempt. *)

\* checkContext lets it pass.  The delay that failures cost passes before LogIn.
Admit(a, K) ==
  /\ pc[a] = "idle"
  /\ \A k \in K : ~Blocked(k)
  /\ pc' = [pc EXCEPT ![a] = "admitted"]
  /\ carries' = [carries EXCEPT ![a] = K]
  /\ UNCHANGED <<rowVars, guesses>>

\* Variant with a fault: a refused attempt begins the window again.
RefusedWindowAgain(K) == [k \in Keys |-> IF k \in K THEN Window ELSE left[k]]

\* An attempt that is refused leaves the windows alone.
RefusedWindow(K) == left

\* 429 login_blocked.
Refuse(a, K) ==
  /\ pc[a] = "idle"
  /\ \E k \in K : Blocked(k)
  /\ left' = RefusedWindow(K)
  /\ UNCHANGED <<failures, pc, carries, guesses>>

\* Login: right or wrong, where a query that fails is as good as a wrong password.
LogIn(a, outcome) ==
  /\ pc[a] = "admitted"
  /\ pc' = [pc EXCEPT ![a] = outcome]
  /\ UNCHANGED <<rowVars, carries, guesses>>

\* The client left during the delay, or the account is banned: nothing is recorded.
GiveUp(a) ==
  /\ pc[a] = "admitted"
  /\ Finish(a)
  /\ UNCHANGED <<rowVars, guesses>>

\* Variant with a fault: no bound.
CountedUnbounded(k) == IF left[k] = 0 THEN 1 ELSE failures[k] + 1

\* Variant with a fault: the counter is written once, when the row is made.
CountedOnce(k) == IF left[k] = 0 THEN 1 ELSE failures[k]

\* The UPSERT: a new row or one past its window starts with one failure.
Counted(k) == IF left[k] = 0 THEN 1 ELSE IF failures[k] < Cap THEN failures[k] + 1 ELSE Cap

\* The rows past their window.
Lapsed == {k \in Keys : failures[k] > 0 /\ left[k] = 0}

\* RecordLoginFailure: every key is counted, and some rows past their window
\* are deleted, in one transaction; then 401.  A window that runs is not extended.
RecordFailure(a, Swept) ==
  /\ pc[a] = "wrong"
  /\ failures' = [k \in Keys |-> IF k \in carries[a] THEN Counted(k)
                                 ELSE IF k \in Swept THEN 0 ELSE failures[k]]
  /\ left' = [k \in Keys |-> IF k \in carries[a] /\ left[k] = 0 THEN Window ELSE left[k]]
  /\ guesses' = [k \in Keys |-> IF k \in carries[a] THEN guesses[k] + 1 ELSE guesses[k]]
  /\ Finish(a)

\* Variant with a fault: the address is cleared too.
ClearedAll(a) == carries[a]

\* The keys a success clears: the failures of the address stay.
Cleared(a) == carries[a] \cap Names

\* ClearLoginFailures, then the token.
ClearFailures(a) ==
  /\ pc[a] = "right"
  /\ failures' = [k \in Keys |-> IF k \in Cleared(a) THEN 0 ELSE failures[k]]
  /\ left' = [k \in Keys |-> IF k \in Cleared(a) THEN 0 ELSE left[k]]
  /\ guesses' = [k \in Keys |-> IF k \in carries[a] \cap Names THEN 0 ELSE guesses[k]]
  /\ Finish(a)

\* The outcome cannot be written: 503 login_guard_unavailable, whatever it was.
FailOutcome(a) ==
  /\ pc[a] \in {"right", "wrong"}
  /\ Finish(a)
  /\ UNCHANGED <<rowVars, guesses>>

-----------------------------------------------------------------------------
\* The database's clock.
Tick ==
  /\ \E k \in Keys : left[k] > 0
  /\ left' = [k \in Keys |-> IF left[k] > 0 THEN left[k] - 1 ELSE 0]
  /\ guesses' = [k \in Keys |-> IF left[k] > 1 THEN guesses[k] ELSE 0]
  /\ UNCHANGED <<failures, pc, carries>>

Attempt(a) ==
  \/ \E P \in Payloads, ip \in Addresses :
       Admit(a, P \cup {ip}) \/ Refuse(a, P \cup {ip})
  \/ \E outcome \in {"right", "wrong"} : LogIn(a, outcome)
  \/ GiveUp(a)
  \/ \E Swept \in SUBSET Lapsed : RecordFailure(a, Swept)
  \/ ClearFailures(a)
  \/ FailOutcome(a)

Next == (\E a \in Attempts : Attempt(a)) \/ Tick

Spec == Init /\ [][Next]_vars

\* The database's clock does not stop.  Clients may.
FairSpec == Spec /\ WF_vars(Tick)

-----------------------------------------------------------------------------
(* Safety. *)

\* However attempts are interleaved, no more wrong passwords are answered for a
\* name or an address in one window than its limit, plus one for every other
\* attempt that read the counters before the last of them was recorded.  A login
\* that succeeds begins the count of its names again, never that of its address.
OvershootBounded ==
  \A k \in Keys : guesses[k] <= MaxFailures(k) + Cardinality(Attempts) - 1

\* While its window lasts, nothing takes failures back from a client address:
\* neither logins that succeed nor the sweep of other rows.
AddressBudgetKept ==
  [][\A k \in Addresses : failures'[k] < failures[k] => left[k] = 0]_vars

-----------------------------------------------------------------------------
(* Liveness. *)

\* A limit that is reached is lifted again, although attempts keep coming.
BlockEnds == \A k \in Keys : []<>~Blocked(k)

=============================================================================
