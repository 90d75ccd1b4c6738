---------------------------- MODULE OneTimeGrant ----------------------------
(***************************************************************************)
(* What the authorization server promises of one authorization request,    *)
(* with nothing of how it keeps the promise: consent comes first, a code   *)
(* stands for the consent, one redemption turns the code into a token, the *)
(* scopes only ever shrink on the way, and what is over stays over.        *)
(***************************************************************************)
CONSTANTS Requests, Scopes

VARIABLES
  phase,    \* how far the request has come
  scope     \* what it stands for at that point

vars == <<phase, scope>>

Phases == {"asked", "consented", "coded", "redeeming", "tokened", "over"}

TypeOK ==
  /\ phase \in [Requests -> Phases]
  /\ scope \in [Requests -> SUBSET Scopes]

Init ==
  /\ phase = [k \in Requests |-> "asked"]
  /\ scope = [k \in Requests |-> {}]

\* The request moves on to the next phase with the scopes S.
Advance(k, from, to, S) ==
  /\ phase[k] = from
  /\ phase' = [phase EXCEPT ![k] = to]
  /\ scope' = [scope EXCEPT ![k] = S]

Consent(k) == \E S \in (SUBSET Scopes) \ {{}} : Advance(k, "asked", "consented", S)

Mint(k) == \E S \in (SUBSET scope[k]) \ {{}} : Advance(k, "consented", "coded", S)

Redeem(k) == Advance(k, "coded", "redeeming", scope[k])

Deliver(k) == \E S \in (SUBSET scope[k]) \ {{}} : Advance(k, "redeeming", "tokened", S)

\* Refusal, expiry, revocation, a crash: any number of requests end together.
Close(K) ==
  /\ \A k \in K : phase[k] # "over"
  /\ phase' = [k \in Requests |-> IF k \in K THEN "over" ELSE phase[k]]
  /\ scope' = [k \in Requests |-> IF k \in K THEN {} ELSE scope[k]]

Next ==
  \/ \E k \in Requests : Consent(k) \/ Mint(k) \/ Redeem(k) \/ Deliver(k)
  \/ \E K \in SUBSET Requests : Close(K)

Spec == Init /\ [][Next]_vars
=============================================================================
