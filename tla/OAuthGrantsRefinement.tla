----------------------- MODULE OAuthGrantsRefinement -----------------------
(* OAuthGrants implements OneTimeGrant. *)
EXTENDS OAuthGrants

\* The exchange that won the code of request k and has not failed since.
Winners(k) == {x \in Exchanges : Presented[x] = k /\ xpc[x] = "consumed"}

Holders(k) == {x \in Exchanges : Presented[x] = k /\ LiveRow(x)}

\* The phase of a request whose handler has answered with a code.
IssuedPhase(k) ==
  IF code[k] = "live" THEN "coded"
  ELSE IF Winners(k) # {} THEN "redeeming"
  ELSE IF Holders(k) # {} THEN "tokened"
  ELSE "over"

PhaseOf(k) ==
  CASE stage[k] \in {"new", "shown", "allowed"} -> "asked"
    [] stage[k] = "audited" -> "consented"
    [] stage[k] = "issued" -> IssuedPhase(k)
    [] OTHER -> "over"

ScopeOf(k) ==
  CASE PhaseOf(k) = "consented" -> agreed[k]
    [] PhaseOf(k) \in {"coded", "redeeming"} -> codeScope[k]
    [] PhaseOf(k) = "tokened" -> tokenScope[CHOOSE x \in Holders(k) : TRUE]
    [] OTHER -> {}

Grant == INSTANCE OneTimeGrant WITH
  phase <- [k \in Requests |-> PhaseOf(k)],
  scope <- [k \in Requests |-> ScopeOf(k)]

\* Every behaviour of the authorization server keeps the promise of OneTimeGrant:
\* consent, code, one redemption, one token, in this order and with scopes that
\* only shrink, under races, revocations, client changes and restarts.
ImplementsGrant == Grant!Spec
=============================================================================
