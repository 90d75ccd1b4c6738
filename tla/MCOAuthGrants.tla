--------------------------- MODULE MCOAuthGrants ---------------------------
(* Finite instances of OAuthGrants for TLC. *)
EXTENDS OAuthGrantsRefinement, TLC

CONSTANTS u1, u2, c1, c2, profile, email, k1, k2, x1, x2, x3, r1, r2

Form(scopes, disabled, trusted) ==
  [scopes |-> scopes, disabled |-> disabled, trusted |-> trusted]

\* A white list that an administrator widens and narrows.
ScopeForms ==
  {Form({profile}, FALSE, FALSE), Form({profile, email}, FALSE, FALSE)}

\* All switches of a client: narrowed, disabled, trusted.
AllForms ==
  ScopeForms \cup {Form({email}, TRUE, FALSE), Form({profile, email}, FALSE, TRUE)}

\* Every request asks for both scopes.
AsksAll == [k \in Requests |-> {profile, email}]

\* One account, one client.
SoleSubject == [k \in Requests |-> u1]
SoleAudience == [k \in Requests |-> c1]

\* Every exchange presents the code of k1; x3 has the wrong verifier.
SameCode == [x \in Exchanges |-> k1]
X3Wrong == [x \in Exchanges |-> x # x3]

\* Exchanges of the same code with the same proof are interchangeable.
SameExchanges == Permutations(Exchanges)
=============================================================================
