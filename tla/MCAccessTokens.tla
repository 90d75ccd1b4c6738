--------------------------- MODULE MCAccessTokens ---------------------------
(* A finite instance of AccessTokens for TLC. *)
EXTENDS AccessTokens, TLC

CONSTANTS r1, r2, r3, t1, i1, edit

\* Two personal tokens, one of which exists already, and one MCP credential.
LimitOf == [p \in Purposes |-> IF p = "personal" THEN 2 ELSE 1]

\* What the groups may come to: everything, some codes, or nothing.
GrantsOf == {{"*"}, {edit}, {}}

\* Requests are interchangeable.
Symmetric == Permutations(Requests)
=============================================================================
