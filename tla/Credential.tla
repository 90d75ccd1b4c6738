----------------------------- MODULE Credential -----------------------------
(***************************************************************************)
(* What the access tokens of one account promise, with nothing of rows,    *)
(* locks and requests: tokens are issued within the limit of their kind,   *)
(* with powers that may be passed on; an MCP credential only ever loses    *)
(* power; what is over has none and stays over; and no step but the        *)
(* migration touches two tokens.                                           *)
(***************************************************************************)
EXTENDS Naturals, FiniteSets

CONSTANTS
  Tokens,
  Old,         \* tokens that are there from the start
  Codes,
  Delegable,   \* codes a token may be given
  Kinds,
  Narrowing,   \* the kinds that only lose power
  Limit,       \* usable tokens of a kind
  Retired      \* codes that a migration takes from every token

VARIABLES
  state,       \* "none", "usable" or "over"
  kind,
  power        \* the codes a usable token stands for

vars == <<state, kind, power>>

Init ==
  /\ state = [t \in Tokens |-> IF t \in Old THEN "usable" ELSE "none"]
  /\ kind \in [Tokens -> Kinds]
  /\ power \in [Tokens -> SUBSET Codes]
  /\ \A t \in Tokens : state[t] = "none" => power[t] = {}

Usable(p) == {t \in Tokens : state[t] = "usable" /\ kind[t] = p}

Issue(t, p) ==
  /\ state[t] = "none"
  /\ Cardinality(Usable(p)) < Limit[p]
  /\ state' = [state EXCEPT ![t] = "usable"]
  /\ kind' = [kind EXCEPT ![t] = p]
  /\ \E S \in (SUBSET Delegable) \ {{}} : power' = [power EXCEPT ![t] = S]

\* The powers an edit may leave a token with.
Editable(t) == SUBSET (IF kind[t] \in Narrowing THEN power[t] ELSE Delegable)

Edit(t) ==
  /\ state[t] = "usable"
  /\ UNCHANGED <<state, kind>>
  /\ \E S \in Editable(t) : power' = [power EXCEPT ![t] = S]

End(t) ==
  /\ state[t] = "usable"
  /\ state' = [state EXCEPT ![t] = "over"]
  /\ power' = [power EXCEPT ![t] = {}]
  /\ UNCHANGED kind

Retire ==
  /\ UNCHANGED <<state, kind>>
  /\ power' = [t \in Tokens |-> power[t] \ Retired]

Next ==
  \/ \E t \in Tokens : (\E p \in Kinds : Issue(t, p)) \/ Edit(t) \/ End(t)
  \/ Retire

Spec == Init /\ [][Next]_vars
=============================================================================
