---------------------------- MODULE LimitedInvite ----------------------------
(***************************************************************************)
(* What an invite promises, with nothing of accounts, settings and locks:  *)
(* it admits as many guests as it was issued for, each of them once, only  *)
(* those who came before it lapsed, and nobody after it was closed.        *)
(***************************************************************************)
EXTENDS Integers, FiniteSets

CONSTANTS
  Invites,
  People,
  Largest    \* the most guests an invite is issued for

VARIABLES
  size,      \* guests an invite is issued for, 0 before that
  guests,    \* whom it admitted
  closed,    \* invites that admit nobody any more
  lapsed,    \* invites past their time
  waiting    \* pairs of an invite and somebody who came in time and waits

vars == <<size, guests, closed, lapsed, waiting>>

Init ==
  /\ size = [i \in Invites |-> 0]
  /\ guests = [i \in Invites |-> {}]
  /\ closed = {}
  /\ lapsed = {}
  /\ waiting = {}

Issue(i) ==
  /\ size[i] = 0
  /\ \E n \in 1 .. Largest : size' = [size EXCEPT ![i] = n]
  /\ UNCHANGED <<guests, closed, lapsed, waiting>>

Arrive(i, p) ==
  /\ i \notin lapsed
  /\ waiting' = waiting \cup {<<i, p>>}
  /\ UNCHANGED <<size, guests, closed, lapsed>>

Leave(i, p) ==
  /\ waiting' = waiting \ {<<i, p>>}
  /\ UNCHANGED <<size, guests, closed, lapsed>>

Admit(i, p) ==
  /\ <<i, p>> \in waiting
  /\ i \notin closed
  /\ \A j \in Invites : p \notin guests[j]
  /\ Cardinality(guests[i]) < size[i]
  /\ guests' = [guests EXCEPT ![i] = @ \cup {p}]
  /\ waiting' = waiting \ {<<i, p>>}
  /\ UNCHANGED <<size, closed, lapsed>>

Close(i) == closed' = closed \cup {i} /\ UNCHANGED <<size, guests, lapsed, waiting>>

Lapse(i) == lapsed' = lapsed \cup {i} /\ UNCHANGED <<size, guests, closed, waiting>>

Next == \E i \in Invites :
  \/ Issue(i) \/ Close(i) \/ Lapse(i)
  \/ \E p \in People : Arrive(i, p) \/ Leave(i, p) \/ Admit(i, p)

Spec == Init /\ [][Next]_vars
=============================================================================
