----------------------------- MODULE FixedWindow -----------------------------
(***************************************************************************)
(* The limiter a caller of patBuckets.use may think of: one window per key *)
(* that begins with the first use after the last window, lets exactly the  *)
(* first Limit uses through and refuses only those that come after them.   *)
(* It has no table and loses nothing.                                      *)
(*                                                                         *)
(* Uses may be told a time that is up to Slack ticks old, so the edges of  *)
(* a window are known up to Slack only: it may be followed by the next one *)
(* that much too early and go on that much too long.  With Slack = 0 every *)
(* window has its full length.                                             *)
(***************************************************************************)
EXTENDS Naturals

CONSTANTS
  Keys,
  Limit,
  Window,    \* the length of a window in ticks
  Slack      \* how old the time may be that a use is told

VARIABLES
  age,       \* ticks since the window of a key began, while they matter
  passed,    \* uses let through in it
  refused    \* has one been refused in it

vars == <<age, passed, refused>>

MayRun(k) == age[k] <= Window + Slack
MayBeOver(k) == age[k] + Slack > Window

Init ==
  /\ age = [k \in Keys |-> Window + Slack + 1]
  /\ passed = [k \in Keys |-> 0]
  /\ refused = [k \in Keys |-> FALSE]

Begin(k) ==
  /\ MayBeOver(k)
  /\ age' = [age EXCEPT ![k] = 0]
  /\ passed' = [passed EXCEPT ![k] = 1]
  /\ refused' = [refused EXCEPT ![k] = FALSE]

Pass(k) ==
  /\ MayRun(k)
  /\ passed[k] < Limit
  /\ passed' = [passed EXCEPT ![k] = @ + 1]
  /\ UNCHANGED <<age, refused>>

Refuse(k) ==
  /\ MayRun(k)
  /\ passed[k] = Limit
  /\ refused' = [refused EXCEPT ![k] = TRUE]
  /\ UNCHANGED <<age, passed>>

Tick ==
  /\ age' = [k \in Keys |-> IF MayRun(k) THEN age[k] + 1 ELSE age[k]]
  /\ UNCHANGED <<passed, refused>>

Next == (\E k \in Keys : Begin(k) \/ Pass(k) \/ Refuse(k)) \/ Tick

Spec == Init /\ [][Next]_vars
=============================================================================
