----------------------------- MODULE MCSessions -----------------------------
(* Finite instances of Sessions for TLC. *)
EXTENDS Sessions, TLC

CONSTANTS u1, f1, f2, f3, w1, w2

Begun(f) == pc[f] # "idle"
Refreshes(f) == Begun(f) => from[f] # NoToken

NoBans ==
  /\ banned = {} /\ ~failing
  /\ \A w \in Writers : pending[w] = NoWrite
  /\ \A u \in Users : cache[u] = "unknown" /\ password[u] = 0

\* A login and two refreshes without bans, or a single login with them; refreshes
\* are interchangeable and may as well begin in order.
OneSide ==
  /\ Refreshes(f2) /\ Refreshes(f3) /\ (Begun(f3) => Begun(f2))
  /\ NoBans \/ ~Begun(f2)
=============================================================================
