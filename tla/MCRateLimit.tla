---------------------------- MODULE MCRateLimit ----------------------------
(* Finite instances of RateLimit for TLC. *)
EXTENDS RateLimit, TLC

CONSTANTS r1, r2, k1, k2, i1, i2, t1, t2, b1, b2, b3, b4

\* Both requests are of one caller, or each of its own.
OneCaller == [r \in Requests |-> k1]
TwoCallers == (r1 :> k1) @@ (r2 :> k2)

\* The limit of requests and the one of introspections have only the clock in common
\* and read nothing of each other, so a behaviour need not follow both.
OneSide ==
  \/ /\ \A r \in Requests : pc[r] = "idle"
     /\ \A k \in Keys : table[k] = NoBucket /\ tally[k].most = 0 /\ tally[k].through = 0
     /\ cache = NoPolicy /\ changes = 0 /\ ~failing
  \/ /\ \A j \in Introspections : reading[j] = NoReading
     /\ \A k \in Introspected : pat[k] = NoPAT /\ answers[k].n = 0
=============================================================================
