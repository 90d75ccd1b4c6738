----------------------------- MODULE RateLimit -----------------------------
(***************************************************************************)
(* The limits on the rate of requests, in one process.                     *)
(*                                                                         *)
(* The middleware of /api asks for the policy, which is cached for five    *)
(* seconds, and then counts the request in the bucket of its caller: the   *)
(* bucket is looked up, made and swept under the lock of the table, and    *)
(* counted under its own lock.  Introspections of access tokens pass it by *)
(* and are counted in tables of their own, one by address and one by       *)
(* token, each under one lock; the model has one of the two.               *)
(*                                                                         *)
(* Time passes in ticks.  The middleware reads the clock and counts within *)
(* one.  An introspection reads the clock, then asks the database, and     *)
(* counts with its old reading when the answer is there; others have gone  *)
(* ahead with later readings by then.  Ages past the point from which they *)
(* make no difference are alike, and so are counts past every limit.       *)
(***************************************************************************)
EXTENDS Naturals, FiniteSets

CONSTANTS
  Requests,      \* the requests that can be under way at once
  Keys,          \* callers: an account or an address, reading or writing
  Caller,        \* the caller of each request
  Buckets,       \* the buckets in memory
  NoBucket,
  Policies,      \* limits; 0 stands for a limit that is switched off
  NoPolicy,      \* the cache is empty or past its time
  Default,       \* DefaultRateLimitPerMinute
  MaxLimit,      \* bound: no limit is higher, and counts past it are alike
  Introspections,  \* the introspections that can be under way at once
  NoReading,
  Introspected,  \* the addresses or tokens that introspections are counted by
  PATLimit,      \* their limit
  MaxWait,       \* bound: ticks an introspection waits for the database
  Window,        \* one minute, in ticks
  Capacity,      \* a table with more buckets than this is swept
  Origins,       \* {TRUE}: the settings are changed in this process only
  MaxChanges     \* bound: how often the settings change

ASSUME LimitAssumption ==
  /\ IsFiniteSet(Requests) /\ IsFiniteSet(Keys) /\ IsFiniteSet(Buckets)
  /\ Cardinality(Requests) + Cardinality(Keys) <= Cardinality(Buckets)
  /\ NoBucket \notin Buckets /\ Caller \in [Requests -> Keys]
  /\ MaxLimit \in Nat /\ Policies \subseteq 0 .. MaxLimit /\ Policies # {}
  /\ Default \in 1 .. MaxLimit /\ NoPolicy \notin 0 .. MaxLimit
  /\ PATLimit \in Nat \ {0} /\ Window \in Nat \ {0} /\ MaxWait \in Nat
  /\ NoReading \notin Nat
  /\ Capacity \in Nat /\ Origins \subseteq BOOLEAN /\ MaxChanges \in Nat

VARIABLES
  settings,      \* the policy stored in auth.instance_settings
  changes,       \* changes of the settings
  saved,         \* UpdateSettings has committed here and not yet emptied the cache
  failing,       \* reads of the settings fail
  cache,         \* Store.rateLimit
  pc,            \* where a request stands
  under,         \* the policy it goes by
  held,          \* its bucket
  table,         \* the buckets of the middleware
  bucket,        \* what is in them
  tally,         \* history: a caller's window, and those let through in it
  reading,       \* the age of the time an introspection has read
  pat,           \* the buckets of introspections
  answers        \* history: a window of introspections, those answered in it, and
                 \* whether one was refused

policyVars == <<settings, changes, saved, failing, cache>>
bucketVars == <<table, bucket, tally>>
patVars == <<reading, pat, answers>>
vars == <<policyVars, pc, under, held, bucketVars, patVars>>

\* Further back than the window.
Past == Window + 1

\* Further back than the window, also for a request with the oldest reading.
PATPast == Window + MaxWait + 1

Ages == 0 .. Past
PATAges == 0 .. PATPast

Older(age, past) == IF age = past THEN past ELSE age + 1

\* A lastSeen that was never set is further back than any window.
Nothing == [start |-> Past, seen |-> Past, n |-> 0]

\* A key of introspections without a bucket.
NoPAT == [start |-> PATPast, seen |-> PATPast, n |-> 0]

-----------------------------------------------------------------------------
\* A bucket of introspections is made to be counted in at once.
TypeOK ==
  /\ settings \in Policies /\ changes \in 0 .. MaxChanges
  /\ saved \in BOOLEAN /\ failing \in BOOLEAN
  /\ cache \in Policies \cup {Default, NoPolicy}
  /\ pc \in [Requests -> {"idle", "missed", "read", "decided", "found"}]
  /\ under \in [Requests -> Policies \cup {Default}]
  /\ held \in [Requests -> Buckets \cup {NoBucket}]
  /\ table \in [Keys -> Buckets \cup {NoBucket}]
  /\ bucket \in [Buckets -> [start : Ages, seen : Ages, n : 0 .. MaxLimit + 1]]
  /\ tally \in [Keys -> [start : Ages, through : Nat, most : 0 .. MaxLimit]]
  /\ reading \in [Introspections -> 0 .. MaxWait \cup {NoReading}]
  /\ pat \in [Introspected -> {NoPAT} \cup
                [start : PATAges, seen : PATAges, n : 1 .. PATLimit + 1]]
  /\ answers \in [Introspected -> [start : PATAges, n : Nat, refused : BOOLEAN]]

Init ==
  /\ settings \in Policies /\ changes = 0 /\ saved = FALSE /\ failing = FALSE
  /\ cache = NoPolicy
  /\ pc = [r \in Requests |-> "idle"]
  /\ under = [r \in Requests |-> Default]
  /\ held = [r \in Requests |-> NoBucket]
  /\ table = [k \in Keys |-> NoBucket]
  /\ bucket = [b \in Buckets |-> Nothing]
  /\ tally = [k \in Keys |-> [start |-> Past, through |-> 0, most |-> 0]]
  /\ reading = [j \in Introspections |-> NoReading]
  /\ pat = [k \in Introspected |-> NoPAT]
  /\ answers = [k \in Introspected |-> [start |-> PATPast, n |-> 0, refused |-> FALSE]]

Step(r, from, to) ==
  /\ pc[r] = from
  /\ pc' = [pc EXCEPT ![r] = to]

Finish(r) ==
  /\ pc' = [pc EXCEPT ![r] = "idle"]
  /\ under' = [under EXCEPT ![r] = Default]
  /\ held' = [held EXCEPT ![r] = NoBucket]

-----------------------------------------------------------------------------
(* The policy. *)

\* UpdateSettings commits a policy, here or in another process.
Commit(p, here) ==
  /\ changes < MaxChanges
  /\ settings' = p
  /\ changes' = changes + 1
  /\ saved' = (saved \/ here)
  /\ UNCHANGED <<failing, cache, pc, under, held, bucketVars, patVars>>

\* invalidateRateLimitCache.
Invalidate ==
  /\ saved
  /\ saved' = FALSE
  /\ cache' = NoPolicy
  /\ UNCHANGED <<settings, changes, failing, pc, under, held, bucketVars, patVars>>

\* Variant with a fault: a cached policy has no end.
PolicyStays == FALSE /\ UNCHANGED vars

\* The cached policy has reached its five seconds.
ExpirePolicy ==
  /\ cache # NoPolicy
  /\ cache' = NoPolicy
  /\ UNCHANGED <<settings, changes, saved, failing, pc, under, held, bucketVars, patVars>>

UsePolicy(r) ==
  /\ cache # NoPolicy
  /\ Step(r, "idle", "decided")
  /\ under' = [under EXCEPT ![r] = cache]
  /\ UNCHANGED <<policyVars, held, bucketVars, patVars>>

MissPolicy(r) ==
  /\ cache = NoPolicy
  /\ Step(r, "idle", "missed")
  /\ UNCHANGED <<policyVars, under, held, bucketVars, patVars>>

\* Reads of the settings begin to fail, or succeed again.
FailReads ==
  /\ failing' = ~failing
  /\ UNCHANGED <<settings, changes, saved, cache, pc, under, held, bucketVars, patVars>>

\* A read that fails counts as the default.
ReadPolicy(r) ==
  /\ Step(r, "missed", "read")
  /\ under' = [under EXCEPT ![r] = IF failing THEN Default ELSE settings]
  /\ UNCHANGED <<policyVars, held, bucketVars, patVars>>

\* What was read is cached, however old it is by now.
FillPolicy(r) ==
  /\ Step(r, "read", "decided")
  /\ cache' = under[r]
  /\ UNCHANGED <<settings, changes, saved, failing, under, held, bucketVars, patVars>>

-----------------------------------------------------------------------------
(* A request is counted. *)

\* The limit is switched off, or the caller is an administrator.
LetPass(r) ==
  /\ pc[r] = "decided"
  /\ Finish(r)
  /\ UNCHANGED <<policyVars, bucketVars, patVars>>

\* A new bucket has a start and no lastSeen.
New == [Nothing EXCEPT !.start = 0]

\* A bucket in memory that nothing refers to.
Unused == CHOOSE b \in Buckets :
            (\A k \in Keys : table[k] # b) /\ (\A r \in Requests : held[r] # b)

\* Variant with a fault: a full table is swept as well.
SweptWhenFull(tab, bkt) ==
  IF Cardinality({k \in Keys : tab[k] # NoBucket}) >= Capacity
  THEN [k \in Keys |-> IF tab[k] # NoBucket /\ bkt[tab[k]].seen > Window
                       THEN NoBucket ELSE tab[k]]
  ELSE tab

\* A table that has grown past Capacity loses the buckets not seen for a window.
\* lastSeen is read without the bucket's lock: either the old or the new value.
Swept(tab, bkt) ==
  IF Cardinality({k \in Keys : tab[k] # NoBucket}) > Capacity
  THEN [k \in Keys |-> IF tab[k] # NoBucket /\ bkt[tab[k]].seen > Window
                       THEN NoBucket ELSE tab[k]]
  ELSE tab

\* Under the lock of the table: the caller's bucket, a new one if it has none.
\* The sweep comes after it and meets the new bucket as well.
FindBucket(r) ==
  /\ Step(r, "decided", "found")
  /\ under[r] > 0
  /\ LET k == Caller[r]
         b == IF table[k] = NoBucket THEN Unused ELSE table[k]
     IN  /\ held' = [held EXCEPT ![r] = b]
         /\ bucket' = IF table[k] = NoBucket THEN [bucket EXCEPT ![b] = New] ELSE bucket
         /\ table' = Swept([table EXCEPT ![k] = b], bucket')
  /\ UNCHANGED <<policyVars, under, tally, patVars>>

\* Variant with a fault: the count is reset after the request was counted.
BumpThenReset(b, top, now) ==
  [start |-> IF b.start > Window + now THEN now ELSE b.start,
   seen |-> now,
   n |-> IF b.start > Window + now THEN 0 ELSE IF b.n > top THEN b.n ELSE b.n + 1]

\* One request more in a window, which begins again if it is over, for a request that
\* read the clock now ticks ago.
Bump(b, top, now) ==
  LET over == b.start > Window + now
      n == IF over THEN 0 ELSE b.n
  IN  [start |-> IF over THEN now ELSE b.start,
       seen |-> now,
       n |-> IF n > top THEN n ELSE n + 1]

\* The window of a caller as it would be if no bucket were ever lost.
Tallied(t, l, lets) ==
  LET new == t.start > Window
  IN  [start |-> IF new THEN 0 ELSE t.start,
       through |-> (IF new THEN 0 ELSE t.through) + (IF lets THEN 1 ELSE 0),
       most |-> IF new \/ l > t.most THEN l ELSE t.most]

\* Under the lock of the bucket: the request goes on, or is answered 429.
Count(r) ==
  /\ pc[r] = "found"
  /\ LET b == Bump(bucket[held[r]], MaxLimit, 0)
     IN  /\ bucket' = [bucket EXCEPT ![held[r]] = b]
         /\ tally' = [tally EXCEPT ![Caller[r]] = Tallied(@, under[r], b.n <= under[r])]
  /\ Finish(r)
  /\ UNCHANGED <<policyVars, table, patVars>>

Request(r) ==
  \/ UsePolicy(r) \/ MissPolicy(r) \/ ReadPolicy(r) \/ FillPolicy(r)
  \/ LetPass(r) \/ FindBucket(r) \/ Count(r)

-----------------------------------------------------------------------------
(* Introspections. *)

\* The handler reads the clock and asks the database about the token.
BeginIntrospection(j) ==
  /\ reading[j] = NoReading
  /\ reading' = [reading EXCEPT ![j] = 0]
  /\ UNCHANGED <<policyVars, pc, under, held, bucketVars, pat, answers>>

\* Variant with a fault: the table loses every bucket.
PATSweptAll(now) == [k \in Introspected |-> NoPAT]

\* The sweep comes first and goes by the reading of the request, as all of use does.
PATSwept(now) ==
  IF Cardinality({k \in Introspected : pat[k].n > 0}) > Capacity
  THEN [k \in Introspected |-> IF pat[k].seen > Window + now THEN NoPAT ELSE pat[k]]
  ELSE pat

\* The window of a key, one use after w; it begins again with its bucket.
Answered(w, new, lets) ==
  [start |-> IF new THEN 0 ELSE w.start,
   n |-> (IF new THEN 0 ELSE w.n) + (IF lets THEN 1 ELSE 0),
   refused |-> (~new /\ w.refused) \/ ~lets]

\* patBuckets.use, all of it under one lock, when the database has answered.
Introspect(j, k) ==
  /\ reading[j] # NoReading
  /\ reading' = [reading EXCEPT ![j] = NoReading]
  /\ LET old == PATSwept(reading[j])[k]
         b == Bump(old, PATLimit, reading[j])
     IN  /\ pat' = [PATSwept(reading[j]) EXCEPT ![k] = b]
         /\ answers' = [answers EXCEPT ![k] =
              Answered(@, old.start > Window + reading[j], b.n <= PATLimit)]
  /\ UNCHANGED <<policyVars, pc, under, held, bucketVars>>

\* An administrator's token is not counted, nor is one that could not be looked up.
EndIntrospection(j) ==
  /\ reading[j] # NoReading
  /\ reading' = [reading EXCEPT ![j] = NoReading]
  /\ UNCHANGED <<policyVars, pc, under, held, bucketVars, pat, answers>>

-----------------------------------------------------------------------------
Tick ==
  /\ \A r \in Requests : pc[r] # "found"
  /\ \A j \in Introspections : reading[j] # MaxWait
  /\ bucket' = [b \in Buckets |->
       [bucket[b] EXCEPT !.start = Older(@, Past), !.seen = Older(@, Past)]]
  /\ tally' = [k \in Keys |-> [tally[k] EXCEPT !.start = Older(@, Past)]]
  /\ reading' = [j \in Introspections |->
       IF reading[j] = NoReading THEN NoReading ELSE reading[j] + 1]
  /\ pat' = [k \in Introspected |->
       [pat[k] EXCEPT !.start = Older(@, PATPast), !.seen = Older(@, PATPast)]]
  /\ answers' = [k \in Introspected |-> [answers[k] EXCEPT !.start = Older(@, PATPast)]]
  /\ UNCHANGED <<policyVars, pc, under, held, table>>

Next ==
  \/ \E p \in Policies, here \in Origins : Commit(p, here)
  \/ Invalidate
  \/ ExpirePolicy
  \/ FailReads
  \/ \E r \in Requests : Request(r)
  \/ \E j \in Introspections :
       \/ BeginIntrospection(j) \/ EndIntrospection(j)
       \/ \E k \in Introspected : Introspect(j, k)
  \/ Tick

Spec == Init /\ [][Next]_vars

\* A policy in the cache grows old, and requests that have begun go on.
Fairness ==
  /\ WF_vars(Invalidate) /\ WF_vars(ExpirePolicy)
  /\ \A r \in Requests : WF_vars(ReadPolicy(r) \/ FillPolicy(r))

FairSpec == Spec /\ Fairness

-----------------------------------------------------------------------------
(* Safety. *)

\* No more requests of one caller go on in one window than the highest limit that
\* one of them was held to.  The middleware keeps this promise of its comment as
\* long as there are no more callers than Capacity.
LimitHolds == \A k \in Keys : tally[k].through <= tally[k].most

-----------------------------------------------------------------------------
(* Refinement. *)

Limiter == INSTANCE FixedWindow WITH
  Keys <- Introspected, Limit <- PATLimit, Slack <- MaxWait,
  age <- [k \in Introspected |-> answers[k].start],
  passed <- [k \in Introspected |-> answers[k].n],
  refused <- [k \in Introspected |-> answers[k].refused]

\* Introspections get what FixedWindow promises: exactly the first PATLimit of a
\* window are answered and only later ones refused, although their buckets come and
\* go with the sweeps of a full table and requests count out of the order in which
\* they read the clock.  What the waiting for the database costs is in the windows: one
\* may be followed by the next as much too early as an introspection has waited.
ImplementsLimiter == Limiter!Spec

-----------------------------------------------------------------------------
(* Liveness. *)

\* A policy that stays is obeyed in the end if the settings can be read again: reads
\* that overlapped the change, or that failed, do not keep another one, or the
\* default, in the cache for good.
PolicySettles ==
  \A p \in Policies :
    <>[](settings = p /\ ~failing) => <>[](cache \in {p, NoPolicy})

-----------------------------------------------------------------------------
(* A claim of the repository's comments that the code refutes. *)

\* rateLimitCacheTTL, UpdateSettings: a change of the policy made in this process
\* applies here at once; the cache is stale only when another process changes it.
OwnPolicyAtOnce ==
  Origins = {TRUE} /\ ~saved => cache \in {settings, Default, NoPolicy}

=============================================================================
