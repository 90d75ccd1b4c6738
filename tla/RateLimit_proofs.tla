-------------------------- MODULE RateLimit_proofs --------------------------
(***************************************************************************)
(* Theorems about RateLimit for any number of requests, callers and        *)
(* buckets, any limits and any length of the window.                       *)
(***************************************************************************)
EXTENDS RateLimit, FiniteSetTheorems, TLAPS

USE DEF policyVars, bucketVars, patVars

\* The introspections that are answered of n that are counted.
UpToLimit(n) == IF n > PATLimit THEN PATLimit ELSE n

\* A bucket of introspections began and was last seen at a time that was read while
\* its window ran, or at most MaxWait before the window, and it has counted what went
\* on in it.  A key that has no bucket has a window that may be over.
Together ==
  \A k \in Introspected :
    /\ pat[k].n > 0 =>
         /\ answers[k].start <= pat[k].start /\ pat[k].start <= answers[k].start + MaxWait
         /\ pat[k].seen <= answers[k].start + MaxWait
         /\ answers[k].n = UpToLimit(pat[k].n)
    /\ pat[k].n = 0 => answers[k].start + MaxWait > Window

PATInv == TypeOK /\ Together

\* A request that has found a bucket holds the one of its caller.
Holding ==
  \A r \in Requests : pc[r] = "found" =>
    held[r] \in Buckets /\ held[r] = table[Caller[r]] /\ under[r] > 0

\* No two callers share a bucket.
Apart ==
  \A k, l \in Keys : table[k] = table[l] /\ table[k] # NoBucket => k = l

\* A caller whose window runs has a bucket that began with it and has counted
\* everything that went through; a bucket that has begun before the window is
\* new, and the request that made it is about to be counted.
Counted(k) ==
  LET t == tally[k]
      b == bucket[table[k]]
  IN  /\ t.start <= Window => table[k] # NoBucket /\ b.start = t.start /\ t.through <= b.n
      /\ t.start > Window /\ table[k] # NoBucket /\ b.start <= Window =>
           /\ b.start = 0 /\ b.n = 0
           /\ \E r \in Requests : pc[r] = "found" /\ Caller[r] = k

TableInv == TypeOK /\ Holding /\ Apart /\ (\A k \in Keys : Counted(k)) /\ LimitHolds

-----------------------------------------------------------------------------
LEMMA Numbers ==
  /\ Window \in Nat /\ Window > 0 /\ MaxWait \in Nat
  /\ MaxLimit \in Nat /\ PATLimit \in Nat /\ PATLimit > 0
  /\ Policies \cup {Default} \subseteq 0 .. MaxLimit
  /\ Past = Window + 1 /\ Past \in Nat /\ 0 \in Ages /\ Past \in Ages
  /\ PATPast = Window + MaxWait + 1 /\ PATPast \in Nat /\ 0 \in PATAges /\ PATPast \in PATAges
  /\ NoReading \notin Nat
BY LimitAssumption DEF Past, Ages, PATPast, PATAges

LEMMA OlderRange ==
  ASSUME NEW past \in Nat, NEW a \in 0 .. past
  PROVE  /\ Older(a, past) \in 0 .. past /\ Older(a, past) >= a
         /\ Older(a, past) = past \/ Older(a, past) = a + 1
BY DEF Older

LEMMA AgeRange ==
  ASSUME NEW a \in Ages
  PROVE  /\ Older(a, Past) \in Ages /\ Older(a, Past) >= a
         /\ Older(a, Past) > Window \/ Older(a, Past) = a + 1
BY Numbers DEF Older, Ages

\* Growing older keeps the order of two ages, and their distance does not grow.
LEMMA OlderOrder ==
  ASSUME NEW past \in Nat, NEW a \in 0 .. past, NEW b \in 0 .. past
  PROVE  /\ a <= b => Older(a, past) <= Older(b, past)
         /\ \A d \in Nat : b <= a + d => Older(b, past) <= Older(a, past) + d
BY DEF Older

\* A bucket that is counted in stays a bucket.
LEMMA BumpRange ==
  ASSUME NEW top \in Nat, NEW past \in Nat, NEW now \in 0 .. past,
         NEW b \in [start : 0 .. past, seen : 0 .. past, n : 0 .. top + 1]
  PROVE  /\ Bump(b, top, now) \in [start : 0 .. past, seen : 0 .. past, n : 1 .. top + 1]
         /\ Bump(b, top, now).seen = now
         /\ Bump(b, top, now).start = IF b.start > Window + now THEN now ELSE b.start
         /\ Bump(b, top, now).n = IF b.start > Window + now THEN 1
                                  ELSE IF b.n > top THEN b.n ELSE b.n + 1
BY Numbers DEF Bump

\* The middleware counts with a clock it has just read.
LEMMA BumpAtOnce ==
  ASSUME NEW b \in [start : Ages, seen : Ages, n : 0 .. MaxLimit + 1]
  PROVE  /\ Bump(b, MaxLimit, 0) \in [start : Ages, seen : Ages, n : 0 .. MaxLimit + 1]
         /\ Bump(b, MaxLimit, 0).start = IF b.start > Window THEN 0 ELSE b.start
         /\ Bump(b, MaxLimit, 0).n <= MaxLimit =>
              Bump(b, MaxLimit, 0).n = (IF b.start > Window THEN 0 ELSE b.n) + 1
         /\ Bump(b, MaxLimit, 0).n >= IF b.start > Window THEN 1 ELSE b.n
<1>1. Window + 0 = Window
  BY Numbers
<1> QED
  BY <1>1, Numbers DEF Bump, Ages

\* There is a bucket in memory for a caller that has none.
LEMMA UnusedExists ==
  ASSUME TypeOK, NEW k \in Keys, table[k] = NoBucket
  PROVE  /\ Unused \in Buckets
         /\ \A l \in Keys : table[l] # Unused
         /\ \A r \in Requests : held[r] # Unused
<1> DEFINE T == {table[l] : l \in Keys}
           H == {held[r] : r \in Requests}
<1>1. IsFiniteSet(T) /\ Cardinality(T) <= Cardinality(Keys)
  <2>1. table \in Surjection(Keys, T)
    BY DEF Surjection, TypeOK
  <2> QED
    BY <2>1, LimitAssumption, FS_Surjection
<1>2. IsFiniteSet(H) /\ Cardinality(H) <= Cardinality(Requests)
  <2>1. held \in Surjection(Requests, H)
    BY DEF Surjection, TypeOK
  <2> QED
    BY <2>1, LimitAssumption, FS_Surjection
<1>3. /\ Cardinality(T) \in Nat /\ Cardinality(H) \in Nat /\ Cardinality(Keys) \in Nat
      /\ Cardinality(Requests) \in Nat /\ Cardinality(Buckets) \in Nat
  BY <1>1, <1>2, LimitAssumption, FS_CardinalityType
<1>4. /\ IsFiniteSet(T \cup H) /\ IsFiniteSet(T \cap H)
      /\ Cardinality(T \cup H) = Cardinality(T) + Cardinality(H) - Cardinality(T \cap H)
  BY <1>1, <1>2, FS_Union, FS_Intersection
<1>5. Cardinality(T \cap H) \in Nat /\ Cardinality(T \cup H) \in Nat
  BY <1>4, FS_CardinalityType
<1>6. IsFiniteSet(Buckets \cup {NoBucket}) /\ Cardinality(Buckets \cup {NoBucket}) = Cardinality(Buckets) + 1
  BY LimitAssumption, FS_AddElement
<1>7. ~(Buckets \cup {NoBucket} \subseteq T \cup H)
  <2> SUFFICES ASSUME Buckets \cup {NoBucket} \subseteq T \cup H PROVE FALSE
    OBVIOUS
  <2>1. Cardinality(Buckets \cup {NoBucket}) <= Cardinality(T \cup H)
    BY <1>4, FS_Subset
  <2>2. Cardinality(Requests) + Cardinality(Keys) <= Cardinality(Buckets)
    BY LimitAssumption
  <2> HIDE DEF T, H
  <2> QED
    BY <1>1, <1>2, <1>3, <1>4, <1>5, <1>6, <2>1, <2>2
<1>8. \E b \in Buckets : (\A l \in Keys : table[l] # b) /\ (\A r \in Requests : held[r] # b)
  BY <1>7
<1> QED
  BY <1>8 DEF Unused

-----------------------------------------------------------------------------
\* What pat can hold of a key.
PATRecords == {NoPAT} \cup [start : PATAges, seen : PATAges, n : 1 .. PATLimit + 1]

\* The bucket that an introspection finds after the sweep, the one it leaves, and what
\* it makes of the window.
LEMMA UseRange ==
  ASSUME TypeOK, NEW j \in Introspections, NEW k \in Introspected, Introspect(j, k)
  PROVE  \E now \in 0 .. MaxWait : \E old \in PATRecords : \E b \in PATRecords :
           /\ old = pat[k] \/ (old = NoPAT /\ pat[k].seen > Window + now)
           /\ b # NoPAT
           /\ b.start = (IF old.start > Window + now THEN now ELSE old.start) /\ b.seen = now
           /\ b.n = IF old.start > Window + now THEN 1
                    ELSE IF old.n > PATLimit THEN old.n ELSE old.n + 1
           /\ pat' \in [Introspected -> PATRecords] /\ pat'[k] = b
           /\ answers' \in [Introspected -> [start : PATAges, n : Nat, refused : BOOLEAN]]
           /\ answers'[k] = Answered(answers[k], old.start > Window + now, b.n <= PATLimit)
           /\ \A l \in Introspected : l # k =>
                /\ answers'[l] = answers[l]
                /\ pat'[l] = pat[l] \/ (pat'[l] = NoPAT /\ pat[l].seen > Window + now)
<1> DEFINE now == reading[j]
           swept == PATSwept(now)
           old == swept[k]
           b == Bump(old, PATLimit, now)
           w == Answered(answers[k], old.start > Window + now, b.n <= PATLimit)
<1>1. /\ now \in 0 .. MaxWait
      /\ pat' = [swept EXCEPT ![k] = b] /\ answers' = [answers EXCEPT ![k] = w]
  BY DEF Introspect, TypeOK
<1>2. pat \in [Introspected -> PATRecords] /\ NoPAT \in PATRecords
  BY DEF TypeOK, PATRecords
<1>3. /\ swept \in [Introspected -> PATRecords]
      /\ \A l \in Introspected :
           swept[l] = pat[l] \/ (swept[l] = NoPAT /\ pat[l].seen > Window + now)
  BY <1>2 DEF PATSwept
<1>4. /\ old \in [start : 0 .. PATPast, seen : 0 .. PATPast, n : 0 .. PATLimit + 1]
      /\ now \in 0 .. PATPast
  <2>1. NoPAT \in [start : 0 .. PATPast, seen : 0 .. PATPast, n : 0 .. PATLimit + 1]
    BY Numbers DEF NoPAT
  <2>2. \A r \in PATRecords : r \in [start : 0 .. PATPast, seen : 0 .. PATPast, n : 0 .. PATLimit + 1]
    BY <2>1, Numbers DEF PATRecords, PATAges
  <2> QED
    BY <1>1, <1>3, <2>2, Numbers
<1>5. /\ b \in [start : 0 .. PATPast, seen : 0 .. PATPast, n : 1 .. PATLimit + 1]
      /\ b.seen = now
      /\ b.start = IF old.start > Window + now THEN now ELSE old.start
      /\ b.n = IF old.start > Window + now THEN 1
               ELSE IF old.n > PATLimit THEN old.n ELSE old.n + 1
  <2> HIDE DEF now, old
  <2>1. PATLimit \in Nat /\ PATPast \in Nat
    BY Numbers
  <2> QED
    BY <1>4, <2>1, BumpRange
<1>6. w \in [start : PATAges, n : Nat, refused : BOOLEAN]
  BY Numbers DEF Answered, TypeOK
<1>7. old \in PATRecords /\ (old = pat[k] \/ (old = NoPAT /\ pat[k].seen > Window + now))
  BY <1>3
<1> HIDE DEF now, swept, old, b, w
<1>8. b \in PATRecords /\ b # NoPAT
  BY <1>5, Numbers DEF PATRecords, PATAges, NoPAT
<1>9. pat' \in [Introspected -> PATRecords] /\ pat'[k] = b
  BY <1>1, <1>3, <1>8
<1>10. /\ answers' \in [Introspected -> [start : PATAges, n : Nat, refused : BOOLEAN]]
       /\ answers'[k] = w
  BY <1>1, <1>6 DEF TypeOK
<1>11. \A l \in Introspected : l # k =>
         /\ answers'[l] = answers[l]
         /\ pat'[l] = pat[l] \/ (pat'[l] = NoPAT /\ pat[l].seen > Window + now)
  BY <1>1, <1>3 DEF TypeOK
<1>12. w = Answered(answers[k], old.start > Window + now, b.n <= PATLimit)
  BY DEF w
<1> QED
  BY <1>1, <1>5, <1>7, <1>8, <1>9, <1>10, <1>11, <1>12

-----------------------------------------------------------------------------
LEMMA TypeStep ==
  ASSUME TypeOK, [Next]_vars
  PROVE  TypeOK'
<1> USE DEF TypeOK
<1>1. ASSUME NEW p \in Policies, NEW here \in Origins, Commit(p, here) PROVE TypeOK'
  <2>1. changes' \in 0 .. MaxChanges /\ here \in BOOLEAN
    BY <1>1, LimitAssumption DEF Commit
  <2> QED
    BY <1>1, <2>1 DEF Commit
<1>2. CASE Invalidate \/ ExpirePolicy \/ FailReads
  BY <1>2 DEF Invalidate, ExpirePolicy, FailReads
<1>3. ASSUME NEW r \in Requests, Request(r) PROVE TypeOK'
  <2>1. CASE UsePolicy(r)
    BY <1>3, <2>1 DEF UsePolicy, Step
  <2>2. CASE MissPolicy(r) \/ ReadPolicy(r)
    BY <2>2 DEF MissPolicy, ReadPolicy, Step
  <2>3. CASE FillPolicy(r) \/ LetPass(r)
    BY <2>3 DEF FillPolicy, LetPass, Step, Finish
  <2>4. CASE FindBucket(r)
    <3> DEFINE k == Caller[r]
               b == IF table[k] = NoBucket THEN Unused ELSE table[k]
    <3>1. k \in Keys /\ b \in Buckets
      BY LimitAssumption, UnusedExists
    <3>2. New \in [start : Ages, seen : Ages, n : 0 .. MaxLimit + 1]
      BY Numbers DEF New, Nothing
    <3>3. /\ held' = [held EXCEPT ![r] = b]
          /\ bucket' = IF table[k] = NoBucket THEN [bucket EXCEPT ![b] = New] ELSE bucket
          /\ table' = Swept([table EXCEPT ![k] = b], bucket')
      BY <2>4 DEF FindBucket
    <3> HIDE DEF b
    <3>4. held' \in [Requests -> Buckets \cup {NoBucket}]
      BY <3>1, <3>3
    <3>5. bucket' \in [Buckets -> [start : Ages, seen : Ages, n : 0 .. MaxLimit + 1]]
      BY <3>2, <3>3
    <3>6. [table EXCEPT ![k] = b] \in [Keys -> Buckets \cup {NoBucket}]
      BY <3>1
    <3>7. table' \in [Keys -> Buckets \cup {NoBucket}]
      BY <3>3, <3>6 DEF Swept
    <3> QED
      BY <2>4, <3>4, <3>5, <3>7 DEF FindBucket, Step
  <2>5. CASE Count(r)
    <3> DEFINE b == Bump(bucket[held[r]], MaxLimit, 0)
    <3>1. bucket' = [bucket EXCEPT ![held[r]] = b]
      BY <2>5 DEF Count
    <3>2. tally' = [tally EXCEPT ![Caller[r]] = Tallied(@, under[r], b.n <= under[r])]
      BY <2>5 DEF Count
    <3>3. bucket' \in [Buckets -> [start : Ages, seen : Ages, n : 0 .. MaxLimit + 1]]
      <4>1. CASE held[r] \in Buckets
        <5>1. b \in [start : Ages, seen : Ages, n : 0 .. MaxLimit + 1]
          BY <4>1, BumpAtOnce
        <5> HIDE DEF b
        <5> QED
          BY <3>1, <5>1
      <4>2. CASE held[r] \notin Buckets
        BY <3>1, <4>2
      <4> QED
        BY <4>1, <4>2
    <3>4. under[r] \in 0 .. MaxLimit
      BY Numbers
    <3>5. ASSUME NEW t \in [start : Ages, through : Nat, most : 0 .. MaxLimit], NEW lets
          PROVE  Tallied(t, under[r], lets) \in [start : Ages, through : Nat, most : 0 .. MaxLimit]
      BY <3>4, Numbers DEF Tallied
    <3>6. tally' \in [Keys -> [start : Ages, through : Nat, most : 0 .. MaxLimit]]
      BY <3>2, <3>5
    <3> QED
      BY <2>5, <3>3, <3>6 DEF Count, Finish
  <2> QED
    BY <1>3, <2>1, <2>2, <2>3, <2>4, <2>5 DEF Request
<1>4. ASSUME NEW j \in Introspections, BeginIntrospection(j) \/ EndIntrospection(j) PROVE TypeOK'
  <2>1. reading' \in [Introspections -> 0 .. MaxWait \cup {NoReading}]
    <3>1. 0 \in 0 .. MaxWait
      BY Numbers
    <3> QED
      BY <1>4, <3>1 DEF BeginIntrospection, EndIntrospection
  <2> QED
    BY <1>4, <2>1 DEF BeginIntrospection, EndIntrospection
<1>5. ASSUME NEW j \in Introspections, NEW k \in Introspected, Introspect(j, k) PROVE TypeOK'
  <2>1. /\ pat' \in [Introspected -> PATRecords]
        /\ answers' \in [Introspected -> [start : PATAges, n : Nat, refused : BOOLEAN]]
    BY <1>5, UseRange
  <2> QED
    BY <1>5, <2>1, Numbers DEF Introspect, PATRecords
<1>6. CASE Tick
  <2>1. bucket' \in [Buckets -> [start : Ages, seen : Ages, n : 0 .. MaxLimit + 1]]
    <3>1. ASSUME NEW b \in [start : Ages, seen : Ages, n : 0 .. MaxLimit + 1]
          PROVE  [b EXCEPT !.start = Older(@, Past), !.seen = Older(@, Past)]
                   \in [start : Ages, seen : Ages, n : 0 .. MaxLimit + 1]
      BY OlderRange, Numbers DEF Ages
    <3> QED
      BY <1>6, <3>1 DEF Tick
  <2>2. tally' \in [Keys -> [start : Ages, through : Nat, most : 0 .. MaxLimit]]
    <3>1. ASSUME NEW t \in [start : Ages, through : Nat, most : 0 .. MaxLimit]
          PROVE  [t EXCEPT !.start = Older(@, Past)] \in [start : Ages, through : Nat, most : 0 .. MaxLimit]
      BY OlderRange, Numbers DEF Ages
    <3> QED
      BY <1>6, <3>1 DEF Tick
  <2>3. pat' \in [Introspected -> PATRecords]
    <3>1. ASSUME NEW b \in PATRecords
          PROVE  [b EXCEPT !.start = Older(@, PATPast), !.seen = Older(@, PATPast)] \in PATRecords
      <4>1. CASE b = NoPAT
        <5>1. [b EXCEPT !.start = Older(@, PATPast), !.seen = Older(@, PATPast)] = NoPAT
          BY <4>1 DEF Older, NoPAT
        <5> QED
          BY <5>1 DEF PATRecords
      <4>2. CASE b # NoPAT
        BY <3>1, <4>2, OlderRange, Numbers DEF PATRecords, PATAges
      <4> QED
        BY <4>1, <4>2
    <3>2. pat \in [Introspected -> PATRecords]
      BY DEF PATRecords
    <3> QED
      BY <1>6, <3>1, <3>2 DEF Tick
  <2>4. answers' \in [Introspected -> [start : PATAges, n : Nat, refused : BOOLEAN]]
    <3>1. ASSUME NEW a \in [start : PATAges, n : Nat, refused : BOOLEAN]
          PROVE  [a EXCEPT !.start = Older(@, PATPast)]
                   \in [start : PATAges, n : Nat, refused : BOOLEAN]
      BY OlderRange, Numbers DEF PATAges
    <3> QED
      BY <1>6, <3>1 DEF Tick
  <2>5. reading' \in [Introspections -> 0 .. MaxWait \cup {NoReading}]
    <3>1. ASSUME NEW j \in Introspections, reading[j] # NoReading
          PROVE  reading[j] + 1 \in 0 .. MaxWait
      <4>1. reading[j] \in 0 .. MaxWait
        BY <3>1
      <4>2. reading[j] # MaxWait
        BY <1>6 DEF Tick
      <4>3. MaxWait \in Nat
        BY Numbers
      <4> HIDE DEF TypeOK
      <4> QED
        BY <4>1, <4>2, <4>3
    <3> QED
      BY <1>6, <3>1 DEF Tick
  <2> QED
    BY <1>6, <2>1, <2>2, <2>3, <2>4, <2>5 DEF Tick, PATRecords
<1>7. CASE UNCHANGED vars
  BY <1>7 DEF vars
<1> QED
  BY <1>1, <1>2, <1>3, <1>4, <1>5, <1>6, <1>7 DEF Next

LEMMA TypeInit ==
  ASSUME Init
  PROVE  TypeOK
<1>1. bucket \in [Buckets -> [start : Ages, seen : Ages, n : 0 .. MaxLimit + 1]]
  <2>1. Nothing \in [start : Ages, seen : Ages, n : 0 .. MaxLimit + 1]
    BY Numbers DEF Nothing
  <2> QED
    BY <2>1 DEF Init
<1>2. pat \in [Introspected -> PATRecords]
  BY DEF Init, PATRecords
<1>3. /\ tally \in [Keys -> [start : Ages, through : Nat, most : 0 .. MaxLimit]]
      /\ answers \in [Introspected -> [start : PATAges, n : Nat, refused : BOOLEAN]]
  BY Numbers DEF Init
<1>4. changes \in 0 .. MaxChanges
  BY LimitAssumption DEF Init
<1> QED
  BY <1>1, <1>2, <1>3, <1>4 DEF Init, TypeOK, PATRecords

\* A use is the first of a window, or one more that is let through or refused.
LEMMA AnsweredCases ==
  ASSUME NEW w \in [start : PATAges, n : Nat, refused : BOOLEAN],
         NEW new \in BOOLEAN, NEW lets \in BOOLEAN
  PROVE  /\ new /\ lets => Answered(w, new, lets) = [start |-> 0, n |-> 1, refused |-> FALSE]
         /\ ~new /\ lets => Answered(w, new, lets) = [w EXCEPT !.n = @ + 1]
         /\ ~new /\ ~lets => Answered(w, new, lets) = [w EXCEPT !.refused = TRUE]
<1> DEFINE a == Answered(w, new, lets)
<1>1. /\ w = [start |-> w.start, n |-> w.n, refused |-> w.refused]
      /\ w.n \in Nat /\ w.refused \in BOOLEAN
  OBVIOUS
<1>2. /\ a = [start |-> a.start, n |-> a.n, refused |-> a.refused]
      /\ a.start = (IF new THEN 0 ELSE w.start)
      /\ a.n = (IF new THEN 0 ELSE w.n) + (IF lets THEN 1 ELSE 0)
  BY DEF Answered
<1>3. a.refused = IF lets THEN IF new THEN FALSE ELSE w.refused ELSE TRUE
  <2>1. ASSUME NEW p \in BOOLEAN
        PROVE  ((~new /\ p) \/ ~lets) = IF lets THEN IF new THEN FALSE ELSE p ELSE TRUE
    BY <2>1
  <2> QED
    BY <1>1, <2>1 DEF Answered
<1> HIDE DEF a
<1>4. new /\ lets => a = [start |-> 0, n |-> 1, refused |-> FALSE]
  <2> SUFFICES ASSUME new /\ lets PROVE a = [start |-> 0, n |-> 1, refused |-> FALSE]
    OBVIOUS
  <2>1. a.start = 0 /\ a.n = 1 /\ a.refused = FALSE
    BY <1>2, <1>3
  <2> QED
    BY <1>2, <2>1
<1>5. ~new /\ lets => a = [w EXCEPT !.n = @ + 1]
  <2> SUFFICES ASSUME ~new, lets PROVE a = [w EXCEPT !.n = @ + 1]
    OBVIOUS
  <2>1. a.start = w.start /\ a.n = w.n + 1 /\ a.refused = w.refused
    BY <1>2, <1>3
  <2> QED
    BY <1>1, <1>2, <2>1
<1>6. ~new /\ ~lets => a = [w EXCEPT !.refused = TRUE]
  <2> SUFFICES ASSUME ~new, ~lets PROVE a = [w EXCEPT !.refused = TRUE]
    OBVIOUS
  <2>1. a.start = w.start /\ a.n = w.n /\ a.refused = TRUE
    BY <1>1, <1>2, <1>3
  <2> QED
    BY <1>1, <1>2, <2>1
<1> QED
  BY <1>4, <1>5, <1>6 DEF a

\* What an introspection does to the window of its key: it begins the next one if the
\* last may be over, and otherwise counts in one that may run.
LEMMA UseStep ==
  ASSUME PATInv, NEW j \in Introspections, NEW k \in Introspected, Introspect(j, k)
  PROVE  /\ \/ /\ answers[k].start + MaxWait > Window
               /\ answers'[k] = [start |-> 0, n |-> 1, refused |-> FALSE]
            \/ /\ answers[k].start <= Window + MaxWait /\ answers[k].n < PATLimit
               /\ answers'[k] = [answers[k] EXCEPT !.n = @ + 1]
            \/ /\ answers[k].start <= Window + MaxWait /\ answers[k].n = PATLimit
               /\ answers'[k] = [answers[k] EXCEPT !.refused = TRUE]
         /\ \A l \in Introspected : l # k => answers'[l] = answers[l]
         /\ Together'
<1> USE DEF PATInv
<1>1. PICK now \in 0 .. MaxWait : \E old \in PATRecords : \E b \in PATRecords :
           /\ old = pat[k] \/ (old = NoPAT /\ pat[k].seen > Window + now)
           /\ b # NoPAT
           /\ b.start = (IF old.start > Window + now THEN now ELSE old.start) /\ b.seen = now
           /\ b.n = IF old.start > Window + now THEN 1
                    ELSE IF old.n > PATLimit THEN old.n ELSE old.n + 1
           /\ pat'[k] = b
           /\ answers'[k] = Answered(answers[k], old.start > Window + now, b.n <= PATLimit)
           /\ \A l \in Introspected : l # k =>
                /\ answers'[l] = answers[l]
                /\ pat'[l] = pat[l] \/ (pat'[l] = NoPAT /\ pat[l].seen > Window + now)
  BY UseRange
<1>2. PICK old \in PATRecords, b \in PATRecords :
           /\ old = pat[k] \/ (old = NoPAT /\ pat[k].seen > Window + now)
           /\ b # NoPAT
           /\ b.start = (IF old.start > Window + now THEN now ELSE old.start) /\ b.seen = now
           /\ b.n = IF old.start > Window + now THEN 1
                    ELSE IF old.n > PATLimit THEN old.n ELSE old.n + 1
           /\ pat'[k] = b
           /\ answers'[k] = Answered(answers[k], old.start > Window + now, b.n <= PATLimit)
           /\ \A l \in Introspected : l # k =>
                /\ answers'[l] = answers[l]
                /\ pat'[l] = pat[l] \/ (pat'[l] = NoPAT /\ pat[l].seen > Window + now)
  BY <1>1
<1> DEFINE a == answers[k]
           over == old.start > Window + now
           lets == b.n <= PATLimit
           w == Answered(a, over, lets)
<1>3. a \in [start : PATAges, n : Nat, refused : BOOLEAN]
  BY DEF TypeOK
<1>4. \A l \in Introspected : /\ pat[l] \in PATRecords /\ pat[l].n \in Nat
                              /\ pat[l].seen \in Nat /\ answers[l].start \in PATAges
  <2>1. \A l \in Introspected : pat[l] \in PATRecords /\ answers[l].start \in PATAges
    BY DEF TypeOK, PATRecords
  <2>2. \A r \in PATRecords : r.n \in Nat /\ r.seen \in Nat
    BY Numbers DEF PATRecords, NoPAT, PATAges
  <2> QED
    BY <2>1, <2>2
<1>5. \A l \in Introspected : pat[l].seen > Window + now => answers[l].start + MaxWait > Window
  <2>1. ASSUME NEW l \in Introspected, pat[l].seen > Window + now, pat[l].n > 0
        PROVE  answers[l].start + MaxWait > Window
    <3>1. pat[l].seen <= answers[l].start + MaxWait
      BY <2>1 DEF Together
    <3> QED
      BY <1>4, <2>1, <3>1, Numbers DEF PATAges
  <2>2. ASSUME NEW l \in Introspected, pat[l].n = 0
        PROVE  answers[l].start + MaxWait > Window
    BY <2>2 DEF Together
  <2> QED
    BY <1>4, <2>1, <2>2
<1>7. ASSUME b.n > 0,
             answers'[k].start <= b.start, b.start <= answers'[k].start + MaxWait,
             b.seen <= answers'[k].start + MaxWait, answers'[k].n = UpToLimit(b.n)
      PROVE  Together'
  <2>1. ASSUME NEW l \in Introspected, l # k
        PROVE  /\ pat'[l].n > 0 =>
                    /\ answers'[l].start <= pat'[l].start
                    /\ pat'[l].start <= answers'[l].start + MaxWait
                    /\ pat'[l].seen <= answers'[l].start + MaxWait
                    /\ answers'[l].n = UpToLimit(pat'[l].n)
               /\ pat'[l].n = 0 => answers'[l].start + MaxWait > Window
    <3>1. CASE pat'[l] = pat[l]
      BY <1>2, <2>1, <3>1 DEF Together
    <3>2. CASE pat'[l] = NoPAT /\ pat[l].seen > Window + now
      <4>1. answers'[l] = answers[l] /\ answers[l].start + MaxWait > Window
        BY <1>2, <1>5, <2>1, <3>2
      <4> QED
        BY <3>2, <4>1 DEF NoPAT
    <3> QED
      BY <1>2, <2>1, <3>1, <3>2
  <2>2. pat'[k] = b /\ ~(b.n = 0)
    BY <1>2, <1>7
  <2> QED
    BY <1>7, <2>1, <2>2 DEF Together
<1>9. /\ over /\ lets => w = [start |-> 0, n |-> 1, refused |-> FALSE]
      /\ ~over /\ lets => w = [a EXCEPT !.n = @ + 1]
      /\ ~over /\ ~lets => w = [a EXCEPT !.refused = TRUE]
  <2>1. over \in BOOLEAN /\ lets \in BOOLEAN
    OBVIOUS
  <2> HIDE DEF a, over, lets
  <2> QED
    BY <1>3, <2>1, AnsweredCases
<1>6. CASE over
  <2>1. a.start + MaxWait > Window
    <3>1. CASE old = pat[k] /\ old.n > 0
      <4>1. old.start <= a.start + MaxWait /\ old.start \in Nat
        BY <1>4, <3>1, Numbers DEF Together, PATRecords, NoPAT, PATAges
      <4> QED
        BY <1>3, <1>6, <4>1, Numbers DEF PATAges
    <3>2. CASE old = pat[k] /\ old.n = 0
      BY <3>2 DEF Together
    <3>3. CASE pat[k].seen > Window + now
      BY <1>5, <3>3
    <3> QED
      BY <1>2, <1>4, <3>1, <3>2, <3>3
  <2>2. b.n = 1 /\ b.start = now /\ b.seen = now
    BY <1>2, <1>6
  <2>3. answers'[k] = [start |-> 0, n |-> 1, refused |-> FALSE]
    <3>1. b.n <= PATLimit
      BY <2>2, Numbers
    <3> QED
      BY <1>2, <1>6, <1>9, <3>1
  <2>4. /\ answers'[k].start <= b.start /\ b.start <= answers'[k].start + MaxWait
        /\ b.seen <= answers'[k].start + MaxWait /\ answers'[k].n = UpToLimit(b.n)
    BY <2>2, <2>3, Numbers DEF UpToLimit
  <2> QED
    BY <1>2, <2>1, <2>2, <2>3, <2>4, <1>7
<1>8. CASE ~over
  <2>1. old # NoPAT
    BY <1>8, Numbers DEF NoPAT
  <2>2. /\ old = pat[k] /\ old.start \in Nat /\ old.n \in Nat /\ old.n > 0
    BY <1>2, <2>1, Numbers DEF PATRecords, PATAges
  <2>3. /\ a.start <= old.start /\ old.start <= a.start + MaxWait
        /\ a.n = UpToLimit(old.n) /\ a.start \in Nat
    BY <1>3, <2>2, Numbers DEF Together, PATAges
  <2>4. a.start <= Window + MaxWait
    BY <1>8, <2>2, <2>3, Numbers
  <2>5. /\ b.start = old.start /\ b.seen = now
        /\ b.n = IF old.n > PATLimit THEN old.n ELSE old.n + 1
    BY <1>2, <1>8
  <2>6. b.n > 0
    BY <2>2, <2>5, Numbers
  <2>7. CASE old.n < PATLimit
    <3>1. b.n <= PATLimit /\ a.n < PATLimit /\ a.n + 1 = UpToLimit(b.n)
      BY <2>2, <2>3, <2>5, <2>7, Numbers DEF UpToLimit
    <3>2. answers'[k] = [a EXCEPT !.n = @ + 1]
      BY <1>2, <1>8, <1>9, <3>1
    <3>3. answers'[k].start = a.start /\ answers'[k].n = UpToLimit(b.n)
      BY <1>3, <3>1, <3>2
    <3>4. Together'
      BY <1>2, <1>7, <2>3, <2>5, <2>6, <3>3, Numbers
    <3> QED
      BY <1>2, <2>4, <3>1, <3>2, <3>4
  <2>8. CASE ~(old.n < PATLimit)
    <3>1. ~(b.n <= PATLimit) /\ a.n = PATLimit /\ a.n = UpToLimit(b.n)
      BY <2>2, <2>3, <2>5, <2>8, Numbers DEF UpToLimit
    <3>2. answers'[k] = [a EXCEPT !.refused = TRUE]
      BY <1>2, <1>8, <1>9, <3>1
    <3>3. answers'[k].start = a.start /\ answers'[k].n = UpToLimit(b.n)
      BY <1>3, <3>1, <3>2
    <3>4. Together'
      BY <1>2, <1>7, <2>3, <2>5, <2>6, <3>3, Numbers
    <3> QED
      BY <1>2, <2>4, <3>1, <3>2, <3>4
  <2> QED
    BY <2>7, <2>8
<1> QED
  BY <1>6, <1>8

\* Time leaves windows and buckets of introspections together.
LEMMA AgeStep ==
  ASSUME PATInv, Tick
  PROVE  Together'
<1> SUFFICES ASSUME NEW k \in Introspected
             PROVE  /\ pat'[k].n > 0 =>
                         /\ answers'[k].start <= pat'[k].start
                         /\ pat'[k].start <= answers'[k].start + MaxWait
                         /\ pat'[k].seen <= answers'[k].start + MaxWait
                         /\ answers'[k].n = UpToLimit(pat'[k].n)
                    /\ pat'[k].n = 0 => answers'[k].start + MaxWait > Window
  BY DEF Together
<1>1. /\ pat[k].start \in 0 .. PATPast /\ pat[k].seen \in 0 .. PATPast
      /\ answers[k].start \in 0 .. PATPast
  <2>1. pat[k] \in PATRecords /\ answers[k].start \in PATAges
    BY DEF PATInv, TypeOK, PATRecords
  <2> QED
    BY <2>1, Numbers DEF PATRecords, NoPAT, PATAges
<1>2. /\ pat'[k].start = Older(pat[k].start, PATPast) /\ pat'[k].seen = Older(pat[k].seen, PATPast)
      /\ pat'[k].n = pat[k].n
      /\ answers'[k].start = Older(answers[k].start, PATPast) /\ answers'[k].n = answers[k].n
  <2>1. /\ pat[k] \in [start : 0 .. PATPast, seen : 0 .. PATPast, n : 0 .. PATLimit + 1]
        /\ answers[k] \in [start : PATAges, n : Nat, refused : BOOLEAN]
    BY Numbers DEF PATInv, TypeOK, NoPAT, PATAges
  <2> QED
    BY <2>1 DEF Tick
<1>3. Older(answers[k].start, PATPast) \in 0 .. PATPast
      /\ Older(answers[k].start, PATPast) >= answers[k].start
  BY <1>1, OlderRange, Numbers
<1>4. CASE pat[k].n > 0
  <2>1. /\ answers[k].start <= pat[k].start /\ pat[k].start <= answers[k].start + MaxWait
        /\ pat[k].seen <= answers[k].start + MaxWait /\ answers[k].n = UpToLimit(pat[k].n)
    BY <1>4 DEF PATInv, Together
  <2> QED
    BY <1>1, <1>2, <1>4, <2>1, OlderOrder, Numbers
<1>5. CASE pat[k].n = 0
  <2>1. answers[k].start + MaxWait > Window
    BY <1>5 DEF PATInv, Together
  <2> QED
    BY <1>1, <1>2, <1>3, <1>5, <2>1, Numbers
<1> QED
  BY <1>2, <1>4, <1>5

\* Windows and buckets of introspections stay together.
LEMMA TogetherStep ==
  ASSUME PATInv, [Next]_vars
  PROVE  Together'
<1>1. CASE UNCHANGED <<pat, answers>>
  BY <1>1 DEF PATInv, Together
<1> QED
  BY <1>1, UseStep, AgeStep
  DEF Next, Commit, Invalidate, ExpirePolicy, FailReads, Request, UsePolicy, MissPolicy,
      ReadPolicy, FillPolicy, LetPass, FindBucket, Count, BeginIntrospection,
      EndIntrospection, vars

-----------------------------------------------------------------------------
\* A table with room for every caller is never swept.
LEMMA NoSweep ==
  ASSUME Cardinality(Keys) <= Capacity, NEW tab \in [Keys -> Buckets \cup {NoBucket}], NEW bkt
  PROVE  Swept(tab, bkt) = tab
<1>1. Cardinality({k \in Keys : tab[k] # NoBucket}) <= Cardinality(Keys)
  BY LimitAssumption, FS_Subset
<1>2. /\ Cardinality({k \in Keys : tab[k] # NoBucket}) \in Nat /\ Cardinality(Keys) \in Nat
      /\ Capacity \in Nat
  BY LimitAssumption, FS_Subset, FS_CardinalityType
<1> QED
  BY <1>1, <1>2 DEF Swept

\* The buckets and the windows of the callers, when a request finds its bucket.
LEMMA FindStep ==
  ASSUME TableInv, Cardinality(Keys) <= Capacity, NEW r \in Requests, FindBucket(r)
  PROVE  Holding' /\ Apart' /\ (\A k \in Keys : Counted(k)') /\ LimitHolds'
<1> USE DEF TableInv, TypeOK
<1> DEFINE k == Caller[r]
           b == IF table[k] = NoBucket THEN Unused ELSE table[k]
<1>1. k \in Keys /\ b \in Buckets /\ NoBucket \notin Buckets
  BY LimitAssumption, UnusedExists
<1>2. /\ held' = [held EXCEPT ![r] = b]
      /\ bucket' = IF table[k] = NoBucket THEN [bucket EXCEPT ![b] = New] ELSE bucket
      /\ table' = Swept([table EXCEPT ![k] = b], bucket')
      /\ pc' = [pc EXCEPT ![r] = "found"] /\ under[r] > 0 /\ pc[r] = "decided"
      /\ UNCHANGED <<under, tally>>
  BY DEF FindBucket, Step
<1>3. table[k] = NoBucket => (\A l \in Keys : table[l] # b) /\ (\A s \in Requests : held[s] # b)
  BY <1>1, UnusedExists
<1>4. table[k] # NoBucket => b = table[k]
  OBVIOUS
<1> HIDE DEF b
<1>5. table' = [table EXCEPT ![k] = b]
  BY <1>1, <1>2, NoSweep
<1>6. Apart'
  BY <1>1, <1>3, <1>4, <1>5 DEF Apart
<1>7. Holding'
  <2>1. ASSUME NEW s \in Requests, s # r, pc'[s] = "found"
        PROVE  held'[s] \in Buckets /\ held'[s] = table'[Caller[s]] /\ under'[s] > 0
    <3>1. held[s] \in Buckets /\ held[s] = table[Caller[s]] /\ under[s] > 0 /\ Caller[s] \in Keys
      BY <1>2, <2>1, LimitAssumption DEF Holding
    <3>2. held'[s] = held[s] /\ under'[s] = under[s]
      BY <1>2, <2>1
    <3>3. table'[Caller[s]] = table[Caller[s]]
      BY <1>1, <1>4, <1>5, <3>1
    <3> QED
      BY <3>1, <3>2, <3>3
  <2>2. held'[r] \in Buckets /\ held'[r] = table'[k] /\ under'[r] > 0
    BY <1>1, <1>2, <1>5
  <2> QED
    BY <2>1, <2>2 DEF Holding
<1>8. LimitHolds'
  BY <1>2 DEF LimitHolds
<1>9. ASSUME NEW l \in Keys PROVE Counted(l)'
  <2>1. CASE table[k] # NoBucket
    <3>1. table' = table /\ bucket' = bucket
      BY <1>2, <1>4, <1>5, <2>1
    <3>2. Counted(l)
      OBVIOUS
    <3> QED
      BY <1>2, <3>1, <3>2 DEF Counted
  <2>2. CASE table[k] = NoBucket /\ l = k
    <3>1. table'[l] = b /\ bucket'[b] = New
      BY <1>1, <1>2, <1>5, <2>2
    <3>2. tally[l].start > Window
      <4>1. Counted(l) /\ tally[l].start \in Ages
        OBVIOUS
      <4> QED
        BY <2>2, <4>1, Numbers DEF Counted, Ages
    <3>3. New.start = 0 /\ New.n = 0
      BY DEF New, Nothing
    <3>4. tally[l].start \in Ages /\ pc'[r] = "found" /\ Caller[r] = l
      BY <1>2, <2>2
    <3> QED
      BY <1>2, <3>1, <3>2, <3>3, <3>4, Numbers DEF Counted, Ages
  <2>3. CASE table[k] = NoBucket /\ l # k
    <3>1. table'[l] = table[l] /\ (table[l] # NoBucket => bucket'[table[l]] = bucket[table[l]])
      BY <1>1, <1>2, <1>3, <1>5, <2>3
    <3>2. Counted(l)
      OBVIOUS
    <3> QED
      BY <1>2, <3>1, <3>2 DEF Counted
  <2> QED
    BY <2>1, <2>2, <2>3
<1> QED
  BY <1>6, <1>7, <1>8, <1>9

\* The buckets and the windows of the callers, when a request is counted.
LEMMA CountStep ==
  ASSUME TableInv, NEW r \in Requests, Count(r)
  PROVE  Holding' /\ Apart' /\ (\A k \in Keys : Counted(k)') /\ LimitHolds'
<1> USE DEF TableInv, TypeOK
<1> DEFINE k == Caller[r]
           h == held[r]
           b == Bump(bucket[h], MaxLimit, 0)
           t == tally[k]
<1>1. pc[r] = "found" /\ k \in Keys /\ h \in Buckets /\ h = table[k] /\ h # NoBucket
  BY LimitAssumption DEF Count, Holding
<1>2. /\ bucket' = [bucket EXCEPT ![h] = b]
      /\ tally' = [tally EXCEPT ![k] = Tallied(t, under[r], b.n <= under[r])]
      /\ pc' = [pc EXCEPT ![r] = "idle"] /\ table' = table
      /\ \A s \in Requests : s # r => held'[s] = held[s] /\ under'[s] = under[s]
  BY DEF Count, Finish
<1>3. Holding' /\ Apart'
  BY <1>2 DEF Holding, Apart
<1>4. /\ bucket[h] \in [start : Ages, seen : Ages, n : 0 .. MaxLimit + 1]
      /\ t \in [start : Ages, through : Nat, most : 0 .. MaxLimit]
      /\ t.through <= t.most
      /\ under[r] \in 0 .. MaxLimit
  BY <1>1, Numbers DEF LimitHolds
<1>5. /\ t.start <= Window => bucket[h].start = t.start /\ t.through <= bucket[h].n
      /\ t.start > Window /\ bucket[h].start <= Window => bucket[h].start = 0 /\ bucket[h].n = 0
  <2>1. Counted(k)
    BY <1>1
  <2> QED
    BY <1>1, <2>1 DEF Counted
<1>6. /\ b.start = IF bucket[h].start > Window THEN 0 ELSE bucket[h].start
      /\ b.n <= MaxLimit => b.n = (IF bucket[h].start > Window THEN 0 ELSE bucket[h].n) + 1
      /\ b.n >= IF bucket[h].start > Window THEN 1 ELSE bucket[h].n
      /\ b.n \in 0 .. MaxLimit + 1
  BY <1>4, BumpAtOnce
<1> DEFINE u == Tallied(t, under[r], b.n <= under[r])
<1>7. /\ u.start = IF t.start > Window THEN 0 ELSE t.start
      /\ u.through = (IF t.start > Window THEN 0 ELSE t.through) + (IF b.n <= under[r] THEN 1 ELSE 0)
      /\ u.most = IF t.start > Window \/ under[r] > t.most THEN under[r] ELSE t.most
  BY DEF Tallied
<1>8. tally'[k] = u /\ bucket'[table[k]] = b
  BY <1>1, <1>2
<1> HIDE DEF b, u, t, h
<1>9. u.start <= Window /\ b.start = u.start /\ u.through <= b.n /\ u.through <= u.most
  BY <1>4, <1>5, <1>6, <1>7, Numbers DEF Ages
<1>10. Counted(k)'
  <2>1. ~(u.start > Window)
    BY <1>4, <1>7, <1>9, Numbers DEF Ages
  <2> QED
    BY <1>1, <1>2, <1>8, <1>9, <2>1 DEF Counted
<1>11. ASSUME NEW l \in Keys, l # k PROVE Counted(l)' /\ tally'[l].through <= tally'[l].most
  <2>1. tally'[l] = tally[l]
    BY <1>2, <1>11
  <2>2. table[l] # NoBucket => bucket'[table[l]] = bucket[table[l]]
    BY <1>1, <1>2, <1>11 DEF Apart
  <2>3. \A s \in Requests : Caller[s] = l /\ pc[s] = "found" => pc'[s] = "found"
    BY <1>2, <1>11
  <2>4. Counted(l) /\ tally[l].through <= tally[l].most
    BY DEF LimitHolds
  <2> QED
    BY <1>2, <2>1, <2>2, <2>3, <2>4 DEF Counted
<1>12. LimitHolds'
  BY <1>8, <1>9, <1>11 DEF LimitHolds
<1> QED
  BY <1>3, <1>10, <1>11, <1>12

\* The buckets and the windows of the callers, when time passes.
LEMMA TickStep ==
  ASSUME TableInv, Tick
  PROVE  Holding' /\ Apart' /\ (\A k \in Keys : Counted(k)') /\ LimitHolds'
<1> USE DEF TableInv, TypeOK
<1>1. \A r \in Requests : pc[r] # "found"
  BY DEF Tick
<1>2. UNCHANGED <<pc, under, held, table>>
  BY DEF Tick
<1>3. ASSUME NEW k \in Keys
      PROVE  /\ tally'[k].start = Older(tally[k].start, Past)
             /\ tally'[k].through = tally[k].through /\ tally'[k].most = tally[k].most
  <2>1. tally[k] \in [start : Ages, through : Nat, most : 0 .. MaxLimit]
    OBVIOUS
  <2>2. tally'[k] = [tally[k] EXCEPT !.start = Older(@, Past)]
    BY DEF Tick
  <2> QED
    BY <2>1, <2>2
<1>4. ASSUME NEW b \in Buckets
      PROVE  bucket'[b].start = Older(bucket[b].start, Past) /\ bucket'[b].n = bucket[b].n
  <2>1. bucket[b] \in [start : Ages, seen : Ages, n : 0 .. MaxLimit + 1]
    OBVIOUS
  <2>2. bucket'[b] = [bucket[b] EXCEPT !.start = Older(@, Past), !.seen = Older(@, Past)]
    BY DEF Tick
  <2> QED
    BY <2>1, <2>2
<1>5. Holding' /\ Apart'
  BY <1>1, <1>2 DEF Holding, Apart
<1>6. LimitHolds'
  BY <1>3 DEF LimitHolds
<1>7. ASSUME NEW k \in Keys PROVE Counted(k)'
  <2>1. /\ tally[k].start \in Ages
        /\ tally[k].start <= Window =>
             table[k] # NoBucket /\ bucket[table[k]].start = tally[k].start
             /\ tally[k].through <= bucket[table[k]].n
        /\ tally[k].start > Window /\ table[k] # NoBucket => ~(bucket[table[k]].start <= Window)
    <3>1. Counted(k)
      OBVIOUS
    <3> QED
      BY <1>1, <3>1 DEF Counted
  <2>2. tally'[k].start <= Window => tally[k].start <= Window
    BY <1>3, <2>1, AgeRange, Numbers DEF Ages
  <2>3. ASSUME table[k] # NoBucket
        PROVE  /\ bucket'[table[k]].start = Older(bucket[table[k]].start, Past)
               /\ bucket'[table[k]].n = bucket[table[k]].n
               /\ bucket[table[k]].start \in Ages
    <3>1. table[k] \in Buckets
      BY <2>3
    <3> QED
      BY <1>4, <3>1
  <2>4. tally'[k].start <= Window =>
          table[k] # NoBucket /\ bucket'[table[k]].start = tally'[k].start
          /\ tally'[k].through <= bucket'[table[k]].n
    BY <1>3, <2>1, <2>2, <2>3
  <2>5. ~(tally'[k].start > Window /\ table[k] # NoBucket /\ bucket'[table[k]].start <= Window)
    <3> SUFFICES ASSUME tally'[k].start > Window, table[k] # NoBucket, bucket'[table[k]].start <= Window
                 PROVE  FALSE
      OBVIOUS
    <3>1. bucket[table[k]].start <= Window
      BY <2>3, AgeRange, Numbers DEF Ages
    <3>2. tally[k].start <= Window
      BY <2>1, <3>1, Numbers DEF Ages
    <3>3. tally'[k].start = bucket'[table[k]].start /\ tally'[k].start \in Ages
      BY <1>3, <2>1, <2>3, <3>2, AgeRange
    <3> QED
      BY <3>3, Numbers DEF Ages
  <2> QED
    BY <1>2, <2>4, <2>5 DEF Counted
<1> QED
  BY <1>5, <1>6, <1>7

\* Every other step leaves the buckets and the windows alone.
LEMMA TableStep ==
  ASSUME TableInv, Cardinality(Keys) <= Capacity, [Next]_vars
  PROVE  Holding' /\ Apart' /\ (\A k \in Keys : Counted(k)') /\ LimitHolds'
<1>1. ASSUME NEW r \in Requests, FindBucket(r)
      PROVE  Holding' /\ Apart' /\ (\A k \in Keys : Counted(k)') /\ LimitHolds'
  BY <1>1, FindStep
<1>2. ASSUME NEW r \in Requests, Count(r)
      PROVE  Holding' /\ Apart' /\ (\A k \in Keys : Counted(k)') /\ LimitHolds'
  BY <1>2, CountStep
<1>3. CASE Tick
  BY <1>3, TickStep
<1>4. ASSUME UNCHANGED <<table, bucket, tally>>,
             \A r \in Requests :
               pc'[r] = "found" <=> pc[r] = "found",
             \A r \in Requests :
               pc[r] = "found" => held'[r] = held[r] /\ under'[r] = under[r]
      PROVE  Holding' /\ Apart' /\ (\A k \in Keys : Counted(k)') /\ LimitHolds'
  BY <1>4 DEF TableInv, Holding, Apart, Counted, LimitHolds
<1>5. ASSUME NEW r \in Requests,
             UsePolicy(r) \/ MissPolicy(r) \/ ReadPolicy(r) \/ FillPolicy(r) \/ LetPass(r)
      PROVE  Holding' /\ Apart' /\ (\A k \in Keys : Counted(k)') /\ LimitHolds'
  <2>1. UNCHANGED <<table, bucket, tally>>
    BY <1>5 DEF UsePolicy, MissPolicy, ReadPolicy, FillPolicy, LetPass
  <2>2. \A s \in Requests :
          /\ pc'[s] = "found" <=> pc[s] = "found"
          /\ pc[s] = "found" => held'[s] = held[s] /\ under'[s] = under[s]
    BY <1>5 DEF UsePolicy, MissPolicy, ReadPolicy, FillPolicy, LetPass, Step, Finish, TableInv, TypeOK
  <2> QED
    BY <1>4, <2>1, <2>2
<1>6. CASE UNCHANGED <<pc, under, held, table, bucket, tally>>
  BY <1>4, <1>6
<1> QED
  BY <1>1, <1>2, <1>3, <1>5, <1>6
  DEF Next, Commit, Invalidate, ExpirePolicy, FailReads, Request, BeginIntrospection,
      EndIntrospection, Introspect, vars

-----------------------------------------------------------------------------
\* The cache, the requests, the buckets and the windows keep their shape, and there
\* is always a bucket in memory for a caller that has none.
THEOREM TypeCorrect == Spec => []TypeOK
BY TypeInit, TypeStep, PTL DEF Spec

\* Windows and buckets of introspections stay together.
LEMMA PATInductive == Spec => []PATInv
<1>1. Init => PATInv
  <2> SUFFICES ASSUME Init PROVE PATInv
    OBVIOUS
  <2>1. \A k \in Introspected : pat[k].n = 0 /\ answers[k].start = PATPast
    BY DEF Init, NoPAT
  <2> QED
    BY <2>1, TypeInit, Numbers DEF PATInv, Together
<1>2. PATInv /\ [Next]_vars => PATInv'
  BY TypeStep, TogetherStep DEF PATInv
<1> QED
  BY <1>1, <1>2, PTL DEF Spec

\* The middleware keeps its promise of the limit as long as it has room for a
\* bucket of every caller.
THEOREM LimitKept ==
  ASSUME Cardinality(Keys) <= Capacity
  PROVE  Spec => []LimitHolds
<1>1. Init => TableInv
  <2> SUFFICES ASSUME Init PROVE TableInv
    OBVIOUS
  <2>1. Holding /\ Apart /\ LimitHolds
    BY Numbers DEF Init, Holding, Apart, LimitHolds
  <2>2. \A k \in Keys : Counted(k)
    BY Numbers DEF Init, Counted
  <2> QED
    BY <2>1, <2>2, TypeInit DEF TableInv
<1>2. TableInv /\ [Next]_vars => TableInv'
  BY TypeStep, TableStep DEF TableInv
<1>3. TableInv => LimitHolds
  BY DEF TableInv
<1> QED
  BY <1>1, <1>2, <1>3, PTL DEF Spec

-----------------------------------------------------------------------------
(* Introspections implement FixedWindow. *)

\* One introspection is one use of the limiter.
LEMMA IntrospectRefines ==
  ASSUME PATInv, NEW j \in Introspections, NEW k \in Introspected, Introspect(j, k)
  PROVE  Limiter!Next
<1> DEFINE a == answers[k]
<1>1. /\ \A l \in Introspected : l # k => answers'[l] = answers[l]
      /\ \A l \in Introspected : answers[l] \in [start : PATAges, n : Nat, refused : BOOLEAN]
  BY UseStep DEF PATInv, TypeOK
<1>2. CASE a.start + MaxWait > Window /\ answers'[k] = [start |-> 0, n |-> 1, refused |-> FALSE]
  <2>1. \A l \in Introspected :
          /\ answers'[l].start = IF l = k THEN 0 ELSE answers[l].start
          /\ answers'[l].n = IF l = k THEN 1 ELSE answers[l].n
          /\ answers'[l].refused = IF l = k THEN FALSE ELSE answers[l].refused
    <3>1. answers'[k].start = 0 /\ answers'[k].n = 1 /\ answers'[k].refused = FALSE
      BY <1>2
    <3>2. \A l \in Introspected : l # k =>
            /\ answers'[l].start = answers[l].start /\ answers'[l].n = answers[l].n
            /\ answers'[l].refused = answers[l].refused
      BY <1>1
    <3> QED
      BY <3>1, <3>2
  <2>2. Limiter!Begin(k)
    BY <1>2, <2>1 DEF Limiter!Begin, Limiter!MayBeOver
  <2> QED
    BY <2>2 DEF Limiter!Next
<1>3. CASE a.start <= Window + MaxWait /\ a.n < PATLimit /\ answers'[k] = [a EXCEPT !.n = @ + 1]
  <2>1. \A l \in Introspected :
          /\ answers'[l].start = answers[l].start
          /\ answers'[l].n = IF l = k THEN a.n + 1 ELSE answers[l].n
          /\ answers'[l].refused = answers[l].refused
    BY <1>1, <1>3
  <2>2. Limiter!Pass(k)
    BY <1>3, <2>1 DEF Limiter!Pass, Limiter!MayRun
  <2> QED
    BY <2>2 DEF Limiter!Next
<1>4. CASE a.start <= Window + MaxWait /\ a.n = PATLimit /\ answers'[k] = [a EXCEPT !.refused = TRUE]
  <2>1. \A l \in Introspected :
          /\ answers'[l].start = answers[l].start
          /\ answers'[l].n = answers[l].n
          /\ answers'[l].refused = IF l = k THEN TRUE ELSE answers[l].refused
    BY <1>1, <1>4
  <2>2. Limiter!Refuse(k)
    BY <1>4, <2>1 DEF Limiter!Refuse, Limiter!MayRun
  <2> QED
    BY <2>2 DEF Limiter!Next
<1> QED
  BY <1>2, <1>3, <1>4, UseStep

\* Time passes for the windows as it does for the limiter.
LEMMA TickRefines ==
  ASSUME PATInv, Tick
  PROVE  Limiter!Next
<1>1. ASSUME NEW k \in Introspected
      PROVE  /\ answers'[k].start = IF answers[k].start <= Window + MaxWait
                                    THEN answers[k].start + 1 ELSE answers[k].start
             /\ answers'[k].n = answers[k].n /\ answers'[k].refused = answers[k].refused
  <2>1. answers[k] \in [start : PATAges, n : Nat, refused : BOOLEAN]
    BY DEF PATInv, TypeOK
  <2>2. answers'[k] = [answers[k] EXCEPT !.start = Older(@, PATPast)]
    BY DEF Tick
  <2> QED
    BY <2>1, <2>2, Numbers DEF Older, PATAges
<1>2. Limiter!Tick
  BY <1>1 DEF Limiter!Tick, Limiter!MayRun
<1> QED
  BY <1>2 DEF Limiter!Next

\* Introspections are limited as by FixedWindow, whatever the size of their table and
\* the length of the window, with edges as uncertain as an introspection may have waited
\* for the database.
THEOREM LimiterRefined == Spec => ImplementsLimiter
<1>1. ASSUME Init PROVE Limiter!Init
  <2>1. \A k \in Introspected :
          /\ answers[k].start = Window + MaxWait + 1 /\ answers[k].n = 0
          /\ answers[k].refused = FALSE
    BY <1>1, Numbers DEF Init
  <2> QED
    BY <2>1 DEF Limiter!Init
<1>2. PATInv /\ [Next]_vars => [Limiter!Next]_(Limiter!vars)
  <2> SUFFICES ASSUME PATInv, [Next]_vars PROVE [Limiter!Next]_(Limiter!vars)
    OBVIOUS
  <2>1. CASE UNCHANGED answers
    BY <2>1 DEF Limiter!vars
  <2>2. ASSUME NEW j \in Introspections, NEW k \in Introspected, Introspect(j, k)
        PROVE  Limiter!Next
    BY <2>2, IntrospectRefines
  <2>3. \/ UNCHANGED answers \/ Tick
        \/ \E j \in Introspections, k \in Introspected : Introspect(j, k)
    BY DEF Next, Commit, Invalidate, ExpirePolicy, FailReads, Request, UsePolicy, MissPolicy,
        ReadPolicy, FillPolicy, LetPass, FindBucket, Count, BeginIntrospection,
        EndIntrospection, vars
  <2> QED
    BY <2>1, <2>2, <2>3, TickRefines
<1> QED
  BY <1>1, <1>2, PATInductive, PTL DEF Spec, ImplementsLimiter, Limiter!Spec
=============================================================================
