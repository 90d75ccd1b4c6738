------------------------ MODULE AuditRecorder_proofs ------------------------
(***************************************************************************)
(* Theorems about AuditRecorder for any number of requests and callers of  *)
(* Flush and any length of the queue.                                      *)
(***************************************************************************)
EXTENDS AuditRecorder, TLAPS

USE DEF jobVars, counters, flushVars

\* The job is in the queue, and no barrier of f is before it.
InFrontOf(r, f) ==
  \E j \in 1 .. Len(queue) : queue[j] = r /\ \A i \in 1 .. j : queue[i] # f

Queueing(r) == \E j \in 1 .. Len(queue) : queue[j] = r

\* A queued entry is in the queue or in the hand of the goroutine.
InLine == \A r \in Requests : fate[r] = "queued" => hand = r \/ Queueing(r)

\* A barrier that has not been sent is nowhere.
Unsent ==
  \A f \in Flushers : flush[f] \in {"idle", "sending"} => hand # f /\ ~Queueing(f)

\* What was queued when Flush was called stays queued until it is dealt with.
Kept ==
  \A f \in Flushers : \A r \in ahead[f] : fate[r] \in {"queued", "written", "failed"}

\* A barrier waits behind every entry it is to wait for.
Behind ==
  \A f \in Flushers : flush[f] = "waiting" =>
    \A r \in ahead[f] : fate[r] = "queued" => hand = r \/ (hand # f /\ InFrontOf(r, f))

IInv == TypeOK /\ InLine /\ Unsent /\ Kept /\ Behind /\ FlushWaits

-----------------------------------------------------------------------------
LEMMA TypeStep ==
  ASSUME TypeOK, [Next]_vars
  PROVE  TypeOK'
<1> USE DEF TypeOK, Jobs
<1>1. ASSUME NEW r \in Requests, Answer(r) \/ CheckClosed(r) \/ Drop(r) \/ SendOnClosed(r)
      PROVE  TypeOK'
  BY <1>1 DEF Answer, CheckClosed, Drop, SendOnClosed, Fares
<1>2. ASSUME NEW r \in Requests, Enqueue(r) PROVE TypeOK'
  <2>1. queue' \in Seq(Jobs) /\ Len(queue') = Len(queue) + 1 /\ Len(queue) < Capacity
    BY <1>2 DEF Enqueue, Room
  <2> QED
    BY <1>2, <2>1, AuditAssumption DEF Enqueue, Fares
<1>3. CASE Take
  <2>1. queue' \in Seq(Jobs) /\ Len(queue') <= Capacity /\ hand' \in Jobs
    BY <1>3, AuditAssumption DEF Take
  <2> QED
    BY <1>3, <2>1 DEF Take
<1>4. CASE InsertRow \/ FailRow
  BY <1>4 DEF InsertRow, FailRow, Fares
<1>5. CASE PassBarrier
  BY <1>5 DEF PassBarrier
<1>6. ASSUME NEW f \in Flushers, CallFlush(f) \/ LeaveFlush(f) PROVE TypeOK'
  BY <1>6 DEF CallFlush, LeaveFlush, Pending
<1>7. ASSUME NEW f \in Flushers, SendBarrier(f) PROVE TypeOK'
  <2>1. queue' \in Seq(Jobs) /\ Len(queue') = Len(queue) + 1 /\ Len(queue) < Capacity
    BY <1>7 DEF SendBarrier, WithBarrier, Room
  <2> QED
    BY <1>7, <2>1, AuditAssumption DEF SendBarrier
<1>8. CASE FlagClosed \/ CloseChannel \/ CloseReturns \/ Stall
  BY <1>8 DEF FlagClosed, CloseChannel, CloseReturns, Stall
<1>9. CASE Restart
  <2>1. fate' \in [Requests -> {"none", "answered", "checked", "queued", "written",
                                "failed", "dropped", "lost", "past"}]
    BY <1>9 DEF Restart
  <2>2. queue' \in Seq(Jobs) /\ Len(queue') <= Capacity
    BY <1>9, AuditAssumption DEF Restart
  <2> QED
    BY <1>9, <2>1, <2>2, AuditAssumption DEF Restart
<1>10. CASE UNCHANGED vars
  BY <1>10 DEF vars
<1> QED
  BY <1>1, <1>2, <1>3, <1>4, <1>5, <1>6, <1>7, <1>8, <1>9, <1>10 DEF Next, Record, Loop

\* The queue and the barriers, on the steps of a request.
LEMMA RequestStep ==
  ASSUME IInv, NEW r \in Requests, Answer(r) \/ Record(r)
  PROVE  InLine' /\ Unsent' /\ Kept' /\ Behind' /\ FlushWaits'
<1> USE DEF IInv, TypeOK, Jobs, Fares
<1>1. CASE Enqueue(r)
  <2>1. /\ Len(queue') = Len(queue) + 1 /\ queue'[Len(queue) + 1] = r
        /\ \A i \in 1 .. Len(queue) : queue'[i] = queue[i]
        /\ Len(queue) \in Nat
    BY <1>1 DEF Enqueue
  <2>2. fate' = [fate EXCEPT ![r] = "queued"] /\ fate[r] = "checked"
        /\ hand' = hand /\ flush' = flush /\ ahead' = ahead
    BY <1>1 DEF Enqueue
  <2>3. InLine'
    BY <2>1, <2>2 DEF InLine, Queueing
  <2>4. Unsent'
    BY <2>1, <2>2, AuditAssumption DEF Unsent, Queueing
  <2>5. Kept' /\ FlushWaits'
    BY <2>2 DEF Kept, FlushWaits
  <2>6. \A s \in Requests, f \in Flushers : InFrontOf(s, f) => InFrontOf(s, f)'
    BY <2>1 DEF InFrontOf
  <2>7. Behind'
    BY <2>2, <2>6 DEF Behind, Kept
  <2> QED
    BY <2>3, <2>4, <2>5, <2>7
<1>2. CASE ~Enqueue(r)
  <2>1. /\ UNCHANGED <<queue, hand, flush, ahead>>
        /\ fate[r] \in {"none", "answered", "checked"}
        /\ \E x \in {"answered", "checked", "lost", "dropped"} : fate' = [fate EXCEPT ![r] = x]
    BY <1>2 DEF Answer, Record, CheckClosed, Drop, Overflows, SendOnClosed
  <2>2. InLine' /\ Unsent'
    BY <2>1 DEF InLine, Unsent, Queueing
  <2>3. Kept' /\ FlushWaits'
    BY <2>1 DEF Kept, FlushWaits
  <2>4. Behind'
    BY <2>1 DEF Behind, InFrontOf
  <2> QED
    BY <2>2, <2>3, <2>4
<1> QED
  BY <1>1, <1>2

\* The queue and the barriers, on the steps of the goroutine.
LEMMA LoopStep ==
  ASSUME IInv, Loop
  PROVE  InLine' /\ Unsent' /\ Kept' /\ Behind' /\ FlushWaits'
<1> USE DEF IInv, TypeOK, Jobs, Fares
<1>1. CASE Take
  <2>1. /\ Len(queue) \in Nat \ {0} /\ Len(queue') = Len(queue) - 1
        /\ \A i \in 1 .. Len(queue) - 1 : queue'[i] = queue[i + 1]
        /\ hand' = queue[1]
    BY <1>1 DEF Take
  <2>2. UNCHANGED <<fate, flush, ahead>> /\ hand = NoJob
    BY <1>1 DEF Take, Ready
  <2>3. ASSUME NEW j \in 1 .. Len(queue)
        PROVE  j = 1 \/ (j - 1 \in 1 .. Len(queue') /\ queue'[j - 1] = queue[j])
    BY <2>1, <2>3
  <2>4. \A x \in Jobs : Queueing(x) <=> hand' = x \/ Queueing(x)'
    <3>1. ASSUME NEW x \in Jobs, Queueing(x) PROVE hand' = x \/ Queueing(x)'
      BY <2>1, <2>3, <3>1 DEF Queueing
    <3>2. ASSUME NEW x \in Jobs, hand' = x PROVE Queueing(x)
      <4>1. 1 \in 1 .. Len(queue) /\ queue[1] = x
        BY <2>1, <3>2
      <4> QED
        BY <4>1 DEF Queueing
    <3>3. ASSUME NEW x \in Jobs, Queueing(x)' PROVE Queueing(x)
      <4>1. PICK j \in 1 .. Len(queue') : queue'[j] = x
        BY <3>3 DEF Queueing
      <4>2. j + 1 \in 1 .. Len(queue) /\ queue[j + 1] = x
        BY <2>1, <4>1
      <4> QED
        BY <4>2 DEF Queueing
    <3> QED
      BY <3>1, <3>2, <3>3
  <2>5. InLine' /\ Unsent'
    BY <2>2, <2>4, AuditAssumption DEF InLine, Unsent
  <2>6. Kept' /\ FlushWaits'
    BY <2>2 DEF Kept, FlushWaits
  <2>7. ASSUME NEW s \in Requests, NEW f \in Flushers, InFrontOf(s, f)
        PROVE  hand' = s \/ (hand' # f /\ InFrontOf(s, f)')
    <3>1. PICK j \in 1 .. Len(queue) : queue[j] = s /\ \A i \in 1 .. j : queue[i] # f
      BY <2>7 DEF InFrontOf
    <3>2. hand' # f
      BY <2>1, <3>1
    <3>3. ASSUME j # 1 PROVE InFrontOf(s, f)'
      <4>1. j - 1 \in 1 .. Len(queue') /\ queue'[j - 1] = s
        BY <2>3, <3>1, <3>3
      <4>2. \A i \in 1 .. j - 1 : queue'[i] # f
        BY <2>1, <3>1
      <4> QED
        BY <4>1, <4>2 DEF InFrontOf
    <3> QED
      BY <2>1, <3>1, <3>2, <3>3
  <2>8. Behind'
    BY <2>2, <2>7, AuditAssumption DEF Behind
  <2> QED
    BY <2>5, <2>6, <2>8
<1>2. CASE InsertRow \/ FailRow
  <2>1. /\ UNCHANGED <<queue, flush, ahead>>
        /\ hand \in Requests /\ hand' = NoJob
        /\ fate' = [fate EXCEPT ![hand] = "written"] \/ fate' = [fate EXCEPT ![hand] = "failed"]
    BY <1>2 DEF InsertRow, FailRow
  <2>2. InLine' /\ Unsent'
    BY <2>1, AuditAssumption DEF InLine, Unsent, Queueing
  <2>3. Kept' /\ FlushWaits'
    BY <2>1 DEF Kept, FlushWaits
  <2>4. Behind'
    BY <2>1, AuditAssumption DEF Behind, InFrontOf, Kept
  <2> QED
    BY <2>2, <2>3, <2>4
<1>3. CASE PassBarrier
  <2>1. /\ UNCHANGED <<fate, queue, ahead>>
        /\ hand \in Flushers /\ hand' = NoJob
        /\ flush' = [flush EXCEPT ![hand] = IF @ = "waiting" THEN "passed" ELSE @]
    BY <1>3 DEF PassBarrier
  <2>2. \A r \in Requests : hand # r
    BY <2>1, AuditAssumption
  <2>3. InLine' /\ Kept'
    BY <2>1, <2>2 DEF InLine, Kept, Queueing
  <2>4. Unsent'
    BY <2>1, AuditAssumption DEF Unsent, Queueing
  <2>5. ASSUME NEW f \in Flushers, flush'[f] = "passed", NEW r \in ahead[f]
        PROVE  fate[r] \in {"written", "failed"}
    <3>1. r \in Requests
      BY <2>5
    <3>2. CASE flush[f] = "passed"
      BY <2>5, <3>2 DEF FlushWaits
    <3>3. CASE flush[f] # "passed"
      <4>1. hand = f /\ flush[f] = "waiting"
        BY <2>1, <2>5, <3>3
      <4> QED
        BY <2>2, <2>5, <3>1, <4>1 DEF Behind, Kept
    <3> QED
      BY <3>2, <3>3
  <2>6. FlushWaits'
    BY <2>1, <2>5 DEF FlushWaits
  <2>7. Behind'
    BY <2>1, <2>2, AuditAssumption DEF Behind, InFrontOf
  <2> QED
    BY <2>3, <2>4, <2>6, <2>7
<1> QED
  BY <1>1, <1>2, <1>3 DEF Loop

\* The queue and the barriers, on the steps of a caller of Flush.
LEMMA FlushStep ==
  ASSUME IInv, NEW f \in Flushers, CallFlush(f) \/ SendBarrier(f) \/ LeaveFlush(f)
  PROVE  InLine' /\ Unsent' /\ Kept' /\ Behind' /\ FlushWaits'
<1> USE DEF IInv, TypeOK, Jobs
<1>1. CASE CallFlush(f)
  <2>1. /\ UNCHANGED <<fate, queue, hand>> /\ flush[f] = "idle"
        /\ \E x \in {"sending", "ended"} : flush' = [flush EXCEPT ![f] = x]
        /\ ahead' = [ahead EXCEPT ![f] = Pending]
    BY <1>1 DEF CallFlush
  <2>2. InLine' /\ Unsent'
    BY <2>1 DEF InLine, Unsent, Queueing
  <2>3. Kept' /\ FlushWaits'
    BY <2>1 DEF Kept, FlushWaits, Pending
  <2>4. Behind'
    BY <2>1 DEF Behind, InFrontOf
  <2> QED
    BY <2>2, <2>3, <2>4
<1>2. CASE SendBarrier(f)
  <2>1. /\ Len(queue') = Len(queue) + 1 /\ queue'[Len(queue) + 1] = f
        /\ \A i \in 1 .. Len(queue) : queue'[i] = queue[i]
        /\ Len(queue) \in Nat
    BY <1>2 DEF SendBarrier, WithBarrier
  <2>2. /\ UNCHANGED <<fate, hand, ahead>> /\ flush[f] = "sending"
        /\ flush' = [flush EXCEPT ![f] = "waiting"]
    BY <1>2 DEF SendBarrier
  <2>3. InLine'
    BY <2>1, <2>2 DEF InLine, Queueing
  <2>4. Unsent'
    BY <2>1, <2>2 DEF Unsent, Queueing
  <2>5. Kept' /\ FlushWaits'
    BY <2>2 DEF Kept, FlushWaits
  <2>6. \A s \in Requests, g \in Flushers : InFrontOf(s, g) => InFrontOf(s, g)'
    BY <2>1 DEF InFrontOf
  <2>7. ASSUME NEW r \in ahead[f], fate[r] = "queued"
        PROVE  hand = r \/ (hand # f /\ InFrontOf(r, f)')
    <3>1. hand = r \/ Queueing(r)
      BY <2>7 DEF InLine
    <3>2. hand # f /\ ~Queueing(f)
      BY <2>2 DEF Unsent
    <3>3. Queueing(r) => InFrontOf(r, f)
      BY <3>2 DEF Queueing, InFrontOf
    <3> QED
      BY <2>6, <2>7, <3>1, <3>2, <3>3
  <2>8. ASSUME NEW g \in Flushers, flush'[g] = "waiting", NEW r \in ahead[g], fate[r] = "queued"
        PROVE  hand = r \/ (hand # g /\ InFrontOf(r, g)')
    <3>1. CASE g = f
      BY <2>7, <2>8, <3>1
    <3>2. CASE g # f
      BY <2>2, <2>6, <2>8, <3>2 DEF Behind
    <3> QED
      BY <3>1, <3>2
  <2>9. Behind'
    BY <2>2, <2>8 DEF Behind
  <2> QED
    BY <2>3, <2>4, <2>5, <2>9
<1>3. CASE LeaveFlush(f)
  <2>1. /\ UNCHANGED <<fate, queue, hand, ahead>>
        /\ flush' = [flush EXCEPT ![f] = "ended"]
    BY <1>3 DEF LeaveFlush
  <2>2. InLine' /\ Unsent'
    BY <2>1 DEF InLine, Unsent, Queueing
  <2>3. Kept' /\ FlushWaits' /\ Behind'
    BY <2>1 DEF Kept, FlushWaits, Behind, InFrontOf
  <2> QED
    BY <2>2, <2>3
<1> QED
  BY <1>1, <1>2, <1>3

-----------------------------------------------------------------------------
\* The inductive invariant.
THEOREM Invariant == Spec => []IInv
<1>1. Init => IInv
  <2> SUFFICES ASSUME Init PROVE IInv
    OBVIOUS
  <2>1. queue \in Seq(Jobs) /\ Len(queue) = 0
    BY DEF Init
  <2>2. TypeOK
    <3>1. Len(queue) <= Capacity /\ restarts \in 0 .. MaxRestarts
      BY <2>1, AuditAssumption DEF Init
    <3>2. ahead \in [Flushers -> SUBSET Requests] /\ written \in Nat /\ dropped \in Nat
      BY DEF Init
    <3> QED
      BY <2>1, <3>1, <3>2 DEF Init, TypeOK
  <2>3. InLine /\ Kept /\ Behind /\ FlushWaits
    BY <2>2 DEF Init, TypeOK, InLine, Kept, Behind, FlushWaits
  <2>4. \A f \in Flushers : ~Queueing(f)
    BY <2>1 DEF Queueing
  <2>5. Unsent
    BY <2>4, AuditAssumption DEF Init, Unsent
  <2> QED
    BY <2>2, <2>3, <2>5 DEF IInv
<1>2. IInv /\ [Next]_vars => IInv'
  <2> SUFFICES ASSUME IInv, [Next]_vars PROVE IInv'
    OBVIOUS
  <2>1. TypeOK'
    BY TypeStep DEF IInv
  <2>2. ASSUME NEW r \in Requests, Answer(r) \/ Record(r) PROVE IInv'
    BY <2>1, <2>2, RequestStep DEF IInv
  <2>3. CASE Loop
    BY <2>1, <2>3, LoopStep DEF IInv
  <2>4. ASSUME NEW f \in Flushers, CallFlush(f) \/ SendBarrier(f) \/ LeaveFlush(f) PROVE IInv'
    BY <2>1, <2>4, FlushStep DEF IInv
  <2>5. CASE Restart
    BY <2>1, <2>5, AuditAssumption
    DEF Restart, IInv, TypeOK, Jobs, InLine, Unsent, Queueing, Kept, Behind, FlushWaits
  <2>6. CASE UNCHANGED <<fate, queue, hand, flush, ahead>>
    BY <2>1, <2>6 DEF IInv, InLine, Unsent, Queueing, Kept, Behind, InFrontOf, FlushWaits
  <2> QED
    BY <2>2, <2>3, <2>4, <2>5, <2>6
    DEF Next, FlagClosed, CloseChannel, CloseReturns, Stall, vars
<1> QED
  BY <1>1, <1>2, PTL DEF Spec

\* The queue never holds more than its length, and every entry has one fate.
THEOREM TypeCorrect == Spec => []TypeOK
BY Invariant, PTL DEF IInv

\* Flush returns through its barrier only when everything that was in the recorder
\* before it has been inserted or has failed.
THEOREM FlushWaited == Spec => []FlushWaits
BY Invariant, PTL DEF IInv

-----------------------------------------------------------------------------
(* The refinement of LossyLog. *)

\* The line, when the goroutine has no job and when it has one.
LEMMA LineOf ==
  ASSUME TypeOK
  PROVE  /\ Line \in Seq(Jobs)
         /\ hand = NoJob => Line = queue
         /\ hand # NoJob => /\ Len(Line) = Len(queue) + 1 /\ Line # <<>>
                            /\ Head(Line) = hand /\ Tail(Line) = queue
<1>1. CASE hand = NoJob
  BY <1>1 DEF TypeOK, Line
<1>2. CASE hand # NoJob
  <2>1. hand \in Jobs /\ queue \in Seq(Jobs) /\ Line = <<hand>> \o queue
    BY <1>2 DEF TypeOK, Line
  <2>2. <<hand>> \in Seq(Jobs) /\ Len(<<hand>>) = 1
    BY <2>1
  <2>3. Line \in Seq(Jobs) /\ Len(Line) = Len(queue) + 1
    BY <2>1, <2>2
  <2>4. Line # <<>> /\ Head(Line) = hand
    BY <2>1, <2>2, <2>3
  <2>5. Tail(Line) = queue
    BY <2>1, <2>2, <2>3
  <2> QED
    BY <1>2, <2>3, <2>4, <2>5
<1> QED
  BY <1>1, <1>2

\* A job that joins the queue joins the line.
LEMMA JoinsLine ==
  ASSUME TypeOK, NEW x \in Jobs, queue' = Append(queue, x), hand' = hand, Room
  PROVE  Log!Join(x)
<1>1. Len(Line) <= Capacity
  BY LineOf, AuditAssumption DEF TypeOK, Room
<1>2. Line' = Append(Line, x)
  <2>1. CASE hand = NoJob
    BY <2>1 DEF Line
  <2>2. CASE hand # NoJob
    <3>1. hand \in Jobs /\ queue \in Seq(Jobs)
      BY <2>2 DEF TypeOK
    <3>2. <<hand>> \o Append(queue, x) = Append(<<hand>> \o queue, x)
      BY <3>1
    <3> QED
      BY <2>2, <3>2 DEF Line
  <2> QED
    BY <2>1, <2>2
<1> QED
  BY <1>1, <1>2 DEF Log!Join

\* A job the goroutine is done with leaves the line.
LEMMA LeavesLine ==
  ASSUME TypeOK, hand \in Jobs, hand' = NoJob, queue' = queue
  PROVE  Log!Leave /\ Head(Line) = hand
<1>1. Line' = queue
  BY DEF Line
<1> QED
  BY <1>1, LineOf, AuditAssumption DEF Log!Leave, Jobs

\* Taking the next job into the hand leaves the line as it is.
LEMMA TakeKeepsLine ==
  ASSUME TypeOK, Take
  PROVE  Line' = Line
<1>1. queue \in Seq(Jobs) /\ queue # <<>> /\ Line = queue
  BY DEF TypeOK, Take, Ready, Line
<1>2. Line' = <<Head(queue)>> \o Tail(queue)
  <2>1. Head(queue) \in Jobs
    BY <1>1
  <2> QED
    BY <2>1, AuditAssumption DEF Take, Line, Jobs
<1>3. <<Head(queue)>> \o Tail(queue) = queue
  BY <1>1
<1> QED
  BY <1>1, <1>2, <1>3

LogVars == <<Line, EntryStates, BarrierStates, written, dropped>>

\* The states of one entry and of one caller of Flush.
LEMMA StatesOf ==
  ASSUME TypeOK
  PROVE  /\ EntryStates \in [Requests -> {"out", "in", "stored", "failed", "refused", "lost", "past"}]
         /\ BarrierStates \in [Flushers -> {"out", "in", "passed", "gone"}]
BY DEF TypeOK, EntryStates, BarrierStates

\* The steps of a request enter it, turn it away, miss the log or do not move it.
LEMMA RequestInLog ==
  ASSUME TypeOK, NEW r \in Requests, Answer(r) \/ Record(r)
  PROVE  Log!Next \/ UNCHANGED LogVars
<1> USE DEF TypeOK
<1>1. /\ BarrierStates' = BarrierStates /\ written' = written /\ hand' = hand
      /\ fate' = [fate EXCEPT ![r] = fate'[r]]
      /\ fate[r] \in {"none", "answered", "checked"}
  BY DEF Answer, Record, CheckClosed, Enqueue, Drop, Overflows, SendOnClosed, Fares, BarrierStates
<1>2. EntryStates[r] = "out"
  BY <1>1 DEF EntryStates
<1>3. ASSUME NEW x \in {"in", "refused", "lost", "out"}, EntryStates'[r] = x
      PROVE  EntryStates' = [EntryStates EXCEPT ![r] = x]
  BY <1>1, <1>3 DEF EntryStates
<1>4. CASE Enqueue(r)
  <2>1. Log!Join(r)
    BY <1>4, JoinsLine DEF Enqueue, Jobs
  <2>2. EntryStates'[r] = "in" /\ dropped' = dropped
    BY <1>4 DEF Enqueue, Fares, EntryStates
  <2> QED
    BY <1>1, <1>2, <1>3, <2>1, <2>2 DEF Log!Next, Log!Enter
<1>5. CASE Drop(r)
  <2>1. Line' = Line /\ Len(Line) >= Capacity
    BY <1>5, LineOf, AuditAssumption DEF Drop, Overflows, Room, Line
  <2>2. EntryStates'[r] = "refused" /\ dropped' = dropped + 1
    BY <1>5 DEF Drop, Fares, EntryStates
  <2> QED
    BY <1>1, <1>2, <1>3, <2>1, <2>2 DEF Log!Next, Log!Refuse
<1>6. CASE Answer(r) \/ CheckClosed(r) \/ SendOnClosed(r)
  <2>1. Line' = Line /\ dropped' = dropped
    BY <1>6 DEF Answer, CheckClosed, SendOnClosed, Line
  <2>2. EntryStates'[r] \in {"out", "lost"}
    BY <1>6 DEF Answer, CheckClosed, SendOnClosed, Fares, EntryStates
  <2>3. CASE EntryStates'[r] = "out"
    <3>1. EntryStates' = EntryStates
      BY <1>2, <1>3, <2>3, StatesOf
    <3> QED
      BY <1>1, <2>1, <3>1 DEF LogVars
  <2>4. CASE EntryStates'[r] = "lost"
    BY <1>1, <1>2, <1>3, <2>1, <2>4 DEF Log!Next, Log!Miss
  <2> QED
    BY <2>2, <2>3, <2>4
<1> QED
  BY <1>4, <1>5, <1>6 DEF Record

\* The steps of the goroutine deal with the head of the line, or do not move it.
LEMMA LoopInLog ==
  ASSUME IInv, Loop
  PROVE  Log!Next \/ UNCHANGED LogVars
<1> USE DEF IInv, TypeOK
<1>1. CASE Take
  <2>1. Line' = Line
    BY <1>1, TakeKeepsLine
  <2> QED
    BY <1>1, <2>1 DEF Take, LogVars, EntryStates, BarrierStates
<1>2. CASE InsertRow \/ FailRow
  <2>1. Log!Leave /\ Head(Line) = hand /\ hand \in Requests
    BY <1>2, LeavesLine DEF InsertRow, FailRow, Jobs
  <2>2. BarrierStates' = BarrierStates /\ dropped' = dropped
    BY <1>2 DEF InsertRow, FailRow, BarrierStates
  <2>3. CASE InsertRow
    <3>1. EntryStates' = [EntryStates EXCEPT ![hand] = "stored"] /\ written' = written + 1
      BY <2>1, <2>3 DEF InsertRow, Fares, EntryStates
    <3> QED
      BY <2>1, <2>2, <3>1 DEF Log!Next, Log!Store
  <2>4. CASE FailRow
    <3>1. EntryStates' = [EntryStates EXCEPT ![hand] = "failed"] /\ written' = written
      BY <2>1, <2>4 DEF FailRow, Fares, EntryStates
    <3> QED
      BY <2>1, <2>2, <3>1 DEF Log!Next, Log!Fail
  <2> QED
    BY <1>2, <2>3, <2>4
<1>3. CASE PassBarrier
  <2>1. Log!Leave /\ Head(Line) = hand /\ hand \in Flushers
    BY <1>3, LeavesLine DEF PassBarrier, Jobs
  <2>2. EntryStates' = EntryStates /\ written' = written /\ dropped' = dropped
    BY <1>3 DEF PassBarrier, EntryStates
  <2>3. flush[hand] \notin {"idle", "sending"}
    BY <2>1 DEF Unsent
  <2>4. BarrierStates' = [BarrierStates EXCEPT ![hand] = IF @ = "in" THEN "passed" ELSE @]
    BY <1>3, <2>1, <2>3 DEF PassBarrier, BarrierStates
  <2> QED
    BY <2>1, <2>2, <2>4 DEF Log!Next, Log!Pass
<1> QED
  BY <1>1, <1>2, <1>3 DEF Loop

\* A caller of Flush puts a barrier in the line, gives it up, or does not move it.
LEMMA FlushInLog ==
  ASSUME TypeOK, NEW f \in Flushers, CallFlush(f) \/ SendBarrier(f) \/ LeaveFlush(f)
  PROVE  Log!Next \/ UNCHANGED LogVars
<1> USE DEF TypeOK
<1>1. /\ EntryStates' = EntryStates /\ written' = written /\ dropped' = dropped /\ hand' = hand
      /\ flush' = [flush EXCEPT ![f] = flush'[f]]
      /\ flush[f] \in {"idle", "sending", "waiting"}
  BY DEF CallFlush, SendBarrier, LeaveFlush, EntryStates
<1>2. BarrierStates[f] \in {"out", "in"}
  BY <1>1 DEF BarrierStates
<1>3. ASSUME NEW x \in {"out", "in", "gone"}, BarrierStates'[f] = x
      PROVE  BarrierStates' = [BarrierStates EXCEPT ![f] = x]
  BY <1>1, <1>3 DEF BarrierStates
<1>4. CASE SendBarrier(f)
  <2>1. Log!Join(f)
    BY <1>4, JoinsLine DEF SendBarrier, WithBarrier, Jobs
  <2>2. BarrierStates[f] = "out" /\ BarrierStates'[f] = "in"
    BY <1>4 DEF SendBarrier, BarrierStates
  <2> QED
    BY <1>1, <1>3, <2>1, <2>2 DEF Log!Next, Log!EnterBarrier
<1>5. CASE CallFlush(f) \/ LeaveFlush(f)
  <2>1. Line' = Line
    BY <1>5 DEF CallFlush, LeaveFlush, Line
  <2>2. CASE flush'[f] = "ended"
    <3>1. BarrierStates'[f] = "gone"
      BY <2>2 DEF BarrierStates
    <3> QED
      BY <1>1, <1>2, <1>3, <2>1, <3>1 DEF Log!Next, Log!GiveUp
  <2>3. CASE flush'[f] # "ended"
    <3>1. flush[f] = "idle" /\ flush'[f] = "sending"
      BY <1>5, <2>3 DEF CallFlush, LeaveFlush
    <3>2. BarrierStates' = BarrierStates
      BY <1>1, <3>1 DEF BarrierStates
    <3> QED
      BY <1>1, <2>1, <3>2 DEF LogVars
  <2> QED
    BY <2>2, <2>3
<1> QED
  BY <1>4, <1>5

\* The end of the process loses the line.
LEMMA RestartInLog ==
  ASSUME TypeOK, Restart
  PROVE  Log!Crash
<1> USE DEF TypeOK
<1>1. Line' = <<>> /\ written' = 0 /\ dropped' = 0
  BY DEF Restart, Line
<1>2. BarrierStates' = [f \in Flushers |-> "out"]
  BY DEF Restart, BarrierStates
<1>3. DOMAIN EntryStates' = Requests
  BY DEF EntryStates
<1>4. ASSUME NEW r \in Requests
      PROVE  \/ EntryStates[r] = "out" /\ EntryStates'[r] \in {"out", "lost"}
             \/ EntryStates[r] = "in" /\ EntryStates'[r] = "lost"
             \/ EntryStates[r] \notin {"out", "in"} /\ EntryStates'[r] = "past"
  BY DEF Restart, EntryStates
<1> QED
  BY <1>1, <1>2, <1>3, <1>4 DEF Log!Crash

\* The recorder, its queue and its counters together are the lossy log: first in,
\* first out, once each, with counts that say what became of the entries.
THEOREM LogRefined == Spec => ImplementsLog
<1>1. Init => Log!Init
  BY DEF Init, Log!Init, Line, EntryStates, BarrierStates
<1>2. IInv /\ [Next]_vars => [Log!Next]_(Log!vars)
  <2> SUFFICES ASSUME IInv, [Next]_vars PROVE Log!Next \/ UNCHANGED LogVars
    BY DEF Log!vars, LogVars
  <2>1. TypeOK
    BY DEF IInv
  <2>2. ASSUME NEW r \in Requests, Answer(r) \/ Record(r) PROVE Log!Next \/ UNCHANGED LogVars
    BY <2>1, <2>2, RequestInLog
  <2>3. CASE Loop
    BY <2>3, LoopInLog
  <2>4. ASSUME NEW f \in Flushers, CallFlush(f) \/ SendBarrier(f) \/ LeaveFlush(f)
        PROVE  Log!Next \/ UNCHANGED LogVars
    BY <2>1, <2>4, FlushInLog
  <2>5. CASE Restart
    BY <2>1, <2>5, RestartInLog DEF Log!Next
  <2>6. CASE UNCHANGED <<fate, queue, hand, flush, written, dropped>>
    BY <2>6 DEF LogVars, Line, EntryStates, BarrierStates
  <2> QED
    BY <2>2, <2>3, <2>4, <2>5, <2>6
    DEF Next, FlagClosed, CloseChannel, CloseReturns, Stall, vars
<1> QED
  BY <1>1, <1>2, Invariant, PTL DEF Spec, ImplementsLog, Log!Spec

=============================================================================
