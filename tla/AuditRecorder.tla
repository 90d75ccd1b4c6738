--------------------------- MODULE AuditRecorder ---------------------------
(***************************************************************************)
(* The recorder of the audit log.  The middleware of a write route hands   *)
(* the recorder one entry after the handler has answered; the recorder     *)
(* puts it in a queue of limited length and one goroutine inserts the      *)
(* entries in turn.  The request never waits: an entry that finds the      *)
(* queue full is dropped.  Flush waits behind a barrier in the same queue, *)
(* and Close drains it; a process that ends just forgets it.               *)
(*                                                                         *)
(* A request stands for the one entry it records.  What an entry says, and *)
(* how it is redacted, is left out.                                        *)
(***************************************************************************)
EXTENDS Naturals, FiniteSets, Sequences

CONSTANTS
  Requests,      \* write requests on registered routes
  Flushers,      \* callers of Flush
  NoJob,         \* the recorder's goroutine has no job in hand
  Capacity,      \* the length of the queue
  MaxRestarts    \* bound: how often the process ends

ASSUME AuditAssumption ==
  /\ IsFiniteSet(Requests) /\ Requests \cap Flushers = {}
  /\ NoJob \notin Requests \cup Flushers
  /\ Capacity \in Nat \ {0} /\ MaxRestarts \in Nat

VARIABLES
  fate,       \* how far the entry of a request has come
  queue,      \* the jobs: entries, and the barriers of Flush
  hand,       \* the job the goroutine works on
  written,    \* the counter Written
  dropped,    \* the counter Dropped
  closing,    \* how far Close has come
  stalled,    \* the database accepts statements and does not answer them
  flush,      \* where a caller of Flush stands
  ahead,      \* history: what was in the recorder when Flush was called
  restarts

jobVars == <<queue, hand>>
counters == <<written, dropped>>
flushVars == <<flush, ahead>>
vars == <<fate, jobVars, counters, closing, stalled, flushVars, restarts>>

Jobs == Requests \cup Flushers

-----------------------------------------------------------------------------
TypeOK ==
  /\ fate \in [Requests -> {"none", "answered", "checked", "queued", "written",
                            "failed", "dropped", "lost", "past"}]
  /\ queue \in Seq(Jobs) /\ Len(queue) <= Capacity
  /\ hand \in Jobs \cup {NoJob}
  /\ written \in Nat /\ dropped \in Nat
  /\ closing \in {"open", "flagged", "closed", "drained"}
  /\ stalled \in BOOLEAN
  /\ flush \in [Flushers -> {"idle", "sending", "waiting", "passed", "ended"}]
  /\ ahead \in [Flushers -> SUBSET Requests]
  /\ restarts \in 0 .. MaxRestarts

Init ==
  /\ fate = [r \in Requests |-> "none"]
  /\ queue = <<>> /\ hand = NoJob
  /\ written = 0 /\ dropped = 0
  /\ closing = "open" /\ stalled = FALSE
  /\ flush = [f \in Flushers |-> "idle"]
  /\ ahead = [f \in Flushers |-> {}]
  /\ restarts = 0

\* Variant with a fault: one job too many.
RoomForOneMore == Len(queue) <= Capacity

Room == Len(queue) < Capacity

\* close(jobs) has been called: a send on the channel panics.
ChannelClosed == closing \in {"closed", "drained"}

Fares(r, f) == fate' = [fate EXCEPT ![r] = f]

-----------------------------------------------------------------------------
(* A request. *)

\* The handler has answered.  One that panics never gets to the recorder.
Answer(r) ==
  /\ fate[r] = "none"
  /\ \E f \in {"answered", "lost"} : Fares(r, f)
  /\ UNCHANGED <<jobVars, counters, closing, stalled, flushVars, restarts>>

\* Record looks at the flag of Close before it prepares the entry.
CheckClosed(r) ==
  /\ fate[r] = "answered"
  /\ Fares(r, IF closing = "open" THEN "checked" ELSE "lost")
  /\ UNCHANGED <<jobVars, counters, closing, stalled, flushVars, restarts>>

Enqueue(r) ==
  /\ fate[r] = "checked"
  /\ ~ChannelClosed /\ Room
  /\ Fares(r, "queued")
  /\ queue' = Append(queue, r)
  /\ UNCHANGED <<hand, counters, closing, stalled, flushVars, restarts>>

\* Variant with a fault: there is no default branch, Record waits for room.
Waits(r) == FALSE

\* The default branch of the select: the queue is full.
Overflows(r) == fate[r] = "checked" /\ ~ChannelClosed /\ ~Room

Drop(r) ==
  /\ Overflows(r)
  /\ Fares(r, "dropped")
  /\ dropped' = dropped + 1
  /\ UNCHANGED <<jobVars, written, closing, stalled, flushVars, restarts>>

\* Close has got between the check and the send, which panics.
SendOnClosed(r) ==
  /\ fate[r] = "checked"
  /\ ChannelClosed
  /\ Fares(r, "lost")
  /\ UNCHANGED <<jobVars, counters, closing, stalled, flushVars, restarts>>

Record(r) == CheckClosed(r) \/ Enqueue(r) \/ Drop(r) \/ SendOnClosed(r)

-----------------------------------------------------------------------------
(* The goroutine. *)

\* Variant with a fault: the loop ends when the recorder is flagged as closed.
ReadyWhileOpen == hand = NoJob /\ closing = "open"

\* The loop goes on until the channel is closed and empty.
Ready == hand = NoJob

Take ==
  /\ Ready
  /\ queue # <<>>
  /\ hand' = Head(queue)
  /\ queue' = Tail(queue)
  /\ UNCHANGED <<fate, counters, closing, stalled, flushVars, restarts>>

\* The INSERT has no time limit: it ends when the database answers.
InsertRow ==
  /\ hand \in Requests
  /\ ~stalled
  /\ Fares(hand, "written")
  /\ written' = written + 1
  /\ hand' = NoJob
  /\ UNCHANGED <<queue, dropped, closing, stalled, flushVars, restarts>>

\* Variant with a fault: Written counts an entry whose INSERT failed.
FailRowCounted ==
  /\ hand \in Requests
  /\ ~stalled
  /\ Fares(hand, "failed")
  /\ written' = written + 1
  /\ hand' = NoJob
  /\ UNCHANGED <<queue, dropped, closing, stalled, flushVars, restarts>>

\* The error is logged, the entry is gone, and no counter moves.
FailRow ==
  /\ hand \in Requests
  /\ ~stalled
  /\ Fares(hand, "failed")
  /\ hand' = NoJob
  /\ UNCHANGED <<queue, counters, closing, stalled, flushVars, restarts>>

\* The barrier is closed; its caller may have left.
PassBarrier ==
  /\ hand \in Flushers
  /\ flush' = [flush EXCEPT ![hand] = IF @ = "waiting" THEN "passed" ELSE @]
  /\ hand' = NoJob
  /\ UNCHANGED <<fate, queue, counters, closing, stalled, ahead, restarts>>

Loop == Take \/ InsertRow \/ FailRow \/ PassBarrier

-----------------------------------------------------------------------------
(* Flush. *)

Pending == {r \in Requests : fate[r] = "queued"}

\* Flush returns at once if the recorder is closed.
CallFlush(f) ==
  /\ flush[f] = "idle"
  /\ flush' = [flush EXCEPT ![f] = IF closing = "open" THEN "sending" ELSE "ended"]
  /\ ahead' = [ahead EXCEPT ![f] = Pending]
  /\ UNCHANGED <<fate, jobVars, counters, closing, stalled, restarts>>

\* Variant with a fault: the barrier goes in front.
BarrierInFront(f) == <<f>> \o queue

\* The barrier takes its turn behind the entries.
WithBarrier(f) == Append(queue, f)

\* The barrier waits for room.
SendBarrier(f) ==
  /\ flush[f] = "sending"
  /\ ~ChannelClosed /\ Room
  /\ queue' = WithBarrier(f)
  /\ flush' = [flush EXCEPT ![f] = "waiting"]
  /\ UNCHANGED <<fate, hand, counters, closing, stalled, ahead, restarts>>

\* The caller's context ends, or the send meets a closed channel and panics.
LeaveFlush(f) ==
  /\ flush[f] \in {"sending", "waiting"}
  /\ flush' = [flush EXCEPT ![f] = "ended"]
  /\ UNCHANGED <<fate, jobVars, counters, closing, stalled, ahead, restarts>>

-----------------------------------------------------------------------------
(* Close, the end of the process, and the database. *)

\* The compare-and-swap: one caller closes.
FlagClosed ==
  /\ closing = "open"
  /\ closing' = "flagged"
  /\ UNCHANGED <<fate, jobVars, counters, stalled, flushVars, restarts>>

CloseChannel ==
  /\ closing = "flagged"
  /\ closing' = "closed"
  /\ UNCHANGED <<fate, jobVars, counters, stalled, flushVars, restarts>>

\* The goroutine has ended: the queue is empty and so is its hand.
LoopEnded == queue = <<>> /\ hand = NoJob

\* Close returns once the goroutine has ended.
CloseReturns ==
  /\ closing = "closed"
  /\ LoopEnded
  /\ closing' = "drained"
  /\ UNCHANGED <<fate, jobVars, counters, stalled, flushVars, restarts>>

\* The process ends, in order or not: nothing closes the recorder, and what is
\* in memory is lost, up to a row whose INSERT is under way.  Another process
\* starts with an empty recorder.
Restart ==
  /\ restarts < MaxRestarts
  /\ restarts' = restarts + 1
  /\ fate' = [r \in Requests |->
       CASE fate[r] = "none" -> "none"
         [] fate[r] \in {"answered", "checked", "queued"} -> "lost"
         [] OTHER -> "past"]
  /\ queue' = <<>> /\ hand' = NoJob
  /\ written' = 0 /\ dropped' = 0
  /\ closing' = "open"
  /\ flush' = [f \in Flushers |-> "idle"]
  /\ ahead' = [f \in Flushers |-> {}]
  /\ UNCHANGED stalled

Stall ==
  /\ stalled' = ~stalled
  /\ UNCHANGED <<fate, jobVars, counters, closing, flushVars, restarts>>

Next ==
  \/ \E r \in Requests : Answer(r) \/ Record(r)
  \/ Loop
  \/ \E f \in Flushers : CallFlush(f) \/ SendBarrier(f) \/ LeaveFlush(f)
  \/ FlagClosed \/ CloseChannel \/ CloseReturns
  \/ Restart
  \/ Stall

Spec == Init /\ [][Next]_vars

\* The goroutines of the process are scheduled.  Nothing makes the database
\* answer, a request arrive, or a caller close the recorder.
FairSpec == Spec /\ WF_vars(Loop) /\ \A r \in Requests : WF_vars(Record(r))

-----------------------------------------------------------------------------
(* Safety. *)

\* Flush returns through its barrier only after every entry that was in the
\* recorder when it was called has been inserted or has failed.
FlushWaits ==
  \A f \in Flushers : flush[f] = "passed" =>
    \A r \in ahead[f] : fate[r] \in {"written", "failed"}

-----------------------------------------------------------------------------
(* Refinement. *)

\* The job in the hand of the goroutine is the head of the line.
Line == IF hand = NoJob THEN queue ELSE <<hand>> \o queue

EntryStates ==
  [r \in Requests |-> CASE fate[r] \in {"none", "answered", "checked"} -> "out"
                       [] fate[r] = "queued" -> "in"
                       [] fate[r] = "written" -> "stored"
                       [] fate[r] = "dropped" -> "refused"
                       [] OTHER -> fate[r]]

BarrierStates ==
  [f \in Flushers |-> CASE flush[f] \in {"idle", "sending"} -> "out"
                       [] flush[f] = "waiting" -> "in"
                       [] flush[f] = "passed" -> "passed"
                       [] OTHER -> "gone"]

Log == INSTANCE LossyLog
  WITH Entries <- Requests, Barriers <- Flushers,
       line <- Line, state <- EntryStates, barrier <- BarrierStates,
       stored <- written, refused <- dropped

\* Queue, goroutine and counters are a lossy first-in-first-out log: entries and
\* barriers are dealt with once and in their order, only a full queue turns an entry
\* away, Written counts the rows and Dropped the entries turned away.  An entry whose
\* INSERT fails is in neither counter: LossyLog has it so because the code does, and
\* LostRowsCounted below says what the comments of the package make of it.
ImplementsLog == Log!Spec

-----------------------------------------------------------------------------
(* Liveness. *)

\* A request gets past Record although the queue is full and the database
\* never answers again.
RecordReturns ==
  \A r \in Requests : fate[r] = "answered" ~> fate[r] \notin {"answered", "checked"}

\* If the database answers from some time on, every entry in the queue is dealt with.
QueueDrains ==
  <>[]~stalled => \A r \in Requests : fate[r] = "queued" ~> fate[r] # "queued"

-----------------------------------------------------------------------------
(* A claim of the repository's comments that the code refutes. *)

\* "A lost row can be seen in a counter", says the package of entries that are not
\* written, and Dropped is the only counter of losses.  So it counts the entries that
\* a process has discarded, from a full queue or after a failed INSERT.
LostRowsCounted ==
  dropped = Cardinality({r \in Requests : fate[r] \in {"dropped", "failed"}})

=============================================================================
