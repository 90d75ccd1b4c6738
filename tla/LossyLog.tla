------------------------------ MODULE LossyLog ------------------------------
(***************************************************************************)
(* The log a reader of the audit page may think of: one line of limited    *)
(* length that entries and barriers join at the end and leave at the head, *)
(* each entry once, with a count of the entries stored and of those turned *)
(* away.  An entry is turned away only from a full line, and the line is   *)
(* lost only as a whole, with the counts, when the process ends.           *)
(***************************************************************************)
EXTENDS Naturals, Sequences

CONSTANTS Entries, Barriers, Capacity

VARIABLES
  line,      \* what has joined and not left; the head is being worked on
  state,     \* how far an entry has come
  barrier,   \* how far a barrier has come
  stored,    \* entries stored since the process began
  refused    \* entries turned away since then

vars == <<line, state, barrier, stored, refused>>

Init ==
  /\ line = <<>>
  /\ state = [e \in Entries |-> "out"]
  /\ barrier = [b \in Barriers |-> "out"]
  /\ stored = 0 /\ refused = 0

\* The head is not in the queue any more.
Join(j) == Len(line) <= Capacity /\ line' = Append(line, j)

Enter(e) ==
  /\ state[e] = "out"
  /\ Join(e)
  /\ state' = [state EXCEPT ![e] = "in"]
  /\ UNCHANGED <<barrier, stored, refused>>

Refuse(e) ==
  /\ state[e] = "out"
  /\ Len(line) >= Capacity
  /\ state' = [state EXCEPT ![e] = "refused"]
  /\ refused' = refused + 1
  /\ UNCHANGED <<line, barrier, stored>>

\* The entry never gets to the line: its handler panics, or the log is closed.
Miss(e) ==
  /\ state[e] = "out"
  /\ state' = [state EXCEPT ![e] = "lost"]
  /\ UNCHANGED <<line, barrier, stored, refused>>

Leave == line # <<>> /\ line' = Tail(line)

Store ==
  /\ Leave
  /\ Head(line) \in Entries
  /\ state' = [state EXCEPT ![Head(line)] = "stored"]
  /\ stored' = stored + 1
  /\ UNCHANGED <<barrier, refused>>

\* An entry that could not be stored is gone, and neither count shows it.
Fail ==
  /\ Leave
  /\ Head(line) \in Entries
  /\ state' = [state EXCEPT ![Head(line)] = "failed"]
  /\ UNCHANGED <<barrier, stored, refused>>

EnterBarrier(b) ==
  /\ barrier[b] = "out"
  /\ Join(b)
  /\ barrier' = [barrier EXCEPT ![b] = "in"]
  /\ UNCHANGED <<state, stored, refused>>

\* A barrier whose caller has gone keeps its place in the line.
Pass ==
  /\ Leave
  /\ Head(line) \in Barriers
  /\ barrier' = [barrier EXCEPT ![Head(line)] = IF @ = "in" THEN "passed" ELSE @]
  /\ UNCHANGED <<state, stored, refused>>

GiveUp(b) ==
  /\ barrier[b] \in {"out", "in"}
  /\ barrier' = [barrier EXCEPT ![b] = "gone"]
  /\ UNCHANGED <<line, state, stored, refused>>

\* What the line held is lost; entries of an earlier process are past.
Crash ==
  /\ line' = <<>> /\ stored' = 0 /\ refused' = 0
  /\ \A e \in Entries :
       \/ state[e] = "out" /\ state'[e] \in {"out", "lost"}
       \/ state[e] = "in" /\ state'[e] = "lost"
       \/ state[e] \notin {"out", "in"} /\ state'[e] = "past"
  /\ DOMAIN state' = Entries
  /\ barrier' = [b \in Barriers |-> "out"]

Next ==
  \/ \E e \in Entries : Enter(e) \/ Refuse(e) \/ Miss(e)
  \/ Store \/ Fail
  \/ \E b \in Barriers : EnterBarrier(b) \/ GiveUp(b)
  \/ Pass
  \/ Crash

Spec == Init /\ [][Next]_vars
=============================================================================
