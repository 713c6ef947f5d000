---------------------------- MODULE EventStream ----------------------------
(***************************************************************************)
(* What the event log and its outbox promise: a transaction appends its    *)
(* events to the log of a run all at once, a reader with a cursor gets a   *)
(* prefix of that log, and the local projection gets every event exactly   *)
(* once, sooner or later.  The order of the projection is left open.       *)
(***************************************************************************)
EXTENDS Naturals, Sequences

CONSTANTS
  Tx,          \* transactions that append events
  Run,         \* runs
  MaxAppends   \* events one transaction appends

VARIABLES
  log,         \* per run, the events in the order of their sequences
  read,        \* per run, the events a polling reader received
  delivered    \* the events that reached the projection

stream == <<log, read, delivered>>

Event == Tx \X (1..MaxAppends)

InLog(e) == \E r \in Run : \E i \in 1..Len(log[r]) : log[r][i] = e

Init ==
  /\ log = [r \in Run |-> <<>>]
  /\ read = [r \in Run |-> <<>>]
  /\ delivered = {}

(* The first n events of transaction t become visible together.            *)
AppendBatch(r, t, n) ==
  /\ ~InLog(<<t, 1>>)
  /\ log' = [log EXCEPT ![r] = @ \o [k \in 1..n |-> <<t, k>>]]
  /\ UNCHANGED <<read, delivered>>

(* The reader receives the next events after those it has.                 *)
ReadUpTo(r, i) ==
  /\ Len(read[r]) < i
  /\ read' = [read EXCEPT ![r] = SubSeq(log[r], 1, i)]
  /\ SubSeq(read'[r], 1, Len(read[r])) = read[r]
  /\ UNCHANGED <<log, delivered>>

Deliver(e) ==
  /\ InLog(e)
  /\ e \notin delivered
  /\ delivered' = delivered \cup {e}
  /\ UNCHANGED <<log, read>>

Next ==
  \/ \E r \in Run, t \in Tx, n \in 1..MaxAppends : AppendBatch(r, t, n)
  \/ \E r \in Run : \E i \in 1..Len(log[r]) : ReadUpTo(r, i)
  \/ \E e \in Event : Deliver(e)

Safety == Init /\ [][Next]_stream

Delivery == \A e \in Event : InLog(e) ~> e \in delivered

Spec == Safety /\ Delivery
=============================================================================
