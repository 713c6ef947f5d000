---------------------------- MODULE EventOutbox ----------------------------
(***************************************************************************)
(* domain-event.service.ts, outbox-publisher.service.ts and the event      *)
(* endpoint of runs.service.ts.                                            *)
(*                                                                         *)
(* A transaction takes the row lock of its run's counter when it appends   *)
(* its first event and keeps it until it commits or rolls back; the events *)
(* and their outbox messages are inserted by the same transaction.  The    *)
(* messages carry available_at = now(), which PostgreSQL fixes at the      *)
(* start of the transaction.  Publishers (one per worker process) claim a  *)
(* message under a lease, let the local projection consume it and then     *)
(* acknowledge it, in three transactions.  A lease token is a fresh UUID   *)
(* per claim, modelled by the attempts column, which each claim raises.    *)
(*                                                                         *)
(* Left out: events of a company without a run (no counter, no sequence),  *)
(* topics, digests and the type filter of the reader.                      *)
(***************************************************************************)
EXTENDS Naturals, Sequences, FiniteSets

CONSTANTS
  Tx,          \* transactions that append events
  Run,         \* runs, each with its row in run_event_counters
  Publisher,   \* the outbox publishers
  MaxAppends,  \* events one transaction appends (createGoalAndRun: 2)
  PageLimit,   \* limit of one page of the event endpoint
  MaxFaults,   \* bound: crashes and leases outlived by their holder
  NoTx, NoRun, NoMessage

VARIABLES
  txn,        \* transactions: status, start, run, number of events appended
  counter,    \* run_event_counters: next_sequence, as its lock holder sees it
  holder,     \* who holds the row lock of the counter
  event,      \* events: visibility, run, run_sequence
  outbox,     \* outbox_messages: published, lease token, expiry, attempts
  receipts,   \* inbox_receipts
  projection, \* local_event_projections, in the order of insertion
  pub,        \* publishers: step, message and token in hand
  received,   \* per run, the events a client got page by page
  faults      \* faults so far

vars == <<txn, counter, holder, event, outbox, receipts, projection, pub, received, faults>>

ASSUME OutboxBounds ==
  /\ MaxAppends \in Nat \ {0} /\ PageLimit \in Nat \ {0} /\ MaxFaults \in Nat
  /\ NoTx \notin Tx /\ NoRun \notin Run /\ NoMessage \notin Tx \X (1..MaxAppends)

Event == Tx \X (1..MaxAppends)
NoToken == 0

TxnRow == [status : {"none", "open", "committed", "aborted"}, start : Nat,
           run : Run \cup {NoRun}, appended : 0..MaxAppends]
EventRow == [state : {"absent", "pending", "committed"}, run : Run \cup {NoRun}, seq : Nat]
MessageRow == [published : BOOLEAN, token : Nat, expired : BOOLEAN, attempts : Nat]
PublisherState == [step : {"idle", "consuming", "acking"}, message : Event \cup {NoMessage},
                   token : Nat]

TypeOK ==
  /\ txn \in [Tx -> TxnRow]
  /\ counter \in [Run -> Nat]
  /\ holder \in [Run -> Tx \cup {NoTx}]
  /\ event \in [Event -> EventRow]
  /\ outbox \in [Event -> MessageRow]
  /\ receipts \subseteq Event
  /\ projection \in Seq(Event)
  /\ pub \in [Publisher -> PublisherState]
  /\ \A p \in Publisher : pub[p].step = "idle" <=> pub[p].message = NoMessage
  /\ received \in [Run -> Seq(Event)]
  /\ faults \in 0..MaxFaults

Absent   == [state |-> "absent", run |-> NoRun, seq |-> 0]
IdlePub  == [step |-> "idle", message |-> NoMessage, token |-> NoToken]

Init ==
  /\ txn = [t \in Tx |-> [status |-> "none", start |-> 0, run |-> NoRun, appended |-> 0]]
  /\ counter = [r \in Run |-> 1]
  /\ holder = [r \in Run |-> NoTx]
  /\ event = [e \in Event |-> Absent]
  /\ outbox = [e \in Event |-> [published |-> FALSE, token |-> NoToken,
                                expired |-> FALSE, attempts |-> 0]]
  /\ receipts = {}
  /\ projection = <<>>
  /\ pub = [p \in Publisher |-> IdlePub]
  /\ received = [r \in Run |-> <<>>]
  /\ faults = 0

Fault == faults < MaxFaults /\ faults' = faults + 1
-----------------------------------------------------------------------------
(* Transactions of the services that append events.                        *)
Started == {t \in Tx : txn[t].status # "none"}

Begin(t) ==
  /\ txn[t].status = "none"
  /\ txn' = [txn EXCEPT ![t].status = "open", ![t].start = Cardinality(Started) + 1]
  /\ UNCHANGED <<counter, holder, event, outbox, receipts, projection, pub, received, faults>>

(* Mutant of CounterFree: the counter is read without FOR UPDATE.          *)
CounterUnlocked(t, r) == TRUE

(* SELECT next_sequence ... FOR UPDATE returns only once the lock is free. *)
CounterFree(t, r) == holder[r] \in {NoTx, t}

AppendEvent(t, r) ==
  LET k == txn[t].appended + 1
  IN  /\ txn[t].status = "open"
      /\ txn[t].run \in {NoRun, r}
      /\ k <= MaxAppends
      /\ CounterFree(t, r)
      /\ holder' = [holder EXCEPT ![r] = t]
      /\ counter' = [counter EXCEPT ![r] = @ + 1]
      /\ event' = [event EXCEPT ![<<t, k>>] =
                     [state |-> "pending", run |-> r, seq |-> counter[r]]]
      /\ txn' = [txn EXCEPT ![t].run = r, ![t].appended = k]
      /\ UNCHANGED <<outbox, receipts, projection, pub, received, faults>>

ReleaseCounter(t) ==
  holder' = [r \in Run |-> IF holder[r] = t THEN NoTx ELSE holder[r]]

(* Events, messages and counter become visible in one step.                *)
Commit(t) ==
  /\ txn[t].status = "open"
  /\ txn' = [txn EXCEPT ![t].status = "committed"]
  /\ event' = [e \in Event |->
                 IF e[1] = t /\ event[e].state = "pending"
                   THEN [event[e] EXCEPT !.state = "committed"] ELSE event[e]]
  /\ ReleaseCounter(t)
  /\ UNCHANGED <<counter, outbox, receipts, projection, pub, received, faults>>

(* Mutant of RestoredCounter: numbers are burnt, as with a sequence.       *)
BurntCounter(t) == counter

(* The update of the counter is undone with the rest.                      *)
RestoredCounter(t) ==
  [r \in Run |-> IF txn[t].run = r THEN counter[r] - txn[t].appended ELSE counter[r]]

(* A failed precondition, a deadlock victim, a lost connection.            *)
Rollback(t) ==
  /\ txn[t].status = "open"
  /\ txn' = [txn EXCEPT ![t].status = "aborted"]
  /\ counter' = RestoredCounter(t)
  /\ event' = [e \in Event |-> IF e[1] = t THEN Absent ELSE event[e]]
  /\ ReleaseCounter(t)
  /\ UNCHANGED <<outbox, receipts, projection, pub, received, faults>>
-----------------------------------------------------------------------------
(* The publishers.                                                         *)

(* Mutant of Claimable: an expired lease is not taken over.                *)
ClaimableUnleased(e) ==
  /\ event[e].state = "committed"
  /\ ~outbox[e].published
  /\ outbox[e].token = NoToken

Claimable(e) ==
  /\ event[e].state = "committed"
  /\ ~outbox[e].published
  /\ outbox[e].token = NoToken \/ outbox[e].expired

(* ORDER BY available_at, id: start of the transaction, then the time      *)
(* ordered identifier of the message.                                      *)
Before(d, e) ==
  \/ txn[d[1]].start < txn[e[1]].start
  \/ d[1] = e[1] /\ d[2] < e[2]

(* SKIP LOCKED: the row may be locked by the UPDATE of a slow publisher.   *)
MayBeLocked(e, p) ==
  \E q \in Publisher \ {p} : pub[q].step = "acking" /\ pub[q].message = e

Claim(p, e) ==
  LET token == outbox[e].attempts + 1
  IN  /\ pub[p].step = "idle"
      /\ Claimable(e)
      /\ \A d \in Event : Claimable(d) /\ Before(d, e) => MayBeLocked(d, p)
      /\ outbox' = [outbox EXCEPT ![e] = [published |-> FALSE, token |-> token,
                                          expired |-> FALSE, attempts |-> token]]
      /\ pub' = [pub EXCEPT ![p] = [step |-> "consuming", message |-> e, token |-> token]]
      /\ UNCHANGED <<txn, counter, holder, event, receipts, projection, received, faults>>

(* Mutant of Consume: the receipt is written, never consulted.             *)
ConsumeAgain(p) ==
  LET e == pub[p].message
  IN  /\ pub[p].step = "consuming"
      /\ projection' = Append(projection, e)
      /\ receipts' = receipts \cup {e}
      /\ pub' = [pub EXCEPT ![p].step = "acking"]
      /\ UNCHANGED <<txn, counter, holder, event, outbox, received, faults>>

(* The receipt and the projection are inserted together; a receipt that is *)
(* already there ends the transaction.  run_sequence is not looked at.     *)
Consume(p) ==
  LET e == pub[p].message
  IN  /\ pub[p].step = "consuming"
      /\ projection' = IF e \in receipts THEN projection ELSE Append(projection, e)
      /\ receipts' = receipts \cup {e}
      /\ pub' = [pub EXCEPT ![p].step = "acking"]
      /\ UNCHANGED <<txn, counter, holder, event, outbox, received, faults>>

(* WHERE lease_token = $2 AND published_at IS NULL: a stale publisher's    *)
(* acknowledgement has no effect.                                          *)
Acknowledge(p) ==
  LET e == pub[p].message
  IN  /\ pub[p].step = "acking"
      /\ outbox' = IF outbox[e].token = pub[p].token /\ ~outbox[e].published
                     THEN [outbox EXCEPT ![e].published = TRUE, ![e].token = NoToken,
                                         ![e].expired = FALSE]
                     ELSE outbox
      /\ pub' = [pub EXCEPT ![p] = IdlePub]
      /\ UNCHANGED <<txn, counter, holder, event, receipts, projection, received, faults>>

(* A throw ends the worker loop; stopAfterConsumerCommit does the same     *)
(* after Consume.                                                          *)
Crash(p) ==
  /\ pub[p].step # "idle"
  /\ Fault
  /\ pub' = [pub EXCEPT ![p] = IdlePub]
  /\ UNCHANGED <<txn, counter, holder, event, outbox, receipts, projection, received>>

LeaseInUse(e) ==
  \E p \in Publisher : /\ pub[p].step # "idle"
                       /\ pub[p].message = e
                       /\ pub[p].token = outbox[e].token

ExpireLease(e) ==
  /\ outbox[e].token # NoToken
  /\ ~outbox[e].expired
  /\ IF LeaseInUse(e) THEN Fault ELSE UNCHANGED faults
  /\ outbox' = [outbox EXCEPT ![e].expired = TRUE]
  /\ UNCHANGED <<txn, counter, holder, event, receipts, projection, pub, received>>
-----------------------------------------------------------------------------
(* The event endpoint and a client that pages through it.                  *)
Committed(r) == {e \in Event : event[e].state = "committed" /\ event[e].run = r}

(* ORDER BY run_sequence.                                                  *)
BySequence(S) ==
  [i \in 1..Cardinality(S) |->
     CHOOSE e \in S : Cardinality({d \in S : event[d].seq <= event[e].seq}) = i]

(* after_sequence: the last sequence the client has.                       *)
Cursor(r) == IF received[r] = <<>> THEN 0 ELSE event[received[r][Len(received[r])]].seq

Page(r) ==
  LET rows == BySequence({e \in Committed(r) : event[e].seq > Cursor(r)})
  IN  SubSeq(rows, 1, IF Len(rows) < PageLimit THEN Len(rows) ELSE PageLimit)

Poll(r) ==
  /\ Page(r) # <<>>
  /\ received' = [received EXCEPT ![r] = @ \o Page(r)]
  /\ UNCHANGED <<txn, counter, holder, event, outbox, receipts, projection, pub, faults>>
-----------------------------------------------------------------------------
PublishOnce(p) == (\E e \in Event : Claim(p, e)) \/ Consume(p) \/ Acknowledge(p)

Next ==
  \/ \E t \in Tx : Begin(t) \/ Commit(t) \/ Rollback(t) \/ \E r \in Run : AppendEvent(t, r)
  \/ \E p \in Publisher : PublishOnce(p) \/ Crash(p)
  \/ \E e \in Event : ExpireLease(e)
  \/ \E r \in Run : Poll(r)

Spec == Init /\ [][Next]_vars

(* The worker loop publishes for ever, and time passes the lease of a      *)
(* publisher that died.  Transactions, clients and faults owe nothing.     *)
Fairness ==
  /\ \A p \in Publisher : WF_vars(PublishOnce(p))
  /\ \A e \in Event : WF_vars(~LeaseInUse(e) /\ ExpireLease(e))

FairSpec == Spec /\ Fairness
-----------------------------------------------------------------------------
(* At every moment, between any two steps of concurrent and failing        *)
(* transactions, the variables have their types and the visible events of  *)
(* a run are numbered 1, 2, ... n.                                         *)
DenseSequences ==
  /\ TypeOK
  /\ \A r \in Run :
       /\ {event[e].seq : e \in Committed(r)} = 1..Cardinality(Committed(r))
       /\ holder[r] = NoTx => counter[r] = Cardinality(Committed(r)) + 1

(* The stream the outbox implements.                                       *)
Stream == INSTANCE EventStream WITH
  log       <- [r \in Run |-> BySequence(Committed(r))],
  read      <- received,
  delivered <- {projection[i] : i \in 1..Len(projection)}

(* Exactly-once delivery: whatever crashes between the three transactions  *)
(* of publishOnce, no event is projected twice, and no message is marked   *)
(* published before the projection has its event.                          *)
ProjectedOnce ==
  \A e \in Event :
    LET times == Cardinality({i \in 1..Len(projection) : projection[i] = e})
    IN  times <= 1 /\ (outbox[e].published => times = 1)

(* The log, the reader and the projection behave as EventStream says: a    *)
(* client that follows the cursor gets every event of the run, once and in *)
(* order, although transactions commit while it pages.                     *)
ImplementsStream == Stream!Safety

(* Every committed event reaches the projection, and its message is        *)
(* acknowledged in the end: no crash leaves a message leased for ever.     *)
OutboxDrains ==
  /\ Stream!Delivery
  /\ \A e \in Event : event[e].state = "committed" ~> outbox[e].published
=============================================================================
