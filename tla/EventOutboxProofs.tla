-------------------------- MODULE EventOutboxProofs --------------------------
(***************************************************************************)
(* Proofs, for any number of transactions, runs, publishers and faults, of *)
(* the safety properties of EventOutbox and of its refinement of           *)
(* EventStream, from the inductive invariant IInv.                         *)
(***************************************************************************)
EXTENDS EventOutbox, FiniteSetTheorems, FunctionTheorems, SequenceTheorems, TLAPS

(* The numbers of a run that are spent for good: the counter without what  *)
(* the transaction that holds its lock has taken.                          *)
Spent(r) == counter[r] - 1 - (IF holder[r] = NoTx THEN 0 ELSE txn[holder[r]].appended)

(* The lock of a counter is held by the open transaction that has appended *)
(* to its run, and by nobody else.                                         *)
CountersLocked ==
  /\ IsFiniteSet(Started)
  /\ \A t \in Tx :
       /\ txn[t].run = NoRun <=> txn[t].appended = 0
       /\ txn[t].status = "none" => txn[t].appended = 0
       /\ txn[t].status = "open" /\ txn[t].run # NoRun => holder[txn[t].run] = t
  /\ \A r \in Run :
       /\ Spent(r) \in Nat
       /\ holder[r] # NoTx => txn[holder[r]].status = "open" /\ txn[holder[r]].run = r

(* A transaction has the events it appended, visible once it commits; its  *)
(* pending ones follow the numbers that are spent.                         *)
Owns(t, k) == k <= txn[t].appended /\ txn[t].status \in {"open", "committed"}

OwnedEvent(t, k) ==
  /\ ~Owns(t, k) => event[<<t, k>>] = Absent
  /\ Owns(t, k) =>
       /\ event[<<t, k>>].run = txn[t].run
       /\ event[<<t, k>>].state = IF txn[t].status = "open" THEN "pending" ELSE "committed"
  /\ \A r \in Run : Owns(t, k) /\ holder[r] = t => event[<<t, k>>].seq = Spent(r) + k

EventsOwned == \A t \in Tx, k \in 1..MaxAppends : OwnedEvent(t, k)

(* The visible events of a run bear each of the numbers spent, once.       *)
NumbersSpent ==
  \A r \in Run :
    /\ \A e \in Committed(r) : event[e].seq \in 1..Spent(r)
    /\ \A d, e \in Committed(r) : event[d].seq = event[e].seq => d = e
    /\ \A n \in 1..Spent(r) : \E e \in Committed(r) : event[e].seq = n

(* A client has the events 1, 2, ... of the run, without a gap.            *)
ReadersFollow ==
  \A r \in Run :
    /\ Len(received[r]) <= Spent(r)
    /\ \A i \in 1..Len(received[r]) :
         received[r][i] \in Committed(r) /\ event[received[r][i]].seq = i

(* The receipts are those of the projection; only a visible event is taken *)
(* up, and only one with a receipt is acknowledged.                        *)
ReceiptsKept ==
  /\ receipts = {projection[i] : i \in 1..Len(projection)}
  /\ \A i, j \in 1..Len(projection) : projection[i] = projection[j] => i = j
  /\ \A e \in Event : outbox[e].published => e \in receipts
  /\ \A p \in Publisher :
       /\ pub[p].step # "idle" => event[pub[p].message].state = "committed"
       /\ pub[p].step = "acking" => pub[p].message \in receipts

IInv == TypeOK /\ CountersLocked /\ EventsOwned /\ NumbersSpent /\ ReadersFollow /\ ReceiptsKept
-----------------------------------------------------------------------------
(* A set whose members are numbered c+1, ..., n has n - c of them.         *)
LEMMA Numbered ==
  ASSUME NEW S, NEW num \in [S -> Int], NEW c \in Nat, NEW n \in Nat, c <= n,
         \A e \in S : num[e] \in (c + 1)..n,
         \A d, e \in S : num[d] = num[e] => d = e,
         \A m \in (c + 1)..n : \E e \in S : num[e] = m
  PROVE  IsFiniteSet(S) /\ Cardinality(S) = n - c
  <1> DEFINE T == (c + 1)..n
  <1>1. IsFiniteSet(T) /\ Cardinality(T) = n - c
    <2>1. c + 1 \in Int /\ n \in Int
      OBVIOUS
    <2>2. IsFiniteSet(T) /\ Cardinality(T) = IF c + 1 > n THEN 0 ELSE n - (c + 1) + 1
      BY <2>1, FS_Interval
    <2> QED
      BY <2>2
  <1>2. num \in Injection(S, T)
    BY DEF Injection, IsInjective
  <1>3. num \in Surjection(S, T)
    BY <1>2 DEF Injection, Surjection
  <1> QED
    BY <1>1, <1>2, <1>3, FS_Injection

(* ORDER BY run_sequence on events that are numbered c+1, ..., n.          *)
SequencesFill(S, c, n) ==
  /\ \A e \in S : event[e].seq \in (c + 1)..n
  /\ \A d, e \in S : event[d].seq = event[e].seq => d = e
  /\ \A m \in (c + 1)..n : \E e \in S : event[e].seq = m

(* Events numbered c+1, ..., n are listed in this order by BySequence.     *)
LEMMA InOrder ==
  ASSUME TypeOK, NEW S \in SUBSET Event, NEW c \in Nat, NEW n \in Nat, c <= n,
         SequencesFill(S, c, n)
  PROVE  /\ BySequence(S) \in Seq(S)
         /\ Len(BySequence(S)) = n - c
         /\ \A i \in 1..(n - c) : BySequence(S)[i] \in S /\ event[BySequence(S)[i]].seq = c + i
  <1> USE DEF SequencesFill
  <1> DEFINE UpTo(e) == {d \in S : event[d].seq <= event[e].seq}
             At(i) == CHOOSE e \in S : Cardinality(UpTo(e)) = i
  <1>1. \A e \in S : event[e].seq \in Nat
    BY DEF TypeOK, EventRow
  <1>2. Cardinality(S) = n - c
    <2> DEFINE num == [e \in S |-> event[e].seq]
    <2>1. num \in [S -> Int]
      BY <1>1
    <2>2. /\ \A e \in S : num[e] \in (c + 1)..n
          /\ \A d, e \in S : num[d] = num[e] => d = e
          /\ \A m \in (c + 1)..n : \E e \in S : num[e] = m
      OBVIOUS
    <2> HIDE DEF num
    <2> QED
      BY <2>1, <2>2, Numbered
  <1>3. ASSUME NEW e \in S PROVE Cardinality(UpTo(e)) = event[e].seq - c
    <2> DEFINE num == [d \in UpTo(e) |-> event[d].seq]
    <2>1. num \in [UpTo(e) -> Int]
      BY <1>1
    <2>2. /\ \A d \in UpTo(e) : num[d] \in (c + 1)..event[e].seq
          /\ \A d, f \in UpTo(e) : num[d] = num[f] => d = f
          /\ \A m \in (c + 1)..event[e].seq : \E d \in UpTo(e) : num[d] = m
      BY <1>1
    <2>3. event[e].seq \in Nat /\ c <= event[e].seq
      BY <1>1
    <2> HIDE DEF num, UpTo
    <2> QED
      BY <2>1, <2>2, <2>3, Numbered
  <1>4. ASSUME NEW i \in 1..(n - c) PROVE At(i) \in S /\ event[At(i)].seq = c + i
    <2>1. PICK e \in S : event[e].seq = c + i
      OBVIOUS
    <2> HIDE DEF UpTo
    <2>2. Cardinality(UpTo(e)) = i
      BY <1>3, <2>1
    <2>3. At(i) \in S /\ Cardinality(UpTo(At(i))) = i
      <3>1. \E d \in S : Cardinality(UpTo(d)) = i
        BY <2>2
      <3> QED
        BY <3>1, Zenon
    <2>4. event[At(i)].seq - c = i
      BY <1>3, <2>3
    <2> HIDE DEF At
    <2> QED
      BY <1>1, <2>3, <2>4
  <1>5. BySequence(S) = [i \in 1..(n - c) |-> At(i)]
    BY <1>2 DEF BySequence
  <1> HIDE DEF At
  <1>6. BySequence(S) \in [1..(n - c) -> S]
    BY <1>4, <1>5
  <1>7. n - c \in Nat
    OBVIOUS
  <1>8. BySequence(S) \in Seq(S) /\ Len(BySequence(S)) = n - c
    BY <1>6, <1>7
  <1> QED
    BY <1>4, <1>5, <1>8
-----------------------------------------------------------------------------
(* Every initial state satisfies the invariant.                            *)
LEMMA InitIInv == Init => IInv
  <1> SUFFICES ASSUME Init PROVE IInv
    OBVIOUS
  <1> USE OutboxBounds DEF Init
  <1>1. TypeOK
    BY DEF TypeOK, TxnRow, EventRow, MessageRow, PublisherState, Absent, IdlePub, NoToken, Event
  <1>2. Started = {} /\ IsFiniteSet(Started)
    BY FS_EmptySet DEF Started
  <1>3. \A r \in Run : Spent(r) = 0 /\ Committed(r) = {}
    BY DEF Spent, Committed, Absent
  <1>4. CountersLocked
    BY <1>2, <1>3 DEF CountersLocked
  <1>5. EventsOwned
    BY DEF EventsOwned, OwnedEvent, Owns, Event
  <1>6. NumbersSpent
    BY <1>3 DEF NumbersSpent
  <1>7. ReadersFollow
    BY <1>3 DEF ReadersFollow
  <1>8. ReceiptsKept
    BY DEF ReceiptsKept, IdlePub
  <1> QED
    BY <1>1, <1>4, <1>5, <1>6, <1>7, <1>8 DEF IInv

(* Steps of publishers and of clients leave the log alone.                 *)
LEMMA LogUntouched ==
  ASSUME IInv, UNCHANGED <<txn, counter, holder, event>>
  PROVE  /\ CountersLocked' /\ EventsOwned' /\ NumbersSpent'
         /\ \A r \in Run : Spent(r)' = Spent(r) /\ Committed(r)' = Committed(r)
  <1>1. \A r \in Run : Spent(r)' = Spent(r) /\ Committed(r)' = Committed(r)
    BY DEF Spent, Committed
  <1>2. Started' = Started
    BY DEF Started
  <1>3. CountersLocked'
    BY <1>1, <1>2 DEF IInv, CountersLocked
  <1>4. EventsOwned'
    BY <1>1 DEF IInv, EventsOwned, OwnedEvent, Owns
  <1>5. NumbersSpent'
    BY <1>1 DEF IInv, NumbersSpent
  <1> QED
    BY <1>1, <1>3, <1>4, <1>5

(* Steps of transactions that keep the visible events keep what readers    *)
(* and publishers rely on.                                                 *)
LEMMA ReadersUntouched ==
  ASSUME IInv, UNCHANGED <<outbox, receipts, projection, pub, received>>,
         \A r \in Run : Spent(r)' \in Nat /\ Spent(r) <= Spent(r)',
         \A e \in Event : event[e].state = "committed" => event'[e] = event[e]
  PROVE  ReadersFollow' /\ ReceiptsKept'
  <1>1. \A r \in Run : Committed(r) \subseteq Committed(r)'
    BY DEF Committed
  <1>2. \A r \in Run : \A e \in Committed(r) : event'[e] = event[e]
    BY DEF Committed
  <1>3. \A r \in Run : received[r] \in Seq(Event) /\ Spent(r) \in Nat
    BY DEF IInv, TypeOK, CountersLocked
  <1>4. ReadersFollow'
    BY <1>1, <1>2, <1>3 DEF IInv, ReadersFollow
  <1>5. \A p \in Publisher : pub[p].step # "idle" => pub[p].message \in Event
    BY DEF IInv, TypeOK, PublisherState
  <1>6. ReceiptsKept'
    BY <1>5 DEF IInv, ReceiptsKept
  <1> QED
    BY <1>4, <1>6
-----------------------------------------------------------------------------
(* The row of a transaction after BEGIN and after an append.               *)
LEMMA BegunRow ==
  ASSUME TypeOK, NEW t \in Tx, NEW n \in Nat,
         txn' = [txn EXCEPT ![t].status = "open", ![t].start = n]
  PROVE  /\ txn' \in [Tx -> TxnRow]
         /\ txn'[t].status = "open"
         /\ txn'[t].run = txn[t].run /\ txn'[t].appended = txn[t].appended
         /\ \A u \in Tx \ {t} : txn'[u] = txn[u]
  <1> DEFINE row == [txn[t] EXCEPT !.status = "open"]
  <1>1. txn[t] \in TxnRow
    BY DEF TypeOK
  <1>2. row \in TxnRow /\ row.status = "open" /\ row.run = txn[t].run /\ row.appended = txn[t].appended
    BY <1>1 DEF TxnRow
  <1>3. txn' = [txn EXCEPT ![t] = [row EXCEPT !.start = n]]
    BY DEF TypeOK
  <1> HIDE DEF row
  <1>4. /\ [row EXCEPT !.start = n] \in TxnRow
        /\ [row EXCEPT !.start = n].status = row.status
        /\ [row EXCEPT !.start = n].run = row.run
        /\ [row EXCEPT !.start = n].appended = row.appended
    BY <1>2 DEF TxnRow
  <1> QED
    BY <1>2, <1>3, <1>4 DEF TypeOK

(* An append changes run and count of its own transaction only.            *)
LEMMA AppendedRow ==
  ASSUME TypeOK, NEW t \in Tx, NEW r \in Run, NEW k \in 0..MaxAppends,
         txn' = [txn EXCEPT ![t].run = r, ![t].appended = k]
  PROVE  /\ txn' \in [Tx -> TxnRow]
         /\ txn'[t].status = txn[t].status
         /\ txn'[t].run = r /\ txn'[t].appended = k
         /\ \A u \in Tx \ {t} : txn'[u] = txn[u]
  <1> DEFINE row == [txn[t] EXCEPT !.run = r]
  <1>1. txn[t] \in TxnRow
    BY DEF TypeOK
  <1>2. row \in TxnRow /\ row.status = txn[t].status /\ row.run = r
    BY <1>1 DEF TxnRow
  <1>3. txn' = [txn EXCEPT ![t] = [row EXCEPT !.appended = k]]
    BY DEF TypeOK
  <1> HIDE DEF row
  <1>4. /\ [row EXCEPT !.appended = k] \in TxnRow
        /\ [row EXCEPT !.appended = k].status = row.status
        /\ [row EXCEPT !.appended = k].run = row.run
        /\ [row EXCEPT !.appended = k].appended = k
    BY <1>2 DEF TxnRow
  <1> QED
    BY <1>2, <1>3, <1>4 DEF TypeOK

(* A transaction begins without events.                                    *)
LEMMA BeginStep ==
  ASSUME IInv, NEW t \in Tx, Begin(t)
  PROVE  IInv'
  <1> USE OutboxBounds DEF IInv
  <1>1. Cardinality(Started) + 1 \in Nat
    BY FS_CardinalityType DEF CountersLocked
  <1>2. /\ txn[t].status = "none"
        /\ UNCHANGED <<counter, holder, event, outbox, receipts, projection, pub, received, faults>>
    BY DEF Begin
  <1>3. /\ txn' \in [Tx -> TxnRow]
        /\ txn'[t].status = "open" /\ txn'[t].run = txn[t].run /\ txn'[t].appended = txn[t].appended
    BY <1>1, BegunRow DEF Begin
  <1>4. \A u \in Tx \ {t} : txn'[u] = txn[u]
    BY <1>1, BegunRow DEF Begin
  <1>5. TypeOK'
    BY <1>2, <1>3 DEF TypeOK
  <1>6. \A r \in Run : Spent(r)' = Spent(r) /\ Committed(r)' = Committed(r)
    BY <1>2, <1>3, <1>4 DEF Spent, Committed, TypeOK
  <1>7. txn[t].run = NoRun /\ txn[t].appended = 0
    BY <1>2 DEF CountersLocked
  <1>8. CountersLocked'
    <2>1. Started' = Started \cup {t}
      BY <1>3, <1>4 DEF Started
    <2>2. IsFiniteSet(Started')
      BY <2>1, FS_AddElement DEF CountersLocked
    <2>3. \A r \in Run : holder[r] # t
      BY <1>2 DEF CountersLocked
    <2>4. \A u \in Tx : /\ txn'[u].run = NoRun <=> txn'[u].appended = 0
                        /\ txn'[u].status = "none" => txn'[u].appended = 0
                        /\ txn'[u].status = "open" /\ txn'[u].run # NoRun => holder'[txn'[u].run] = u
      BY <1>2, <1>3, <1>4, <1>7 DEF CountersLocked
    <2>5. \A r \in Run : holder'[r] # NoTx => txn'[holder'[r]].status = "open" /\ txn'[holder'[r]].run = r
      BY <1>2, <1>4, <2>3 DEF CountersLocked, TypeOK
    <2> QED
      BY <1>6, <2>2, <2>4, <2>5 DEF CountersLocked
  <1>9. EventsOwned'
    <2>1. \A u \in Tx, k \in 1..MaxAppends : Owns(u, k)' <=> Owns(u, k)
      BY <1>2, <1>3, <1>4, <1>7 DEF Owns
    <2>2. \A k \in 1..MaxAppends : ~Owns(t, k)
      BY <1>2 DEF Owns
    <2> QED
      <3> SUFFICES ASSUME NEW u \in Tx, NEW k \in 1..MaxAppends
                   PROVE  OwnedEvent(u, k)'
        BY DEF EventsOwned
      <3>1. Owns(u, k)' => u # t
        BY <2>1, <2>2
      <3>2. Owns(u, k)' <=> Owns(u, k)
        BY <2>1
      <3> QED
        BY <1>2, <1>4, <1>6, <3>1, <3>2 DEF EventsOwned, OwnedEvent
  <1>10. NumbersSpent'
    BY <1>2, <1>6 DEF NumbersSpent
  <1>11. ReadersFollow' /\ ReceiptsKept'
    <2>1. \A r \in Run : Spent(r)' \in Nat /\ Spent(r) <= Spent(r)'
      BY <1>6 DEF CountersLocked
    <2> QED
      BY <1>2, <2>1, ReadersUntouched
  <1> QED
    BY <1>5, <1>8, <1>9, <1>10, <1>11

(* An append takes the next number under the lock of the counter.          *)
LEMMA AppendStep ==
  ASSUME IInv, NEW t \in Tx, NEW r \in Run, AppendEvent(t, r)
  PROVE  IInv'
  <1> USE OutboxBounds DEF IInv
  <1>0. txn[t] \in TxnRow /\ txn[t].appended \in 0..MaxAppends /\ counter[r] \in Nat
    BY DEF TypeOK, TxnRow
  <1>k. PICK k \in Nat : k = txn[t].appended + 1
    BY <1>0
  <1> DEFINE fresh == [state |-> "pending", run |-> r, seq |-> counter[r]]
  <1>1. /\ k \in 1..MaxAppends /\ k \in 0..MaxAppends /\ <<t, k>> \in Event /\ counter[r] \in Nat
        /\ txn[t].appended = k - 1
    <2>1. k <= MaxAppends
      BY <1>k DEF AppendEvent
    <2> QED
      BY <1>0, <1>k, <2>1 DEF Event
  <1>2. /\ txn[t].status = "open" /\ txn[t].run \in {NoRun, r} /\ holder[r] \in {NoTx, t}
        /\ holder' = [holder EXCEPT ![r] = t]
        /\ counter' = [counter EXCEPT ![r] = @ + 1]
        /\ event' = [event EXCEPT ![<<t, k>>] = fresh]
        /\ UNCHANGED <<outbox, receipts, projection, pub, received, faults>>
    BY <1>k DEF AppendEvent, CounterFree
  <1>3. txn' = [txn EXCEPT ![t].run = r, ![t].appended = k]
    BY <1>k DEF AppendEvent
  <1>4. /\ txn' \in [Tx -> TxnRow]
        /\ txn'[t].status = "open" /\ txn'[t].run = r /\ txn'[t].appended = k
        /\ \A u \in Tx \ {t} : txn'[u] = txn[u]
    <2>1. txn'[t].status = txn[t].status /\ txn' \in [Tx -> TxnRow] /\ txn'[t].run = r
            /\ txn'[t].appended = k /\ \A u \in Tx \ {t} : txn'[u] = txn[u]
      BY <1>1, <1>3, AppendedRow
    <2> QED
      BY <1>2, <2>1, Zenon
  <1>5. fresh \in EventRow /\ fresh.state = "pending" /\ fresh.run = r /\ fresh.seq = counter[r]
    BY <1>1 DEF EventRow
  <1> HIDE DEF fresh
  <1>6. TypeOK'
    <2>1. event' \in [Event -> EventRow]
      BY <1>2, <1>5 DEF TypeOK
    <2>2. counter' \in [Run -> Nat] /\ holder' \in [Run -> Tx \cup {NoTx}]
      BY <1>2 DEF TypeOK
    <2> QED
      BY <1>2, <1>4, <2>1, <2>2 DEF TypeOK
  <1>7. txn[t].run = NoRun \/ (txn[t].run = r /\ holder[r] = t)
    BY <1>2 DEF CountersLocked
  <1>8. holder[r] = t \/ (holder[r] = NoTx /\ txn[t].run = NoRun)
    BY <1>2, <1>7
  <1>9. txn[t].run = NoRun => k = 1 /\ holder[r] = NoTx
    BY <1>0, <1>1, <1>2 DEF CountersLocked
  <1>10. Spent(r) = counter[r] - k /\ Spent(r)' = Spent(r)
    <2>1. counter'[r] = counter[r] + 1 /\ holder'[r] = t
      BY <1>2 DEF TypeOK
    <2>2. Spent(r) = counter[r] - k
      BY <1>1, <1>8, <1>9 DEF Spent
    <2> QED
      BY <1>1, <1>4, <2>1, <2>2 DEF Spent
  <1>11. \A q \in Run \ {r} : holder[q] # t
    BY <1>2, <1>9 DEF CountersLocked
  <1>12. \A q \in Run : Spent(q)' = Spent(q)
    <2> SUFFICES ASSUME NEW q \in Run, q # r PROVE Spent(q)' = Spent(q)
      BY <1>10
    <2>1. /\ counter'[q] = counter[q] /\ holder'[q] = holder[q]
          /\ holder[q] \in Tx \cup {NoTx} /\ holder[q] # t
      BY <1>2, <1>11 DEF TypeOK
    <2> QED
      BY <1>4, <2>1 DEF Spent
  <1>13. event[<<t, k>>] = Absent
    BY <1>1 DEF EventsOwned, OwnedEvent, Owns
  <1>14. \A e \in Event : event'[e] = IF e = <<t, k>> THEN fresh ELSE event[e]
    BY <1>2 DEF TypeOK
  <1>15. \A e \in Event : event[e].state = "committed" => event'[e] = event[e]
    BY <1>13, <1>14 DEF Absent
  <1>16. \A q \in Run : Committed(q)' = Committed(q)
    BY <1>5, <1>13, <1>14 DEF Absent, Committed
  <1>17. CountersLocked'
    <2>1. Started' = Started
      BY <1>2, <1>4 DEF Started
    <2>2. \A u \in Tx : /\ txn'[u].run = NoRun <=> txn'[u].appended = 0
                        /\ txn'[u].status = "none" => txn'[u].appended = 0
      BY <1>1, <1>4 DEF CountersLocked
    <2>3. \A u \in Tx : txn'[u].status = "open" /\ txn'[u].run # NoRun => holder'[txn'[u].run] = u
      <3> SUFFICES ASSUME NEW u \in Tx, txn'[u].status = "open", txn'[u].run # NoRun
                   PROVE  holder'[txn'[u].run] = u
        OBVIOUS
      <3>1. txn'[u].run \in Run
        BY <1>4 DEF TxnRow
      <3>2. u # t => holder[txn[u].run] = u /\ txn[u].run # r
        BY <1>2, <1>4 DEF CountersLocked
      <3> QED
        BY <1>2, <1>4, <3>1, <3>2 DEF TypeOK
    <2>4. \A q \in Run : holder'[q] # NoTx => txn'[holder'[q]].status = "open" /\ txn'[holder'[q]].run = q
      BY <1>2, <1>4, <1>11 DEF CountersLocked, TypeOK
    <2> QED
      BY <1>12, <2>1, <2>2, <2>3, <2>4 DEF CountersLocked
  <1>18. EventsOwned'
    <2> SUFFICES ASSUME NEW u \in Tx, NEW j \in 1..MaxAppends
                 PROVE  OwnedEvent(u, j)'
      BY DEF EventsOwned
    <2>1. <<u, j>> \in Event
      BY DEF Event
    <2>2. CASE u # t
      <3>1. event'[<<u, j>>] = event[<<u, j>>] /\ txn'[u] = txn[u] /\ (Owns(u, j)' <=> Owns(u, j))
        BY <1>4, <1>14, <2>1, <2>2 DEF Owns
      <3>2. \A q \in Run : holder'[q] = u => holder[q] = u
        BY <1>2, <2>2 DEF TypeOK
      <3> QED
        BY <1>12, <3>1, <3>2 DEF EventsOwned, OwnedEvent
    <2>3. CASE u = t /\ j = k
      <3>1. Owns(u, j)' /\ event'[<<u, j>>] = fresh
        BY <1>1, <1>4, <1>14, <2>1, <2>3 DEF Owns
      <3>2. \A q \in Run : holder'[q] = t => q = r
        BY <1>2, <1>11 DEF TypeOK
      <3>3. Spent(r)' + k = counter[r]
        BY <1>1, <1>10
      <3> QED
        BY <1>4, <1>5, <2>3, <3>1, <3>2, <3>3 DEF OwnedEvent
    <2>4. CASE u = t /\ j # k
      <3>1. event'[<<u, j>>] = event[<<u, j>>]
        BY <1>14, <2>1, <2>4
      <3>2. Owns(t, j)' <=> Owns(t, j)
        BY <1>1, <1>2, <1>4, <2>4 DEF Owns
      <3>3. Owns(t, j) => txn[t].run = r /\ holder[r] = t
        BY <1>1, <1>7, <1>9 DEF Owns
      <3>4. \A q \in Run : holder'[q] = t => q = r
        BY <1>2, <1>11 DEF TypeOK
      <3> QED
        BY <1>2, <1>4, <1>12, <2>4, <3>1, <3>2, <3>3, <3>4 DEF EventsOwned, OwnedEvent
    <2> QED
      BY <2>2, <2>3, <2>4
  <1>19. NumbersSpent'
    <2>1. \A q \in Run : \A e \in Committed(q) : event'[e] = event[e]
      BY <1>15 DEF Committed
    <2> QED
      BY <1>12, <1>16, <2>1 DEF NumbersSpent
  <1>20. ReadersFollow' /\ ReceiptsKept'
    <2>1. \A q \in Run : Spent(q)' \in Nat /\ Spent(q) <= Spent(q)'
      BY <1>12 DEF CountersLocked
    <2> QED
      BY <1>2, <1>15, <2>1, ReadersUntouched
  <1> QED
    BY <1>6, <1>17, <1>18, <1>19, <1>20

(* An event is named by its transaction and its place in it.               *)
LEMMA EventPair ==
  /\ \A e \in Event : e = <<e[1], e[2]>> /\ e[1] \in Tx /\ e[2] \in 1..MaxAppends
  /\ \A t \in Tx, k \in 1..MaxAppends : <<t, k>> \in Event
  BY DEF Event

(* What an open transaction holds and has appended.                        *)
LEMMA OpenTxn ==
  ASSUME IInv, NEW t \in Tx, txn[t].status = "open"
  PROVE  /\ txn[t].appended \in 0..MaxAppends
         /\ \A r \in Run : txn[t].run = r <=> holder[r] = t
         /\ \A r \in Run : holder[r] = t =>
              Spent(r) = counter[r] - 1 - txn[t].appended /\ txn[t].appended # 0
         /\ \A k \in 1..MaxAppends :
              IF k <= txn[t].appended
                THEN event[<<t, k>>].state = "pending" /\ event[<<t, k>>].run = txn[t].run
                ELSE event[<<t, k>>] = Absent
  <1> USE OutboxBounds DEF IInv
  <1>1. txn[t].appended \in 0..MaxAppends
    BY DEF TypeOK, TxnRow
  <1>2. \A r \in Run : txn[t].run = r <=> holder[r] = t
    BY DEF CountersLocked
  <1>3. \A r \in Run : holder[r] = t =>
          Spent(r) = counter[r] - 1 - txn[t].appended /\ txn[t].appended # 0
    BY <1>2 DEF Spent, CountersLocked
  <1>4. \A k \in 1..MaxAppends : Owns(t, k) <=> k <= txn[t].appended
    BY DEF Owns
  <1> QED
    BY <1>1, <1>2, <1>3, <1>4 DEF EventsOwned, OwnedEvent

(* The end of a transaction, as far as locks go.                           *)
LEMMA Ended ==
  ASSUME IInv, NEW t \in Tx, NEW x \in {"committed", "aborted"}, txn[t].status = "open",
         txn' = [txn EXCEPT ![t].status = x], ReleaseCounter(t)
  PROVE  /\ txn' \in [Tx -> TxnRow]
         /\ txn'[t].status = x /\ txn'[t].run = txn[t].run /\ txn'[t].appended = txn[t].appended
         /\ \A u \in Tx \ {t} : txn'[u] = txn[u]
         /\ holder' \in [Run -> Tx \cup {NoTx}]
         /\ \A r \in Run : holder'[r] = IF holder[r] = t THEN NoTx ELSE holder[r]
         /\ (\A r \in Run : Spent(r)' \in Nat) => CountersLocked'
  <1> USE OutboxBounds DEF IInv
  <1>1. txn' \in [Tx -> TxnRow]
    BY DEF TypeOK, TxnRow
  <1>2. /\ txn'[t].status = x /\ txn'[t].run = txn[t].run /\ txn'[t].appended = txn[t].appended
        /\ \A u \in Tx \ {t} : txn'[u] = txn[u]
    BY DEF TypeOK, TxnRow
  <1>3. /\ holder' \in [Run -> Tx \cup {NoTx}]
        /\ \A r \in Run : holder'[r] = IF holder[r] = t THEN NoTx ELSE holder[r]
    BY DEF ReleaseCounter, TypeOK
  <1>4. ASSUME \A r \in Run : Spent(r)' \in Nat PROVE CountersLocked'
    <2>1. Started' = Started
      BY <1>2 DEF Started
    <2>2. \A u \in Tx : /\ txn'[u].run = NoRun <=> txn'[u].appended = 0
                        /\ txn'[u].status = "none" => txn'[u].appended = 0
      BY <1>2 DEF CountersLocked
    <2>3. \A u \in Tx : txn'[u].status = "open" /\ txn'[u].run # NoRun => holder'[txn'[u].run] = u
      <3> SUFFICES ASSUME NEW u \in Tx, txn'[u].status = "open", txn'[u].run # NoRun
                   PROVE  holder'[txn'[u].run] = u
        OBVIOUS
      <3>1. txn'[u].run \in Run
        BY <1>1 DEF TxnRow
      <3>2. u # t /\ holder[txn[u].run] = u
        BY <1>2 DEF CountersLocked
      <3> QED
        BY <1>2, <1>3, <3>1, <3>2
    <2>4. \A q \in Run : holder'[q] # NoTx => txn'[holder'[q]].status = "open" /\ txn'[holder'[q]].run = q
      BY <1>2, <1>3 DEF CountersLocked, TypeOK
    <2> QED
      BY <1>4, <2>1, <2>2, <2>3, <2>4 DEF CountersLocked
  <1> QED
    BY <1>1, <1>2, <1>3, <1>4

(* A rollback gives the numbers back with the lock.                        *)
LEMMA RollbackStep ==
  ASSUME IInv, NEW t \in Tx, Rollback(t)
  PROVE  IInv'
  <1> USE OutboxBounds DEF IInv
  <1> DEFINE n == txn[t].appended
  <1>1. /\ txn[t].status = "open" /\ txn' = [txn EXCEPT ![t].status = "aborted"]
        /\ ReleaseCounter(t)
        /\ event' = [e \in Event |-> IF e[1] = t THEN Absent ELSE event[e]]
        /\ UNCHANGED <<outbox, receipts, projection, pub, received, faults>>
    BY DEF Rollback
  <1>2. \A r \in Run : counter'[r] = IF holder[r] = t THEN counter[r] - n ELSE counter[r]
    BY <1>1, OpenTxn DEF Rollback, RestoredCounter
  <1>3. /\ txn' \in [Tx -> TxnRow]
        /\ txn'[t].status = "aborted" /\ txn'[t].run = txn[t].run /\ txn'[t].appended = n
        /\ \A u \in Tx \ {t} : txn'[u] = txn[u]
        /\ holder' \in [Run -> Tx \cup {NoTx}]
        /\ \A r \in Run : holder'[r] = IF holder[r] = t THEN NoTx ELSE holder[r]
        /\ (\A r \in Run : Spent(r)' \in Nat) => CountersLocked'
    BY <1>1, Ended
  <1>4. n \in Nat /\ \A r \in Run : /\ counter[r] \in Nat /\ Spent(r) \in Nat
                                    /\ holder[r] = t => Spent(r) = counter[r] - 1 - n
    BY <1>1, OpenTxn DEF TypeOK, CountersLocked
  <1> HIDE DEF n
  <1>5. \A r \in Run : Spent(r)' = Spent(r)
    <2> SUFFICES ASSUME NEW r \in Run PROVE Spent(r)' = Spent(r)
      OBVIOUS
    <2>1. CASE holder[r] = t
      <3>1. Spent(r)' = counter[r] - n - 1
        BY <1>2, <1>3, <1>4, <2>1 DEF Spent
      <3> QED
        BY <1>4, <2>1, <3>1
    <2>2. CASE holder[r] # t
      <3>1. holder'[r] = holder[r] /\ counter'[r] = counter[r] /\ holder[r] \in Tx \cup {NoTx}
        BY <1>2, <1>3, <2>2 DEF TypeOK
      <3> QED
        BY <1>3, <2>2, <3>1 DEF Spent
    <2> QED
      BY <2>1, <2>2
  <1>6. CountersLocked'
    BY <1>3, <1>4, <1>5
  <1>7. TypeOK'
    <2>1. counter' \in [Run -> Nat]
      <3>1. \A r \in Run : counter'[r] \in Nat
        BY <1>2, <1>4
      <3>2. counter' = [r \in Run |-> counter'[r]]
        BY DEF Rollback, RestoredCounter
      <3> QED
        BY <3>1, <3>2
    <2>2. event' \in [Event -> EventRow]
      <3>1. Absent \in EventRow
        BY DEF Absent, EventRow
      <3> QED
        BY <1>1, <3>1 DEF TypeOK
    <2> QED
      BY <1>1, <1>3, <2>1, <2>2 DEF TypeOK
  <1>8. \A e \in Event : event[e].state = "committed" => e[1] # t
    <2> SUFFICES ASSUME NEW e \in Event, e[1] = t PROVE event[e].state # "committed"
      OBVIOUS
    <2>1. e = <<t, e[2]>> /\ e[2] \in 1..MaxAppends
      BY EventPair
    <2> QED
      BY <1>1, <2>1, OpenTxn DEF Absent
  <1>9. \A e \in Event : event[e].state = "committed" => event'[e] = event[e]
    BY <1>1, <1>8
  <1>10. \A r \in Run : Committed(r)' = Committed(r)
    BY <1>1, <1>8 DEF Committed, Absent
  <1>11. EventsOwned'
    <2> SUFFICES ASSUME NEW u \in Tx, NEW k \in 1..MaxAppends
                 PROVE  OwnedEvent(u, k)'
      BY DEF EventsOwned
    <2>1. <<u, k>> \in Event /\ <<u, k>>[1] = u
      BY EventPair
    <2>2. CASE u = t
      <3>1. ~Owns(u, k)' /\ event'[<<u, k>>] = Absent
        BY <1>1, <1>3, <2>1, <2>2 DEF Owns
      <3> QED
        BY <3>1 DEF OwnedEvent, Absent
    <2>3. CASE u # t
      <3>1. event'[<<u, k>>] = event[<<u, k>>] /\ txn'[u] = txn[u] /\ (Owns(u, k)' <=> Owns(u, k))
        BY <1>1, <1>3, <2>1, <2>3 DEF Owns
      <3>2. \A q \in Run : holder'[q] = u => holder[q] = u
        BY <1>3
      <3> QED
        BY <1>5, <3>1, <3>2 DEF EventsOwned, OwnedEvent, Absent
    <2> QED
      BY <2>2, <2>3
  <1>12. NumbersSpent'
    <2>1. \A q \in Run : \A e \in Committed(q) : event'[e] = event[e]
      BY <1>9 DEF Committed
    <2> QED
      BY <1>5, <1>10, <2>1 DEF NumbersSpent
  <1>13. ReadersFollow' /\ ReceiptsKept'
    <2>1. \A q \in Run : Spent(q)' \in Nat /\ Spent(q) <= Spent(q)'
      BY <1>4, <1>5
    <2> QED
      BY <1>1, <1>9, <2>1, ReadersUntouched
  <1> QED
    BY <1>6, <1>7, <1>11, <1>12, <1>13

(* What a commit makes visible: the events of the transaction, after those *)
(* that were visible.                                                      *)
LEMMA CommitEffect ==
  ASSUME IInv, NEW t \in Tx, Commit(t)
  PROVE  /\ TypeOK' /\ CountersLocked' /\ EventsOwned'
         /\ \A r \in Run : Spent(r)' = IF holder[r] = t THEN Spent(r) + txn[t].appended ELSE Spent(r)
         /\ \A e \in Event : event[e].state = "committed" => event'[e] = event[e]
         /\ \A r \in Run : Committed(r) \subseteq Committed(r)'
         /\ \A r \in Run : \A e \in Committed(r)' :
              e \in Committed(r) \/ (holder[r] = t /\ \E k \in 1..txn[t].appended : e = <<t, k>>)
         /\ \A r \in Run : holder[r] = t =>
              \A k \in 1..txn[t].appended :
                <<t, k>> \in Committed(r)' /\ event'[<<t, k>>].seq = Spent(r) + k
  <1> USE OutboxBounds DEF IInv
  <1>1. /\ txn[t].status = "open" /\ txn' = [txn EXCEPT ![t].status = "committed"]
        /\ ReleaseCounter(t)
        /\ UNCHANGED <<counter, outbox, receipts, projection, pub, received, faults>>
    BY DEF Commit
  <1>n. PICK n \in 0..MaxAppends : n = txn[t].appended
    BY <1>1, OpenTxn
  <1>2. \A e \in Event : event'[e] = IF e[1] = t /\ event[e].state = "pending"
                                       THEN [event[e] EXCEPT !.state = "committed"] ELSE event[e]
    BY DEF Commit
  <1>3. /\ txn' \in [Tx -> TxnRow]
        /\ txn'[t].status = "committed" /\ txn'[t].run = txn[t].run /\ txn'[t].appended = n
        /\ \A u \in Tx \ {t} : txn'[u] = txn[u]
        /\ holder' \in [Run -> Tx \cup {NoTx}]
        /\ \A r \in Run : holder'[r] = IF holder[r] = t THEN NoTx ELSE holder[r]
        /\ (\A r \in Run : Spent(r)' \in Nat) => CountersLocked'
    BY <1>1, <1>n, Ended
  <1>4. \A r \in Run : /\ counter[r] \in Nat /\ Spent(r) \in Nat
                       /\ holder[r] = t => Spent(r) = counter[r] - 1 - n /\ txn[t].run = r
    BY <1>1, <1>n, OpenTxn DEF TypeOK, CountersLocked
  <1>5. ASSUME NEW r \in Run PROVE Spent(r)' = IF holder[r] = t THEN Spent(r) + n ELSE Spent(r)
    <2>1. CASE holder[r] = t
      <3>1. Spent(r)' = counter[r] - 1
        BY <1>1, <1>3, <1>4, <2>1 DEF Spent
      <3> QED
        BY <1>4, <2>1, <3>1
    <2>2. CASE holder[r] # t
      <3>1. holder'[r] = holder[r] /\ counter'[r] = counter[r] /\ holder[r] \in Tx \cup {NoTx}
        BY <1>1, <1>3, <2>2 DEF TypeOK
      <3> QED
        BY <1>3, <2>2, <3>1 DEF Spent
    <2> QED
      BY <2>1, <2>2
  <1>6. CountersLocked'
    BY <1>3, <1>4, <1>5
  <1>7. \A e \in Event : event[e] \in EventRow /\ event'[e] \in EventRow
                           /\ event'[e].run = event[e].run /\ event'[e].seq = event[e].seq
    BY <1>2 DEF TypeOK, EventRow
  <1>8. TypeOK'
    <2>1. event' \in [Event -> EventRow]
      BY <1>7 DEF Commit
    <2> QED
      BY <1>1, <1>3, <2>1 DEF TypeOK
  <1>9. \A e \in Event : event[e].state = "committed" => event'[e] = event[e]
    BY <1>2
  <1>10. ASSUME NEW k \in 1..MaxAppends
         PROVE  IF k <= n THEN event'[<<t, k>>].state = "committed" /\ event[<<t, k>>].run = txn[t].run
                          ELSE event'[<<t, k>>] = Absent
    <2>1. <<t, k>> \in Event /\ <<t, k>>[1] = t
      BY EventPair
    <2>2. IF k <= n THEN event[<<t, k>>].state = "pending" /\ event[<<t, k>>].run = txn[t].run
                    ELSE event[<<t, k>>] = Absent
      BY <1>1, <1>n, OpenTxn
    <2>3. CASE k <= n
      BY <1>2, <1>7, <2>1, <2>2, <2>3 DEF EventRow
    <2>4. CASE ~(k <= n)
      <3>1. event[<<t, k>>] = Absent /\ event[<<t, k>>].state # "pending"
        BY <2>2, <2>4 DEF Absent
      <3>2. event'[<<t, k>>] = event[<<t, k>>]
        BY <1>2, <2>1, <3>1
      <3> QED
        BY <2>4, <3>1, <3>2
    <2> QED
      BY <2>3, <2>4
  <1>11. \A e \in Event : e[1] # t => event'[e] = event[e]
    BY <1>2
  <1>12. EventsOwned'
    <2> SUFFICES ASSUME NEW u \in Tx, NEW k \in 1..MaxAppends
                 PROVE  OwnedEvent(u, k)'
      BY DEF EventsOwned
    <2>1. <<u, k>> \in Event /\ <<u, k>>[1] = u
      BY EventPair
    <2>2. CASE u = t
      <3>1. Owns(u, k)' <=> k <= n
        BY <1>3, <2>2 DEF Owns
      <3>2. \A q \in Run : holder'[q] # u
        BY <1>3, <2>2
      <3>3. event'[<<u, k>>].run = event[<<u, k>>].run
        BY <1>7, <2>1
      <3> QED
        BY <1>3, <1>10, <2>2, <3>1, <3>2, <3>3 DEF OwnedEvent, Absent
    <2>3. CASE u # t
      <3>1. event'[<<u, k>>] = event[<<u, k>>] /\ txn'[u] = txn[u] /\ (Owns(u, k)' <=> Owns(u, k))
        BY <1>3, <1>11, <2>1, <2>3 DEF Owns
      <3>2. \A q \in Run : holder'[q] = u => holder[q] = u /\ Spent(q)' = Spent(q)
        BY <1>3, <1>5, <2>3
      <3> QED
        BY <3>1, <3>2 DEF EventsOwned, OwnedEvent, Absent
    <2> QED
      BY <2>2, <2>3
  <1>13. \A r \in Run : Committed(r) \subseteq Committed(r)'
    BY <1>9 DEF Committed
  <1>14. ASSUME NEW r \in Run, NEW e \in Committed(r)'
         PROVE  e \in Committed(r) \/ (holder[r] = t /\ \E k \in 1..n : e = <<t, k>>)
    <2>1. e \in Event /\ event'[e].state = "committed" /\ event'[e].run = r
      BY DEF Committed
    <2>2. CASE e[1] # t
      BY <1>11, <2>1, <2>2 DEF Committed
    <2>3. CASE e[1] = t
      <3>1. e = <<t, e[2]>> /\ e[2] \in 1..MaxAppends
        BY <2>1, <2>3, EventPair
      <3>2. e[2] <= n /\ event[e].run = txn[t].run
        BY <1>10, <2>1, <3>1 DEF Absent
      <3>3. txn[t].run = r
        BY <1>7, <2>1, <3>2
      <3>4. holder[r] = t
        BY <1>1, <3>3, OpenTxn
      <3> QED
        BY <3>1, <3>2, <3>4
    <2> QED
      BY <2>2, <2>3
  <1>15. ASSUME NEW r \in Run, holder[r] = t, NEW k \in 1..n
         PROVE  <<t, k>> \in Committed(r)' /\ event'[<<t, k>>].seq = Spent(r) + k
    <2>1. k \in 1..MaxAppends /\ <<t, k>> \in Event /\ k <= n
      BY EventPair
    <2>2. event'[<<t, k>>].state = "committed" /\ event'[<<t, k>>].run = r
      BY <1>4, <1>7, <1>10, <1>15, <2>1
    <2>3. event[<<t, k>>].seq = Spent(r) + k
      <3>1. Owns(t, k)
        BY <1>1, <1>n, <2>1 DEF Owns
      <3> QED
        BY <1>15, <2>1, <3>1 DEF EventsOwned, OwnedEvent
    <2> QED
      BY <1>7, <2>1, <2>2, <2>3 DEF Committed
  <1> QED
    BY <1>n, <1>5, <1>6, <1>8, <1>9, <1>12, <1>13, <1>14, <1>15

(* A commit makes the events visible and their numbers spent.              *)
LEMMA CommitStep ==
  ASSUME IInv, NEW t \in Tx, Commit(t)
  PROVE  IInv'
  <1> USE DEF IInv
  <1>1. TypeOK' /\ CountersLocked' /\ EventsOwned'
    BY CommitEffect
  <1>n. PICK n \in 0..MaxAppends : n = txn[t].appended
    BY OpenTxn DEF Commit
  <1>2. NumbersSpent'
    <2> SUFFICES ASSUME NEW r \in Run
                 PROVE  /\ \A e \in Committed(r)' : event'[e].seq \in 1..Spent(r)'
                        /\ \A d, e \in Committed(r)' : event'[d].seq = event'[e].seq => d = e
                        /\ \A m \in 1..Spent(r)' : \E e \in Committed(r)' : event'[e].seq = m
      BY DEF NumbersSpent
    <2>s. PICK c \in Nat : c = Spent(r)
      BY DEF CountersLocked
    <2>0. /\ \A e \in Committed(r) : event[e].seq \in 1..c
          /\ \A d, e \in Committed(r) : event[d].seq = event[e].seq => d = e
          /\ \A m \in 1..c : \E e \in Committed(r) : event[e].seq = m
      BY <2>s DEF NumbersSpent
    <2>1. \A e \in Committed(r) : e \in Committed(r)' /\ event'[e] = event[e]
      BY CommitEffect DEF Committed
    <2>2. CASE holder[r] # t
      <3>1. \A e \in Committed(r)' : e \in Committed(r)
        BY <2>2, CommitEffect
      <3>2. Spent(r)' = c
        BY <2>s, <2>2, CommitEffect
      <3> QED
        BY <2>0, <2>1, <3>1, <3>2
    <2>3. CASE holder[r] = t
      <3>1. \A e \in Committed(r)' : e \in Committed(r) \/ \E k \in 1..n : e = <<t, k>>
        BY <1>n, CommitEffect
      <3>2. \A k \in 1..n : <<t, k>> \in Committed(r)' /\ event'[<<t, k>>].seq = c + k
        BY <1>n, <2>s, <2>3, CommitEffect
      <3>3. Spent(r)' = c + n
        BY <1>n, <2>s, <2>3, CommitEffect
      <3>4. \A e \in Committed(r)' : event'[e].seq \in 1..(c + n)
        BY <2>0, <2>1, <3>1, <3>2
      <3>5. ASSUME NEW d \in Committed(r)', NEW e \in Committed(r)', event'[d].seq = event'[e].seq
            PROVE  d = e
        <4>1. CASE d \in Committed(r) /\ e \in Committed(r)
          BY <2>0, <2>1, <3>5, <4>1
        <4>2. CASE d \in Committed(r) /\ \E k \in 1..n : e = <<t, k>>
          BY <2>0, <2>1, <3>2, <3>5, <4>2
        <4>3. CASE e \in Committed(r) /\ \E k \in 1..n : d = <<t, k>>
          BY <2>0, <2>1, <3>2, <3>5, <4>3
        <4>4. ASSUME NEW k \in 1..n, NEW j \in 1..n, d = <<t, k>>, e = <<t, j>> PROVE d = e
          <5>1. c + k = c + j
            BY <3>2, <3>5, <4>4
          <5>2. k = j
            BY <5>1
          <5> QED
            BY <4>4, <5>2
        <4> QED
          BY <3>1, <4>1, <4>2, <4>3, <4>4
      <3>6. ASSUME NEW m \in 1..(c + n) PROVE \E e \in Committed(r)' : event'[e].seq = m
        <4>1. CASE m <= c
          BY <2>0, <2>1, <4>1
        <4>2. CASE ~(m <= c)
          <5>1. m - c \in 1..n /\ c + (m - c) = m
            BY <4>2
          <5> QED
            BY <3>2, <5>1
        <4> QED
          BY <4>1, <4>2
      <3> QED
        BY <3>3, <3>4, <3>5, <3>6
    <2> QED
      BY <2>2, <2>3
  <1>3. ReadersFollow' /\ ReceiptsKept'
    <2>1. \A r \in Run : Spent(r)' \in Nat /\ Spent(r) <= Spent(r)'
      <3>1. \A r \in Run : Spent(r) \in Nat
        BY DEF CountersLocked
      <3>2. \A r \in Run : Spent(r)' = IF holder[r] = t THEN Spent(r) + n ELSE Spent(r)
        BY <1>n, CommitEffect
      <3> QED
        BY <3>1, <3>2
    <2>2. \A e \in Event : event[e].state = "committed" => event'[e] = event[e]
      BY CommitEffect
    <2>3. UNCHANGED <<outbox, receipts, projection, pub, received>>
      BY DEF Commit
    <2> QED
      BY <2>1, <2>2, <2>3, ReadersUntouched
  <1> QED
    BY <1>1, <1>2, <1>3
-----------------------------------------------------------------------------
(* Steps of a publisher: the log and its readers do not notice.            *)
LEMMA PublisherStep ==
  ASSUME IInv, UNCHANGED <<txn, counter, holder, event, received>>, TypeOK', ReceiptsKept'
  PROVE  IInv'
  <1>1. /\ CountersLocked' /\ EventsOwned' /\ NumbersSpent'
        /\ \A r \in Run : Spent(r)' = Spent(r) /\ Committed(r)' = Committed(r)
    BY LogUntouched
  <1>2. ReadersFollow'
    BY <1>1 DEF IInv, ReadersFollow
  <1> QED
    BY <1>1, <1>2 DEF IInv

(* A publisher claims a visible message.                                   *)
LEMMA ClaimStep ==
  ASSUME IInv, NEW p \in Publisher, NEW e \in Event, Claim(p, e)
  PROVE  IInv'
  <1> USE OutboxBounds DEF IInv
  <1>1. outbox[e] \in MessageRow /\ outbox[e].attempts + 1 \in Nat
    BY DEF TypeOK, MessageRow
  <1>t. PICK token \in Nat : token = outbox[e].attempts + 1
    BY <1>1
  <1>2. /\ event[e].state = "committed"
        /\ outbox' = [outbox EXCEPT ![e] = [published |-> FALSE, token |-> token,
                                            expired |-> FALSE, attempts |-> token]]
        /\ pub' = [pub EXCEPT ![p] = [step |-> "consuming", message |-> e, token |-> token]]
        /\ UNCHANGED <<txn, counter, holder, event, receipts, projection, received, faults>>
    BY <1>t DEF Claim, Claimable
  <1>3. TypeOK'
    <2>1. outbox' \in [Event -> MessageRow]
      BY <1>2 DEF TypeOK, MessageRow
    <2>2. pub' \in [Publisher -> PublisherState]
      BY <1>2 DEF TypeOK, PublisherState
    <2>3. \A q \in Publisher : pub'[q].step = "idle" <=> pub'[q].message = NoMessage
      BY <1>2 DEF TypeOK, Event
    <2> QED
      BY <1>2, <2>1, <2>2, <2>3 DEF TypeOK
  <1>4. ReceiptsKept'
    BY <1>2 DEF ReceiptsKept, TypeOK
  <1> QED
    BY <1>2, <1>3, <1>4, PublisherStep

(* The row of a publisher that goes on to its acknowledgement, or stops.   *)
LEMMA PublisherRows ==
  ASSUME TypeOK, NEW p \in Publisher,
         \/ pub[p].step = "consuming" /\ pub' = [pub EXCEPT ![p].step = "acking"]
         \/ pub' = [pub EXCEPT ![p] = IdlePub]
  PROVE  /\ pub' \in [Publisher -> PublisherState]
         /\ \A q \in Publisher : pub'[q].step = "idle" <=> pub'[q].message = NoMessage
         /\ \A q \in Publisher \ {p} : pub'[q] = pub[q]
         /\ pub'[p].step # "idle" => pub'[p].message = pub[p].message /\ pub[p].step # "idle"
         /\ pub[p].step # "idle" => pub[p].message \in Event
  <1>1. CASE pub[p].step = "consuming" /\ pub' = [pub EXCEPT ![p].step = "acking"]
    BY <1>1 DEF TypeOK, PublisherState
  <1>2. CASE pub' = [pub EXCEPT ![p] = IdlePub]
    BY <1>2 DEF TypeOK, PublisherState, IdlePub, NoToken
  <1> QED
    BY <1>1, <1>2

(* It writes receipt and projection together, unless there is a receipt.   *)
LEMMA ConsumeStep ==
  ASSUME IInv, NEW p \in Publisher, Consume(p)
  PROVE  IInv'
  <1> USE DEF IInv
  <1>e. PICK e \in Event : e = pub[p].message
    BY DEF TypeOK, PublisherState, Consume
  <1>1. /\ pub[p].step = "consuming"
        /\ projection' = IF e \in receipts THEN projection ELSE Append(projection, e)
        /\ receipts' = receipts \cup {e}
        /\ pub' = [pub EXCEPT ![p].step = "acking"]
        /\ UNCHANGED <<txn, counter, holder, event, outbox, received, faults>>
    BY <1>e DEF Consume
  <1>2. /\ pub' \in [Publisher -> PublisherState]
        /\ \A q \in Publisher : pub'[q].step = "idle" <=> pub'[q].message = NoMessage
        /\ \A q \in Publisher \ {p} : pub'[q] = pub[q]
        /\ pub'[p].step # "idle" => pub'[p].message = e
    BY <1>e, <1>1, PublisherRows
  <1>3. projection \in Seq(Event) /\ receipts \subseteq Event
    BY DEF TypeOK
  <1>4. /\ projection' \in Seq(Event)
        /\ receipts' = {projection'[i] : i \in 1..Len(projection')}
        /\ \A i, j \in 1..Len(projection') : projection'[i] = projection'[j] => i = j
    <2>1. CASE e \in receipts
      <3>1. projection' = projection /\ receipts' = receipts
        BY <1>1, <2>1
      <3> QED
        BY <1>3, <3>1 DEF ReceiptsKept
    <2>2. CASE e \notin receipts
      <3>1. /\ projection' \in Seq(Event) /\ Len(projection') = Len(projection) + 1
            /\ \A i \in 1..Len(projection) : projection'[i] = projection[i]
            /\ projection'[Len(projection) + 1] = e
        BY <1>1, <1>3, <2>2, AppendProperties
      <3>2. Len(projection) \in Nat
        BY <1>3, LenProperties
      <3>3. \A i \in 1..Len(projection) : projection[i] \in receipts
        BY DEF ReceiptsKept
      <3>4. receipts' = {projection'[i] : i \in 1..Len(projection')}
        <4>1. \A i \in 1..Len(projection') : i \in 1..Len(projection) \/ i = Len(projection) + 1
          BY <3>1, <3>2
        <4>2. 1..Len(projection) \subseteq 1..Len(projection') /\ Len(projection) + 1 \in 1..Len(projection')
          BY <3>1, <3>2
        <4> QED
          BY <1>1, <3>1, <4>1, <4>2 DEF ReceiptsKept
      <3>5. \A i, j \in 1..Len(projection') : projection'[i] = projection'[j] => i = j
        BY <2>2, <3>1, <3>2, <3>3 DEF ReceiptsKept
      <3> QED
        BY <3>1, <3>4, <3>5
    <2> QED
      BY <2>1, <2>2
  <1>5. TypeOK'
    BY <1>1, <1>2, <1>3, <1>4 DEF TypeOK
  <1>6. ReceiptsKept'
    <2>1. \A f \in Event : outbox'[f].published => f \in receipts'
      BY <1>1 DEF ReceiptsKept
    <2>2. \A q \in Publisher : /\ pub'[q].step # "idle" => event'[pub'[q].message].state = "committed"
                               /\ pub'[q].step = "acking" => pub'[q].message \in receipts'
      BY <1>e, <1>1, <1>2 DEF ReceiptsKept
    <2> QED
      BY <1>4, <2>1, <2>2 DEF ReceiptsKept
  <1> QED
    BY <1>1, <1>5, <1>6, PublisherStep

(* An acknowledgement changes one message row, if any.                     *)
LEMMA AcknowledgeRows ==
  ASSUME TypeOK, NEW e \in Event,
         outbox' = [outbox EXCEPT ![e].published = TRUE, ![e].token = NoToken, ![e].expired = FALSE]
  PROVE  /\ outbox' \in [Event -> MessageRow]
         /\ \A f \in Event \ {e} : outbox'[f] = outbox[f]
  <1> DEFINE a == [outbox[e] EXCEPT !.published = TRUE]
             b == [a EXCEPT !.token = NoToken]
  <1>1. outbox[e] \in MessageRow
    BY DEF TypeOK
  <1>2. a \in MessageRow
    BY <1>1 DEF MessageRow
  <1>3. outbox' = [outbox EXCEPT ![e] = [b EXCEPT !.expired = FALSE]]
    BY DEF TypeOK
  <1> HIDE DEF a
  <1>4. b \in MessageRow
    BY <1>2 DEF MessageRow, NoToken
  <1> HIDE DEF b
  <1>5. [b EXCEPT !.expired = FALSE] \in MessageRow
    BY <1>4 DEF MessageRow
  <1> QED
    BY <1>3, <1>5 DEF TypeOK

(* It acknowledges a message with a receipt, unless its lease is gone.     *)
LEMMA AcknowledgeStep ==
  ASSUME IInv, NEW p \in Publisher, Acknowledge(p)
  PROVE  IInv'
  <1> USE DEF IInv
  <1>e. PICK e \in Event : e = pub[p].message
    BY DEF TypeOK, PublisherState, Acknowledge
  <1>1. /\ pub[p].step = "acking"
        /\ outbox' = [outbox EXCEPT ![e].published = TRUE, ![e].token = NoToken, ![e].expired = FALSE]
             \/ outbox' = outbox
        /\ pub' = [pub EXCEPT ![p] = IdlePub]
        /\ UNCHANGED <<txn, counter, holder, event, receipts, projection, received, faults>>
    BY <1>e DEF Acknowledge
  <1>2. /\ pub' \in [Publisher -> PublisherState]
        /\ \A q \in Publisher : pub'[q].step = "idle" <=> pub'[q].message = NoMessage
        /\ \A q \in Publisher \ {p} : pub'[q] = pub[q]
    BY <1>1, PublisherRows
  <1>3. pub'[p].step = "idle"
    BY <1>1 DEF TypeOK, IdlePub
  <1>4. outbox' \in [Event -> MessageRow] /\ \A f \in Event \ {e} : outbox'[f] = outbox[f]
    <2>1. CASE outbox' = outbox
      BY <2>1 DEF TypeOK
    <2> QED
      BY <1>1, <2>1, AcknowledgeRows
  <1>5. TypeOK'
    BY <1>1, <1>2, <1>4 DEF TypeOK
  <1>6. ReceiptsKept'
    BY <1>e, <1>1, <1>2, <1>3, <1>4 DEF ReceiptsKept
  <1> QED
    BY <1>1, <1>5, <1>6, PublisherStep

(* A publisher that dies leaves its lease behind.                          *)
LEMMA CrashStep ==
  ASSUME IInv, NEW p \in Publisher, Crash(p)
  PROVE  IInv'
  <1> USE OutboxBounds DEF IInv
  <1>1. /\ pub' = [pub EXCEPT ![p] = IdlePub] /\ faults' \in 0..MaxFaults
        /\ UNCHANGED <<txn, counter, holder, event, outbox, receipts, projection, received>>
    BY DEF Crash, Fault, TypeOK
  <1>2. /\ pub' \in [Publisher -> PublisherState]
        /\ \A q \in Publisher : pub'[q].step = "idle" <=> pub'[q].message = NoMessage
        /\ \A q \in Publisher \ {p} : pub'[q] = pub[q]
    BY <1>1, PublisherRows
  <1>3. pub'[p].step = "idle"
    BY <1>1 DEF TypeOK, IdlePub
  <1>4. TypeOK'
    BY <1>1, <1>2 DEF TypeOK
  <1>5. ReceiptsKept'
    BY <1>1, <1>2, <1>3 DEF ReceiptsKept
  <1> QED
    BY <1>1, <1>4, <1>5, PublisherStep

(* A lease may expire under a publisher at work.                           *)
LEMMA ExpireStep ==
  ASSUME IInv, NEW e \in Event, ExpireLease(e)
  PROVE  IInv'
  <1> USE OutboxBounds DEF IInv
  <1>1. /\ outbox' = [outbox EXCEPT ![e].expired = TRUE] /\ faults' \in 0..MaxFaults
        /\ UNCHANGED <<txn, counter, holder, event, receipts, projection, pub, received>>
    BY DEF ExpireLease, Fault, TypeOK
  <1>2. /\ outbox' \in [Event -> MessageRow]
        /\ \A f \in Event : outbox'[f].published = outbox[f].published
    BY <1>1 DEF TypeOK, MessageRow
  <1>3. TypeOK'
    BY <1>1, <1>2 DEF TypeOK
  <1>4. ReceiptsKept'
    BY <1>1, <1>2 DEF ReceiptsKept
  <1> QED
    BY <1>1, <1>3, <1>4, PublisherStep
-----------------------------------------------------------------------------
(* The page a client gets begins right after what it has.                  *)
LEMMA NextPage ==
  ASSUME IInv, NEW r \in Run
  PROVE  /\ Page(r) \in Seq(Event)
         /\ Len(received[r]) + Len(Page(r)) <= Spent(r)
         /\ \A i \in 1..Len(Page(r)) :
              Page(r)[i] \in Committed(r) /\ event[Page(r)[i]].seq = Len(received[r]) + i
  <1> USE OutboxBounds DEF IInv
  <1>c. PICK c \in Nat : c = Len(received[r])
    BY LenProperties DEF TypeOK
  <1>n. PICK n \in Nat : n = Spent(r)
    BY DEF CountersLocked
  <1>1. c <= n
    BY <1>c, <1>n DEF ReadersFollow
  <1>2. Cursor(r) = c
    <2>1. received[r] \in Seq(Event)
      BY DEF TypeOK
    <2>2. CASE received[r] = <<>>
      BY <1>c, <2>2 DEF Cursor
    <2>3. CASE received[r] # <<>>
      <3>1. c \in 1..Len(received[r])
        BY <1>c, <2>1, <2>3, EmptySeq
      <3> QED
        BY <1>c, <2>3, <3>1 DEF Cursor, ReadersFollow
    <2> QED
      BY <2>2, <2>3
  <1> DEFINE S == {e \in Committed(r) : event[e].seq > c}
             rows == BySequence(S)
  <1>3. /\ rows \in Seq(S)
        /\ Len(rows) = n - c
        /\ \A i \in 1..(n - c) : rows[i] \in S /\ event[rows[i]].seq = c + i
    <2>1. S \in SUBSET Event
      BY DEF Committed
    <2>2. \A e \in S : event[e].seq \in (c + 1)..n
      BY <1>n DEF NumbersSpent
    <2>3. \A d, e \in S : event[d].seq = event[e].seq => d = e
      BY DEF NumbersSpent
    <2>4. \A m \in (c + 1)..n : \E e \in S : event[e].seq = m
      BY <1>n DEF NumbersSpent
    <2>5. PICK T \in SUBSET Event : T = S
      BY <2>1
    <2>6. /\ BySequence(T) \in Seq(T)
          /\ Len(BySequence(T)) = n - c
          /\ \A i \in 1..(n - c) : BySequence(T)[i] \in T /\ event[BySequence(T)[i]].seq = c + i
      <3>1. SequencesFill(T, c, n)
        BY <2>2, <2>3, <2>4, <2>5 DEF SequencesFill
      <3> HIDE DEF S, IInv
      <3>2. TypeOK
        BY DEF IInv
      <3> QED
        BY <1>1, <3>1, <3>2, InOrder
    <2> HIDE DEF S
    <2> QED
      BY <2>5, <2>6
  <1>4. PICK m \in 0..(n - c) : Page(r) = SubSeq(rows, 1, m)
    <2>1. Page(r) = SubSeq(rows, 1, IF Len(rows) < PageLimit THEN Len(rows) ELSE PageLimit)
      BY <1>2 DEF Page
    <2> HIDE DEF rows
    <2>2. (IF Len(rows) < PageLimit THEN Len(rows) ELSE PageLimit) \in 0..(n - c)
      BY <1>1, <1>3
    <2> QED
      BY <2>1, <2>2
  <1> HIDE DEF rows
  <1>5. \A i \in 1..m : rows[i] \in Event /\ rows[i] \in Committed(r) /\ event[rows[i]].seq = c + i
    BY <1>1, <1>3 DEF Committed
  <1>6. /\ Page(r) \in Seq(Event) /\ Len(Page(r)) = m
        /\ \A i \in 1..m : Page(r)[i] = rows[i]
    <2>1. /\ SubSeq(rows, 1, m) \in Seq(Event)
          /\ Len(SubSeq(rows, 1, m)) = IF 1 <= m THEN m - 1 + 1 ELSE 0
          /\ \A i \in 1..(m - 1 + 1) : SubSeq(rows, 1, m)[i] = rows[1 + i - 1]
      BY <1>5, SubSeqProperties
    <2> QED
      BY <1>4, <2>1
  <1>7. c + m <= n
    BY <1>1
  <1> HIDE DEF IInv
  <1> QED
    BY <1>c, <1>n, <1>5, <1>6, <1>7

(* A page continues what the client has.                                   *)
LEMMA PollStep ==
  ASSUME IInv, NEW r \in Run, Poll(r)
  PROVE  IInv'
  <1> USE DEF IInv
  <1>1. /\ received' = [received EXCEPT ![r] = @ \o Page(r)]
        /\ UNCHANGED <<txn, counter, holder, event, outbox, receipts, projection, pub, faults>>
    BY DEF Poll
  <1>2. /\ CountersLocked' /\ EventsOwned' /\ NumbersSpent'
        /\ \A q \in Run : Spent(q)' = Spent(q) /\ Committed(q)' = Committed(q)
    BY <1>1, LogUntouched
  <1>3. received[r] \in Seq(Event) /\ Page(r) \in Seq(Event)
    BY NextPage DEF TypeOK
  <1>4. received'[r] = received[r] \o Page(r) /\ \A q \in Run \ {r} : received'[q] = received[q]
    BY <1>1 DEF TypeOK
  <1>5. /\ received'[r] \in Seq(Event)
        /\ Len(received'[r]) = Len(received[r]) + Len(Page(r))
        /\ \A i \in 1..(Len(received[r]) + Len(Page(r))) : received'[r][i] =
             IF i <= Len(received[r]) THEN received[r][i] ELSE Page(r)[i - Len(received[r])]
    BY <1>3, <1>4, ConcatProperties
  <1>6. TypeOK'
    BY <1>1, <1>5 DEF TypeOK
  <1>7. Len(received[r]) \in Nat /\ Len(Page(r)) \in Nat
    BY <1>3, LenProperties
  <1>8. Len(received'[r]) <= Spent(r)
    BY <1>5, NextPage
  <1>9. ASSUME NEW i \in 1..Len(received'[r])
        PROVE  received'[r][i] \in Committed(r) /\ event[received'[r][i]].seq = i
    <2>1. CASE i <= Len(received[r])
      BY <1>5, <1>7, <2>1 DEF ReadersFollow
    <2>2. CASE ~(i <= Len(received[r]))
      <3>1. i - Len(received[r]) \in 1..Len(Page(r))
        BY <1>5, <1>7, <2>2
      <3>2. received'[r][i] = Page(r)[i - Len(received[r])]
        BY <1>5, <1>7, <2>2
      <3>3. event[received'[r][i]].seq = Len(received[r]) + (i - Len(received[r]))
              /\ received'[r][i] \in Committed(r)
        BY <3>1, <3>2, NextPage
      <3> QED
        BY <1>7, <3>3
    <2> QED
      BY <2>1, <2>2
  <1>10. ReadersFollow'
    <2> SUFFICES ASSUME NEW q \in Run
                 PROVE  /\ Len(received'[q]) <= Spent(q)
                        /\ \A i \in 1..Len(received'[q]) :
                             received'[q][i] \in Committed(q) /\ event[received'[q][i]].seq = i
      BY <1>1, <1>2 DEF ReadersFollow
    <2>1. CASE q = r
      BY <1>8, <1>9, <2>1
    <2>2. CASE q # r
      BY <1>4, <2>2 DEF ReadersFollow
    <2> QED
      BY <2>1, <2>2
  <1>11. ReceiptsKept'
    BY <1>1 DEF ReceiptsKept
  <1> QED
    BY <1>2, <1>6, <1>10, <1>11
-----------------------------------------------------------------------------
(* Every step keeps the invariant.                                         *)
LEMMA NextIInv == IInv /\ [Next]_vars => IInv'
  <1> SUFFICES ASSUME IInv, [Next]_vars PROVE IInv'
    OBVIOUS
  <1>1. CASE UNCHANGED vars
    <2>1. TypeOK' /\ ReceiptsKept'
      BY <1>1 DEF vars, IInv, TypeOK, ReceiptsKept
    <2> QED
      BY <1>1, <2>1, PublisherStep DEF vars
  <1>2. CASE \E t \in Tx : Begin(t) \/ Commit(t) \/ Rollback(t) \/ \E r \in Run : AppendEvent(t, r)
    BY <1>2, BeginStep, CommitStep, RollbackStep, AppendStep
  <1>3. CASE \E p \in Publisher : PublishOnce(p) \/ Crash(p)
    BY <1>3, ClaimStep, ConsumeStep, AcknowledgeStep, CrashStep DEF PublishOnce
  <1>4. CASE \E e \in Event : ExpireLease(e)
    BY <1>4, ExpireStep
  <1>5. CASE \E r \in Run : Poll(r)
    BY <1>5, PollStep
  <1> QED
    BY <1>1, <1>2, <1>3, <1>4, <1>5 DEF Next

(* The counters, the events, the receipts and what readers have agree in   *)
(* every reachable state.                                                  *)
THEOREM InductiveInvariant == Spec => []IInv
  BY InitIInv, NextIInv, PTL DEF Spec

(* There are as many visible events of a run as numbers spent.             *)
LEMMA VisibleCount ==
  ASSUME IInv, NEW r \in Run
  PROVE  IsFiniteSet(Committed(r)) /\ Cardinality(Committed(r)) = Spent(r)
  <1> DEFINE S == Committed(r)
             num == [e \in S |-> event[e].seq]
  <1>n. PICK n \in Nat : n = Spent(r)
    BY DEF IInv, CountersLocked
  <1>1. /\ num \in [S -> Int]
        /\ \A e \in S : num[e] \in (0 + 1)..n
        /\ \A d, e \in S : num[d] = num[e] => d = e
        /\ \A m \in (0 + 1)..n : \E e \in S : num[e] = m
    BY <1>n DEF IInv, NumbersSpent, TypeOK, EventRow
  <1> HIDE DEF S, num
  <1>2. 0 \in Nat /\ 0 <= n
    OBVIOUS
  <1>3. IsFiniteSet(S) /\ Cardinality(S) = n - 0
    BY <1>1, <1>2, Numbered
  <1> QED
    BY <1>n, <1>3 DEF S

(* However transactions interleave, fail and roll back, the visible events *)
(* of a run are numbered without a gap and the free counter is next        *)
(* (domain-event.service.ts, next_sequence under FOR UPDATE).              *)
THEOREM SequencesAreDense == Spec => []DenseSequences
  <1>1. IInv => DenseSequences
    <2> SUFFICES ASSUME IInv, NEW r \in Run
                 PROVE  /\ {event[e].seq : e \in Committed(r)} = 1..Cardinality(Committed(r))
                        /\ holder[r] = NoTx => counter[r] = Cardinality(Committed(r)) + 1
      BY DEF DenseSequences, IInv
    <2>n. PICK n \in Nat : n = Spent(r)
      BY DEF IInv, CountersLocked
    <2>1. Cardinality(Committed(r)) = n
      BY <2>n, VisibleCount
    <2>2. {event[e].seq : e \in Committed(r)} = 1..n
      BY <2>n DEF IInv, NumbersSpent
    <2>3. holder[r] = NoTx => counter[r] = n + 1
      BY <2>n DEF Spent, IInv, TypeOK
    <2> QED
      BY <2>1, <2>2, <2>3
  <1> QED
    BY <1>1, InductiveInvariant, PTL

(* Exactly-once projection over the three transactions of publishOnce,     *)
(* for any number of publishers, crashes and leases outlived.              *)
THEOREM EventsProjectedOnce == Spec => []ProjectedOnce
  <1>1. IInv => ProjectedOnce
    <2> SUFFICES ASSUME IInv, NEW e \in Event
                 PROVE  LET times == Cardinality({i \in 1..Len(projection) : projection[i] = e})
                        IN  times <= 1 /\ (outbox[e].published => times = 1)
      BY DEF ProjectedOnce
    <2> DEFINE places == {i \in 1..Len(projection) : projection[i] = e}
    <2>1. CASE places = {}
      <3>1. Cardinality(places) = 0
        BY <2>1, FS_EmptySet
      <3>2. ~outbox[e].published
        BY <2>1 DEF IInv, ReceiptsKept
      <3> QED
        BY <3>1, <3>2
    <2>2. CASE places # {}
      <3>1. PICK i \in 1..Len(projection) : projection[i] = e
        BY <2>2
      <3>2. places = {i}
        BY <3>1 DEF IInv, ReceiptsKept
      <3>3. Cardinality(places) = 1
        BY <3>2, FS_Singleton
      <3> QED
        BY <3>3
    <2> QED
      BY <2>1, <2>2
  <1> QED
    BY <1>1, InductiveInvariant, PTL
-----------------------------------------------------------------------------
(* The refinement of EventStream.                                          *)
Log(r) == BySequence(Committed(r))

(* The i-th entry of the log of a run is its event with sequence i.        *)
LogsInOrder ==
  \A r \in Run :
    /\ Log(r) \in Seq(Event) /\ Len(Log(r)) = Spent(r) /\ Spent(r) \in Nat
    /\ \A i \in 1..Spent(r) : Log(r)[i] \in Committed(r) /\ event[Log(r)[i]].seq = i
    /\ \A e \in Committed(r) : event[e].seq \in 1..Spent(r) /\ Log(r)[event[e].seq] = e

(* The log of a run, by sequence, has its n-th event at place n.           *)
LEMMA LogOrder == IInv => LogsInOrder
  <1> SUFFICES ASSUME IInv, NEW r \in Run
               PROVE  /\ Log(r) \in Seq(Event) /\ Len(Log(r)) = Spent(r) /\ Spent(r) \in Nat
                      /\ \A i \in 1..Spent(r) : Log(r)[i] \in Committed(r) /\ event[Log(r)[i]].seq = i
                      /\ \A e \in Committed(r) : event[e].seq \in 1..Spent(r) /\ Log(r)[event[e].seq] = e
    BY DEF LogsInOrder
  <1>n. PICK n \in Nat : n = Spent(r)
    BY DEF IInv, CountersLocked
  <1>s. PICK S \in SUBSET Event : S = Committed(r)
    BY DEF Committed
  <1>1. SequencesFill(S, 0, n)
    BY <1>n, <1>s DEF IInv, NumbersSpent, SequencesFill
  <1>2. TypeOK /\ 0 \in Nat /\ 0 <= n
    BY DEF IInv
  <1>3. /\ BySequence(S) \in Seq(S)
        /\ Len(BySequence(S)) = n - 0
        /\ \A i \in 1..(n - 0) : BySequence(S)[i] \in S /\ event[BySequence(S)[i]].seq = 0 + i
    BY <1>1, <1>2, InOrder
  <1>4. Log(r) \in Seq(Event)
    BY <1>s, <1>3, SeqMonotonic DEF Log
  <1>5. Len(Log(r)) = n /\ \A i \in 1..n : Log(r)[i] \in Committed(r) /\ event[Log(r)[i]].seq = i
    BY <1>s, <1>3 DEF Log
  <1>6. \A e \in Committed(r) : event[e].seq \in 1..n /\ Log(r)[event[e].seq] = e
    BY <1>n, <1>5 DEF IInv, NumbersSpent
  <1> QED
    BY <1>n, <1>4, <1>5, <1>6

(* The same after a step.                                                  *)
LEMMA NextLogOrder == IInv' => LogsInOrder'
  BY LogOrder, PTL

(* A step that neither adds nor changes a visible event keeps the logs.    *)
LEMMA SameLogs ==
  ASSUME IInv, IInv',
         \A e \in Event : event[e].state = "committed" \/ event'[e].state = "committed"
                            => event'[e] = event[e]
  PROVE  \A r \in Run : Log(r)' = Log(r)
  <1> SUFFICES ASSUME NEW r \in Run PROVE Log(r)' = Log(r)
    OBVIOUS
  <1>1. Committed(r)' = Committed(r) /\ \A e \in Committed(r) : event'[e] = event[e]
    BY DEF Committed
  <1>2. LogsInOrder /\ LogsInOrder'
    BY LogOrder, NextLogOrder
  <1>3. /\ Log(r) \in Seq(Event) /\ Len(Log(r)) = Spent(r) /\ Spent(r) \in Nat
        /\ \A i \in 1..Spent(r) : Log(r)[i] \in Committed(r) /\ event[Log(r)[i]].seq = i
    BY <1>2 DEF LogsInOrder
  <1>4. /\ Log(r)' \in Seq(Event) /\ Len(Log(r)') = Spent(r)' /\ Spent(r)' \in Nat
        /\ \A i \in 1..Spent(r)' : Log(r)'[i] \in Committed(r)' /\ event'[Log(r)'[i]].seq = i
        /\ \A e \in Committed(r)' : event'[e].seq \in 1..Spent(r)' /\ Log(r)'[event'[e].seq] = e
    BY <1>2 DEF LogsInOrder
  <1>5. Spent(r)' = Spent(r)
    <2>1. \A i \in 1..Spent(r) : i \in 1..Spent(r)'
      BY <1>1, <1>3, <1>4
    <2>2. \A i \in 1..Spent(r)' : event[Log(r)'[i]].seq = i /\ Log(r)'[i] \in Committed(r)
      BY <1>1, <1>4
    <2>3. \A i \in 1..Spent(r)' : i \in 1..Spent(r)
      BY <1>2, <2>2 DEF LogsInOrder
    <2> QED
      BY <1>3, <1>4, <2>1, <2>3
  <1>6. \A i \in 1..Spent(r) : Log(r)'[i] = Log(r)[i]
    BY <1>1, <1>3, <1>4
  <1> QED
    BY <1>3, <1>4, <1>5, <1>6, SeqEqual

(* A commit appends the batch of its transaction to the log of its run.    *)
LEMMA CommitAppends ==
  ASSUME IInv, IInv', NEW t \in Tx, Commit(t), txn[t].appended # 0
  PROVE  \E r \in Run, n \in 1..MaxAppends :
           /\ n = txn[t].appended /\ holder[r] = t
           /\ Log(r)' = Log(r) \o [k \in 1..n |-> <<t, k>>]
           /\ \A q \in Run \ {r} : Log(q)' = Log(q)
  <1>0. txn[t].status = "open"
    BY DEF Commit
  <1>n. PICK n \in 1..MaxAppends : n = txn[t].appended
    BY <1>0, OpenTxn
  <1>r. PICK r \in Run : txn[t].run = r /\ holder[r] = t
    BY <1>0, <1>n, OpenTxn DEF IInv, CountersLocked, TypeOK, TxnRow
  <1>1. LogsInOrder /\ LogsInOrder'
    BY LogOrder, NextLogOrder
  <1>2. \A q \in Run : q # r => holder[q] # t
    BY <1>0, <1>r, OpenTxn
  <1>3. ASSUME NEW q \in Run, NEW i \in 1..Spent(q) PROVE Log(q)'[i] = Log(q)[i]
    <2>1. Log(q)[i] \in Committed(q) /\ event[Log(q)[i]].seq = i
      BY <1>1 DEF LogsInOrder
    <2>2. Log(q)[i] \in Committed(q)' /\ event'[Log(q)[i]] = event[Log(q)[i]]
      BY <2>1, CommitEffect DEF Committed
    <2>e. PICK e \in Event : e = Log(q)[i]
      BY <2>1 DEF Committed
    <2>3. Log(q)'[event'[e].seq] = e
      BY <1>1, <2>2, <2>e DEF LogsInOrder
    <2> QED
      BY <2>1, <2>2, <2>3, <2>e
  <1>4. \A q \in Run : /\ Log(q) \in Seq(Event) /\ Len(Log(q)) = Spent(q) /\ Spent(q) \in Nat
                       /\ Log(q)' \in Seq(Event) /\ Len(Log(q)') = Spent(q)'
    BY <1>1 DEF LogsInOrder
  <1>5. \A q \in Run \ {r} : Log(q)' = Log(q)
    <2> SUFFICES ASSUME NEW q \in Run, q # r PROVE Log(q)' = Log(q)
      OBVIOUS
    <2>1. Spent(q)' = Spent(q)
      BY <1>2, CommitEffect
    <2> QED
      BY <1>3, <1>4, <2>1, SeqEqual
  <1>6. Log(r)' = Log(r) \o [k \in 1..n |-> <<t, k>>]
    <2> DEFINE batch == [k \in 1..n |-> <<t, k>>]
    <2>s. PICK c \in Nat : c = Spent(r)
      BY <1>4
    <2>1. batch \in Seq(Event) /\ Len(batch) = n /\ \A k \in 1..n : batch[k] = <<t, k>>
      <3>0. \A k \in 1..n : k \in 1..MaxAppends
        BY OutboxBounds
      <3>1. \A k \in 1..n : <<t, k>> \in Event
        BY <3>0, EventPair
      <3>2. batch \in [1..n -> Event]
        BY <3>1
      <3> QED
        BY <3>2
    <2> HIDE DEF batch
    <2>2. Spent(r)' = c + n
      BY <1>n, <1>r, <2>s, CommitEffect
    <2>3. \A k \in 1..n : <<t, k>> \in Committed(r)' /\ event'[<<t, k>>].seq = c + k
      BY <1>n, <1>r, <2>s, CommitEffect
    <2>4. \A k \in 1..n : Log(r)'[c + k] = <<t, k>>
      <3>1. \A e \in Committed(r)' : Log(r)'[event'[e].seq] = e
        BY <1>1 DEF LogsInOrder
      <3> SUFFICES ASSUME NEW k \in 1..n PROVE Log(r)'[c + k] = <<t, k>>
        OBVIOUS
      <3>2. <<t, k>> \in Committed(r)' /\ event'[<<t, k>>].seq = c + k
        BY <2>3
      <3> QED
        BY <3>1, <3>2
    <2>5. /\ Log(r) \o batch \in Seq(Event) /\ Len(Log(r) \o batch) = c + n
          /\ \A i \in 1..(c + n) : (Log(r) \o batch)[i] = IF i <= c THEN Log(r)[i] ELSE batch[i - c]
      <3>1. Log(r) \in Seq(Event) /\ Len(Log(r)) = c
        BY <1>4, <2>s
      <3> QED
        BY <2>1, <3>1, ConcatProperties
    <2>6. ASSUME NEW i \in 1..(c + n) PROVE Log(r)'[i] = (Log(r) \o batch)[i]
      <3>1. CASE i <= c
        BY <1>3, <2>s, <2>5, <3>1
      <3>2. CASE ~(i <= c)
        <4>1. i - c \in 1..n /\ c + (i - c) = i
          BY <3>2
        <4> QED
          BY <2>1, <2>4, <2>5, <3>2, <4>1
      <3> QED
        BY <3>1, <3>2
    <2>7. Log(r)' = Log(r) \o batch
      BY <1>4, <2>2, <2>5, <2>6, SeqEqual
    <2> QED
      BY <2>7 DEF batch
  <1> QED
    BY <1>n, <1>r, <1>5, <1>6

(* Transactions that do not commit keep every log.                         *)
LEMMA QuietTransactions ==
  ASSUME IInv, IInv', NEW t \in Tx,
         Begin(t) \/ Rollback(t) \/ \E r \in Run : AppendEvent(t, r)
  PROVE  \A r \in Run : Log(r)' = Log(r)
  <1>1. CASE Begin(t)
    BY <1>1, SameLogs DEF Begin
  <1>2. CASE Rollback(t)
    <2>1. \A e \in Event : event'[e] = IF e[1] = t THEN Absent ELSE event[e]
      BY <1>2 DEF Rollback
    <2>2. \A e \in Event : e[1] = t => event[e].state # "committed"
      <3> SUFFICES ASSUME NEW e \in Event, e[1] = t PROVE event[e].state # "committed"
        OBVIOUS
      <3>1. e = <<t, e[2]>> /\ e[2] \in 1..MaxAppends
        BY EventPair
      <3> QED
        BY <1>2, <3>1, OpenTxn DEF Absent, Rollback
    <2>3. \A e \in Event : event[e].state = "committed" \/ event'[e].state = "committed"
                             => event'[e] = event[e]
      BY <2>1, <2>2 DEF Absent
    <2> QED
      BY <2>3, SameLogs
  <1>3. ASSUME NEW r \in Run, AppendEvent(t, r) PROVE \A q \in Run : Log(q)' = Log(q)
    <2>0. txn[t].status = "open"
      BY <1>3 DEF AppendEvent
    <2>k. PICK k \in 1..MaxAppends : k = txn[t].appended + 1
      <3>1. txn[t].appended \in 0..MaxAppends /\ txn[t].appended + 1 <= MaxAppends
        BY <1>3, <2>0, OpenTxn DEF AppendEvent
      <3> QED
        BY <3>1, OutboxBounds
    <2> DEFINE fresh == [state |-> "pending", run |-> r, seq |-> counter[r]]
    <2>1. event' = [event EXCEPT ![<<t, k>>] = fresh] /\ fresh.state = "pending"
      BY <1>3, <2>k DEF AppendEvent
    <2> HIDE DEF fresh
    <2>2. event[<<t, k>>] = Absent
      <3>1. ~(k <= txn[t].appended)
        BY <2>0, <2>k, OpenTxn
      <3> QED
        BY <2>0, <3>1, OpenTxn
    <2>3. \A e \in Event : e # <<t, k>> => event'[e] = event[e]
      BY <2>1 DEF IInv, TypeOK
    <2>4. event'[<<t, k>>].state = "pending" /\ event[<<t, k>>].state = "absent"
      <3>1. event'[<<t, k>>] = fresh
        BY <2>1, EventPair DEF IInv, TypeOK
      <3> QED
        BY <2>1, <2>2, <3>1 DEF Absent
    <2>5. \A e \in Event : event[e].state = "committed" \/ event'[e].state = "committed"
                             => event'[e] = event[e]
      BY <2>3, <2>4
    <2> QED
      BY <2>5, SameLogs
  <1> QED
    BY <1>1, <1>2, <1>3

(* The projection as a set is the set of receipts.                         *)
LEMMA DeliveredIsReceipts ==
  ASSUME IInv, IInv'
  PROVE  /\ receipts = {projection[i] : i \in 1..Len(projection)}
         /\ receipts' = {projection'[i] : i \in 1..Len(projection')}
  BY DEF IInv, ReceiptsKept

(* An event that a publisher has taken up is in the log of some run.       *)
LEMMA VisibleIsLogged ==
  ASSUME IInv, NEW e \in Event
  PROVE  event[e].state = "committed" <=> \E r \in Run : \E i \in 1..Len(Log(r)) : Log(r)[i] = e
  <1>1. LogsInOrder
    BY LogOrder
  <1>2. ASSUME event[e].state = "committed" PROVE \E r \in Run : \E i \in 1..Len(Log(r)) : Log(r)[i] = e
    <2>1. PICK t \in Tx, k \in 1..MaxAppends : e = <<t, k>>
      BY EventPair
    <2>2. Owns(t, k)
      BY <1>2, <2>1 DEF IInv, EventsOwned, OwnedEvent, Absent
    <2>3. txn[t].appended # 0
      BY <2>2, OutboxBounds DEF Owns, IInv, TypeOK, TxnRow
    <2>4. txn[t].run \in Run /\ event[e].run = txn[t].run
      BY <2>1, <2>2, <2>3 DEF IInv, CountersLocked, EventsOwned, OwnedEvent, TypeOK, TxnRow
    <2>5. PICK r \in Run : event[e].run = r
      BY <2>4
    <2>6. e \in Committed(r)
      BY <1>2, <2>5 DEF Committed
    <2> QED
      BY <1>1, <2>6 DEF LogsInOrder
  <1>3. ASSUME NEW r \in Run, NEW i \in 1..Len(Log(r)), Log(r)[i] = e PROVE event[e].state = "committed"
    BY <1>1, <1>3 DEF LogsInOrder, Committed
  <1> QED
    BY <1>2, <1>3

(* A poll brings the reader to a longer prefix of the log.                 *)
LEMMA PollReads ==
  ASSUME IInv, IInv', NEW r \in Run, Poll(r)
  PROVE  \E i \in 1..Len(Log(r)) :
           /\ Len(received[r]) < i
           /\ received' = [received EXCEPT ![r] = SubSeq(Log(r), 1, i)]
           /\ SubSeq(received'[r], 1, Len(received[r])) = received[r]
  <1>1. LogsInOrder
    BY LogOrder
  <1>2. /\ Page(r) # <<>>
        /\ received' = [received EXCEPT ![r] = @ \o Page(r)]
        /\ UNCHANGED <<txn, counter, holder, event>>
    BY DEF Poll
  <1>3. Spent(r)' = Spent(r) /\ Committed(r)' = Committed(r)
    BY <1>2, LogUntouched
  <1>4. /\ received[r] \in Seq(Event) /\ Page(r) \in Seq(Event) /\ received'[r] \in Seq(Event)
        /\ received'[r] = received[r] \o Page(r)
        /\ Log(r) \in Seq(Event) /\ Len(Log(r)) = Spent(r) /\ Spent(r) \in Nat
    BY <1>1, <1>2, NextPage DEF IInv, TypeOK, LogsInOrder
  <1>m. PICK m \in Nat : m = Len(received[r])
    BY <1>4, LenProperties
  <1>i. PICK i \in Nat : i = Len(received'[r])
    BY <1>4, LenProperties
  <1>5. m < i /\ \A j \in 1..m : received'[r][j] = received[r][j]
    <2>1. Len(Page(r)) \in Nat \ {0}
      BY <1>2, <1>4, EmptySeq
    <2>2. /\ Len(received'[r]) = Len(received[r]) + Len(Page(r))
          /\ \A j \in 1..(Len(received[r]) + Len(Page(r))) : received'[r][j] =
               IF j <= Len(received[r]) THEN received[r][j] ELSE Page(r)[j - Len(received[r])]
      BY <1>4, ConcatProperties
    <2> QED
      BY <1>m, <1>i, <2>1, <2>2
  <1>6. /\ i <= Spent(r)
        /\ \A j \in 1..i : received'[r][j] \in Committed(r) /\ event[received'[r][j]].seq = j
    BY <1>2, <1>3, <1>i DEF IInv, ReadersFollow
  <1>7. \A j \in 1..i : received'[r][j] = Log(r)[j]
    <2> SUFFICES ASSUME NEW j \in 1..i PROVE received'[r][j] = Log(r)[j]
      OBVIOUS
    <2>e. PICK e \in Committed(r) : e = received'[r][j]
      BY <1>6
    <2>1. Log(r)[event[e].seq] = e
      BY <1>1 DEF LogsInOrder
    <2> QED
      BY <1>6, <2>e, <2>1
  <1>8. SubSeq(Log(r), 1, i) = received'[r]
    <2>1. \A j \in 1..i : Log(r)[j] \in Event
      BY <1>4, <1>6, <1>7, LenProperties DEF Committed
    <2>2. /\ SubSeq(Log(r), 1, i) \in Seq(Event)
          /\ Len(SubSeq(Log(r), 1, i)) = IF 1 <= i THEN i - 1 + 1 ELSE 0
          /\ \A j \in 1..(i - 1 + 1) : SubSeq(Log(r), 1, i)[j] = Log(r)[1 + j - 1]
      BY <2>1, SubSeqProperties
    <2>3. Len(SubSeq(Log(r), 1, i)) = i /\ \A j \in 1..i : SubSeq(Log(r), 1, i)[j] = received'[r][j]
      BY <1>5, <1>7, <2>2
    <2> QED
      BY <1>4, <1>i, <2>2, <2>3, SeqEqual
  <1>9. SubSeq(received'[r], 1, m) = received[r]
    <2>1. \A j \in 1..m : received'[r][j] \in Event
      BY <1>4, <1>m, <1>5, ElementOfSeq
    <2>2. /\ SubSeq(received'[r], 1, m) \in Seq(Event)
          /\ Len(SubSeq(received'[r], 1, m)) = IF 1 <= m THEN m - 1 + 1 ELSE 0
          /\ \A j \in 1..(m - 1 + 1) : SubSeq(received'[r], 1, m)[j] = received'[r][1 + j - 1]
      BY <2>1, SubSeqProperties
    <2>3. Len(SubSeq(received'[r], 1, m)) = m
            /\ \A j \in 1..m : SubSeq(received'[r], 1, m)[j] = received[r][j]
      BY <1>5, <2>2
    <2> QED
      BY <1>4, <1>m, <2>2, <2>3, SeqEqual
  <1>10. received' = [received EXCEPT ![r] = SubSeq(Log(r), 1, i)]
    BY <1>2, <1>4, <1>8
  <1>11. i \in 1..Len(Log(r))
    BY <1>4, <1>5, <1>6
  <1> QED
    BY <1>m, <1>5, <1>9, <1>10, <1>11
-----------------------------------------------------------------------------
(* Every step of transactions, publishers and clients is a step of the     *)
(* stream or leaves it alone: no lost, reordered or repeated event.        *)
THEOREM OutboxImplementsStream == Spec => ImplementsStream
  <1> DEFINE log == [r \in Run |-> Log(r)]
             delivered == {projection[i] : i \in 1..Len(projection)}
  <1>1. Init => Stream!Init
    <2> SUFFICES ASSUME Init PROVE Stream!Init
      OBVIOUS
    <2>1. IInv
      BY InitIInv
    <2>2. \A r \in Run : Log(r) = <<>>
      <3>1. \A r \in Run : Spent(r) = 0
        BY OutboxBounds DEF Init, Spent
      <3>2. \A r \in Run : Log(r) \in Seq(Event) /\ Len(Log(r)) = 0
        BY <2>1, <3>1, LogOrder DEF LogsInOrder
      <3> QED
        BY <3>2, EmptySeq
    <2>3. delivered = {}
      BY DEF Init
    <2> QED
      BY <2>2, <2>3 DEF Init, Stream!Init, Log
  <1>2. IInv /\ IInv' /\ [Next]_vars => [Stream!Next]_(Stream!stream)
    <2> SUFFICES ASSUME IInv, IInv', [Next]_vars
                 PROVE  Stream!Next \/ UNCHANGED Stream!stream
      OBVIOUS
    <2>k. ASSUME \A r \in Run : Log(r)' = Log(r), UNCHANGED <<received, projection>>
          PROVE  UNCHANGED Stream!stream
      BY <2>k DEF Stream!stream, Log
    <2>e. ASSUME UNCHANGED event PROVE \A r \in Run : Log(r)' = Log(r)
      BY <2>e, SameLogs
    <2>1. CASE UNCHANGED vars
      BY <2>k, <2>e, <2>1 DEF vars
    <2>2. ASSUME NEW t \in Tx, Begin(t) \/ Rollback(t) \/ \E r \in Run : AppendEvent(t, r)
          PROVE  UNCHANGED Stream!stream
      <3>1. \A r \in Run : Log(r)' = Log(r)
        BY <2>2, QuietTransactions
      <3>2. UNCHANGED <<received, projection>>
        BY <2>2 DEF Begin, Rollback, AppendEvent
      <3> QED
        BY <2>k, <3>1, <3>2
    <2>3. ASSUME NEW t \in Tx, Commit(t) PROVE Stream!Next \/ UNCHANGED Stream!stream
      <3>1. UNCHANGED <<received, projection>>
        BY <2>3 DEF Commit
      <3>2. CASE txn[t].appended = 0
        <4>1. \A k \in 1..MaxAppends : event[<<t, k>>] = Absent
          BY <2>3, <3>2, OpenTxn DEF Commit
        <4>2. \A e \in Event : event'[e] = event[e]
          <5> SUFFICES ASSUME NEW e \in Event, e[1] = t PROVE event[e].state # "pending"
            BY <2>3 DEF Commit
          <5>1. e = <<t, e[2]>> /\ e[2] \in 1..MaxAppends
            BY EventPair
          <5> QED
            BY <4>1, <5>1 DEF Absent
        <4>3. \A r \in Run : Log(r)' = Log(r)
          BY <4>2, SameLogs
        <4> QED
          BY <2>k, <3>1, <4>3
      <3>3. CASE txn[t].appended # 0
        <4>1. PICK r \in Run, n \in 1..MaxAppends :
                /\ n = txn[t].appended /\ holder[r] = t
                /\ Log(r)' = Log(r) \o [k \in 1..n |-> <<t, k>>]
                /\ \A q \in Run \ {r} : Log(q)' = Log(q)
          BY <2>3, <3>3, CommitAppends
        <4>2. ~ \E q \in Run : \E i \in 1..Len(Log(q)) : Log(q)[i] = <<t, 1>>
          <5>1. 1 \in 1..MaxAppends /\ <<t, 1>> \in Event
            BY OutboxBounds, EventPair
          <5>2. event[<<t, 1>>].state # "committed"
            BY <2>3, <5>1, OpenTxn DEF Commit, Absent
          <5> QED
            BY <5>1, <5>2, VisibleIsLogged
        <4>3. Stream!AppendBatch(r, t, n)
          BY <3>1, <4>1, <4>2 DEF Stream!AppendBatch, Stream!InLog, Log
        <4> QED
          BY <4>3 DEF Stream!Next
      <3> QED
        BY <3>2, <3>3
    <2>4. ASSUME NEW p \in Publisher, Consume(p) PROVE Stream!Next \/ UNCHANGED Stream!stream
      <3>e. PICK e \in Event : e = pub[p].message
        BY <2>4 DEF IInv, TypeOK, PublisherState, Consume
      <3>1. /\ receipts' = receipts \cup {e} /\ UNCHANGED <<event, received>>
            /\ projection' = IF e \in receipts THEN projection ELSE Append(projection, e)
        BY <2>4, <3>e DEF Consume
      <3>2. \A r \in Run : Log(r)' = Log(r)
        BY <2>e, <3>1
      <3>3. CASE e \in receipts
        BY <2>k, <3>1, <3>2, <3>3
      <3>4. CASE e \notin receipts
        <4>1. event[e].state = "committed"
          BY <2>4, <3>e DEF IInv, ReceiptsKept, Consume
        <4>2. \E r \in Run : \E i \in 1..Len(Log(r)) : Log(r)[i] = e
          BY <4>1, VisibleIsLogged
        <4>3. e \notin delivered /\ delivered' = delivered \cup {e}
          BY <3>1, <3>4, DeliveredIsReceipts
        <4>4. Stream!Deliver(e)
          BY <3>1, <3>2, <4>2, <4>3 DEF Stream!Deliver, Stream!InLog, Log
        <4>5. e \in Stream!Event
          BY DEF Stream!Event, Event
        <4> QED
          BY <4>4, <4>5 DEF Stream!Next
      <3> QED
        BY <3>3, <3>4
    <2>5. ASSUME NEW p \in Publisher, (\E e \in Event : Claim(p, e)) \/ Acknowledge(p) \/ Crash(p)
          PROVE  UNCHANGED Stream!stream
      <3>1. UNCHANGED <<event, received, projection>>
        BY <2>5 DEF Claim, Acknowledge, Crash
      <3> QED
        BY <2>k, <2>e, <3>1
    <2>6. ASSUME NEW e \in Event, ExpireLease(e) PROVE UNCHANGED Stream!stream
      <3>1. UNCHANGED <<event, received, projection>>
        BY <2>6 DEF ExpireLease
      <3> QED
        BY <2>k, <2>e, <3>1
    <2>7. ASSUME NEW r \in Run, Poll(r) PROVE Stream!Next
      <3>1. UNCHANGED <<event, projection>>
        BY <2>7 DEF Poll
      <3>2. \A q \in Run : Log(q)' = Log(q)
        BY <2>e, <3>1
      <3>3. PICK i \in 1..Len(Log(r)) :
              /\ Len(received[r]) < i
              /\ received' = [received EXCEPT ![r] = SubSeq(Log(r), 1, i)]
              /\ SubSeq(received'[r], 1, Len(received[r])) = received[r]
        BY <2>7, PollReads
      <3>4. Stream!ReadUpTo(r, i)
        BY <3>1, <3>2, <3>3 DEF Stream!ReadUpTo, Log
      <3> QED
        BY <3>4 DEF Stream!Next, Log
    <2> QED
      BY <2>1, <2>2, <2>3, <2>4, <2>5, <2>6, <2>7 DEF Next, PublishOnce
  <1> QED
    BY <1>1, <1>2, InductiveInvariant, PTL DEF Spec, ImplementsStream, Stream!Safety
=============================================================================
