--------------------------- MODULE ObjectRecords ---------------------------
(***************************************************************************)
(* object-access.service.ts, attachments.service.ts (ingest and            *)
(* bindToGoalVersion) and attachment-retrieval.service.ts: object_records  *)
(* in PostgreSQL and blobs in an object store, which no transaction can    *)
(* change together.  Every call is a sequence of statements and of calls   *)
(* of the store; the process may die, or a call throw, between any two.    *)
(*                                                                         *)
(* Object identifiers are fresh and unguessable: a caller acts only on an  *)
(* object whose identifier was returned.  Left out: validation of the      *)
(* body, sizes, the limits on the attachments of one goal (one attachment  *)
(* is bound at a time), scan states other than CLEAN and expiry (nothing   *)
(* writes them), tenants, and the statements of the command around ingest  *)
(* and bind, which CommandExecutor models.                                 *)
(***************************************************************************)
EXTENDS Naturals, FiniteSets

CONSTANTS
  Object,            \* identifiers, each used by one creation
  Caller,            \* concurrent calls of the services
  MaxStorageFaults,  \* bound: crashes and thrown calls
  NoObject, NoCaller

ASSUME ObjectConstants ==
  MaxStorageFaults \in Nat /\ NoObject \notin Object /\ NoCaller \notin Caller

VARIABLES
  row,     \* object_records: lifecycle_state and purpose
  blobs,   \* external: keys present in the object store
  known,   \* identifiers returned by put or ingest
  bound,   \* goal_version_attachments: the object of each link
  lock,    \* the transaction that holds the row lock of the record
  granted, \* attachment_retrieval_grants: the objects granted so far
  call,    \* where each caller is, and the object it works on
  erased,  \* history: objects that some delete took out of the store
  missed,  \* history: objects a reader was sent to the store for in vain
  storageFaults

objectVars == <<row, blobs, known, bound, lock, granted, call, erased, missed, storageFaults>>

Purpose == {"attachment", "quality-fixture"}

(* A row in state inserting belongs to a transaction that has not          *)
(* committed; nobody else sees it.                                         *)
RowState == {"none", "inserting", "READY", "DELETED"}

Step == {"idle", "put:store", "ingest:store", "ingest:commit", "read:store", "delete:store",
         "delete:mark", "bind:commit", "retrieve:grant", "retrieve:store"}

RecordRow == [state : RowState, purpose : Purpose]
Frame     == [step : Step, object : Object \cup {NoObject}]

ObjectTypeOK ==
  /\ row \in [Object -> RecordRow]
  /\ blobs \subseteq Object /\ known \subseteq Object /\ bound \subseteq Object
  /\ granted \subseteq Object /\ erased \subseteq Object /\ missed \subseteq Object
  /\ lock \in [Object -> Caller \cup {NoCaller}]
  /\ call \in [Caller -> Frame]
  /\ \A c \in Caller : call[c].step = "idle" <=> call[c].object = NoObject
  /\ storageFaults \in 0..MaxStorageFaults

Idle == [step |-> "idle", object |-> NoObject]

ObjectInit ==
  /\ row = [o \in Object |-> [state |-> "none", purpose |-> "attachment"]]
  /\ blobs = {} /\ known = {} /\ bound = {} /\ granted = {}
  /\ lock = [o \in Object |-> NoCaller]
  /\ call = [c \in Caller |-> Idle]
  /\ erased = {} /\ missed = {}
  /\ storageFaults = 0

Start(c, step, o) ==
  /\ call[c].step = "idle"
  /\ call' = [call EXCEPT ![c] = [step |-> step, object |-> o]]

Goto(c, step) == call' = [call EXCEPT ![c].step = step]

Return(c) == call' = [call EXCEPT ![c] = Idle]

(* newId(): an identifier no row and no call has.                          *)
Fresh(o) == row[o].state = "none" /\ o \notin blobs /\ \A c \in Caller : call[c].object # o

Ready(o) == row[o].state = "READY"

(* Mutant of Unlocked: no row lock is waited for.                          *)
AlwaysUnlocked(o) == TRUE

(* A row lock is waited for by FOR UPDATE, by UPDATE and by the foreign    *)
(* keys of an INSERT.                                                      *)
Unlocked(o) == lock[o] = NoCaller
-----------------------------------------------------------------------------
(* ObjectAccessService.put: the row is committed READY, then the blob is   *)
(* stored, then the identifier is returned.                                *)
PutRow(c, o) ==
  /\ Fresh(o)
  /\ Start(c, "put:store", o)
  /\ row' = [row EXCEPT ![o] = [state |-> "READY", purpose |-> "quality-fixture"]]
  /\ UNCHANGED <<blobs, known, bound, lock, granted, erased, missed, storageFaults>>

PutBlob(c) ==
  LET o == call[c].object
  IN  /\ call[c].step = "put:store"
      /\ blobs' = blobs \cup {o}
      /\ known' = known \cup {o}
      /\ Return(c)
      /\ UNCHANGED <<row, bound, lock, granted, erased, missed, storageFaults>>

(* AttachmentsService.ingest: row, blob and event inside the transaction   *)
(* of the command.                                                         *)
IngestRow(c, o) ==
  /\ Fresh(o)
  /\ Start(c, "ingest:store", o)
  /\ row' = [row EXCEPT ![o] = [state |-> "inserting", purpose |-> "attachment"]]
  /\ UNCHANGED <<blobs, known, bound, lock, granted, erased, missed, storageFaults>>

(* Mutant of IngestBlob: the upload is started and not waited for.         *)
IngestNoBlob(c) ==
  /\ call[c].step = "ingest:store"
  /\ Goto(c, "ingest:commit")
  /\ UNCHANGED <<row, blobs, known, bound, lock, granted, erased, missed, storageFaults>>

IngestBlob(c) ==
  /\ call[c].step = "ingest:store"
  /\ blobs' = blobs \cup {call[c].object}
  /\ Goto(c, "ingest:commit")
  /\ UNCHANGED <<row, known, bound, lock, granted, erased, missed, storageFaults>>

IngestCommit(c) ==
  LET o == call[c].object
  IN  /\ call[c].step = "ingest:commit"
      /\ row' = [row EXCEPT ![o].state = "READY"]
      /\ known' = known \cup {o}
      /\ Return(c)
      /\ UNCHANGED <<blobs, bound, lock, granted, erased, missed, storageFaults>>
-----------------------------------------------------------------------------
(* get and head: loadOwnRecord, then the store.  An object that is not     *)
(* READY is answered 404 without any step.                                 *)
ReadRow(c, o) ==
  /\ o \in known /\ Ready(o)
  /\ Start(c, "read:store", o)
  /\ UNCHANGED <<row, blobs, known, bound, lock, granted, erased, missed, storageFaults>>

(* retrieveForRun: the link and the row in one query, then the grant, then *)
(* the store.                                                              *)
RetrieveRow(c, o) ==
  /\ o \in bound /\ Ready(o) /\ row[o].purpose = "attachment"
  /\ Start(c, "retrieve:grant", o)
  /\ UNCHANGED <<row, blobs, known, bound, lock, granted, erased, missed, storageFaults>>

RetrieveGrant(c) ==
  /\ call[c].step = "retrieve:grant"
  /\ Unlocked(call[c].object)
  /\ granted' = granted \cup {call[c].object}
  /\ Goto(c, "retrieve:store")
  /\ UNCHANGED <<row, blobs, known, bound, lock, erased, missed, storageFaults>>

(* store.get: the body, or object_store_miss.                              *)
FetchBlob(c) ==
  LET o == call[c].object
  IN  /\ call[c].step \in {"read:store", "retrieve:store"}
      /\ missed' = IF o \in blobs THEN missed ELSE missed \cup {o}
      /\ Return(c)
      /\ UNCHANGED <<row, blobs, known, bound, lock, granted, erased, storageFaults>>

(* delete: loadOwnRecord, the store, the row.                              *)
DeleteRow(c, o) ==
  /\ o \in known /\ Ready(o)
  /\ Start(c, "delete:store", o)
  /\ UNCHANGED <<row, blobs, known, bound, lock, granted, erased, missed, storageFaults>>

DeleteBlob(c) ==
  /\ call[c].step = "delete:store"
  /\ blobs' = blobs \ {call[c].object}
  /\ erased' = erased \cup {call[c].object}
  /\ Goto(c, "delete:mark")
  /\ UNCHANGED <<row, known, bound, lock, granted, missed, storageFaults>>

(* UPDATE ... WHERE lifecycle_state = 'READY', behind the row lock.        *)
DeleteMark(c) ==
  LET o == call[c].object
  IN  /\ call[c].step = "delete:mark"
      /\ Unlocked(o)
      /\ row' = IF Ready(o) THEN [row EXCEPT ![o].state = "DELETED"] ELSE row
      /\ Return(c)
      /\ UNCHANGED <<blobs, known, bound, lock, granted, erased, missed, storageFaults>>
-----------------------------------------------------------------------------
(* bindToGoalVersion: SELECT ... FOR UPDATE and assertLinkable; the link   *)
(* becomes visible when the command commits.                               *)
BindRow(c, o) ==
  /\ o \in known
  /\ Unlocked(o)
  /\ Ready(o) /\ row[o].purpose = "attachment"
  /\ Start(c, "bind:commit", o)
  /\ lock' = [lock EXCEPT ![o] = c]
  /\ UNCHANGED <<row, blobs, known, bound, granted, erased, missed, storageFaults>>

(* Mutant of BindCommit: the row lock is kept.                             *)
BindKeepsLock(c) ==
  /\ call[c].step = "bind:commit"
  /\ bound' = bound \cup {call[c].object}
  /\ Return(c)
  /\ UNCHANGED <<row, blobs, known, lock, granted, erased, missed, storageFaults>>

BindCommit(c) ==
  LET o == call[c].object
  IN  /\ call[c].step = "bind:commit"
      /\ bound' = bound \cup {o}
      /\ lock' = [lock EXCEPT ![o] = NoCaller]
      /\ Return(c)
      /\ UNCHANGED <<row, blobs, known, granted, erased, missed, storageFaults>>

(* The process dies or a call throws: an open transaction is rolled back,  *)
(* what the store did is not.                                              *)
Fail(c) ==
  LET o == call[c].object
  IN  /\ call[c].step # "idle"
      /\ storageFaults < MaxStorageFaults
      /\ storageFaults' = storageFaults + 1
      /\ row' = IF row[o].state = "inserting" /\ call[c].step \in {"ingest:store", "ingest:commit"}
                  THEN [row EXCEPT ![o].state = "none"] ELSE row
      /\ lock' = IF lock[o] = c THEN [lock EXCEPT ![o] = NoCaller] ELSE lock
      /\ Return(c)
      /\ UNCHANGED <<blobs, known, bound, granted, erased, missed>>

Begin(c, o) ==
  \/ PutRow(c, o) \/ IngestRow(c, o) \/ ReadRow(c, o)
  \/ RetrieveRow(c, o) \/ DeleteRow(c, o) \/ BindRow(c, o)

Continue(c) ==
  \/ PutBlob(c) \/ IngestBlob(c) \/ IngestCommit(c) \/ RetrieveGrant(c) \/ FetchBlob(c)
  \/ DeleteBlob(c) \/ DeleteMark(c) \/ BindCommit(c)

ObjectNext == \E c \in Caller : Continue(c) \/ Fail(c) \/ \E o \in Object : Begin(c, o)

ObjectSpec == ObjectInit /\ [][ObjectNext]_objectVars

(* A call in progress goes on; PostgreSQL serves those who wait for a row  *)
(* lock in the order of their arrival.  Nobody has to make a call.         *)
ObjectFairSpec == ObjectSpec /\ \A c \in Caller : SF_objectVars(Continue(c))
-----------------------------------------------------------------------------
(* Row and blob cannot change together, and yet: a reader that found a     *)
(* READY row is sent to the store in vain only if a delete of that very    *)
(* object had already been there, whatever upload failed or ingest was     *)
(* rolled back; and a row is DELETED only when the blob is gone for good,  *)
(* since nobody could load the row to remove it afterwards.  The variables *)
(* have their types.                                                       *)
RowsAndBlobsAgree ==
  /\ ObjectTypeOK
  /\ missed \subseteq erased
  /\ \A o \in Object : row[o].state = "DELETED" => o \notin blobs

(* A link is created only while the record is READY: a delete that runs at *)
(* the same time comes to its row either before the check or after the     *)
(* commit of the goal.                                                     *)
BoundWhileReady ==
  [][\A o \in bound' \ bound : row[o].state = "READY"]_objectVars

(* Calls waiting for a row lock are not left waiting.                      *)
CallsReturn == \A c \in Caller : call[c].step # "idle" ~> call[c].step = "idle"
=============================================================================
