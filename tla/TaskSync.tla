------------------------------- MODULE TaskSync -------------------------------
(***************************************************************************)
(* One browser tab against the versioned task table.                       *)
(*                                                                         *)
(* TaskPatches says which patch leaves and when.  Here a job of the ordered *)
(* queue is played out: the patch is laid over the tab's copy of the task,  *)
(* the FULL object goes out with the row version the tab last saw, and the  *)
(* server stores it only over that version (UPDATE ... WHERE RowVersion).   *)
(* The tab learns the outcome, or gives up after 30 seconds while the       *)
(* request may still arrive.  Other users write meanwhile; a reload queued  *)
(* behind the jobs replaces the tab's copy and may lay the retained patches *)
(* over it again.                                                           *)
(*                                                                         *)
(* Sources: src/src/state/persistence.js, dataReloadLifecycle.js,           *)
(* dataRefreshSafety.js, appState.js, data/api/createApiRepository.js,      *)
(* server/repository/sqlAppRepository.js.                                   *)
(***************************************************************************)
EXTENDS TaskPatches

CONSTANTS
  MaxVersion,  \* bound: no row is written beyond this version
  MaxLate      \* bound: so many abandoned requests are still on their way

ASSUME BoundAssumption == MaxVersion \in Nat \ {0} /\ MaxLate \in Nat

\* Any field may be edited alone.
ASSUME EditAssumption ==
  \A f \in Field, v \in Value : [EmptyPatch EXCEPT ![f] = v] \in UserPatch

Content == [Field -> Value]
Row     == [version : 1 .. MaxVersion, values : Content]
Mode    == {"plain", "discard", "preserve"}

VARIABLES
  store,     \* the rows of MR_Tasks; NoEntry once deleted
  client,    \* the tab's copy of each task; NoEntry if it is gone from it
  request,   \* the commit request the tab waits for, NoEntry if none
  late,      \* abandoned requests the server may still receive
  snapshot,  \* rows the running reload has read, NoEntry before that
  reload,    \* mode of the queued or running reload, NoEntry if none
  missed     \* observer: the last version an answer told the tab it wrote that its copy lacks

syncVars == <<store, client, request, late, snapshot, reload, missed>>
allVars == <<vars, syncVars>>

SyncInit ==
  /\ Init
  /\ \E v \in Value : store = [t \in Task |-> [version |-> 1, values |-> [f \in Field |-> v]]]
  /\ client = store
  /\ request = NoEntry
  /\ late = {}
  /\ snapshot = NoEntry
  /\ reload = NoEntry
  /\ missed = [t \in Task |-> 0]

(***************************************************************************)
(* The user: edits, one field at a time, go to the buffer of TaskPatches.  *)
(* Nothing in the interface cancels a field (cancelTaskFieldUpdates).      *)
(***************************************************************************)
\* The user changes one field of a task the tab shows.
Edit(t, field, value) ==
  /\ client[t] # NoEntry
  /\ Schedule(t, [EmptyPatch EXCEPT ![field] = value])

Buffering ==
  /\ \/ \E t \in Task : \/ \E f \in Field, v \in Value : Edit(t, f, v)
                        \/ ExplicitFlush(t) \/ TimerFires(t) \/ FlushResumes(t)
     \/ \E order \in SetToSeqs(Ready) : RetryFailed(order)
  /\ UNCHANGED syncVars

(***************************************************************************)
(* The head job is a task patch                                            *)
(***************************************************************************)
\* What a status takes along, and what takes a status along.
Lifecycle == {Status} \cup Derived

Carried(patch) == {f \in Field : patch[f] # Absent}

\* normalizeTaskLifecycle: a patch that touches the lifecycle settles all of it, the
\* other patches only what they carry.
Settled(patch) ==
  Carried(patch) \cup (IF Carried(patch) \cap Lifecycle = {} THEN {} ELSE Lifecycle)

\* The request a patch becomes: the whole planned task with its known version, what the
\* patch settles without carrying it as the day and the task have it.
Sent(t, settled) ==
  [task |-> t, version |-> client[t].version, edited |-> Settled(inFlight[t]),
   values |-> [f \in Field |-> IF f \in DOMAIN settled THEN settled[f]
                               ELSE Overlay(client[t].values, inFlight[t])[f]]]

\* The job starts: the reducer plans the task and the request leaves.
StartPatch(t) ==
  /\ queue # <<>> /\ Head(queue) = t
  /\ StartJob
  /\ \/ client[t] = NoEntry /\ request' = NoEntry
     \/ /\ client[t] # NoEntry
        /\ \E settled \in [Settled(inFlight[t]) \ Carried(inFlight[t]) -> Value] :
             request' = [sent |-> Sent(t, settled), status |-> "sent"]
  /\ UNCHANGED <<store, client, late, snapshot, reload, missed>>

\* The task left the tab's state (TASK_NOT_FOUND) or the reducer refuses the
\* patch: the job fails without a request.
FailsLocally(t) ==
  /\ \/ client[t] = NoEntry
     \/ request # NoEntry /\ request.status = "sent"
  /\ CommitFails(t)
  /\ request' = NoEntry
  /\ UNCHANGED <<store, client, late, snapshot, reload, missed>>

\* Variant for mutation checks: the row is found by its id alone.
WritesById(r) ==
  /\ store[r.task] # NoEntry
  /\ store[r.task].version < MaxVersion
  /\ store' = [store EXCEPT ![r.task] = [version |-> @.version + 1, values |-> r.values]]

\* UPDATE ... WHERE TaskId = @taskId AND RowVersion = @version.
Writes(r) ==
  /\ store[r.task] # NoEntry
  /\ store[r.task].version = r.version
  /\ store[r.task].version < MaxVersion
  /\ store' = [store EXCEPT ![r.task] = [version |-> @.version + 1, values |-> r.values]]

\* The server stores the request and answers with the row it wrote.
ServerStores ==
  /\ request # NoEntry /\ request.status = "sent"
  /\ Writes(request.sent)
  /\ request' = [request EXCEPT !.status = "stored"]
  /\ UNCHANGED <<vars, client, late, snapshot, reload, missed>>

\* CONFLICT, a missing row, a lost right or an invalid value.
ServerRefuses ==
  /\ request # NoEntry /\ request.status = "sent"
  /\ request' = [request EXCEPT !.status = "refused"]
  /\ UNCHANGED <<vars, store, client, late, snapshot, reload, missed>>

Answered(t, status) == request # NoEntry /\ request.sent.task = t /\ request.status = status

\* Variant for mutation checks: the tab keeps the version it had.
KeepsVersion(t) == [version |-> request.sent.version, values |-> request.sent.values]

\* The answer carries the row as the same transaction wrote it.
Authoritative(t) == [version |-> request.sent.version + 1, values |-> request.sent.values]

\* persistence/success: the authoritative row replaces the tab's copy.
LearnsStored(t) ==
  /\ Answered(t, "stored")
  /\ CommitSucceeds(t)
  /\ client' = [client EXCEPT ![t] = Authoritative(t)]
  /\ missed' = LET told == request.sent.version + 1
               IN  [missed EXCEPT ![t] = IF client'[t].version >= told THEN 0 ELSE told]
  /\ request' = NoEntry
  /\ UNCHANGED <<store, late, snapshot, reload>>

\* persistence/failure: the tab's copy stays what it was.
LearnsRefused(t) ==
  /\ Answered(t, "refused")
  /\ CommitFails(t)
  /\ request' = NoEntry
  /\ UNCHANGED <<store, client, late, snapshot, reload, missed>>

\* The 30 s timeout or a broken connection: the outcome stays unknown and a
\* request still on its way may arrive later.
GivesUp(t) ==
  /\ request # NoEntry /\ request.sent.task = t
  /\ CommitFails(t)
  /\ \/ request.status = "sent" /\ Cardinality(late) < MaxLate /\ late' = late \cup {request.sent}
     \/ UNCHANGED late
  /\ request' = NoEntry
  /\ UNCHANGED <<store, client, snapshot, reload, missed>>

(***************************************************************************)
(* The rest of the world                                                   *)
(***************************************************************************)
\* An abandoned request arrives and is stored, or never has an effect.
LateArrives(r) ==
  /\ r \in late
  /\ late' = late \ {r}
  /\ Writes(r) \/ UNCHANGED store
  /\ UNCHANGED <<vars, client, request, snapshot, reload, missed>>

OtherUserEdits(t, field, value) ==
  /\ store[t] # NoEntry /\ store[t].version < MaxVersion
  /\ store' = [store EXCEPT ![t] = [version |-> @.version + 1,
                                    values |-> [@.values EXCEPT ![field] = value]]]
  /\ UNCHANGED <<vars, client, request, late, snapshot, reload, missed>>

OtherUserDeletes(t) ==
  /\ store[t] # NoEntry
  /\ store' = [store EXCEPT ![t] = NoEntry]
  /\ UNCHANGED <<vars, client, request, late, snapshot, reload, missed>>

(***************************************************************************)
(* Reloading                                                               *)
(***************************************************************************)
HasFailed == \E t \in Task : failed[t] # NoEntry

\* Everything pending is flushed and the queue has run dry; retained patches
\* forbid a reload unless the user decided what becomes of them.
RequestReload(mode) ==
  /\ queue = <<>>
  /\ \A t \in Task : pending[t] = NoEntry
  /\ mode = "plain" => ~HasFailed
  /\ mode = "discard" => HasFailed
  /\ EnqueueSerial
  /\ reload' = mode
  /\ UNCHANGED <<store, client, request, late, snapshot, missed>>

StartReload ==
  /\ queue # <<>> /\ Head(queue) = Serial
  /\ StartJob
  /\ UNCHANGED syncVars

\* GET /snapshot reads every row in one transaction.
ReadSnapshot ==
  /\ Executing(Serial)
  /\ snapshot = NoEntry
  /\ snapshot' = store
  /\ UNCHANGED <<vars, store, client, request, late, reload, missed>>

\* Variant for mutation checks: the patches are laid over the tab's copy.
RebasedOnClient(t) ==
  IF NoEntry \in {snapshot[t], client[t], failed[t]} THEN snapshot[t]
  ELSE [version |-> snapshot[t].version, values |-> Overlay(client[t].values, failed[t])]

\* A retained patch goes over the fresh row of its task, if there is one.
Rebased(t) ==
  IF NoEntry \in {snapshot[t], failed[t]} THEN snapshot[t]
  ELSE [version |-> snapshot[t].version, values |-> Overlay(snapshot[t].values, failed[t])]

\* Variant for mutation checks: the next reload finds the rows of this one.
ReloadKeepsSnapshot ==
  /\ snapshot # NoEntry
  /\ SerialEnds(reload = "discard")
  /\ client' = IF reload = "preserve" THEN [t \in Task |-> Rebased(t)] ELSE snapshot
  /\ reload' = NoEntry
  /\ UNCHANGED <<store, request, late, snapshot, missed>>

\* The tab's copy is replaced; a choice to discard drops the retained patches.
ReloadApplies ==
  /\ snapshot # NoEntry
  /\ SerialEnds(reload = "discard")
  /\ client' = IF reload = "preserve" THEN [t \in Task |-> Rebased(t)] ELSE snapshot
  /\ snapshot' = NoEntry
  /\ reload' = NoEntry
  /\ UNCHANGED <<store, request, late, missed>>

ReloadFails ==
  /\ SerialEnds(FALSE)
  /\ snapshot' = NoEntry
  /\ reload' = NoEntry
  /\ UNCHANGED <<store, client, request, late, missed>>

SyncNext ==
  \/ Buffering
  \/ \E t \in Task : \/ StartPatch(t) \/ FailsLocally(t) \/ LearnsStored(t) \/ LearnsRefused(t)
                     \/ GivesUp(t) \/ OtherUserDeletes(t)
                     \/ \E f \in Field, v \in Value : OtherUserEdits(t, f, v)
  \/ ServerStores \/ ServerRefuses
  \/ \E r \in late : LateArrives(r)
  \/ \E mode \in Mode : RequestReload(mode)
  \/ StartReload \/ ReadSnapshot \/ ReloadApplies \/ ReloadFails

SyncSpec == SyncInit /\ [][SyncNext]_allVars

(***************************************************************************)
(* Properties                                                              *)
(***************************************************************************)
Wire == [task : Task, version : 1 .. MaxVersion, edited : SUBSET Field, values : Content]

\* Rows, copies and requests are well formed.
SyncTypeOK ==
  /\ TypeOK
  /\ store \in [Task -> Row \cup {NoEntry}]
  /\ client \in [Task -> Row \cup {NoEntry}]
  /\ request \in [sent : Wire, status : {"sent", "stored", "refused"}] \cup {NoEntry}
  /\ late \subseteq Wire
  /\ snapshot \in [Task -> Row \cup {NoEntry}] \cup {NoEntry}
  /\ reload \in Mode \cup {NoEntry}
  /\ missed \in [Task -> 0 .. MaxVersion]

Held(t) == UNION {Settled(OrEmpty(entry)) : entry \in {pending[t], inFlight[t], failed[t]}}

\* The row version names its content: a tab that knows the current version of a
\* row has its values, but for the fields whose edits it still holds.  This is
\* what makes sending the full object with a version safe.
VersionNamesContent ==
  \A t \in Task :
    client[t] # NoEntry /\ store[t] # NoEntry /\ client[t].version = store[t].version =>
      \A f \in Field \ Held(t) : client[t].values[f] = store[t].values[f]

\* Stored(r): this step the server stored the request r.
Stored(r) ==
  /\ store'[r.task] # store[r.task]
  /\ \/ r \in late \ late'
     \/ /\ request # NoEntry /\ request.sent = r /\ request.status = "sent"
        /\ request' # NoEntry /\ request'.status = "stored"

\* A request, on time or late, never writes a field its patch did not edit: a
\* full object built from an old copy cannot undo what someone else stored.
UneditedFieldsUntouched ==
  [][\A r \in late \cup (IF request = NoEntry THEN {} ELSE {request.sent}) :
       Stored(r) =>
         \A f \in Field \ r.edited : store'[r.task].values[f] = store[r.task].values[f]]_allVars

\* Whatever answers and reloads overlap, the tab never goes back to an older
\* version of a task it knows.
VersionsOnlyGrow ==
  [][\A t \in Task : client[t] # NoEntry /\ client'[t] # NoEntry =>
       client'[t].version >= client[t].version]_allVars

\* A tab never conflicts with itself: whatever its rapid edits, retries, reloads
\* and lost answers overlap, a request knows every version of its row that the
\* tab was told it wrote.
NeverConflictsWithItself ==
  request # NoEntry /\ request.status = "sent" =>
    request.sent.version >= missed[request.sent.task]

\* Whatever the tab sends, its version is that of the content it builds on, and
\* no older than the tab was told.
VersionsSound == VersionNamesContent /\ NeverConflictsWithItself
===============================================================================
