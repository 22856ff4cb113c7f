----------------------------- MODULE TaskPatches -----------------------------
(***************************************************************************)
(* The write-behind buffer of the browser client: the task-patch coalescer *)
(* and the ordered mutation queue of src/src/state/persistence.js.         *)
(*                                                                         *)
(* The user's field edits of a task are merged in `pending' until a 250 ms *)
(* timer, an explicit flush or a retry takes the entry out, puts it in     *)
(* `inFlight' and appends a job to the queue.  The queue runs one job at a *)
(* time.  A job that fails gives its patch back: under the newer pending   *)
(* entry if there is one, into `failed' otherwise.                         *)
(*                                                                         *)
(* A patch is a total function on Field; Absent marks a field the patch    *)
(* object does not own.  NoEntry marks a task that a Map does not hold.    *)
(***************************************************************************)
EXTENDS Naturals, FiniteSets, Sequences, SequencesExt

CONSTANTS
  Task,      \* task ids
  Field,     \* editable fields of a task
  Status,    \* the field whose change starts a new lifecycle transition
  Derived,   \* DERIVED_LIFECYCLE_FIELDS: what a status change derives
  Value,     \* field values
  Absent,    \* "the patch does not own this field"
  NoEntry,   \* "the map has no entry for this task"
  Serial,    \* a job of the ordered queue that is not a task patch
  UserPatch  \* the patches updateTask() is called with

ASSUME TaskAssumption  == IsFiniteSet(Task) /\ Serial \notin Task
ASSUME FieldAssumption == Status \in Field /\ Derived \subseteq Field \ {Status}
ASSUME ValueAssumption == Absent \notin Value

Patch == [Field -> Value \cup {Absent}]

ASSUME UserPatchAssumption == UserPatch \subseteq Patch

\* The absence of a map entry is no patch, whatever fields one looks at.
ASSUME NoEntryAssumption ==
  \A fields \in SUBSET Field : NoEntry \notin [fields -> Value \cup {Absent}]

VARIABLES
  pending,            \* patch waiting for its timer, per task
  timer,              \* is the 250 ms timer of the pending entry armed
  waiting,            \* is a flush() call awaiting the task's flight
  inFlight,           \* patch taken out and not settled yet, per task
  cancelledInFlight,  \* fields cancelled while the patch is in flight
  failed,             \* refused patch kept for a retry, per task
  disposed,           \* dispose() ran and revive() did not
  queue,              \* jobs of the ordered mutation queue, head first
  running             \* is the head job executing

coalescerVars == <<pending, timer, waiting, inFlight, cancelledInFlight, failed, disposed>>
vars == <<coalescerVars, queue, running>>

(***************************************************************************)
(* Patches                                                                 *)
(***************************************************************************)
EmptyPatch == [f \in Field |-> Absent]

OrEmpty(entry) == IF entry = NoEntry THEN EmptyPatch ELSE entry

Without(patch, fields) == [f \in Field |-> IF f \in fields THEN Absent ELSE patch[f]]

\* Object.keys(patch).length === 0: such an entry is deleted from its map
EntryOf(patch) == IF patch = EmptyPatch THEN NoEntry ELSE patch

StatusChanges(previous, next) ==
  /\ previous[Status] # Absent
  /\ next[Status] # Absent
  /\ previous[Status] # next[Status]

\* A new status does not inherit what the previous transition derived.
MergeTaskPatches(previous, next) ==
  LET base == IF StatusChanges(previous, next) THEN Without(previous, Derived) ELSE previous
  IN  [f \in Field |-> IF next[f] # Absent THEN next[f] ELSE base[f]]

Overlay(values, patch) == [f \in Field |-> IF patch[f] # Absent THEN patch[f] ELSE values[f]]

(***************************************************************************)
(* The specification                                                       *)
(***************************************************************************)
Init ==
  /\ pending = [t \in Task |-> NoEntry]
  /\ timer = [t \in Task |-> FALSE]
  /\ waiting = [t \in Task |-> FALSE]
  /\ inFlight = [t \in Task |-> NoEntry]
  /\ cancelledInFlight = [t \in Task |-> {}]
  /\ failed = [t \in Task |-> NoEntry]
  /\ disposed = FALSE
  /\ queue = <<>>
  /\ running = FALSE

\* Variant for mutation checks: the retained patch is merged but not removed.
ScheduleKeepsRetained(t, patch) ==
  /\ ~disposed
  /\ patch # EmptyPatch
  /\ pending' = [pending EXCEPT ![t] =
       MergeTaskPatches(MergeTaskPatches(OrEmpty(failed[t]), OrEmpty(@)), patch)]
  /\ timer' = [timer EXCEPT ![t] = TRUE]
  /\ UNCHANGED <<waiting, inFlight, cancelledInFlight, failed, disposed, queue, running>>

\* The user edits some fields: the retained patch goes under the pending one,
\* the edit on top, and the timer is re-armed.
Schedule(t, patch) ==
  /\ ~disposed
  /\ patch # EmptyPatch
  /\ timer' = [timer EXCEPT ![t] = TRUE]
  /\ UNCHANGED <<waiting, inFlight, cancelledInFlight, disposed, queue, running>>
  /\ failed' = [failed EXCEPT ![t] = NoEntry]
  /\ pending' = [pending EXCEPT ![t] =
       MergeTaskPatches(MergeTaskPatches(OrEmpty(failed[t]), OrEmpty(@)), patch)]

\* Variant for mutation checks: flush() returns the active flight's result.
AwaitFlightForgetsPending(t) ==
  /\ inFlight[t] # NoEntry
  /\ UNCHANGED <<pending, waiting, inFlight, queue>>

\* flush(), first branch: an older flight of the task must settle first.
AwaitFlight(t) ==
  /\ inFlight[t] # NoEntry
  /\ waiting' = [waiting EXCEPT ![t] = TRUE]
  /\ UNCHANGED <<pending, inFlight, queue>>

\* Variant for mutation checks: flush() does not look for an active flight.
TakeOutDuringFlight(t) ==
  /\ pending[t] # NoEntry
  /\ inFlight' = [inFlight EXCEPT ![t] = pending[t]]
  /\ pending' = [pending EXCEPT ![t] = NoEntry]
  /\ queue' = Append(queue, t)

\* flush(), second branch: the entry leaves `pending' and its job is enqueued.
TakeOut(t) ==
  /\ inFlight[t] = NoEntry
  /\ pending[t] # NoEntry
  /\ inFlight' = [inFlight EXCEPT ![t] = pending[t]]
  /\ pending' = [pending EXCEPT ![t] = NoEntry]
  /\ queue' = Append(queue, t)

\* Variant for mutation checks: the entry is taken out before the flight is looked for.
TimerFiresTooSoon(t) ==
  /\ timer[t]
  /\ timer' = [timer EXCEPT ![t] = FALSE]
  /\ \/ /\ inFlight[t] # NoEntry
        /\ pending' = [pending EXCEPT ![t] = NoEntry]
        /\ UNCHANGED <<waiting, inFlight, queue>>
     \/ TakeOut(t) /\ UNCHANGED waiting
  /\ UNCHANGED <<cancelledInFlight, failed, disposed, running>>

\* The coalescing delay of a pending entry elapses.
TimerFires(t) ==
  /\ timer[t]
  /\ timer' = [timer EXCEPT ![t] = FALSE]
  /\ \/ AwaitFlight(t)
     \/ TakeOut(t) /\ UNCHANGED waiting
  /\ UNCHANGED <<cancelledInFlight, failed, disposed, running>>

\* Closing the panel, moving or deleting a task, saving a draft, a reload:
\* they flush without waiting for the timer.
ExplicitFlush(t) ==
  /\ \/ AwaitFlight(t) /\ UNCHANGED timer
     \/ TakeOut(t) /\ timer' = [timer EXCEPT ![t] = FALSE] /\ UNCHANGED waiting
  /\ UNCHANGED <<cancelledInFlight, failed, disposed, running>>

\* Variant for mutation checks: the resumed flush() does not flush again.
FlushResumesIdle(t) ==
  /\ waiting[t]
  /\ inFlight[t] = NoEntry
  /\ waiting' = [waiting EXCEPT ![t] = FALSE]
  /\ UNCHANGED <<pending, timer, inFlight, queue, cancelledInFlight, failed, disposed, running>>

\* A flush() that awaited a flight resumes: it flushes what is pending now.
FlushResumes(t) ==
  /\ waiting[t]
  /\ inFlight[t] = NoEntry
  /\ waiting' = [waiting EXCEPT ![t] = FALSE]
  /\ \/ TakeOut(t) /\ timer' = [timer EXCEPT ![t] = FALSE]
     \/ pending[t] = NoEntry /\ UNCHANGED <<pending, timer, inFlight, queue>>
  /\ UNCHANGED <<cancelledInFlight, failed, disposed, running>>

Retried(t) ==
  IF failed[t] = NoEntry THEN pending[t] ELSE MergeTaskPatches(failed[t], OrEmpty(pending[t]))

\* The tasks retryFailed() can take out in its first round, and their order.
Ready == {t \in Task : inFlight[t] = NoEntry /\ Retried(t) # NoEntry}

\* retryFailed(): every retained patch is put back and everything is flushed.
RetryFailed(order) ==
  /\ \E t \in Task : failed[t] # NoEntry
  /\ failed' = [t \in Task |-> NoEntry]
  /\ inFlight' = [t \in Task |-> IF t \in Ready THEN Retried(t) ELSE inFlight[t]]
  /\ pending' = [t \in Task |-> IF t \in Ready THEN NoEntry ELSE Retried(t)]
  /\ timer' = [t \in Task |-> timer[t] /\ t \notin Ready]
  /\ waiting' = [t \in Task |-> waiting[t] \/ inFlight[t] # NoEntry]
  /\ queue' = queue \o order
  /\ UNCHANGED <<cancelledInFlight, disposed, running>>

\* The interface invalidates fields: they leave the pending and the retained
\* patch at once, the patch in flight when its result arrives.
CancelFields(t, fields) ==
  LET cut(entry) == IF entry = NoEntry THEN NoEntry ELSE EntryOf(Without(entry, fields))
  IN  /\ cancelledInFlight' = [cancelledInFlight EXCEPT ![t] =
           IF inFlight[t] = NoEntry THEN @ ELSE @ \cup fields]
      /\ pending' = [pending EXCEPT ![t] = cut(@)]
      /\ timer' = [timer EXCEPT ![t] = @ /\ cut(pending[t]) # NoEntry]
      /\ failed' = [failed EXCEPT ![t] = cut(@)]
      /\ UNCHANGED <<waiting, inFlight, disposed, queue, running>>

\* The ordered queue starts its head job; for a patch, the request leaves.
StartJob ==
  /\ queue # <<>>
  /\ ~running
  /\ running' = TRUE
  /\ UNCHANGED <<coalescerVars, queue>>

\* The head job runs; when it settles, the queue moves on.
Executing(job) == running /\ queue # <<>> /\ Head(queue) = job

JobEnds ==
  /\ running' = FALSE
  /\ queue' = Tail(queue)

\* The commit of the head job's patch was acknowledged.
CommitSucceeds(t) ==
  /\ Executing(t)
  /\ JobEnds
  /\ inFlight' = [inFlight EXCEPT ![t] = NoEntry]
  /\ cancelledInFlight' = [cancelledInFlight EXCEPT ![t] = {}]
  /\ UNCHANGED <<pending, timer, waiting, failed, disposed>>

\* Variant for mutation checks: a failed flight gives cancelled fields back.
RetainedIgnoresCancels(t) == MergeTaskPatches(OrEmpty(failed[t]), inFlight[t])

\* What a failed flight gives back.
Retained(t) ==
  Without(MergeTaskPatches(OrEmpty(failed[t]), Without(inFlight[t], cancelledInFlight[t])),
          cancelledInFlight[t])

\* Variant for mutation checks: a refused patch is kept only under a newer one.
CommitFailsForgets(t) ==
  /\ Executing(t)
  /\ JobEnds
  /\ inFlight' = [inFlight EXCEPT ![t] = NoEntry]
  /\ cancelledInFlight' = [cancelledInFlight EXCEPT ![t] = {}]
  /\ pending' = [pending EXCEPT ![t] = IF @ = NoEntry THEN @ ELSE MergeTaskPatches(Retained(t), @)]
  /\ UNCHANGED <<timer, waiting, failed, disposed>>

\* The commit was refused, or its outcome is unknown.
CommitFails(t) ==
  /\ Executing(t)
  /\ JobEnds
  /\ inFlight' = [inFlight EXCEPT ![t] = NoEntry]
  /\ cancelledInFlight' = [cancelledInFlight EXCEPT ![t] = {}]
  /\ \/ /\ disposed
        /\ UNCHANGED <<pending, failed>>
     \/ /\ ~disposed
        /\ pending[t] # NoEntry
        /\ pending' = [pending EXCEPT ![t] = MergeTaskPatches(Retained(t), @)]
        /\ failed' = [failed EXCEPT ![t] = NoEntry]
     \/ /\ ~disposed
        /\ pending[t] = NoEntry
        /\ failed' = [failed EXCEPT ![t] = EntryOf(Retained(t))]
        /\ UNCHANGED pending
  /\ UNCHANGED <<timer, waiting, disposed>>

\* A mutation or a reload is serialised behind the jobs already queued.
\* One of them at a time is enough to delay a patch.
EnqueueSerial ==
  /\ Serial \notin {queue[i] : i \in 1 .. Len(queue)}
  /\ queue' = Append(queue, Serial)
  /\ UNCHANGED <<coalescerVars, running>>

\* The serialised job ends; a reload the user chose may discard the failures.
SerialEnds(discard) ==
  /\ Executing(Serial)
  /\ JobEnds
  /\ failed' = IF discard THEN [t \in Task |-> NoEntry] ELSE failed
  /\ UNCHANGED <<pending, timer, waiting, inFlight, cancelledInFlight, disposed>>

\* Variant for mutation checks: the retained patches outlive the buffer.
DisposeKeepsRetained ==
  /\ ~disposed
  /\ disposed' = TRUE
  /\ pending' = [t \in Task |-> NoEntry]
  /\ timer' = [t \in Task |-> FALSE]
  /\ cancelledInFlight' = [t \in Task |-> {}]
  /\ UNCHANGED <<waiting, inFlight, failed, queue, running>>

\* The provider unmounts.
Dispose ==
  /\ ~disposed
  /\ disposed' = TRUE
  /\ pending' = [t \in Task |-> NoEntry]
  /\ timer' = [t \in Task |-> FALSE]
  /\ failed' = [t \in Task |-> NoEntry]
  /\ cancelledInFlight' = [t \in Task |-> {}]
  /\ UNCHANGED <<waiting, inFlight, queue, running>>

\* StrictMode re-runs the mount effect before anything was sent.
Revive ==
  /\ disposed
  /\ \A t \in Task : inFlight[t] = NoEntry
  /\ disposed' = FALSE
  /\ UNCHANGED <<pending, timer, waiting, inFlight, cancelledInFlight, failed, queue, running>>

User ==
  \/ \E t \in Task : \/ \E patch \in UserPatch : Schedule(t, patch)
                     \/ \E fields \in SUBSET Field \ {{}} : CancelFields(t, fields)
                     \/ ExplicitFlush(t)
  \/ \E order \in SetToSeqs(Ready) : RetryFailed(order)
  \/ EnqueueSerial
  \/ Dispose
  \/ Revive

System ==
  \/ \E t \in Task : TimerFires(t) \/ FlushResumes(t) \/ CommitSucceeds(t) \/ CommitFails(t)
  \/ StartJob
  \/ \E discard \in BOOLEAN : SerialEnds(discard)

Next == User \/ System

Spec == Init /\ [][Next]_vars

\* Timers and resumed callers run, and every request settles: the repository
\* aborts one after 30 seconds.
Fairness ==
  /\ \A t \in Task : /\ WF_vars(TimerFires(t))
                     /\ WF_vars(FlushResumes(t))
                     /\ WF_vars(CommitSucceeds(t) \/ CommitFails(t))
  /\ WF_vars(StartJob)
  /\ WF_vars(\E discard \in BOOLEAN : SerialEnds(discard))

FairSpec == Spec /\ Fairness

(***************************************************************************)
(* Properties                                                              *)
(***************************************************************************)
Job == Task \cup {Serial}

\* The maps hold patches, the queue holds jobs.
TypeOK ==
  /\ pending \in [Task -> Patch \cup {NoEntry}]
  /\ timer \in [Task -> BOOLEAN]
  /\ waiting \in [Task -> BOOLEAN]
  /\ inFlight \in [Task -> Patch \cup {NoEntry}]
  /\ cancelledInFlight \in [Task -> SUBSET Field]
  /\ failed \in [Task -> Patch \cup {NoEntry}]
  /\ disposed \in BOOLEAN
  /\ queue \in Seq(Job)
  /\ running \in BOOLEAN

\* A task has at most one job in the queue, and exactly while its patch is in
\* flight: two requests of one task can never overtake each other, and no
\* flight is forgotten by the queue that must settle it.
OneFlightPerTask ==
  /\ \A i, j \in 1 .. Len(queue) : queue[i] \in Task /\ queue[i] = queue[j] => i = j
  /\ \A t \in Task : inFlight[t] # NoEntry <=> \E i \in 1 .. Len(queue) : queue[i] = t

\* A pending edit always has a timer or a suspended flush() that will send it:
\* no interleaving of timers, flushes, failures and cancels strands it.
PendingWillBeSent ==
  \A t \in Task : pending[t] # NoEntry => timer[t] \/ waiting[t]

\* A retained patch is the only copy of its task's edits and is not empty: a
\* newer edit, a flight or a cancel of its last field replaces it (an empty one
\* would block every data refresh with UNSAVED_TASK_CHANGES).
RetainedAlone ==
  \A t \in Task : failed[t] # NoEntry =>
    failed[t] # EmptyPatch /\ pending[t] = NoEntry /\ inFlight[t] = NoEntry

CancelsFollowFlights == \A t \in Task : cancelledInFlight[t] # {} => inFlight[t] # NoEntry

DisposedIsEmpty == disposed => \A t \in Task : pending[t] = NoEntry /\ failed[t] = NoEntry

\* The inductive invariant.  Cancels are remembered for flights only, and a
\* disposed buffer holds nothing to send.
IInv ==
  /\ TypeOK
  /\ OneFlightPerTask
  /\ PendingWillBeSent
  /\ RetainedAlone
  /\ CancelsFollowFlights
  /\ DisposedIsEmpty

\* The comment of cancelFields (persistence.js:275-278): once a field is
\* cancelled no outgoing request of the task carries it until it is retyped.
\* The code does not keep this (README, section 6), so that no run asserts it.
CancelledFieldNeverSent ==
  [][\A t \in Task :
       StartJob /\ Head(queue) = t =>
         \A f \in cancelledInFlight[t] :
           inFlight[t][f] = Absent \/ OrEmpty(pending[t])[f] # Absent]_vars

\* A flight always settles, however many jobs wait in front of it and whatever
\* the user does meanwhile; and once the user leaves the buffer alone, its edits
\* end acknowledged or retained for a retry, never stuck on their way.
EditsSettle ==
  /\ \A t \in Task : inFlight[t] # NoEntry ~> inFlight[t] = NoEntry
  /\ <>[][System]_vars => \A t \in Task : <>[](pending[t] = NoEntry /\ inFlight[t] = NoEntry)

(***************************************************************************)
(* The buffer implements EditLedger for the fields the user alone sets:    *)
(* an edit is where the newest of its copies is.  A derived field follows  *)
(* the status and may be dropped with it.                                  *)
(***************************************************************************)
Plain == Field \ Derived

UnsavedEdits(t) ==
  [f \in Plain |->
     IF disposed THEN Absent
     ELSE IF OrEmpty(pending[t])[f] # Absent THEN OrEmpty(pending[t])[f]
     ELSE IF f \notin cancelledInFlight[t] /\ OrEmpty(inFlight[t])[f] # Absent
          THEN OrEmpty(inFlight[t])[f]
          ELSE OrEmpty(failed[t])[f]]

SentEdits(t) ==
  IF inFlight[t] = NoEntry THEN NoEntry ELSE [f \in Plain |-> inFlight[t][f]]

Ledger == INSTANCE EditLedger
  WITH Field   <- Plain,
       Nothing <- NoEntry,
       unsaved <- [t \in Task |-> UnsavedEdits(t)],
       sent    <- [t \in Task |-> SentEdits(t)]

\* Which step of the buffer may be which step of the ledger.  Only a commit that
\* succeeded acknowledges, and one that failed leaves every edit unsaved; only
\* the user's own cancel, choice to discard and leaving of the page give edits
\* up; whatever timers, flushes, retries and the queue do, they at most send.
EachStepInTheLedger ==
  /\ \A t \in Task :
       /\ \A patch \in UserPatch : Schedule(t, patch) => Ledger!Edit(t, [f \in Plain |-> patch[f]])
       /\ \A fields \in SUBSET Field : CancelFields(t, fields) => Ledger!Cancel(t, fields \cap Plain)
       /\ TimerFires(t) \/ ExplicitFlush(t) \/ FlushResumes(t) =>
            Ledger!Send({t}) \/ UNCHANGED Ledger!vars
       /\ CommitSucceeds(t) => Ledger!Acknowledge(t)
       /\ CommitFails(t) => Ledger!Refuse(t)
  /\ LET order == SubSeq(queue', Len(queue) + 1, Len(queue'))
     IN  RetryFailed(order) => Ledger!Send(Ready)
  /\ SerialEnds(TRUE) => Ledger!Discard({t \in Task : failed[t] # NoEntry})
  /\ Dispose => Ledger!Close
  /\ StartJob \/ EnqueueSerial \/ SerialEnds(FALSE) \/ Revive => UNCHANGED Ledger!vars

\* No edit is lost, resurrected or overtaken by an older value of its field
\* (persistence.js:126-320): it stays unsaved until a commit with its value
\* succeeds or the user gives it up, and a refused commit changes nothing.
ImplementsLedger == Ledger!Spec /\ [][EachStepInTheLedger]_vars
=============================================================================
