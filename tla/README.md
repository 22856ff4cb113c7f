# MERGEN Rota: specifications, model checks and proofs

MERGEN Rota (the repository `Takvim`) is a project and task planner: a React client whose state lives in the browser
tab, a Next.js server, a SQL Server database shared by several application instances, and background workers that send
mail and calendar invitations. This directory holds TLA+ specifications of the parts where the order of events decides
whether the program is correct, the TLC configurations that check them on small instances, and TLAPS proofs of their
main properties for every instance.

Contents: [1 the system](#1-the-system), [2 the modules](#2-the-modules), [3 the runs](#3-the-runs),
[4 fairness](#4-fairness), [5 the proofs](#5-the-proofs), [6 where code and text disagree](#6-where-code-and-text-disagree),
[7 what is not modelled](#7-what-is-not-modelled), [8 the plan](#8-the-plan), [9 how to run it](#9-how-to-run-it).

Paths are relative to the repository; `P:n` abbreviates line `n` of `src/state/persistence.js`. `PROJECT.json` maps every
definition to the lines it models, every hazard to the properties that cover it, and every property to a mutation of
the model that violates it.

## 1. The system

### 1.1 Components

| Component | State | Operations | Interacts through | What makes it correct |
|---|---|---|---|---|
| **Patch coalescer** `src/state/persistence.js` | per task: pending patch and 250 ms timer, patch in flight, fields cancelled in flight, retained (refused) patch | schedule, flush, flushAll, retryFailed, discardFailed, cancelFields, rebaseFailedChanges, dispose, revive | jobs of the mutation queue; callbacks of timers and promises | no edit is lost, overtaken by an older one or sent twice at once; nothing waits for ever |
| **Ordered mutation queue** `P:86-106` | promise chain | enqueue | every mutation and reload of the tab | first in, first out; a failing job lets the next one run |
| **Tab state** `appState.js` | rows with versions, dirty flags | plan, success, failure, a reload's result | the queue, the repository | the version the tab sends belongs to the content it has |
| **Reloads and automatic refresh** `dataReloadLifecycle.js`, `dataRefreshSafety.js`, `automaticDataRefresh.js` | the running reload and the one queued behind it, newest request, loading flags, refresh timer | ask (manual, discarding, preserving, automatic), skip, join, queue, begin, succeed, fail, hide, show | promises of the callers; the coalescer and its queue | everybody who asked is answered, by a reload of the kind asked for; edits are dropped on request only |
| **API repository** `src/data/api/createApiRepository.js` | aliases of ids, timeouts, creation proofs | snapshot, commitChanges | HTTP; 30 s timeout after which the request may still be carried out | an unknown outcome is never treated as a refusal that is safe to repeat with a new identity |
| **Commit store** `src/server/repository/*` | rows with `RowVersion` | commitChanges: permission, validation, versioned writes, recurrence, WBS | one SQL transaction per commit; hooks of Outlook, mail and notifications run in it | first writer wins; a commit is all or nothing |
| **Creation ids** `creationIdStorage.js`, `creationAllocations.js` | per account: pending proofs in localStorage, `MR_CreationAllocations` | prepare, remember, complete, release; allocate, consume, release | Web Lock between tabs; two requests per creation | a draft becomes at most one row |
| **Outlook outbox** `src/server/outlook/*` | one subscription row per user and task: intent, generation, revision, sequence, lease | add, remove, resend, enqueue on commit, revalidate, claim, allocate, complete, settle, close, fail | the same row from requests, commits and workers of every instance; SMTP | the last intent wins; Outlook ends up with what the task says |
| **Task mail outbox** `src/server/notifications/taskMail*.js` | `MR_TaskMailOutbox`: status, attempts, lease, token | enqueue, claim, mark; a round of the worker | the table from every instance; SMTP | no mail lost; a second copy only where it cannot be avoided |
| **AI admission** `src/server/ai/admissionController.js` | counters, queue, leases of one process | acquire, give up, release and drain | promises of the gateway's callers | limits hold, counters never drift, nobody waits for room that is free |
| **Assistant's turns** `src/server/ai/assistant/assistant{Generations,Service,StreamResponse}.js`, `conversationQueries.js` | conversations and their messages; in the memory of a process the claims on generations | ask, claim, wait for a repeat, write the turn, generate, store, deliver, stop, stall, delete | admission of its calls; database statements that outlive their deadline; the browser's connection | a conversation alternates turns and answers; one generation each; what is shown as done is stored; nothing is shown after a deletion; no claim is kept for ever |
| **Semantic index, gateway's providers, grounded answers** `src/server/ai/*` | one visible index, running builds | index builds, tool calls | language-model service | one build per key; only the newest becomes visible |
| **Reminders** `src/server/reminders/*` | `MR_TaskReminderLog`: slot, status, a digest of who was tried | automatic run, manual request, claim, checkpoint before and after each recipient, complete, defer | the log table from every instance; SMTP | one owner per reminder; an abandoned one is taken up again, and nobody gets it twice |
| **Assignment coordination** `assignmentCoordinationStore.js` and **schedule change requests** `scheduleChangeStore.js` | request rows with a status, what the task was when they were made | create, approve, reject, withdraw, cancel, release; closed by commits that assign, remove or delete | task rows and their version, which editors save at the same time | decided once, and only against the task they were made for |
| **Corporate WBS synchronisation** `corporateWbsSync*.js` | flight, freshness, back-off, warmth of one process; tree and sync record in the database | run at a snapshot, manual refresh, administrator's run | snapshots of every user; the ERP's table | one sweep at a time; a cold start waits for data; a skipped merge had nothing to merge |
| **Presence** `presenceLeader.js`, `presenceStore.js` | lock in localStorage, heartbeat rows | claim, heartbeat, release | tabs | at least one visible tab beats |
| **Scheduling algorithms** `src/scheduling/*` | none | CPM, calendars, recurrence, dependencies | pure functions | dates satisfy the dependencies |
| Identity, directory, authorisation, SMTP client, pool, observability, reports, user interface | | | | see section 7 |

### 1.2 What is hard

* **Interleaving in one tab.** Everything between two `await`s is atomic, and nothing else is: timers fire while a
  patch is in flight, the user edits while a retry is queued, a reload overtakes nothing but is overtaken by nothing
  either. The coalescer keeps up to three copies of a task's edits at a time.
* **Unknown outcomes.** A commit or an SMTP dialogue that times out may have happened. Both outboxes and the client
  treat "refused" and "unknown" differently, and most of their code is about that difference.
* **Stale copies.** A worker decides on the copy of a row it claimed earlier; the client sends a full object built on
  the version it saw last; an add request writes what it read in a statement before.
* **Leases.** Two instances may work on one row when a lease ends under a living worker. Tokens guard the writes; only
  time guards the sending.
* **Counters beside collections.** Admission keeps four counters next to its queue and its leases.
* **Caches of what was done.** The catalogue skips a merge because a record says that it was done; a reminder is resumed
  from a digest of whom it was sent to. Both are written in another statement than the thing they record.
* **Decisions about a moving target.** A request is made for a task as it was and decided on a task as it is, while
  editors save full objects over both.
* **Promises that meet.** A reload joins, queues behind or skips another one, and which callback runs first is a matter
  of promise jobs, not of time.

The list of hazards in `PROJECT.json` names each of these at its line, with the properties that cover it, or the reason
why none does yet. Smaller ones that no model covers: a worker stopped and started during a round
(`taskMailWorker.js:68`); settling without a message forgets the date a later cancellation needs (`outlookQueries.js:441`);
a row whose attempts were used up by crashes has no failure code, so the administrator's retry does not select it
(`outlookQueries.js:242`); aliases compacted away in the storage bar a draft only in tabs that remember it
(`creationIdStorage.js:153`); a late build of the semantic index (`semanticRetrieval.js:189`); a stop of the automatic
refresh while one runs (`automaticDataRefresh.js:112`); a deadlock of the database between a decision, which locks record
and task in this order, and a commit, which locks them in the other (retried twice).

## 2. The modules

```
EditLedger <--implements-- TaskPatches  <--EXTENDS--  TaskSync  <-  TaskSyncProofs

CreationIds      <- CreationIdsProofs
OutlookOutbox    <- OutlookOutboxProofs
DataReload       <- DataReloadProofs  <--EXTENDS--  DataReloadViewProofs

ReminderDelivery, TaskRequests <- RemindersAndRequestsProofs

CorporateWbs <--EXTENDS-- CorporateCatalog
TaskMailOutbox, CorporateCatalog <- MailAndCatalogProofs
AiAdmission  <--EXTENDS-- AssistantTurns   <- AssistantTurnsProofs
```

Each `MC...` module gives a specification its symmetry sets and concrete functions; the `.cfg` files give the constants.
Definitions whose comment starts with "Variant for mutation checks" are not part of any specification.

### 2.1 TaskPatches: the write-behind buffer

`pending`, `timer`, `inFlight`, `cancelledInFlight` and `failed` are the maps of `createTaskPatchCoalescer`; `queue` and
`running` are the promise chain of `createOrderedMutationQueue`; `waiting` says that some `flush()` awaits the flight of
the task. A patch is a function on the fields, with `Absent` where the object owns no key. Every function of the
coalescer is one action, because it runs without an `await`; `flush()` is split at its only one (`AwaitFlight`,
`FlushResumes`). The status field and the fields derived from it are kept apart, since a merge drops what the previous
status derived (`MergeTaskPatches`). What a job does between its start and its end is an outcome here
(`CommitSucceeds`, `CommitFails`); mutations and reloads in the same queue are the job `Serial`, of which one at a
time is enough to delay a patch. `Dispose` and `Revive` are the effect clean-up and re-run of React.

**EditLedger** states what the buffer promises: per task, the newest value typed of each field, and what a request
carries. An edit leaves the ledger only by being acknowledged with exactly that value, cancelled, given up or closed. The
refinement reads the newest of the three copies. It covers the fields the user alone sets; a derived field may be
dropped with the status that derived it. A dropped edit and a cancelled one look alike in the ledger's state, so
`ImplementsLedger` also says which step of the buffer may be which step of the ledger (`EachStepInTheLedger`): only
`CommitSucceeds` acknowledges; `CommitFails`, whether the request was refused or its outcome is unknown, leaves every
edit unsaved; edits are given up only by `CancelFields`, by `SerialEnds(TRUE)` (the user chose to discard what was
refused) and by `Dispose`; timers, flushes, retries and other jobs at most send. Two of its mutations are the losses this
is about: a failed commit that forgets its patch, and a timer that takes a patch out while an older one is in flight.

### 2.2 TaskSync: one tab against the versioned rows

Extends TaskPatches and plays the jobs out: the patch over the tab's copy, the full object with the version, the
conditional `UPDATE` (`Writes`), the answer with the stored row, the 30 s timeout after which the request is in `late`
and may still be carried out, other users who edit and delete, and the three kinds of reload, which read a snapshot and
replace the tab's copy later. A patch that touches the status or a field derived from it settles all of them, as
`normalizeTaskLifecycle()` does (`Settled`): what it does not carry gets the value the day and the task give it, which is
any value here. `missed` is an observer: the version an answer told the tab it wrote and its copy lacks.
Dispose and Revive are not used here, nor is `cancelFields`, which nothing in the interface calls.

### 2.3 OutlookOutbox: one calendar subscription

One row, since rows never touch one another; `Worker`s of all instances; the task it follows; `adding`, the content a
running add request has read; `mailbox`, the revisions that reached Outlook. Each SQL statement is one action, and
between its statements a worker holds the copy of the row it claimed. `Decision` is `deliverSubscription()` with its
early returns in order. `NoRow` is the inactive row of generation 0.

Abstractions: an invitation is its content, which stands for the payload hash and for the date; the hash of a
cancellation also covers the summary line, which is ignored; a task without a usable date counts as one the user cannot
see; the day of completion is fixed, and `Upcoming` are the contents on or after it; times of the next attempt are left
out (a claim may happen at any time); the resend request's read and update are one step; SMTP that accepts delivers, and
Outlook shows the highest SEQUENCE of a UID.

### 2.4 TaskMailOutbox: the mail queue and its workers

`mail` is the table, `worker` the state of one `runTaskMailOutbox()` per instance, from reading the local clock (`Begin`)
over the claim, the preparation, the SMTP dialogue and the report of its outcome. A database call may fail without
effect (`RoundStops`) or after its effect (`Ends`), and `RoundStops` is also the process stopping. The observers: `copies`
counts SMTP acceptances, `unheard` collects the mails with a delivery whose outcome never reached the row, `delay` is the
time a round spent outside of deliveries.

Time: only differences matter, so `wait`, `lease`, `deadline` and `left` count down with `Tick`; the clocks of the
database and the instance run at the same rate. The batch size and the lease are computed by the code's formulas. No
time passes beyond a delivery's budget, which is what `AbortSignal.timeout` guarantees.

Abstractions: the order of rows in a claim is dropped, so that a claim takes any batch of its size; `READPAST` is a
claim that comes before or after; the two statements of a claim are one action, as their rows are disjoint; a random
token is one that nothing carries; disabled SMTP and a missing schema are left out.

### 2.5 AiAdmission: admission of calls

`acquire()` is `StartAtOnce` or `Enqueue`, its timeout and abort `GiveUp`, the lease's release `Release`. The queue array
is the relation `ahead`, and `drain()`, which scans the queue and starts whoever has room, is the set `Started`, defined
by what the scan leaves behind: the only set that contains exactly the waiters with room beside those started before
them (proved as `ScanHasOneResult`). A rejection (`AI_BUSY`) changes nothing. The gateway releases each lease once, in a `finally`. The
limit of a model is a constant; reloading the model registry while calls wait is not modelled.

### 2.6 CreationIds: the identity of a new object

A draft has a name the tab gave it. Before the creation is sent, the server reserves an identity and a one-use proof
for it (`Reserve`, a row of `MR_CreationAllocations`), and the browser keeps both in the storage its tabs share:
`aliases` are the identities that stand for drafts, `records` those that still have their proof. `live` is the memory
of each tab. A commit of a tab goes through the stages of `prepare()` and `commitChanges()`:

| Stage | Code | Next |
|---|---|---|
| `Begin` | `reconciliationRecords`: which proofs are too old, or bound to another project | `releasing` if there are any, else `preparing` |
| `Abandon`, `Retire` | `release`, then `retireProofs` and a conflict if the server did not report all of them unused | `preparing`; `idle` |
| `Allocate` | first `prepare`, and the request for identities | `allocating` |
| `Remember`, `Discard` | `remember`, or its failure and the return of what was issued | `returning` or `checking`; `discarding` |
| `Send`, `Complete` | second `prepare`, the commit with its proofs, `complete` | `committing`; `idle` |

Each storage step is one action, because it runs under a Web Lock (or an IndexedDB transaction) and writes the storage
once. Each request is carried out in one serialisable transaction (`Serve`). `Fail` ends a commit at any stage: a
rejection, a timeout, a storage that throws; `Reload` does so and loads the tab anew. A request that was not answered may be
in `late`, from where the server may still take it (`ServeLate`). Two equal late requests are one, since the second
allocation of a kind is lost like an answer that nobody reads, and a second commit or release finds the row changed.

Assumed: the clocks of the browser and the server run at one rate and agree; commits that create come one at a time
from a tab, which the ordered queue guarantees, but from any tab; nobody clears the storage. Left out: a change of
account, the compaction of old aliases, a browser without storage, the parents of WBS nodes, dependencies.
`released` is an observer. Users may stop trying, hence no deadlock check.

### 2.7 DataReload: reloads and the automatic refresh

`reloadData()` as a program of promise jobs: `micro` is the microtask queue of the event loop, and everything between two
of its jobs is one action. `jobs` is the ordered mutation queue. `createDataRefreshSingleFlight` is `Ask` with its three ways out (`Skip`, `Join`,
`StartAtOnce` or `Queue`), the callbacks that clear the flight and start the queued one (`Clear`, `After`, `Turn`, `Follow`);
the operation itself is `Begin` (flush, safety), `JobStarts` and `LoadSucceeds` or `LoadFails` in the ordered queue. The
buffer is reduced to what a reload sees of it: whether an edit is typed, on its way or retained. `CallerGoesOn` is the
button of the status bar, which asks again with permission to discard; `TimerFires`, `Attempt`, `AutomaticEnds`, `Hide`
and `Show` are the controller of the automatic refresh.

The granularity matters: which of two `then` callbacks on one promise runs first decides whether a third caller joins
or starts. A promise is a name with the list of those that wait for it, so that the order of jobs is that of the
language. Left out: the arithmetic of the interval and `stop()`, which is called when the provider goes away. What a
reload does to versioned rows is TaskSync's.

Two facts the model shows which no text contradicts: a caller that joins may be answered by a reload whose snapshot was
read before the caller's own write; and of two reloads that load, only the newest request is applied.

### 2.8 ReminderDelivery: one reminder

`row` is one line of `MR_TaskReminderLog` with its age since the last claim or checkpoint; a worker is one run of
`deliverTaskReminder()`, recipient by recipient: the checkpoint before (`Mark`), the dialogue (`Send`), the checkpoint
after (`Report`), the final status (`Close`). Every database call may fail (`MarkFails`, `ReportFails`, `Throws`), and a
worker may stop anywhere (`Stops`). `copies` and `tried` are observers. The digest is a function of
the recipients, or `Nothing` where the code stores none.

`RoundLimit` below `Stale` is what `reminderService.js:155-163` establishes: a run has a hard budget of at most half the
30 minutes after which a claim counts as abandoned. Without it (a process paused for longer), `NoSecondCopy` fails.
Left out: the pause between mails, a minimum interval of zero, and reminders of more recipients than
`RECIPIENT_PROGRESS_LIMIT` lets the digest hold. A later manual reminder is another reminder.

### 2.9 CorporateWbs and CorporateCatalog: the tree of the ERP

`CorporateWbs` is the database's side and one run against it: the record of the last merge, the source, the merge
(`Updated`, `Superfluous`), the new record; tasks and the source change at any time. `CorporateCatalog` adds the schedule
of one process (`corporateWbsSyncSchedule.js`): requests that ask on every snapshot, the probe of the durable warmth, the
flight, the window in which the tree counts as fresh, the back-off after failures, manual refreshes, a restart of the
process, and the administrator's own run, which does not pass through the schedule. Requests are split at each `await`.

One project stands for all, as the merge treats them one by one and the skip is decided per project. The content hash is
the plan itself. Left out: a missing configuration, an empty list of projects, edits of the mirror table by hand.

### 2.10 TaskRequests: requests and decisions around one task

`coordination` and `schedule` are the request rows of one task, `assignees`, `dates` and `current` (the version) the task, and
`editor` is a form somebody has open: what it was shown, what it will save. One action per transaction, since every one
locks the task (`UPDLOCK, HOLDLOCK`) before it reads it; a save is two, as its full object was built on an earlier read.
The records of a person are a set, told apart by an `id` the smallest free number gives (`NewId`), which says nothing of
their order; the run's `VIEW` looks past it.
`Decides` collects the ways of `decideAssignmentCoordination()`; `Published` is what a commit does to the records of those
it added and removed. Who may decide is left out: every decision is taken by somebody with the right to.

Not contradicted by any text, hence recorded only: the date request of somebody removed from the task meanwhile can
still be accepted; dates that went elsewhere and came back count as unchanged; a cancellation is accepted by its requester
without rights of their own.

### 2.11 AssistantTurns: the turns of a conversation

Extends AiAdmission: a request of the assistant is one of the gateway's calls, and `Open`, `GenerationFails` and
`Generated` are its admission, its giving up and its release; the other calls go on beside it (`OtherCall`). So every
step of the composition is a step of admission or leaves it alone, which is proved (`TurnsUseAdmission`).

`exists`, `gone` and `script` are the two tables: which conversations there are, were, and their messages in order.
A request goes through `at`, one action per stretch between two waits:

| Place | Code | Next |
|---|---|---|
| `idle` | the reading pass: is the answer stored already (`Arrive`) | `deliver`; `claim` |
| `claim`, `wait` | `claimGeneration`: the registry's entry, or the wait of a repeat for its turn's generation | `prepare`; `claim` again; a refusal |
| `prepare`, `bind` | the user's message (`TurnWritten`), then `bindConversation` under its identity | `open`; a refusal |
| `open`, `queue` | the conversation is looked up, the gateway asked for a lease, the provider for an answer | `stream` |
| `stream`, `text` | a piece of text waits for a look at the database before it is sent | `store` |
| `store`, `stored` | `persistAnswer`, again while its outcome is unknown; the author of what is stored is read back | done; `deliver` |
| `deliver`, `disclosed` | the right to see the stored answer, then the answer and `done` | done |

`claims`, `bound` and `after` are the registry; `cut` and `stalled` the generation's signal and who aborted it; `shown`
is whose text the browser has; `late` holds statements the server has given up waiting for, which may still commit;
`told` the deletions whose report has reached the process. Deletion is three actions, as it commits before it is heard
of, and one whose outcome is unknown aborts the generation all the same. `shown` is cleared when a request ends in an error:
what was shown of an answer that failed counts for nothing.

Abstractions: what is in an answer is its author; retrieval, evidence and the rights of the reader are the choice between
delivering and failing; a turn answered from data (`Grounded`) takes one lease, where the code takes one per call of
the model, one after the other; a restart of the process is the failure of all its requests. The registry is that of one process, as
the code's is, and the conversations those of one user. The browser's controller is left out: it may ask, repeat, stop and
delete at any time. A repeat that finds a stored answer holds no claim, so `NothingAfterDelete` is about the others; its
delivery looks the conversation up itself.

## 3. The runs

Deadlock is not checked where the system may rest (nothing to send, nothing due); every liveness run replaces it by what
must happen. Each property has a mutation in `PROJECT.json` that violates it under the same configuration.
Several properties are conjunctions of parts that are named and explained where they are defined (`IInv`, `ClosedSafely`,
`SendsExclusive`, `ProofsHoldOnTheWay`, `ViewGoesOn`, `DeliveredOnce`, `OutcomeIsFinal`, `TreeIsSound`,
`RequestsAreServed`, `RecordsConsistent`, `ChangesAreKnowing`, `CapacityKept`, `QueueIsFair`, `CopiesExplained`, `VersionsSound`,
`RecordSound`, `ConversationsSound`, `OneGeneration`); the parts that say more than a type have mutations of their own.

| Run | Bounds | What it shows |
|---|---|---|
| `patches` | 1 task; status, a derived and a plain field, edited one by one or the status with what it derives; 2 values, 1 for the derived field; one serialised job at a time | the buffer implements the ledger, each step as the step it stands for; the inductive invariant of the proofs holds; flights of a task never overlap, nothing pending is stranded, a retained patch is the only copy, every flight settles |
| `sync_others` | 1 row, 2 fields, 2 values, 3 versions, 1 late request | the version a tab knows names the content it has; a full-object write touches edited fields only; the tab never goes back, nor conflicts with itself |
| `outlook_crash` | 1 worker, 2 contents, 2 attempts, 3 generations, 3 revisions | through crashes, failures and retries: no change of the task is lost, a SEQUENCE names one invitation, a subscription closes only for a reason, and every intent ends |
| `outlook_workers` | 2 workers, paused for longer than their lease; hidden tasks | attempts stay within the limit; a closed subscription has left nothing in Outlook |
| `ai_admission` | 5 calls of 2 users and the server, one limited and one unlimited model, 3 active, 2 queued, 1 of each per user; then 3 requests of one user: a first turn, its repeat and a later turn answered from data, beside a call of another user | counters, limits, no waiter with room, overtaking only past one's own limit; conversations alternate and have one answer per turn, claims never meet, leases belong to generations, the done answer is the stored one, nothing is shown after a deletion, every claim is given up |
| `mail_instances` | 2 instances, 2 mails, 2 attempts, a lease just long enough for two deliveries, any delays | no mail in two dialogues at once; a second copy only after a lost outcome; copies bounded; the lease covers its batch |
| `mail_settles` | 1 instance, the same times | every queued mail is sent or given up |
| `creation_tabs` | 2 tabs; a project draft and a task draft that goes into it or into an existing project; lifetimes 1 and 2, 4 attempts, 2 identities per draft, 1 late request | a draft becomes one object; released identities stay unused; uncertain drafts keep their alias; a proof goes to its project and does not expire on the way |
| `reload` | 4 calls, 2 edits, all kinds of reload, hiding and showing the page | every caller is answered, by a reload of its own choice of discarding; refused edits survive what may not drop them, a background refresh of a shown view included; the loading screen ends; an automatic refresh never takes a user's place and always has its next timer |
| `reminders` | 2 workers, 2 recipients, abandoned after 2 units, a round lasts at most 1, 2 changes of the recipients | one owner; no second copy; checkpoints and the final status are true; a settled reminder stays so; every reminder is settled |
| `catalog` | 3 nodes, one with tasks, 3 plans of the source, 2 scheduled runs and the administrator's, 2 requests, 2 events | one flight; nobody is answered over an empty tree that a flight could fill; a skipped merge is sound; the tree stays whole; every request is answered; the tree becomes the source's |
| `requests` | 2 persons, 2 editors, 3 dates | the version names what editors have seen; one open request per person, records agree with the task, one approval; no assignee and no date is changed by somebody who did not see it |

Why the bounds are enough. *Patches:* the coalescer treats tasks independently but for the queue and `retryFailed`, and a
serial job gives every order of two jobs with something between; two values are
what a comparison of statuses and a newer edit of a plain field need, and for a derived field, which is dropped whole or
kept whole, one tells whether it is there. The patches a user makes (`UserPatch`) carry one field, or the status with what
it derives; merged, they carry any fields together. The proofs cover any number of tasks, fields and values and any
`UserPatch`; `TaskSync` only asks that every field may be edited alone. *Sync:* a lost update needs the tab's
version, another user's and one more; one abandoned request is enough to arrive after its retry. *Outlook:* three
generations are a claimed one, one that overlaps with it and one that overtakes the correction; three revisions let an
undecided one be followed by another and a fourth be refused. *Mail:* a lease of four units carries two
deliveries of one unit and their slack and nothing more, so every delay matters; two attempts let a row be retried and
exhausted; five tokens are one more than rows and rounds can carry.
*Creation:* four attempts are one in each tab and a retry of each; two identities
for a draft are what two objects need; time 2 reaches the end of both lifetimes with a proof of each age; the plan has
a task alone, with its project, and elsewhere, so that a retry may move it.
*Reloads:* four calls are one that runs, one that waits, one that joins it and one that must not.
*Reminders:* a second worker can only take up what the first one left; two recipients are one already tried and one to come.
*Catalogue:* three nodes are a parent, a child with tasks and one more to hang them on; three plans let an old one, the
current one and one that shares a count with it meet.
*Requests:* two persons tell the requested one from those assigned beside; two editors, a save from the decision
of somebody else's window; three dates, the one a request was made for, the one it asks for and one the task got meanwhile.
*Admission:* the process has room for more than one user, so that one release can start two waiters, one of its user and
one of its model, past a third. *Turns:* a repeat meets its first, a later turn meets both, and each of the three may find
the other two stopped, stalled or late; four messages are the two turns and their answers. The two halves of the run are one
specification, `MCSpec`: the other calls interleave freely until a turn begins, which happens when another
user alone holds a lease, and keeps it. That the halves do not
depend on each other is what the refinement proves.

Where the models stop, actions are cut by named bounds (`MaxVersion`, `MaxLate`, `MaxQueueSeq`, `MaxSequence`,
`MaxIds`, `MaxTime`, `MaxTries`, `MaxCalls`, `MaxEdits`, `MaxChanges`, `MaxEvents`); nothing else
limits them. `delay` saturates at the value from which it no longer matters.

Two facts the models show which no text contradicts, so that they are recorded here only: with workers that pause for
longer than their lease (`Stalls`), `RecordMatchesTask` fails until the five-minute revalidation repairs it, since a late
worker settles an intent it has not delivered; and a mail that is put off for lack of time has used up an attempt, so
that a slow directory can exhaust a mail that was never sent.

## 4. Fairness

* `TaskPatches!FairSpec`: weak fairness of timers, of resumed `flush()` calls, of starting the next job, and of each job
  ending. A browser runs due timers and resolved promises; a request ends because the repository aborts it after 30 s
  (`createApiRepository.js:349-430`). The user is not assumed to do anything, and `EditsSettle` says what happens once
  the user stops.
* `OutlookOutbox!FairSpec`: a worker that can go on goes on, and leases end with time. `EveryIntentSettles` assumes that
  requests end, not that SMTP ever accepts.
* `TaskMailOutbox!FairSpec`: rounds begin and proceed, time passes, and strong fairness of `Claim`: a failing round
  is begun again by the polling loop, and a claim that is tried again and again meets a database that answers at some
  time. The answer of SMTP is never assumed, and rounds may stop at any point.
* `DataReload!FairSpec`: the event loop runs its jobs and due timers, and the server answers or the request times out.
* `ReminderDelivery!FairSpec`: workers proceed and claims are tried again, with strong fairness of the steps that may
  fail, so that a database call does not fail for ever. The acceptance of a mail is not assumed; a worker may
  stop anywhere, but not at the same point for ever.
* `CorporateCatalog!FairCatalogSpec`: a run and a request that can go on go on, windows and back-offs end. How
  often somebody asks is not assumed.
* `AssistantTurns!FairTurnSpec`: weak fairness, per request, of what the event loop does by itself: its waits for a claim
  and for the database have deadlines, the watch cuts a generation without progress, and the grace timer of a cut one fires
  (`Attended`). That a generation obeys its signal is not assumed; hence `EveryTurnSettles` promises the end of
  the request or that its claim is free.

Safety properties are checked without fairness.

## 5. The proofs

Checked by TLAPS for every value of the constants, under the named assumptions of the modules: sets are finite where the
code's are, markers are not values, a delivery with its slack fits the longest lease, limits are at least one. TLC
evaluates these assumptions in every run.

* **TaskSyncProofs** has three parts. The first, about `TaskPatches`, proves `Spec => []IInv` and from it `PendingWillBeSent`, `OneFlightPerTask` and `RetainedAlone`.
  None of them is inductive: a pending patch is safe because of a timer or a waiting flush, a waiting flush is worth
  something because a flight exists, a flight ends because the queue has a job for it, exactly one, and a
  retained patch is alone because every action that makes a newer copy absorbs it. The invariant adds that cancelled
  fields are remembered during flights only and that a disposed buffer holds nothing.
  The second part proves the refinement, `Spec => Ledger!Spec`, and that each action is the ledger's action of its meaning
  (`StepIsNamed`: a failed commit is a `Refuse`, not an `Acknowledge`), for every state of the invariant. The argument follows the newest copy of each
  field through each action; the interesting steps are `RetryFailed`, which moves many tasks at once, and `CommitFails`,
  which must put a refused patch under what was typed since.
  The third part, about `TaskSync`, proves `VersionsSound`, `UneditedFieldsUntouched` and `VersionsOnlyGrow`. None of them follows from
  itself: a write is harmless because of what its sender knew long before. `SyncInv` compares every copy of a row with the
  row (`Agree`): the tab's, the one a request and each late request were built on, the answer of a stored request, what a
  reload has read. A copy is never newer than the row, and at the row's version it has the row's values, but in
  the fields the oldest patch of the task settles, which lie over it. Every write makes a version no copy has; a request is
  built on the tab's copy, so it differs from the row at its version only in what its patch settles; a reload is a job of
  the ordered queue, so no answer changes the copy between its reading and its end. A flight that fails goes back to
  be the oldest patch again, which needs the buffer's invariant (`SyncStepsBuffer`: every step is one of the buffer's or
  leaves it alone). `Derived` may be any set of fields, also those the client normalises.
* **AssistantTurnsProofs** has three parts. The first, about `AiAdmission`, proves the counters exact, the limits, that
  nobody waits for nothing, and the action property on overtaking (`CapacityIsKept` and `FairQueue` put them together as
  the run does). Room is restated over sets of calls instead of counters; it shrinks as the set grows. The last waiter a
  release starts (it exists because inclusion of finite sets is well founded) had room beside all the others, hence the
  limits hold. `ScanHasOneResult` proves that `Started` determines one set, so that modelling `drain()` by what it leaves
  behind neither blocks a release nor gives it a choice the code does not have.
  The second part proves that the turns use admission as it is specified (`TurnsUseAdmission`, the refinement), so
  that its capacity and its fairness hold of the composition; that claims stay apart (`ClaimsStayApart`), where the
  invariant adds what stage a claimed request has reached, since a claim learns its conversation only after the database has
  chosen it; and that no lease is left behind (`NoLeaseLeaks`), with the admission's own invariant beside. Its third part
  proves `ConversationsSound`, `DoneIsStored`, `OneGeneration` and `NothingAfterDelete` from `TurnInv`, which says of the tables
  that they are sound and of each request, by its place, what the tables have for it: its turn is written and is the last or has
  its answer, what it reads back is what is stored, its claim's conversation is the one it asks in once it streams, and a
  generation at work on a conversation whose deletion was heard of has been cut. Only two kinds of statement append
  (`MayFollow`, `AnswerWritten`), and late ones are held to the same conditions, hence the alternation survives them.
* **MailAndCatalogProofs** is about two components that share no state (for that reason `CorporateCatalog` names its own
  parts `catalogVars`, `CatalogInit`, `CatalogSpec` and so on). Of `TaskMailOutbox` it proves types (with the bound on
  attempts), `SenderHoldsLease`, `NoOverlappingSends`, `DuplicateOnlyIfUnheard`, `CopiesBounded` and `LeaseCoversBatch`,
  and with them `SendersApart` and `CopiesAccountedFor`, the conjunctions the runs check. The invariant's core is
  `LeasesLast`: while a round's own deadline has not passed, it owns the rows it has still to do and their leases last at
  least as long. It needs that the local clock is read before the claim. With it no delivery runs outside its lease, no
  two overlap, and what a delivery learns is written to a row nobody else had. The bound on copies pairs each copy with an
  attempt, the explanation of duplicates pairs a copy whose row is still pending with the one round that is about to
  report it. A second invariant (`BatchInv`) is an account of the lease: it has gone to the round's delay, to a budget for
  each row that is done and to what the delivery under way has used, so that what is left carries the rest of a batch no
  larger than `BatchSize`. Of `CorporateCatalog` it proves `SingleFlight`, `TreeIsSound` and that a request is sent away
  only over a tree (`SentAwayOverTree`). A merge is passed over where tree and record have equally many nodes, which says
  little by itself; the invariant adds that the record is the plan merged last and that the tree holds it
  (`RecordInTree`): a merge takes away only childless nodes outside its plan and the tasks, and nothing else touches the
  tree, so equal counts are equal trees. The schedule's part is what the process may believe: `warm`, `fresh` and a probe
  that found a tree are true of the store although the process does not look again (`Beliefs`), since no run empties a
  tree once built. It assumes finitely many nodes and that the schedule can start a run at all.
* **CreationIdsProofs** proves `DraftCreatedOnce`, `ReleaseIsFinal` and `UncertainKeepsAlias`. The invariant says that the
  shared storage has at most one alias per draft, that every commit in a tab or on its way carries aliased or released
  identities only, that what has been created keeps its alias, and that an identity reported unused has no usable row.
  An alias goes only after the server has reported its identity unused, and such an identity can no longer be created;
  so two objects of one draft would need two aliases. The bounds on attempts, time and late requests play no part.
  The second part proves `ProofsHoldOnTheWay`: `ProofInv` follows a proof from the row the server makes for it (`Given`,
  `Bound`, `Lasts`), which it binds once to a project and a time, through what a tab awaits, what the storage keeps and what a
  request names. What the server does later takes no promise back (`PromisesKept`) but by spending the proof.
* **RemindersAndRequestsProofs** is about two small components that share no state (for that reason `TaskRequests` names
  its own parts `requestVars`, `RequestInit`, `RequestSpec` and so on). Of `ReminderDelivery` it proves `DeliveredOnce`,
  `CheckpointIsTrue` and the action property `OutcomeIsFinal`: the invariant says
  that whoever works on the reminder has its row in hand and that the row's age is the spent part of the round
  (`OwnerHoldsRow`), so that a round ends before its claim counts as abandoned; and that the checkpoint tells the truth about
  everybody a mail was started for, but leaves the uncertain ones open.
  Of `TaskRequests` it proves `VersionNamesTask`, `RecordsConsistent` and the action property `ChangesAreKnowing`: the
  invariant adds that the records of a person have at most one open and one in force, and that an editor who is about
  to save at the current version has read the assignees of now (`ReadIsCurrent`).
* **DataReloadProofs** proves `AnswersOwnChoice` and the action property `RetainedSurvive`, for any number of calls and
  edits. The invariant (`CoreInv`) goes over the microtask queue, the reactions of every promise, the waits and the jobs.
  A caller's answer may have come through a chain of entries, each of which waited for another one and joined what was
  active when its turn came; so every task and every reaction must carry a result of a reload with the options of the
  call it is for (`TasksFit`, `ReactionsFit`). For `RetainedSurvive` the question is what may happen between the look at the
  retained edits and the answer of the server: a plain reload begins only when no edit is unsaved (`EditsKnown`), so a patch
  is the last job of the queue (`PatchIsLast`), and one is refused when no reload waits behind it; hence
  every reload in the queue was told what to do with whatever is retained by then (`JobsAreSafe`). The property is about every
  load that is applied (`IsCurrent`), the background refresh that shows no loading state among them.
* **DataReloadViewProofs** proves `ViewGoesOn`, which needs a second invariant (`GoesOn`) beside `CoreInv`. The view loads
  while the reload that began last waits for its answer (`Loading`), and if another reload begins meanwhile, that answer
  is stale and the loading state is left to the later one. The automatic refresh shows no loading state and would never
  clear it; so it must begin with an empty queue of jobs (`UserOutranksAutomatic`), although what it waited for and what
  it saw lie several tasks apart. It starts only in an empty microtask queue with nobody active, and from then on it
  matters who else may start an operation. Entries take turns: at any time at most one task or reaction brings on the next
  turn, each entry has its turn once, and nobody waits behind the entry queued last (`Chain`). So at most two operations
  are on their way to the queue of jobs, the earlier one is the user's, and the later one stays behind it: it comes after
  it in the microtask queue or among the waits and sees no queue that is emptier (`InStep`). The rest keeps this together:
  an operation is in one place only (`OperationsOnce`), a settled one that is still active is about to be cleared
  (`ClearsComing`), a look at the queue's tail is a look at one that existed (`IdleLooks`), and nothing but the initial
  load happens before a reload has begun (`Starting`).
* **OutlookOutboxProofs** has two invariants. `DeliveryInv` holds with workers that are paused for any time and write after
  their lease; from it follow `ClosedSafely` and that a SEQUENCE names one invitation. It speaks of everything that may still be
  sent, recorded or restored (`Known`), copies of dead workers included: one invitation per number, none above the row's. That
  a closed row has left nothing in Outlook needs more: nothing stands of a row of which nothing has escaped, and none of
  its invitations stands above a cancellation that may be retried; the worker with the lease has a copy that knows this with its
  own invitation left out, so the cancellation it has delivered is above all that stands.
  `GenerationInv` adds what `RecordSound` and `ClosedOnlyForReason` need: whoever works has the lease, and a worker that
  carries out the row's own generation plans what row and task are now (`CarriesOut`), since every change begins another
  generation. It assumes `~Stalls`, as the run of these properties does; section 6 says what happens otherwise.
  `ClosedOnlyForReason` assumes `~Hidden` too, since losing sight of a task is a reason the property does not name.

Model-checked only: liveness (fairness and ENABLED are out of the prover's reach). The inductive
invariants were model-checked as well.

## 6. Where code and text disagree

What the text says is kept beside the models as a definition or is plain from a trace; none of these sentences is a
property of a run, since the code does not keep it. To see a trace, add the named definition to the configuration.

1. `TaskPatches!CancelledFieldNeverSent`: the comment at `P:276` says that no request sent after `cancelFields()` carries
   the field. `flush()` (`P:199`) has already handed the patch to a queued job, which sends it. The sentence has a second
   gap: a preserving reload lays a retained patch over the row of the tab's state (`P:339`), `cancelFields()` takes the
   field out of the patch but not out of that row, and the next edit of another field stores it. Nothing in the
   interface calls the function yet.
2. `OutlookOutbox!ShownMatchesTask`: `docs/OUTLOOK-TAKVIM.md:45` says that a change of date or title yields a REQUEST with a
   higher SEQUENCE. When a revision of unknown outcome is overwritten by another one of unknown outcome for the content
   that was delivered before, the retry settles as unchanged and Outlook keeps the revision in between.
3. `OutlookOutbox!CompletedLeavesNoUpcoming`: `docs/OUTLOOK-TAKVIM.md:52` says that completing a task with an upcoming
   date cancels it. A task completed while its removal is queued, before a late add withdraws the removal, keeps the
   upcoming entry.
4. `DataReload!DiscardHonoured`: the comment at `dataRefreshSafety.js:84` says that a reload which discards is not merged
   into one which does not. It is not, but a newer request makes its result stale: the load is then not applied, the
   retained edits stay, and the caller is told that it succeeded.
5. Reminders: `reminderQueries.js:166` says that an abandoned claim is taken up so that its mail can still be sent. When
   the process stops between the claim and the first checkpoint, there is no digest; the round that takes it up must
   assume that mails went out and closes it as `MAIL_DELIVERY_UNCERTAIN` without sending any.
6. Catalogue: `corporateWbsSyncSchedule.js:189` says that the back-off holds once the tree is warm. A slow probe that read
   an empty store overwrites the warmth a manual refresh has set meanwhile, and the next request is not held back.
   Lines 16 to 19 there say that only a cold start waits: a request that comes during the first probe waits for the whole
   flight even if the probe will find a tree. The comment at `corporateWbsQueries.js:33` says that rows lost from the
   tree are noticed by their count; they are not if as many others have appeared. A flight may start inside the fresh
   window, which is not read again after the probe.
7. `OutlookOutbox!RecordSound` and `ClosedOnlyForReason` with `Stalls = TRUE`: the comment at `outlookQueries.js:431` says that
   a delivery is settled because its content has not changed. When `OUTLOOK_ALLOCATE_SQL` finds its lease expired, the worker
   settles too (`outlookCalendarService.js:213`), and that statement tests the token but not the lease: an intent nobody
   has carried out is dropped, unless another worker has taken the row. So `RecordMatchesTask` fails after a single add; and
   a removal dropped like this leaves `CancelRequested` set, so that a later pass queues a REQUEST for it, an add that finds this
   REQUEST withdraws the removal without a new generation, and the worker whose copy still has the removal closes the row. It
   takes a process that sleeps for a minute between the two statements; the timer that renews the lease prevents it
   otherwise.

## 7. What is not modelled

Reasons are given per component in `PROJECT.json`. In short: identity, directory and authorisation are stateless checks
around external services; SMTP, MIME, the pool, observability, reports and branding are input and output whose outcomes
are inputs of the models; validation modules only decide which commits are refused, and refusal is an outcome in
TaskSync; the user interface starts the operations that are environment actions here; `coderabbit_review_runtime/` is an
older copy of the program. The remaining components are in the plan.

## 8. The plan

Most important first; the first eight are done.

1. `TaskPatches`, `EditLedger`: the tab must not lose edits. Proved.
2. `TaskSync`: nor overwrite those of others. Proved.
3. `OutlookOutbox`. Proved but for liveness.
4. `AiAdmission`. Proved.
5. `TaskMailOutbox`. Proved but for liveness.
6. `CreationIds`. Proved; next an abstract specification (a draft is open, created once, or given up) and the refinement.
7. `AssistantTurns` over `AiAdmission`. Proved but for liveness.
8. `ReminderDelivery`, `TaskRequests`: proved. `CorporateWbs` with `CorporateCatalog`: proved but for
   liveness. `DataReload`: proved but for liveness.
9. `CommitStore`: the transaction of a commit over tasks, dependencies and recurrence, composed with `TaskSync`.
10. `SemanticIndex`, `PollingLoop`, `PresenceLeader`: small single-flight and leader protocols, good for short proofs.
11. `Cpm`, `Recurrence`: the pure algorithms as recursive functions against reference definitions over bounded inputs.

Runs are kept to about a dozen with bounds that finish within minutes, so that a new module replaces a run whose question
another one has come to answer.

## 9. How to run it

```
tlc -workers 2 -config TaskPatches.cfg MCTaskPatches
tlapm MailAndCatalogProofs.tla
```

Each run is listed in `PROJECT.json` with its module, its configuration and the properties it checks; each theorem with
its module and the property it establishes.
