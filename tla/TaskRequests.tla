------------------------------ MODULE TaskRequests ------------------------------
(***************************************************************************)
(* A task whose responsibles and dates are changed from three sides:       *)
(*   - by people who edit it in a window loaded earlier (commitTask and    *)
(*     publishAssignmentChanges of sqlAppRepository.js),                   *)
(*   - by requests to make somebody responsible, and to release him again  *)
(*     (server/assignment/assignmentCoordinationStore.js),                 *)
(*   - by requests for another target date                                 *)
(*     (server/schedule-change/scheduleChangeStore.js).                    *)
(*                                                                         *)
(* Requests and decisions lock the row of the task, or the request and the *)
(* row, until their transaction ends: each is one step.  A commit runs in  *)
(* READ COMMITTED and reads the responsibles without a lock before it      *)
(* writes the row of the task under its version: it is two.                *)
(*                                                                         *)
(* Who may decide is read anew from the directory each time.  The model    *)
(* lets every person who is not the requester be a manager, as the         *)
(* directory may say so at that moment.                                    *)
(*                                                                         *)
(* A record that is settled is only shown from then on, so that the model  *)
(* keeps those that are not; its id tells two of them apart.  The start    *)
(* and both finishes of the task are one value: a proposal changes it      *)
(* whole, as it takes over the dates it does not change.                   *)
(***************************************************************************)
EXTENDS Naturals, FiniteSets

CONSTANTS
  Person,
  Editor,      \* windows in which the task is edited
  Date

\* All others are settled: REJECTED, CHANGE_REQUESTED, CANCELLED and STALE.
Open == {"PENDING", "CANCELLATION_REQUESTED"}
Status == Open \cup {"APPROVED"}

VARIABLES
  task,          \* live, of a closed project, or deleted
  current,       \* the windows whose version is the RowVersion of the task
  assignees,     \* MR_TaskAssignees
  dates,         \* PlannedStart, PlannedFinish and TargetFinish
  coordination,  \* for each requested person, the records that are not settled
  schedule,      \* for each requester, the requests that are pending
  editor         \* what each window shows and is saving

requestVars == <<task, current, assignees, dates, coordination, schedule, editor>>

Shows(people, plan) ==
  [phase |-> "viewing", seen |-> people, plan |-> plan, people |-> {}, draft |-> plan, read |-> {}]

RequestInit ==
  /\ task = "live"
  /\ current = Editor
  /\ assignees \in SUBSET Person
  /\ dates \in Date
  /\ coordination = [p \in Person |-> {}]
  /\ schedule = [p \in Person |-> {}]
  /\ editor = [e \in Editor |-> Shows(assignees, dates)]

\* UPDATE of MR_Tasks moves its RowVersion on to a value no window has, except
\* those that are told of it.
Touched(told) == current' = told

(***************************************************************************)
(* Records                                                                 *)
(***************************************************************************)
\* randomUUID(): no record of the person has the id
NewId(records) == CHOOSE n \in 1..Cardinality(records) + 1 : \A record \in records : record.id # n

\* Requests of one submission know each other's persons by CorrelationId.  Only a
\* pending record is held against the responsibles it was made for.
Pending(id, original, siblings) ==
  [id |-> id, status |-> "PENDING", original |-> original, siblings |-> siblings]

Approved(id) == [id |-> id, status |-> "APPROVED", original |-> {}, siblings |-> {}]

\* CLOSE_OPEN_COORDINATIONS_SQL
WithoutOpen(records) == {record \in records : record.status \notin Open}

\* CLOSE_APPROVED_COORDINATIONS_SQL
WithoutApproved(records) == {record \in records : record.status # "APPROVED"}

Has(p, record, status) == record \in coordination[p] /\ record.status = status

\* setCoordinationStatus
Becomes(p, record, status) ==
  coordination' = [coordination EXCEPT ![p] = (@ \ {record}) \cup {[record EXCEPT !.status = status]}]

IsSettled(p, record) ==
  coordination' = [coordination EXCEPT ![p] = @ \ {record}]

(***************************************************************************)
(* Requests for a responsible                                              *)
(***************************************************************************)
\* A variant: the record that is open already stays open.
RequestsBeside(people) ==
  LET wanted == people \ assignees IN
  /\ task = "live"
  /\ wanted # {}
  /\ coordination' = [p \in Person |->
       IF p \in wanted
       THEN coordination[p] \cup {Pending(NewId(coordination[p]), assignees, wanted \ {p})}
       ELSE coordination[p]]
  /\ UNCHANGED <<task, current, assignees, dates, schedule, editor>>

\* createAssignmentCoordination: those who are responsible already are left out
Requests(people) ==
  LET wanted == people \ assignees IN
  /\ task = "live"
  /\ wanted # {}
  /\ coordination' = [p \in Person |->
       IF p \in wanted
       THEN WithoutOpen(coordination[p])
              \cup {Pending(NewId(coordination[p]), assignees, wanted \ {p})}
       ELSE coordination[p]]
  /\ UNCHANGED <<task, current, assignees, dates, schedule, editor>>

\* assigneeSetIsStale
SetIsStale(record) ==
  \/ \E p \in record.original : p \notin assignees
  \/ \E p \in assignees : p \notin record.original \cup record.siblings

\* A variant: the responsible is written, the row of the task is not touched.
ApprovesUntouched(p, record) ==
  /\ Has(p, record, "PENDING")
  /\ task = "live" /\ ~SetIsStale(record)
  /\ assignees' = assignees \cup {p}
  /\ coordination' = [coordination EXCEPT
       ![p] = WithoutApproved(@ \ {record}) \cup {Approved(record.id)}]
  /\ UNCHANGED <<task, current, dates, schedule, editor>>

\* addTaskAssignee, which touches the task
Approves(p, record) ==
  /\ Has(p, record, "PENDING")
  /\ task = "live" /\ ~SetIsStale(record)
  /\ Touched({})
  /\ assignees' = assignees \cup {p}
  /\ coordination' = [coordination EXCEPT
       ![p] = WithoutApproved(@ \ {record}) \cup {Approved(record.id)}]
  /\ UNCHANGED <<task, dates, schedule, editor>>

\* REJECT and REQUEST_CHANGE of a manager, CANCEL of the requester
Declines(p, record) ==
  /\ Has(p, record, "PENDING")
  /\ IsSettled(p, record)
  /\ UNCHANGED <<task, current, assignees, dates, schedule, editor>>

AsksToCancel(p, record) ==
  /\ Has(p, record, "APPROVED")
  /\ task = "live" /\ p \in assignees
  /\ Becomes(p, record, "CANCELLATION_REQUESTED")
  /\ UNCHANGED <<task, current, assignees, dates, schedule, editor>>

\* The requester agrees: removeTaskAssignee
Releases(p, record) ==
  /\ Has(p, record, "CANCELLATION_REQUESTED")
  /\ task = "live" /\ p \in assignees
  /\ Touched({})
  /\ assignees' = assignees \ {p}
  /\ IsSettled(p, record)
  /\ UNCHANGED <<task, dates, schedule, editor>>

\* A variant: the decision is recorded as any other rejection.
KeepsAssignedAsRejected(p, record) ==
  /\ Has(p, record, "CANCELLATION_REQUESTED")
  /\ Becomes(p, record, "REJECTED")
  /\ UNCHANGED <<task, current, assignees, dates, schedule, editor>>

KeepsAssigned(p, record) ==
  /\ Has(p, record, "CANCELLATION_REQUESTED")
  /\ Becomes(p, record, "APPROVED")
  /\ UNCHANGED <<task, current, assignees, dates, schedule, editor>>

\* A decision that the task has overtaken
FindsStale(p, record) ==
  /\ \/ Has(p, record, "PENDING") /\ (task # "live" \/ SetIsStale(record))
     \/ \E status \in {"APPROVED", "CANCELLATION_REQUESTED"} :
          Has(p, record, status) /\ (task # "live" \/ p \notin assignees)
  /\ IsSettled(p, record)
  /\ UNCHANGED <<task, current, assignees, dates, schedule, editor>>

(***************************************************************************)
(* Requests for another target date                                        *)
(***************************************************************************)
\* createScheduleChange: the requester's earlier request is withdrawn
AsksForDate(p, target) ==
  /\ task = "live" /\ p \in assignees
  /\ target # dates
  /\ schedule' = [schedule EXCEPT ![p] = {[original |-> dates, target |-> target]}]
  /\ UNCHANGED <<task, current, assignees, dates, coordination, editor>>

IsDecided(p, request) == schedule' = [schedule EXCEPT ![p] = @ \ {request}]

\* A variant: the dates the request was made for are not compared.
AcceptsDateAnyway(p, request) ==
  /\ task = "live"
  /\ Touched({})
  /\ dates' = request.target
  /\ IsDecided(p, request)
  /\ UNCHANGED <<task, assignees, coordination, editor>>

\* decideScheduleChange; for a task that is not live nobody may decide
AcceptsDate(p, request) ==
  /\ task = "live"
  /\ dates = request.original
  /\ Touched({})
  /\ dates' = request.target
  /\ IsDecided(p, request)
  /\ UNCHANGED <<task, assignees, coordination, editor>>

\* REJECT, or ACCEPT of a request the task has overtaken
DropsDate(p, request) ==
  /\ task = "live"
  /\ IsDecided(p, request)
  /\ UNCHANGED <<task, current, assignees, dates, coordination, editor>>

(***************************************************************************)
(* Edits                                                                   *)
(***************************************************************************)
Loads(e) ==
  /\ editor[e].phase = "viewing" /\ task = "live"
  /\ current' = current \cup {e}
  /\ editor' = [editor EXCEPT ![e] = Shows(assignees, dates)]
  /\ UNCHANGED <<task, assignees, dates, coordination, schedule>>

\* The window submits all it shows, with what its user has changed; commitTask
\* reads whom the change would touch.
BeginsSave(e) ==
  /\ editor[e].phase = "viewing" /\ task = "live"
  /\ \/ \E people \in SUBSET Person :
          editor' = [editor EXCEPT ![e].phase = "saving", ![e].people = people, ![e].read = assignees]
     \/ \E plan \in Date \ {editor[e].plan} :
          editor' = [editor EXCEPT ![e].phase = "saving", ![e].people = editor[e].seen,
                                   ![e].draft = plan, ![e].read = assignees]
  /\ UNCHANGED <<task, current, assignees, dates, coordination, schedule>>

\* A variant: the requests for people who become responsible stay open.
PublishedForRemoved(removed, added, noticed) ==
  [p \in Person |->
     IF p \in noticed
     THEN WithoutApproved(coordination[p]) \cup {Approved(NewId(coordination[p]))}
     ELSE IF p \in removed THEN WithoutOpen(coordination[p])
     ELSE coordination[p]]

\* A variant: the approval of an earlier assignment stays in force.
PublishedBeside(removed, added, noticed) ==
  [p \in Person |->
     IF p \in noticed
     THEN WithoutOpen(coordination[p]) \cup {Approved(NewId(coordination[p]))}
     ELSE IF p \in removed \cup added THEN WithoutOpen(coordination[p])
     ELSE coordination[p]]

\* What the change leaves of the records: those of the people it touches are
\* closed, and for some of the people from elsewhere a notice takes their place.
Published(removed, added, noticed) ==
  [p \in Person |->
     IF p \in noticed
     THEN WithoutApproved(WithoutOpen(coordination[p])) \cup {Approved(NewId(coordination[p]))}
     ELSE IF p \in removed \cup added THEN WithoutOpen(coordination[p])
     ELSE coordination[p]]

\* A variant: the row of the task is written whatever its version.
WritesBlindly(e) ==
  LET removed == editor[e].read \ editor[e].people
      added == editor[e].people \ editor[e].read
  IN
  /\ editor[e].phase = "saving" /\ task = "live"
  /\ Touched({e})
  /\ assignees' = IF editor[e].people = editor[e].read THEN assignees ELSE editor[e].people
  /\ dates' = editor[e].draft
  /\ \E noticed \in SUBSET added :
       coordination' = Published(removed, added, noticed)
  /\ editor' = [editor EXCEPT ![e] = Shows(assignees', dates')]
  /\ UNCHANGED <<task, schedule>>

\* UPDATE ... WHERE RowVersion = @version, and what follows it in the transaction
Writes(e) ==
  LET removed == editor[e].read \ editor[e].people
      added == editor[e].people \ editor[e].read
  IN
  /\ editor[e].phase = "saving" /\ task = "live"
  /\ e \in current
  /\ Touched({e})
  /\ assignees' = IF editor[e].people = editor[e].read THEN assignees ELSE editor[e].people
  /\ dates' = editor[e].draft
  /\ \E noticed \in SUBSET added :
       coordination' = Published(removed, added, noticed)
  /\ editor' = [editor EXCEPT ![e] = Shows(assignees', dates')]
  /\ UNCHANGED <<task, schedule>>

\* The window goes on showing what it showed until it is loaded anew.
IsRefused(e) ==
  /\ editor[e].phase = "saving"
  /\ task # "live" \/ e \notin current
  /\ editor' = [editor EXCEPT ![e] = Shows(editor[e].seen, editor[e].plan)]
  /\ UNCHANGED <<task, current, assignees, dates, coordination, schedule>>

\* deleteTask: the assignment records stay as they are
Deletes(e) ==
  /\ editor[e].phase = "viewing" /\ task = "live"
  /\ e \in current
  /\ task' = "deleted"
  /\ assignees' = {}
  /\ schedule' = [p \in Person |-> {}]
  /\ UNCHANGED <<current, dates, coordination, editor>>

ProjectCloses ==
  /\ task = "live" /\ task' = "closed"
  /\ UNCHANGED <<current, assignees, dates, coordination, schedule, editor>>

ProjectReopens ==
  /\ task = "closed" /\ task' = "live"
  /\ UNCHANGED <<current, assignees, dates, coordination, schedule, editor>>

Decides(p, record) ==
  \/ Approves(p, record) \/ Declines(p, record) \/ AsksToCancel(p, record)
  \/ Releases(p, record) \/ KeepsAssigned(p, record) \/ FindsStale(p, record)

RequestNext ==
  \/ \E people \in SUBSET Person : Requests(people)
  \/ \E p \in Person : \E target \in Date : AsksForDate(p, target)
  \/ \E p \in Person : \E record \in coordination[p] : Decides(p, record)
  \/ \E p \in Person : \E request \in schedule[p] : AcceptsDate(p, request) \/ DropsDate(p, request)
  \/ \E e \in Editor : Loads(e) \/ BeginsSave(e) \/ Writes(e) \/ IsRefused(e) \/ Deletes(e)
  \/ ProjectCloses \/ ProjectReopens

RequestSpec == RequestInit /\ [][RequestNext]_requestVars

(***************************************************************************)
(* Properties                                                              *)
(***************************************************************************)
Record == [id : Nat, status : Status, original : SUBSET Person, siblings : SUBSET Person]

RequestTypeOK ==
  /\ task \in {"live", "closed", "deleted"} /\ current \subseteq Editor
  /\ assignees \in SUBSET Person /\ dates \in Date
  /\ coordination \in [Person -> SUBSET Record]
  /\ schedule \in [Person -> SUBSET [original : Date, target : Date]]
  /\ editor \in [Editor -> [phase : {"viewing", "saving"}, seen : SUBSET Person, plan : Date,
                            people : SUBSET Person, draft : Date, read : SUBSET Person]]

\* A window that has the version of the task shows its responsibles and its dates:
\* every decision moves the version on, although it writes other tables or columns.
VersionNamesTask ==
  task # "deleted" => \A e \in current : editor[e].seen = assignees /\ editor[e].plan = dates

\* The unique index on the open records is never in the way of a decision: a person
\* has one open record at most.
OneOpenRecord ==
  \A p \in Person : \A r, s \in coordination[p] :
    {r.status, s.status} \subseteq Open => r = s

\* A request that waits is about somebody who is not responsible yet, and a
\* release that waits about somebody who still is, however the task was edited.
OpenRecordsAgree ==
  task # "deleted" => \A p \in Person : \A r \in coordination[p] :
    /\ r.status = "PENDING" => p \notin assignees
    /\ r.status = "CANCELLATION_REQUESTED" => p \in assignees

\* What is in force is on record once: a new approval or notice takes the place of
\* the one before, whatever became of the assignment in between.
OneApproval ==
  \A p \in Person : \A r, s \in coordination[p] :
    r.status = "APPROVED" /\ s.status = "APPROVED" => r = s

\* The window e saves what it was told to.
Saved(e) == editor[e].phase = "saving" /\ editor'[e].phase = "viewing" /\ current' = {e}

\* Nobody becomes responsible but by the user of a window or by a request that was
\* approved; nobody ceases to be but by a user who saw him, by a release his
\* requester agreed to, or with the task.
AssigneesChangeKnowingly ==
  [][/\ \A p \in assignees' \ assignees :
          \/ \E e \in Editor : Saved(e) /\ p \in editor[e].people
          \/ \E r \in coordination[p] : r.status = "PENDING" /\ Approved(r.id) \in coordination'[p]
     /\ \A p \in assignees \ assignees' :
          \/ \E e \in Editor : Saved(e) /\ p \in editor[e].seen \ editor[e].people
          \/ \E r \in coordination[p] :
               /\ r.status = "CANCELLATION_REQUESTED"
               /\ \A s \in coordination'[p] : s.id # r.id
          \/ task' = "deleted"]_requestVars

\* Dates change only from what was seen: by the user of a window that showed the
\* dates as they were, or to the target proposed against them.
DatesChangeKnowingly ==
  [][dates' # dates =>
       \/ \E e \in Editor : Saved(e) /\ editor[e].plan = dates /\ editor[e].draft = dates'
       \/ \E p \in Person :
            [original |-> dates, target |-> dates'] \in schedule[p] \ schedule'[p]]_requestVars

\* The records agree with one another and with the task, however it was edited
\* beside them (assignmentCoordinationStore.js:41-71, sqlAppRepository.js:2581-2620).
RecordsConsistent == RequestTypeOK /\ OneOpenRecord /\ OpenRecordsAgree /\ OneApproval

\* Nothing about the task changes over the head of whoever changes it.
ChangesAreKnowing == AssigneesChangeKnowingly /\ DatesChangeKnowingly
=============================================================================
