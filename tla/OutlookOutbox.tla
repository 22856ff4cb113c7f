----------------------------- MODULE OutlookOutbox -----------------------------
(***************************************************************************)
(* The Outlook calendar outbox: one subscription row of                     *)
(* MR_TaskOutlookSubscriptions (rows never touch one another), the task it   *)
(* follows, the workers that deliver its invitations over SMTP, and what     *)
(* reaches the user's Outlook.                                              *)
(*                                                                         *)
(* Every SQL statement is one step.  Between its statements a worker holds  *)
(* a COPY of the row as claimed, and meanwhile the task changes, the user   *)
(* adds, resends or removes, the worker crashes or loses its lease.         *)
(*                                                                         *)
(* An invitation is identified by its content, which stands for the payload *)
(* hash and for the calendar date; the hash of a cancellation is that of    *)
(* its date (the code also hashes the summary line).  The day of completion *)
(* is fixed: Upcoming are the contents dated on it or later.                *)
(*                                                                         *)
(* Sources: src/src/server/outlook/outlookQueries.js, outlookStore.js,      *)
(* outlookCalendarService.js, outlookCommitHooks.js, outlookExecution.js,   *)
(* src/src/domain/outlook/outlookCompletion.js.                             *)
(***************************************************************************)
EXTENDS Naturals

CONSTANTS
  Worker,       \* automatic passes of the application instances
  Content,      \* what an invitation can say
  Upcoming,     \* the contents dated on the day of completion or later
  MaxAttempts,  \* outlookMaxAttempts(): then the automatic retries stop
  NoRev,        \* no revision
  NoWorker,     \* no live holder of the lease token
  Gone,         \* the task is deleted
  MaxQueueSeq,  \* bound on the generations of intents
  MaxSequence,  \* bound on the allocated revisions
  Hidden,       \* may the subscriber lose sight of the task without a commit
  Stalls        \* may a living worker be paused for longer than its lease

ASSUME ContentAssumption == Upcoming \subseteq Content /\ Gone \notin Content
ASSUME WorkerAssumption  == NoWorker \notin Worker
ASSUME NumberAssumption  == /\ MaxAttempts \in Nat \ {0}
                            /\ MaxQueueSeq \in Nat /\ MaxSequence \in Nat
ASSUME ModeAssumption    == Hidden \in BOOLEAN /\ Stalls \in BOOLEAN

Method   == {"REQUEST", "CANCEL"}
Revision == [seq : 1 .. MaxSequence, method : Method, of : Content]

ASSUME NoRevAssumption == NoRev \notin Revision

VARIABLES
  task,     \* [status, content] of the task, or Gone
  row,      \* the subscription row
  lease,    \* who holds LeaseToken and is LeaseExpiresAt in the future
  worker,   \* per worker: program counter, claimed copy of the row, plan
  adding,   \* content a running "add" request has read, NoRev if none runs
  mailbox   \* the revisions that reach Outlook; it shows the highest one

vars == <<task, row, lease, worker, adding, mailbox>>

Same(rev, method, of) == rev # NoRev /\ rev.method = method /\ rev.of = of
Newer(pending, delivered) == delivered = NoRev \/ pending.seq > delivered.seq

\* No row yet is an inactive row of generation 0.
NoRow ==
  [active |-> FALSE, sequence |-> 0, queueSeq |-> 0, intent |-> "NONE", pending |-> NoRev,
   delivered |-> NoRev, attempts |-> 0, cancelRequested |-> FALSE, forceResend |-> FALSE,
   escaped |-> FALSE, suspended |-> FALSE, completedOn |-> FALSE, failure |-> FALSE]

\* The columns deliverSubscription() uses of the row it has claimed.
Copied == {"queueSeq", "pending", "delivered", "escaped", "forceResend", "suspended",
           "completedOn", "cancelRequested"}
Copy(r) == [column \in Copied |-> r[column]]

Free == [owner |-> NoWorker, live |-> FALSE]
NoPlan == [method |-> "NONE", of |-> NoRev, seq |-> 0, completed |-> FALSE, reuse |-> FALSE]
Asleep == [pc |-> "idle", claim |-> Copy(NoRow), plan |-> NoPlan]

Init ==
  /\ \E c \in Content : task = [status |-> "open", content |-> c]
  /\ row = NoRow
  /\ lease = Free
  /\ worker = [w \in Worker |-> Asleep]
  /\ adding = NoRev
  /\ mailbox = {}

(***************************************************************************)
(* The user's requests                                                     *)
(***************************************************************************)
\* A new generation of intents: attempts and failure of the old one are void.
Requeued(r) ==
  [r EXCEPT !.queueSeq = @ + 1, !.attempts = 0, !.failure = FALSE]

\* addOne() has read the task: it exists, is visible, dated and not completed.
ReadForAdd ==
  /\ adding = NoRev
  /\ task # Gone /\ task.status = "open"
  /\ adding' = task.content
  /\ UNCHANGED <<task, row, lease, worker, mailbox>>

Reopened(r) ==
  IF r.active THEN r
  ELSE [r EXCEPT !.active = TRUE, !.suspended = FALSE, !.completedOn = FALSE,
                 !.escaped = FALSE, !.delivered = NoRev, !.pending = NoRev]

\* OUTLOOK_SUBSCRIPTION_UPSERT_SQL with the content read before.
Add ==
  LET upToDate == row.active /\ ~row.suspended /\ row.intent = "NONE"
                  /\ Same(row.delivered, "REQUEST", adding)
      sameIntent == row.active /\ row.intent = "REQUEST"
                    /\ (row.pending = NoRev \/ Same(row.pending, "REQUEST", adding))
      bump == IF upToDate \/ sameIntent THEN 0 ELSE 1
  IN  /\ adding # NoRev
      /\ row.queueSeq + bump <= MaxQueueSeq
      /\ row' = [Reopened(row) EXCEPT
           !.cancelRequested = FALSE, !.attempts = 0, !.failure = FALSE,
           !.intent = IF upToDate THEN "NONE" ELSE "REQUEST", !.queueSeq = @ + bump]
      /\ adding' = NoRev
      /\ UNCHANGED <<task, lease, worker, mailbox>>

\* OUTLOOK_QUEUE_CANCEL_SQL.
Remove ==
  LET repeated == row.intent = "CANCEL" /\ row.cancelRequested /\ row.attempts < MaxAttempts
      queued   == IF repeated THEN row ELSE Requeued(row)
  IN  /\ row.active
      /\ queued.queueSeq <= MaxQueueSeq
      /\ row' = [queued EXCEPT !.intent = "CANCEL", !.cancelRequested = TRUE, !.forceResend = FALSE]
      /\ UNCHANGED <<task, lease, worker, adding, mailbox>>

\* OUTLOOK_QUEUE_RESEND_SQL, for a task resendTaskInvitation() accepts.
Resend ==
  LET repeated == row.forceResend /\ row.attempts < MaxAttempts
      queued   == IF repeated THEN row ELSE Requeued(row)
  IN  /\ row.active /\ ~row.cancelRequested
      /\ task # Gone /\ task.status = "open"
      /\ queued.queueSeq <= MaxQueueSeq
      /\ row' = [queued EXCEPT !.intent = "REQUEST", !.forceResend = TRUE]
      /\ UNCHANGED <<task, lease, worker, adding, mailbox>>

(***************************************************************************)
(* Commits of the task and its project, in one transaction with the row    *)
(***************************************************************************)
Follows == row.active /\ ~row.cancelRequested

\* OUTLOOK_ENQUEUE_TASK_SQL and OUTLOOK_ENQUEUE_PROJECT_SQL.
Enqueue(suspend, completed) ==
  IF ~Follows THEN UNCHANGED row
  ELSE /\ row.queueSeq < MaxQueueSeq
       /\ row' = [Requeued(row) EXCEPT !.intent = "REQUEST", !.suspended = @ \/ suspend,
                                       !.completedOn = @ \/ completed]

EditTask(content) ==
  /\ task # Gone /\ task.content # content
  /\ task' = [task EXCEPT !.content = content]
  /\ Enqueue(task.status = "done", FALSE)
  /\ UNCHANGED <<lease, worker, adding, mailbox>>

CompleteTask ==
  /\ task # Gone /\ task.status = "open"
  /\ task' = [task EXCEPT !.status = "done"]
  /\ Enqueue(TRUE, TRUE)
  /\ UNCHANGED <<lease, worker, adding, mailbox>>

\* The suspension stays until a new REQUEST is delivered.
ReopenTask ==
  /\ task # Gone /\ task.status = "done"
  /\ task' = [task EXCEPT !.status = "open"]
  /\ Enqueue(FALSE, FALSE)
  /\ UNCHANGED <<lease, worker, adding, mailbox>>

ProjectChanges ==
  /\ Follows
  /\ Enqueue(FALSE, FALSE)
  /\ UNCHANGED <<task, lease, worker, adding, mailbox>>

\* OUTLOOK_ENQUEUE_TASK_CANCEL_SQL.
DeleteTask ==
  /\ task # Gone
  /\ task' = Gone
  /\ IF ~Follows THEN UNCHANGED row
     ELSE /\ row.queueSeq < MaxQueueSeq
          /\ row' = [Requeued(row) EXCEPT !.intent = "CANCEL"]
  /\ UNCHANGED <<lease, worker, adding, mailbox>>

(***************************************************************************)
(* The pass of a worker                                                    *)
(***************************************************************************)
\* OUTLOOK_REVALIDATE_SQL: access is checked again every five minutes.
Revalidate ==
  /\ row.active /\ row.intent = "NONE" /\ ~row.suspended
  /\ ~lease.live
  /\ row.queueSeq < MaxQueueSeq
  /\ row' = [Requeued(row) EXCEPT !.intent = "REQUEST"]
  /\ UNCHANGED <<task, lease, worker, adding, mailbox>>

\* OUTLOOK_RETRY_FAILED_SQL: the administrator retries what has failed.
RetryFailed ==
  /\ row.intent # "NONE" /\ row.failure
  /\ ~lease.live
  /\ row' = [row EXCEPT !.attempts = 0, !.failure = FALSE]
  /\ UNCHANGED <<task, lease, worker, adding, mailbox>>

Goes(w, pc) == worker' = [worker EXCEPT ![w].pc = pc]
Plans(w, pc, plan) == worker' = [worker EXCEPT ![w].pc = pc, ![w].plan = plan]

\* Variant for mutation checks: the limit is tested too late.
AttemptsLeftOnceMore == row.attempts <= MaxAttempts

\* Variant for mutation checks: the last attempt is never made.
AttemptsLeftOnceLess == row.attempts + 1 < MaxAttempts

\* Automatic attempts end here; a request or an administrator starts them anew.
AttemptsLeft == row.attempts < MaxAttempts

\* OUTLOOK_CLAIM_SQL: a fresh token, a live lease, one attempt used.
Claim(w) ==
  /\ worker[w].pc = "idle"
  /\ row.intent # "NONE" /\ AttemptsLeft
  /\ row.active \/ row.intent = "CANCEL"
  /\ ~lease.live
  /\ row' = [row EXCEPT !.attempts = @ + 1]
  /\ lease' = [owner |-> w, live |-> TRUE]
  /\ worker' = [worker EXCEPT ![w] = [pc |-> "claimed", claim |-> Copy(row'), plan |-> NoPlan]]
  /\ UNCHANGED <<task, adding, mailbox>>

\* outlookCompletionNeedsCancellation(): may Outlook show an upcoming date?
NeedsCancellation(c, date) ==
  LET sent     == IF c.delivered # NoRev /\ c.delivered.method # "CANCEL" THEN {c.delivered.of} ELSE {}
      possible == IF c.escaped /\ c.pending # NoRev THEN {c.pending.of} ELSE {}
      dates    == sent \cup possible
  IN  /\ ~(/\ c.delivered # NoRev /\ c.delivered.method = "CANCEL"
           /\ (c.pending = NoRev \/ ~Newer(c.pending, c.delivered)))
      /\ c.delivered # NoRev \/ c.escaped
      /\ c.completedOn
      /\ Upcoming \cap (IF dates = {} THEN {date} ELSE dates) # {}

\* Outlook already shows the content, and no undecided revision says otherwise.
Unchanged(c, content) ==
  /\ ~c.forceResend /\ ~c.suspended
  /\ Same(c.delivered, "REQUEST", content)
  /\ c.pending = NoRev \/ Same(c.pending, "REQUEST", content)

\* What deliverSubscription() does with a claimed copy c once it knows whether
\* the task is available to the subscriber, in the order of its early returns.
Decision(c, unavailable) ==
  LET completed  == ~unavailable /\ task.status = "done"
      mustCancel == unavailable \/ completed
      sentNothing == c.delivered = NoRev /\ ~c.escaped
      shown == IF c.pending # NoRev THEN c.pending ELSE c.delivered
      plan  == [NoPlan EXCEPT !.completed = completed]
      reuse == c.forceResend /\ ~c.suspended /\ ~(c.delivered # NoRev /\ c.delivered.method = "CANCEL")
      To(pc, p) == [pc |-> pc, claim |-> c, plan |-> p]
  IN  IF completed /\ ~NeedsCancellation(c, task.content) THEN To("settling", plan)
      ELSE IF mustCancel /\ sentNothing THEN To("closing", plan)
      ELSE IF mustCancel /\ shown = NoRev THEN To("failing", plan)
      ELSE IF mustCancel THEN To("allocating", [plan EXCEPT !.method = "CANCEL", !.of = shown.of])
      ELSE IF Unchanged(c, task.content) THEN To("settling", plan)
      ELSE To("allocating", [plan EXCEPT !.method = "REQUEST", !.of = task.content, !.reuse = reuse])

Decide(w) ==
  /\ worker[w].pc = "claimed"
  /\ \E hidden \in (IF Hidden THEN BOOLEAN ELSE {FALSE}) :
       LET c == worker[w].claim
       IN  worker' = [worker EXCEPT ![w] = Decision(c, c.cancelRequested \/ task = Gone \/ hidden)]
  /\ UNCHANGED <<task, row, lease, adding, mailbox>>

Owns(w) == lease.owner = w
Current(w) == row.queueSeq = worker[w].claim.queueSeq

\* WHERE LeaseToken = @leaseToken: without the token the statement finds no
\* row.  In either case the delivery is over.
Finish(w, written) ==
  /\ row' = IF Owns(w) THEN written ELSE row
  /\ lease' = IF Owns(w) THEN Free ELSE lease
  /\ worker' = [worker EXCEPT ![w] = Asleep]
  /\ UNCHANGED <<task, adding, mailbox>>

\* The intent of the current generation has been carried out.
Done(r, completed) ==
  [r EXCEPT !.intent = "NONE", !.pending = NoRev, !.forceResend = FALSE, !.attempts = 0,
            !.suspended = completed, !.completedOn = completed /\ @]

\* OUTLOOK_SETTLE_SQL: nothing has to be sent.
Settle(w) ==
  LET settled == [row EXCEPT !.failure = FALSE]
  IN  /\ worker[w].pc = "settling"
      /\ Finish(w, IF Current(w) THEN Done(settled, worker[w].plan.completed) ELSE settled)

\* Variant for mutation checks: the statement ignores that QueueSeq moved on.
CloseAnyGeneration(w) ==
  /\ worker[w].pc = "closing"
  /\ IF Owns(w)
     THEN Finish(w, [Done(row, FALSE) EXCEPT !.active = FALSE, !.failure = FALSE, !.forceResend = row.forceResend])
     ELSE Goes(w, "settling") /\ UNCHANGED <<task, row, lease, adding, mailbox>>

\* OUTLOOK_DEACTIVATE_SQL: nothing was sent that has to be cancelled.  An intent
\* of a newer generation makes the worker settle instead.
Close(w) ==
  /\ worker[w].pc = "closing"
  /\ IF Owns(w) /\ Current(w)
     THEN Finish(w, [Done(row, FALSE) EXCEPT !.active = FALSE, !.failure = FALSE, !.forceResend = row.forceResend])
     ELSE Goes(w, "settling") /\ UNCHANGED <<task, row, lease, adding, mailbox>>

\* Variant for mutation checks: any newer undecided revision is taken again.
ReusesAnyPending(plan) ==
  row.pending # NoRev /\ Newer(row.pending, row.delivered)

\* A revision allocated for the same content is taken again ...
ReusesPending(plan) ==
  Same(row.pending, plan.method, plan.of) /\ Newer(row.pending, row.delivered)

\* ... and so is the last one if it was delivered and is to be sent once more.
ReusesDelivered(plan) ==
  /\ plan.reuse
  /\ Same(row.delivered, plan.method, plan.of) /\ row.delivered.seq = row.sequence

\* OUTLOOK_ALLOCATE_SQL, after which the invitation may reach the user.
Allocate(w) ==
  LET plan == worker[w].plan
      next == IF ReusesPending(plan) \/ ReusesDelivered(plan) THEN row.sequence ELSE row.sequence + 1
      seq  == IF ReusesPending(plan) THEN row.pending.seq ELSE next
  IN  /\ worker[w].pc = "allocating"
      /\ IF Owns(w) /\ Current(w) /\ lease.live
         THEN /\ next <= MaxSequence
              /\ row' = [row EXCEPT !.sequence = next, !.intent = plan.method, !.escaped = TRUE,
                           !.pending = [seq |-> seq, method |-> plan.method, of |-> plan.of]]
              /\ Plans(w, "sending", [plan EXCEPT !.seq = seq])
         ELSE /\ Plans(w, "settling", [plan EXCEPT !.completed = FALSE])
              /\ UNCHANGED row
      /\ UNCHANGED <<task, lease, adding, mailbox>>

Invitation(w) ==
  LET plan == worker[w].plan IN [seq |-> plan.seq, method |-> plan.method, of |-> plan.of]

\* sendMail(): accepted, certainly not sent, or an unknown outcome.
Send(w) ==
  /\ worker[w].pc = "sending"
  /\ \/ mailbox' = mailbox \cup {Invitation(w)} /\ (Goes(w, "accepted") \/ Goes(w, "failing"))
     \/ UNCHANGED mailbox /\ (Goes(w, "refused") \/ Goes(w, "failing"))
  /\ UNCHANGED <<task, row, lease, adding>>

\* Variant for mutation checks: the statement ignores that QueueSeq moved on.
CompleteAnyGeneration(w) ==
  LET plan == worker[w].plan
      sent == [row EXCEPT !.delivered = Invitation(w), !.attempts = 0, !.failure = FALSE]
      closes == plan.method = "CANCEL" /\ ~plan.completed
  IN  /\ worker[w].pc = "accepted"
      /\ Finish(w, [Done(sent, plan.completed) EXCEPT !.active = @ /\ ~closes])

\* OUTLOOK_COMPLETE_SQL: the delivery is recorded; the intent is carried out
\* unless a newer one has replaced it.
Complete(w) ==
  LET plan == worker[w].plan
      sent == [row EXCEPT !.delivered = Invitation(w), !.attempts = 0, !.failure = FALSE]
      closes == plan.method = "CANCEL" /\ ~plan.completed
  IN  /\ worker[w].pc = "accepted"
      /\ Finish(w, IF Current(w) THEN [Done(sent, plan.completed) EXCEPT !.active = @ /\ ~closes]
                   ELSE sent)

\* Variant for mutation checks: an earlier unknown outcome is not considered.
NeverEscapedYet(c) == c.delivered = NoRev

\* No earlier invitation of the claimed row can have reached the user.
NeverEscaped(c) == c.delivered = NoRev /\ ~c.escaped

\* failed() and OUTLOOK_FAIL_SQL.  A revision that was certainly not sent gives
\* way to the undecided one before it, if any.
Fail(w) ==
  LET c == worker[w].claim
      definite == worker[w].pc = "refused"
      before == IF c.escaped /\ c.pending # NoRev /\ Newer(c.pending, c.delivered) THEN c.pending ELSE NoRev
      clear == definite /\ NeverEscaped(c) /\ row.delivered = NoRev
  IN  /\ worker[w].pc \notin {"idle", "sending"}
      /\ Finish(w, [row EXCEPT
           !.escaped = @ /\ ~clear,
           !.pending = IF definite /\ ~NeverEscaped(c) THEN before ELSE @,
           !.failure = @ \/ Current(w)])

\* The process ends, or cannot write the failure: the lease outlives it.
Crash(w) ==
  /\ worker[w].pc # "idle"
  /\ worker' = [worker EXCEPT ![w] = Asleep]
  /\ lease' = IF Owns(w) THEN [lease EXCEPT !.owner = NoWorker] ELSE lease
  /\ UNCHANGED <<task, row, adding, mailbox>>

\* Sixty seconds without a renewal.
LeaseExpires ==
  /\ lease.live
  /\ lease.owner = NoWorker \/ Stalls
  /\ lease' = [lease EXCEPT !.live = FALSE]
  /\ UNCHANGED <<task, row, worker, adding, mailbox>>

Working(w) ==
  Claim(w) \/ Decide(w) \/ Settle(w) \/ Close(w) \/ Allocate(w) \/ Send(w) \/ Complete(w) \/ Fail(w)

Delivering == (\E w \in Worker : Working(w) \/ Crash(w)) \/ LeaseExpires

Requesting ==
  \/ ReadForAdd \/ Add \/ Remove \/ Resend
  \/ \E content \in Content : EditTask(content)
  \/ CompleteTask \/ ReopenTask \/ ProjectChanges \/ DeleteTask
  \/ Revalidate \/ RetryFailed

Next == Delivering \/ Requesting

Spec == Init /\ [][Next]_vars

\* The automatic pass runs again and again; leases end with time.
FairSpec == Spec /\ WF_vars(LeaseExpires) /\ \A w \in Worker : WF_vars(Working(w))

(***************************************************************************)
(* Properties                                                              *)
(***************************************************************************)
Row == [active : BOOLEAN, sequence : 0 .. MaxSequence, queueSeq : 0 .. MaxQueueSeq,
        intent : Method \cup {"NONE"}, pending : Revision \cup {NoRev},
        delivered : Revision \cup {NoRev}, attempts : 0 .. MaxAttempts,
        cancelRequested : BOOLEAN, forceResend : BOOLEAN, escaped : BOOLEAN,
        suspended : BOOLEAN, completedOn : BOOLEAN, failure : BOOLEAN]

Claimed == [queueSeq : 0 .. MaxQueueSeq, pending : Revision \cup {NoRev},
            delivered : Revision \cup {NoRev}, escaped : BOOLEAN, forceResend : BOOLEAN,
            suspended : BOOLEAN, completedOn : BOOLEAN, cancelRequested : BOOLEAN]

Plan == [method : Method \cup {"NONE"}, of : Content \cup {NoRev}, seq : 0 .. MaxSequence,
         completed : BOOLEAN, reuse : BOOLEAN]

PC == {"idle", "claimed", "settling", "closing", "allocating", "sending",
       "accepted", "refused", "failing"}

\* Every part of the state is well formed.
TypeOK ==
  /\ task \in [status : {"open", "done"}, content : Content] \cup {Gone}
  /\ row \in Row
  /\ lease \in [owner : Worker \cup {NoWorker}, live : BOOLEAN]
  /\ worker \in [Worker -> [pc : PC, claim : Claimed, plan : Plan]]
  /\ adding \in Content \cup {NoRev}
  /\ mailbox \subseteq Revision

\* What Outlook shows: of one UID only the highest SEQUENCE counts.
Shown == IF mailbox = {} THEN NoRev ELSE CHOOSE r \in mailbox : \A s \in mailbox : s.seq <= r.seq

Settled == row.intent = "NONE"

\* A SEQUENCE names one invitation: whatever is retried, restored and resent, two
\* different invitations never go out under one number, else Outlook would keep
\* the one that came first.
SequenceNamesInvitation == \A r, s \in mailbox : r.seq = s.seq => r = s

\* Once nothing is queued, a closed subscription has left nothing in Outlook,
\* whatever uncertain deliveries preceded it.
ClosedLeavesNothing == Settled /\ ~row.active => Shown = NoRev \/ Shown.method = "CANCEL"

\* Once nothing is queued, the invitation on record is that of the open task as
\* it is now: no change is lost, however it overlaps with a delivery.
RecordMatchesTask ==
  Settled /\ row.active /\ task # Gone =>
    (task.status = "open" => Same(row.delivered, "REQUEST", task.content))

\* The invitation on record is the task's, and the only one of its number.
RecordSound == RecordMatchesTask /\ SequenceNamesInvitation

\* Once nothing is queued, Outlook itself shows the open task as it is now.
\* The code does not keep this (README, section 6), so that no run asserts it.
ShownMatchesTask ==
  Settled /\ row.active /\ task # Gone =>
    (task.status = "open" => Same(Shown, "REQUEST", task.content))

\* A subscription closes only on the user's own, not withdrawn request or when
\* the task is gone: a cancellation in flight cannot close what was added again.
ClosedOnlyForReason ==
  [][row.active /\ ~row'.active => row.cancelRequested \/ task = Gone]_vars

\* Once nothing is queued, a completed task leaves no upcoming date in Outlook.
\* The code does not keep this (README, section 6), so that no run asserts it.
CompletedLeavesNoUpcoming ==
  Settled /\ row.active /\ task # Gone =>
    (task.status = "done" =>
       Shown = NoRev \/ Shown.method = "CANCEL" \/ Shown.of \notin Upcoming)

\* Once nobody asks for anything new, the intent is carried out or its attempts
\* run out, through crashes and lost leases.
EveryIntentSettles ==
  <>[][Delivering]_vars => <>[](row.intent = "NONE" \/ row.attempts = MaxAttempts)

\* What a subscription that is over leaves behind, whatever workers were paused for
\* longer than their lease: no upcoming invitation, and no attempt beyond the limit
\* (OUTLOOK_CLAIM_SQL and the guards of the statements that follow it).
ClosedSafely == TypeOK /\ ClosedLeavesNothing
===============================================================================
