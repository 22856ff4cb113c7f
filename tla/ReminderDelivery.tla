--------------------------- MODULE ReminderDelivery ---------------------------
(***************************************************************************)
(* One reminder about one task, from its claim to its last recipient:      *)
(* src/src/server/reminders/reminderService.js over the row of             *)
(* MR_TaskReminderLog that reminderQueries.js writes.                      *)
(*                                                                         *)
(* The automatic reminder of a slot and a manual one are told apart by     *)
(* `kind'.  The instances of the application all run the automatic round;  *)
(* a manual reminder may be asked for from several windows at once.  Both  *)
(* deliver in the same way: a mail for each recipient, and before and      *)
(* after each a checkpoint, the state of every recipient, bound to the     *)
(* exact set of recipients by its fingerprint.                             *)
(*                                                                         *)
(* Rows of other slots never meet this one.  A process may stop anywhere;  *)
(* a statement may fail with or without effect.  Time passes in units, of  *)
(* which a delivery takes RoundLimit at most.                              *)
(***************************************************************************)
EXTENDS Naturals, FiniteSets

CONSTANTS
  Worker,      \* the instances, or the requests of one user
  Recipient,   \* who may be responsible for the task
  Stale,       \* ABANDONED_CLAIM_MINUTES
  RoundLimit,  \* the longest a delivery takes, from its claim on
  Window,      \* how long a manual reminder may be resumed
  MaxChanges,  \* bound: changes of the responsible and of the task
  Null,        \* NULL of the database
  Masked       \* masked addresses, which name no recipient

ASSUME TimeAssumption ==
  /\ Stale \in Nat /\ RoundLimit \in Nat /\ RoundLimit <= Stale
  /\ Window \in Nat /\ MaxChanges \in Nat

\* The states of a recipient, 0 to 3 in the checkpoint.
State == {"untried", "uncertain", "sent", "refused"}

Progress == UNION {[people -> State] : people \in SUBSET Recipient}

\* RecipientDigest is NULL, masked addresses, or a checkpoint.
Digest == {Null, Masked} \cup Progress

ASSUME NullAssumption ==
  /\ Null # Masked
  /\ Null \notin Recipient /\ {Null, Masked} \cap Progress = {}

VARIABLES
  kind,      \* AUTOMATIC or MANUAL
  row,       \* the row of the reminder
  worker,    \* where each worker is
  people,    \* the recipients the task resolves to now
  eligible,  \* does the task call for this reminder now
  changes,   \* how often people and eligible changed
  copies,    \* observer: how often SMTP accepted a mail for each recipient
  tried      \* observer: the recipients a mail was started for

observers == <<copies, tried>>
vars == <<kind, row, worker, people, eligible, changes, observers>>

\* age is the time since CreatedAt, rest the time since CompletedAt; both stop
\* where nothing compares them any further.
Row(status, code, digest, active, age) ==
  [status |-> status, code |-> code, digest |-> digest, active |-> active, age |-> age, rest |-> 0]

Idle ==
  [phase |-> "idle", reclaimed |-> FALSE, states |-> Null, at |-> Null, escaped |-> FALSE, left |-> 0]

Init ==
  /\ kind \in {"AUTOMATIC", "MANUAL"}
  /\ row = Row("ABSENT", Null, Null, FALSE, 0)
  /\ worker = [w \in Worker |-> Idle]
  /\ people = Recipient
  /\ eligible = TRUE
  /\ changes = 0
  /\ copies = [r \in Recipient |-> 0]
  /\ tried = {}

(***************************************************************************)
(* Claims                                                                  *)
(***************************************************************************)
Claimed(reclaimed) ==
  [phase |-> IF kind = "AUTOMATIC" THEN "claimed" ELSE "owned", reclaimed |-> reclaimed,
   states |-> Null, at |-> Null, escaped |-> FALSE, left |-> RoundLimit]

\* Variant for mutation checks: any row that was left alone is taken up again.
LeftBehindAny == row.active => row.age > Stale

\* Variant for mutation checks: a claim is abandoned as soon as it has an age.
LeftBehindEarly ==
  \/ row.active /\ row.age > 0
  \/ ~row.active /\ row.code = "RECIPIENTS_PENDING"

\* Variant for mutation checks: a row given up on the way is not taken up.
LeftBehindOnlySilent == row.active /\ row.age > Stale

\* Its owner was last heard of long ago, or stopped before all were tried.
LeftBehind ==
  \/ row.active /\ row.age > Stale
  \/ ~row.active /\ row.code = "RECIPIENTS_PENDING"

\* claimAutomaticReminder(): one statement, guarded by the unique slot.
Claim(w) ==
  /\ kind = "AUTOMATIC" /\ eligible
  /\ worker[w] = Idle
  /\ \/ /\ row.status = "ABSENT"
        /\ row' = Row("PENDING", Null, Null, TRUE, 0)
        /\ worker' = [worker EXCEPT ![w] = Claimed(FALSE)]
     \/ /\ row.status = "PENDING"
        /\ LeftBehind
        /\ row' = Row("PENDING", "ABANDONED", row.digest, TRUE, 0)
        /\ worker' = [worker EXCEPT ![w] = Claimed(TRUE)]
  /\ UNCHANGED <<kind, people, eligible, changes, observers>>

Resumed == Row("PENDING", "DELIVERY_IN_PROGRESS", row.digest, TRUE, 0)

\* sendManualReminder(): the last row of the user is resumed while it is young;
\* a first row is opened if none is there (a later one is another reminder).
Ask(w) ==
  /\ kind = "MANUAL"
  /\ worker[w] = Idle
  /\ \/ /\ row.status = "ABSENT"
        /\ row' = Row("PENDING", Null, Null, TRUE, 0)
        /\ worker' = [worker EXCEPT ![w] = Claimed(FALSE)]
     \/ /\ row.status = "PENDING" /\ ~row.active
        /\ row.code = "RECIPIENTS_PENDING" /\ row.rest <= Window
        /\ row' = Resumed
        /\ worker' = [worker EXCEPT ![w] = Claimed(TRUE)]
  /\ UNCHANGED <<kind, people, eligible, changes, observers>>

(***************************************************************************)
(* What ends a delivery                                                    *)
(***************************************************************************)
\* completeReminderLog() of whoever it is: the row carries no owner.
Completed(status, code, digest) == Row(status, code, digest, FALSE, row.age)

Leaves(w) == worker' = [worker EXCEPT ![w] = Idle]

\* A final write that fails is only logged (finalizeLog).
Finalize(outcome) == row' = outcome \/ UNCHANGED row

Kept(w, digest) == IF worker[w].reclaimed THEN row.digest ELSE digest

\* The task is gone, is not due any more or has another slot by now.
NoLongerDue(w) ==
  /\ worker[w].phase = "claimed"
  /\ ~eligible
  /\ Finalize(Completed("FAILED", "NOT_ELIGIBLE", Kept(w, Null)))
  /\ Leaves(w)
  /\ UNCHANGED <<kind, people, eligible, changes, observers>>

StillDue(w) ==
  /\ worker[w].phase = "claimed"
  /\ eligible
  /\ worker' = [worker EXCEPT ![w].phase = "owned"]
  /\ UNCHANGED <<kind, row, people, eligible, changes, observers>>

\* A read before the first mail throws: a claim of one's own is given up, one
\* taken over is deferred as it is.
Throws(w) ==
  /\ worker[w].phase \in {"claimed", "owned", "resolved"}
  /\ Finalize(IF worker[w].reclaimed
                THEN IF row.status = "PENDING" /\ row.active
                       THEN Completed("PENDING", "RECIPIENTS_PENDING", row.digest)
                       ELSE row
                ELSE Completed("FAILED", "UNEXPECTED_ERROR", Null))
  /\ Leaves(w)
  /\ UNCHANGED <<kind, people, eligible, changes, observers>>

Stops(w) ==
  /\ worker[w] # Idle
  /\ Leaves(w)
  /\ UNCHANGED <<kind, row, people, eligible, changes, observers>>

(***************************************************************************)
(* The delivery                                                            *)
(***************************************************************************)
\* Nobody is responsible, or the texts of the settings do not render.
Unsendable(w) ==
  /\ worker[w].phase = "owned"
  /\ \E code \in {"NO_RECIPIENTS", "NOT_RENDERED"} :
       /\ (code = "NO_RECIPIENTS") <=> (people = {})
       /\ Finalize(Completed("FAILED", code, Kept(w, Null)))
  /\ Leaves(w)
  /\ UNCHANGED <<kind, people, eligible, changes, observers>>

Resolve(w) ==
  /\ worker[w].phase = "owned"
  /\ people # {}
  /\ worker' = [worker EXCEPT ![w].phase = "resolved", ![w].states = [r \in people |-> "untried"]]
  /\ UNCHANGED <<kind, row, people, eligible, changes, observers>>

IsCheckpoint(digest) == digest \notin {Null, Masked}

Untouched(digest) == \A r \in DOMAIN digest : digest[r] = "untried"

\* Variant for mutation checks: what others did to other recipients is forgotten.
DoubtfulIfUnknown(w, previous) == worker[w].reclaimed /\ ~IsCheckpoint(previous)

\* What was done before cannot be told: no checkpoint, or one for other people.
Doubtful(w, previous) ==
  \/ worker[w].reclaimed /\ ~IsCheckpoint(previous)
  \/ /\ IsCheckpoint(previous)
     /\ ~Untouched(previous)
     /\ DOMAIN previous # DOMAIN worker[w].states

GiveUp(w) ==
  /\ worker[w].phase = "resolved"
  /\ Doubtful(w, row.digest)
  /\ Finalize(Completed("PENDING", "MAIL_DELIVERY_UNCERTAIN", row.digest))
  /\ Leaves(w)
  /\ UNCHANGED <<kind, people, eligible, changes, observers>>

TakeUp(w) ==
  /\ worker[w].phase = "resolved"
  /\ ~Doubtful(w, row.digest)
  /\ worker' = [worker EXCEPT
       ![w].phase = "next",
       ![w].states = IF IsCheckpoint(row.digest) /\ DOMAIN row.digest = DOMAIN @ THEN row.digest ELSE @]
  /\ UNCHANGED <<kind, row, people, eligible, changes, observers>>

Checkpoint(states) == Row("PENDING", "DELIVERY_IN_PROGRESS", states, TRUE, row.age)

Untried(w) == {r \in DOMAIN worker[w].states : worker[w].states[r] = "untried"}

Marked(w, r, state) == [worker[w].states EXCEPT ![r] = state]

\* Variant for mutation checks: the mark is set after the mail.
UnmarkedBefore(w, r) == worker[w].states

\* The state a recipient has while its mail is on its way, written first.
MarkBefore(w, r) == Marked(w, r, "uncertain")

Mark(w, r) ==
  /\ worker[w].phase = "next"
  /\ r \in Untried(w)
  /\ row' = Checkpoint(MarkBefore(w, r))
  /\ worker' = [worker EXCEPT ![w].phase = "marked", ![w].at = r, ![w].states = MarkBefore(w, r)]
  /\ UNCHANGED <<kind, people, eligible, changes, observers>>

\* The write fails, perhaps after its effect: the recipient counts as untried.
MarkFails(w, r) ==
  /\ worker[w].phase = "next"
  /\ r \in Untried(w)
  /\ row' = Checkpoint(MarkBefore(w, r)) \/ UNCHANGED row
  /\ worker' = [worker EXCEPT ![w].phase = "closing"]
  /\ UNCHANGED <<kind, people, eligible, changes, observers>>

\* The time is up before the next recipient, or once it is marked.
TimeIsUp(w) ==
  /\ \/ /\ worker[w].phase = "next"
        /\ Untried(w) # {}
        /\ worker' = [worker EXCEPT ![w].phase = "closing"]
     \/ /\ worker[w].phase = "marked"
        /\ worker' = [worker EXCEPT ![w].phase = "closing", ![w].states = Marked(w, worker[w].at, "untried")]
  /\ UNCHANGED <<kind, row, people, eligible, changes, observers>>

\* SMTP: accepted, refused, or an answer that never came either way.
Send(w) ==
  /\ worker[w].phase = "marked"
  /\ \E accepted, heard \in BOOLEAN :
       LET r == worker[w].at
           state == IF ~heard THEN "uncertain" ELSE IF accepted THEN "sent" ELSE "refused"
       IN  /\ worker' = [worker EXCEPT ![w].phase = "told", ![w].states = Marked(w, r, state),
                                       ![w].escaped = @ \/ ~heard]
           /\ copies' = [copies EXCEPT ![r] = IF accepted THEN @ + 1 ELSE @]
           /\ tried' = tried \cup {r}
  /\ UNCHANGED <<kind, row, people, eligible, changes>>

Report(w) ==
  /\ worker[w].phase = "told"
  /\ row' = Checkpoint(worker[w].states)
  /\ worker' = [worker EXCEPT ![w].phase = "next", ![w].at = Null]
  /\ UNCHANGED <<kind, people, eligible, changes, observers>>

ReportFails(w) ==
  /\ worker[w].phase = "told"
  /\ row' = Checkpoint(worker[w].states) \/ UNCHANGED row
  /\ worker' = [worker EXCEPT ![w].phase = "closing", ![w].escaped = TRUE]
  /\ UNCHANGED <<kind, people, eligible, changes, observers>>

AllTried(w) ==
  /\ worker[w].phase = "next"
  /\ Untried(w) = {}
  /\ worker' = [worker EXCEPT ![w].phase = "closing"]
  /\ UNCHANGED <<kind, row, people, eligible, changes, observers>>

In(states, state) == \E r \in DOMAIN states : states[r] = state

\* Variant for mutation checks: doubt as a status of its own.
OutcomeOwnStatus(states, escaped) ==
  IF In(states, "untried") THEN Completed("PENDING", "RECIPIENTS_PENDING", states)
  ELSE IF escaped \/ In(states, "uncertain") THEN Completed("UNCERTAIN", "MAIL_DELIVERY_UNCERTAIN", states)
  ELSE Completed(IF In(states, "sent") THEN "SENT" ELSE "FAILED", Null, Masked)

\* Variant for mutation checks: a doubt of an earlier owner is dropped.
OutcomeOfThisRun(states, escaped) ==
  IF In(states, "untried") THEN Completed("PENDING", "RECIPIENTS_PENDING", states)
  ELSE IF escaped THEN Completed("PENDING", "MAIL_DELIVERY_UNCERTAIN", states)
  ELSE Completed(IF In(states, "sent") THEN "SENT" ELSE "FAILED", Null, Masked)

Outcome(states, escaped) ==
  IF In(states, "untried") THEN Completed("PENDING", "RECIPIENTS_PENDING", states)
  ELSE IF escaped \/ In(states, "uncertain") THEN Completed("PENDING", "MAIL_DELIVERY_UNCERTAIN", states)
  ELSE Completed(IF In(states, "sent") THEN "SENT" ELSE "FAILED", Null, Masked)

Close(w) ==
  /\ worker[w].phase = "closing"
  /\ Finalize(Outcome(worker[w].states, worker[w].escaped))
  /\ Leaves(w)
  /\ UNCHANGED <<kind, people, eligible, changes, observers>>

(***************************************************************************)
(* The task and time                                                       *)
(***************************************************************************)
Change ==
  /\ changes < MaxChanges
  /\ changes' = changes + 1
  /\ \/ people' \in SUBSET Recipient /\ UNCHANGED eligible
     \/ eligible' = ~eligible /\ UNCHANGED people
  /\ UNCHANGED <<kind, row, worker, observers>>

UpTo(n, limit) == IF n < limit THEN n + 1 ELSE n

\* A worker that lives is through within RoundLimit: reads and writes take less
\* than what the hard limit of the delivery leaves of Stale.
Tick ==
  /\ \A w \in Worker : worker[w] # Idle => worker[w].left > 0
  /\ worker' = [w \in Worker |->
       IF worker[w] = Idle THEN Idle ELSE [worker[w] EXCEPT !.left = @ - 1]]
  /\ row.status = "PENDING"
  /\ row' = [row EXCEPT !.age = UpTo(@, Stale + 1), !.rest = UpTo(@, Window + 1)]
  /\ UNCHANGED <<kind, people, eligible, changes, observers>>

Delivery(w) ==
  \/ NoLongerDue(w) \/ StillDue(w) \/ Unsendable(w) \/ Resolve(w) \/ GiveUp(w) \/ TakeUp(w)
  \/ \E r \in Recipient : Mark(w, r) \/ MarkFails(w, r)
  \/ TimeIsUp(w) \/ Send(w) \/ Report(w) \/ ReportFails(w) \/ AllTried(w) \/ Close(w)

Next ==
  \/ \E w \in Worker : Claim(w) \/ Ask(w) \/ Delivery(w) \/ Throws(w) \/ Stops(w)
  \/ Change \/ Tick

Spec == Init /\ [][Next]_vars

Settled ==
  \/ row.status \in {"SENT", "FAILED"}
  \/ row.status = "PENDING" /\ ~row.active /\ row.code = "MAIL_DELIVERY_UNCERTAIN"

\* The round comes again, time passes, and no step fails or is cut off for
\* ever: processes stop and statements fail now and then, not always.
Fairness ==
  /\ WF_vars(Tick)
  /\ WF_vars(\E w \in Worker : Claim(w))
  /\ WF_vars(\E w \in Worker : Delivery(w))
  /\ SF_vars(\E w \in Worker : StillDue(w))
  /\ SF_vars(\E w \in Worker : Resolve(w))
  /\ SF_vars(\E w \in Worker : TakeUp(w))
  /\ SF_vars(\E w \in Worker : \E r \in Recipient : Mark(w, r))
  /\ SF_vars(\E w \in Worker : Send(w))
  /\ SF_vars(\E w \in Worker : AllTried(w))
  /\ SF_vars(\E w \in Worker : Delivery(w) /\ Settled')

FairSpec == Spec /\ Fairness

(***************************************************************************)
(* Properties                                                              *)
(***************************************************************************)
Phase == {"idle", "claimed", "owned", "resolved", "next", "marked", "told", "closing"}

Rows ==
  [status : {"ABSENT", "PENDING", "SENT", "FAILED"},
   code : {Null, "ABANDONED", "DELIVERY_IN_PROGRESS", "RECIPIENTS_PENDING", "MAIL_DELIVERY_UNCERTAIN",
           "NOT_ELIGIBLE", "NO_RECIPIENTS", "NOT_RENDERED", "UNEXPECTED_ERROR"},
   digest : Digest, active : BOOLEAN, age : 0..Stale + 1, rest : 0..Window + 1]

Workers ==
  [phase : Phase, reclaimed : BOOLEAN, states : {Null} \cup Progress, at : {Null} \cup Recipient,
   escaped : BOOLEAN, left : 0..RoundLimit]

\* The values of the row and of whoever works on it.
TypeOK ==
  /\ kind \in {"AUTOMATIC", "MANUAL"}
  /\ row \in Rows
  /\ worker \in [Worker -> Workers]
  /\ people \subseteq Recipient /\ eligible \in BOOLEAN /\ changes \in 0..MaxChanges
  /\ copies \in [Recipient -> Nat] /\ tried \subseteq Recipient

Busy(w) == worker[w] # Idle

\* Two rounds, two instances or two windows never deliver one reminder at the
\* same time, although the row names no owner: reminderService.js:155-163 and
\* the statements of reminderQueries.js that take a row up again.
OneOwner == \A v, w \in Worker : Busy(v) /\ Busy(w) => v = w

\* Nobody receives a reminder twice, wherever a process stops and whichever
\* answer of SMTP or of the database is lost: reminderService.js:166-169.
NoSecondCopy == \A r \in Recipient : copies[r] <= 1

\* The checkpoint never calls a recipient untried who may have got the mail,
\* nor sent who did not: what the next owner resumes from is true.
CheckpointIsTrue ==
  IsCheckpoint(row.digest) =>
    \A r \in DOMAIN row.digest :
      /\ row.digest[r] = "untried" => r \notin tried
      /\ row.digest[r] = "sent" => copies[r] = 1
      /\ row.digest[r] = "refused" => copies[r] = 0

\* A reminder recorded as sent was sent: each recipient it was resolved to got
\* it once or was refused by SMTP, and no earlier owner left one in doubt.
SentIsTrue ==
  [][ row'.status = "SENT" /\ row.status # "SENT" =>
        \E w \in Worker :
          /\ Busy(w) /\ ~Busy(w)'
          /\ \A r \in DOMAIN worker[w].states :
               \/ worker[w].states[r] = "sent" /\ copies[r] = 1
               \/ worker[w].states[r] = "refused" /\ copies[r] = 0
    ]_vars

\* What is settled stays so: a doubtful delivery is never taken up again, and
\* no late write of a former owner reopens a closed reminder.
SettledForGood ==
  [][Settled => Settled' /\ row'.status = row.status /\ row'.digest = row.digest /\ copies' = copies]_vars

\* An automatic reminder that stays due comes to an end, whatever stopped on
\* the way: a row left behind is taken up again (reminderQueries.js:166-173).
EveryReminderSettles ==
  kind = "AUTOMATIC" /\ <>[]eligible => <>Settled

\* One reminder, one owner, one copy for each recipient (reminderService.js:155-169), with
\* a row that has only the states the statements of reminderQueries.js know.
DeliveredOnce == TypeOK /\ OneOwner /\ NoSecondCopy

\* The final status is true and final (reminderService.js:201-233).
OutcomeIsFinal == SentIsTrue /\ SettledForGood
=============================================================================
