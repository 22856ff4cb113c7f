---------------------------- MODULE TaskMailOutbox ----------------------------
(***************************************************************************)
(* The durable queue of task assignment e-mails and the workers of the     *)
(* application instances that deliver it.                                  *)
(*                                                                         *)
(* The row of a mail is written in the transaction of the task change.  A  *)
(* worker leases a batch of due rows, and delivers them one after the      *)
(* other while its lease lasts.  SMTP is outside: it may accept a mail     *)
(* whose sender does not learn of it, and a worker may stop at any point.  *)
(*                                                                         *)
(* Sources: src/src/server/notifications/taskMailOutbox.js,                *)
(* taskMailService.js, taskMailWorker.js.                                  *)
(***************************************************************************)
EXTENDS Integers, FiniteSets

CONSTANTS
  Mail,              \* the rows: one for each deduplication key
  NoMail,            \* in place of a row: the worker is at none
  Worker,            \* the application instances; each runs one round at a time
  Token, NoToken,    \* the random identities of rounds; NULL
  Requested,         \* the batch size asked for (MAX_BATCH)
  Budget,            \* the longest a delivery may take before it is aborted
  Slack,             \* time set aside for the reads and writes around a delivery
  MinLease, MaxLease,
  RetryBase,
  MaxAttempts

ASSUME TimeAssumption ==
  /\ Budget \in Nat \ {0} /\ Slack \in Nat \ {0}
  /\ MinLease \in Nat \ {0} /\ MaxLease \in Nat /\ MinLease <= MaxLease
  /\ Budget + Slack <= MaxLease
  /\ RetryBase \in Nat

ASSUME MailAssumption == NoMail \notin Mail /\ IsFiniteSet(Mail) /\ IsFiniteSet(Worker)

\* There is always an identity that neither a row nor a round carries.
ASSUME TokenAssumption ==
  /\ NoToken \notin Token /\ IsFiniteSet(Token)
  /\ Cardinality(Token) > Cardinality(Mail) + Cardinality(Worker)

ASSUME CountAssumption == Requested \in Nat \ {0} /\ MaxAttempts \in Nat \ {0}

VARIABLES
  mail,      \* the table MR_TaskMailOutbox
  worker,    \* where each worker is in its round
  copies,    \* observer: how often SMTP accepted each mail
  unheard,   \* observer: mails with a delivery whose outcome never reached its row
  delay      \* observer: the time each round spent outside of deliveries

observers == <<copies, unheard, delay>>

vars == <<mail, worker, copies, unheard, delay>>

Least(a, b)    == IF a <= b THEN a ELSE b
Greatest(a, b) == IF a >= b THEN a ELSE b

PerMail == Budget + Slack

\* Variant for mutation checks: the lease is the minimal one, whatever the batch needs.
FixedLease == MinLease

\* A batch is no larger than the longest lease can carry; the lease covers it.
BatchSize == Greatest(1, Least(Requested, MaxLease \div PerMail))
Lease     == Least(MaxLease, Greatest(MinLease, BatchSize * PerMail))

\* Twice as long after every attempt, up to the fifth.
Doublings == <<1, 2, 4, 8, 16>>

Backoff(attempts) == RetryBase * Doublings[Greatest(1, Least(attempts, 5))]

Absent == [status |-> "ABSENT", attempts |-> 0, wait |-> 0, lease |-> 0, token |-> NoToken]

\* A round before it has leased rows.
Round(phase, deadline) ==
  [phase |-> phase, token |-> NoToken, deadline |-> deadline, todo |-> {}, now |-> NoMail, left |-> 0]

Idle == Round("idle", 0)

\* A delivery goes on until its outcome is known, which is then reported.
Delivering == {"sending", "accepted"}
Outcome    == {"sent", "refused", "uncertain"}
Phase      == {"idle", "claiming", "resolving"} \cup Delivering \cup Outcome

Init ==
  /\ mail = [m \in Mail |-> Absent]
  /\ worker = [w \in Worker |-> Idle]
  /\ copies = [m \in Mail |-> 0]
  /\ unheard = {}
  /\ delay = [w \in Worker |-> 0]

-----------------------------------------------------------------------------
(* The queue. *)

\* The transaction of a task change writes the row, once for each key.
EnqueueMail(m) ==
  /\ mail[m].status = "ABSENT"
  /\ mail' = [mail EXCEPT ![m].status = "PENDING"]
  /\ UNCHANGED <<worker, observers>>

Free(m) == mail[m].status = "PENDING" /\ mail[m].wait = 0 /\ mail[m].lease = 0

\* Variant for mutation checks: nothing ends a row that has no attempts left.
ExhaustedNever(m) == Free(m) /\ mail[m].attempts > MaxAttempts

Exhausted(m) == Free(m) /\ mail[m].attempts >= MaxAttempts

Due(m)       == Free(m) /\ mail[m].attempts < MaxAttempts

\* The rows one claim may take: all that are due, or as many as make a batch.
Batches ==
  LET due == {m \in Mail : Due(m)}
  IN  {batch \in SUBSET due :
        IF Cardinality(due) <= BatchSize THEN batch = due ELSE Cardinality(batch) = BatchSize}

\* A random identity is one that nothing carries: neither a row, whose round may
\* be long over, nor a round.
Fresh ==
  CHOOSE token \in Token : /\ \A m \in Mail : mail[m].token # token
                           /\ \A w \in Worker : worker[w].token # token

Leased(row, attempts, token) ==
  [status |-> row.status, attempts |-> attempts, wait |-> row.wait, lease |-> Lease, token |-> token]

\* Variant for mutation checks: a claim is no attempt, only a failure is.
ClaimedUncounted(row, token) == Leased(row, row.attempts, token)

Claimed(row, token) == Leased(row, row.attempts + 1, token)

\* What a status write makes of the row.
Written(row, status, wait) ==
  [status |-> status, attempts |-> row.attempts, wait |-> wait, lease |-> 0, token |-> NoToken]

MarkSent(row) == Written(row, "SENT", row.wait)

\* For good: no attempts left, or nobody can tell whether the mail was delivered.
GiveUp(row) == Written(row, "FAILED", row.wait)

\* Variant for mutation checks: a failure counts as an attempt once more.
MarkFailedCounted(row) ==
  [status |-> IF row.attempts >= MaxAttempts THEN "FAILED" ELSE "PENDING",
   attempts |-> row.attempts + 1, wait |-> Backoff(row.attempts), lease |-> 0, token |-> NoToken]

MarkFailed(row) ==
  Written(row, IF row.attempts >= MaxAttempts THEN "FAILED" ELSE "PENDING", Backoff(row.attempts))

\* Variant for mutation checks: an uncertain delivery is retried like a failed one.
MarkRetryingUncertain(row, outcome) ==
  IF outcome = "sent" THEN MarkSent(row) ELSE MarkFailed(row)

Mark(row, outcome) ==
  IF outcome = "sent" THEN MarkSent(row)
  ELSE IF outcome = "refused" THEN MarkFailed(row)
  ELSE GiveUp(row)

\* Variant for mutation checks: every pending row may be written to.
OwnsPending(w, m) == mail[m].status = "PENDING"

\* A status write reaches the row only while it carries the token of the round.
Owns(w, m) == mail[m].status = "PENDING" /\ mail[m].token = worker[w].token

Write(w, m, row) == mail' = [mail EXCEPT ![m] = IF Owns(w, m) THEN row ELSE mail[m]]

-----------------------------------------------------------------------------
(* One round of a worker. *)

\* The local deadline of the round is read before its rows are leased.
Begin(w) ==
  /\ worker[w].phase = "idle"
  /\ worker' = [worker EXCEPT ![w] = Round("claiming", Lease)]
  /\ delay' = [delay EXCEPT ![w] = 0]
  /\ UNCHANGED <<mail, copies, unheard>>

\* The round goes on with the rest of its batch.
Resolving(w, token, rest) ==
  [phase |-> "resolving", token |-> token, deadline |-> worker[w].deadline, todo |-> rest,
   now |-> NoMail, left |-> 0]

\* Rows without attempts left are given up; due rows are leased to the round,
\* which may not learn of it.
Claim(w) ==
  /\ worker[w].phase = "claiming"
  /\ \E batch \in Batches, answered \in BOOLEAN :
       /\ mail' = [m \in Mail |-> IF Exhausted(m) THEN GiveUp(mail[m])
                                  ELSE IF m \in batch THEN Claimed(mail[m], Fresh)
                                  ELSE mail[m]]
       /\ worker' = [worker EXCEPT ![w] =
                       IF batch = {} \/ ~answered THEN Idle ELSE Resolving(w, Fresh, batch)]
       \* A delivery that was over and not reported yet lost its lease here.
       /\ unheard' = unheard \cup
            {m \in batch : \E v \in Worker : worker[v].phase \in Outcome /\ worker[v].now = m}
  /\ UNCHANGED <<copies, delay>>

\* The round goes on with its next row, or is over.
Proceed(w, m) ==
  worker' = [worker EXCEPT ![w] =
    IF worker[w].todo = {m} THEN Idle ELSE Resolving(w, worker[w].token, worker[w].todo \ {m})]

\* A failed database call ends the round; the call may have had its effect.
Ends(w) == worker' = [worker EXCEPT ![w] = Idle]

\* The recipient has no usable address, or the mail cannot be built.
PrepareFails(w, m) ==
  /\ worker[w].phase = "resolving" /\ m \in worker[w].todo
  /\ Write(w, m, MarkFailed(mail[m]))
  /\ Proceed(w, m) \/ Ends(w)
  /\ UNCHANGED observers

\* As before, and recording the failed preparation fails too, which is ignored.
PrepareFailsUnrecorded(w, m) ==
  /\ worker[w].phase = "resolving" /\ m \in worker[w].todo
  /\ Proceed(w, m)
  /\ UNCHANGED <<mail, observers>>

\* Variant for mutation checks: the lease only has to last until the delivery begins.
FitsLeaseNow(w) == worker[w].deadline > 0

FitsLease(w) == worker[w].deadline >= PerMail

\* What the lease cannot carry any more is left, with the rest of the batch.
Defer(w) ==
  /\ worker[w].phase = "resolving" /\ ~FitsLease(w)
  /\ Ends(w)
  /\ UNCHANGED <<mail, observers>>

\* The round is at a row of its batch.
At(w, phase, m, left) ==
  [phase |-> phase, token |-> worker[w].token, deadline |-> worker[w].deadline,
   todo |-> worker[w].todo, now |-> m, left |-> left]

StartSend(w, m) ==
  /\ worker[w].phase = "resolving" /\ m \in worker[w].todo /\ FitsLease(w)
  /\ worker' = [worker EXCEPT ![w] = At(w, "sending", m, Budget)]
  /\ UNCHANGED <<mail, observers>>

SmtpAccepts(w) ==
  /\ worker[w].phase = "sending"
  /\ worker' = [worker EXCEPT ![w] = At(w, "accepted", worker[w].now, worker[w].left)]
  /\ copies' = [copies EXCEPT ![worker[w].now] = @ + 1]
  /\ UNCHANGED <<mail, unheard, delay>>

\* The dialogue ends: accepted, certainly not accepted, or nobody can tell.
SendEnds(w) ==
  /\ worker[w].phase \in Delivering
  /\ \E outcome \in {"uncertain", IF worker[w].phase = "accepted" THEN "sent" ELSE "refused"} :
       worker' = [worker EXCEPT ![w] = At(w, outcome, worker[w].now, 0)]
  /\ UNCHANGED <<mail, observers>>

\* The outcome is written, if the round still owns the row.
Report(w) ==
  /\ worker[w].phase \in Outcome
  /\ Write(w, worker[w].now, Mark(mail[worker[w].now], worker[w].phase))
  /\ unheard' = IF Owns(w, worker[w].now) THEN unheard ELSE unheard \cup {worker[w].now}
  /\ Proceed(w, worker[w].now) \/ Ends(w)
  /\ UNCHANGED <<copies, delay>>

\* A database call without effect ends the round, or the process stops.  The
\* leased rows wait for their lease to run out.
RoundStops(w) ==
  /\ worker[w].phase # "idle"
  /\ unheard' = IF worker[w].phase \in Delivering \cup Outcome
                THEN unheard \cup {worker[w].now} ELSE unheard
  /\ Ends(w)
  /\ UNCHANGED <<mail, copies, delay>>

-----------------------------------------------------------------------------
(* Time.  Only differences of time matter, so that clocks count down. *)

Down(n) == IF n = 0 THEN 0 ELSE n - 1

\* As far as it matters.
Delayed(n) == Least(n + 1, Slack * (BatchSize - 1) + 1)

\* A delivery is aborted when its budget is used up: no time passes after that.
Tick ==
  /\ \A w \in Worker : worker[w].phase \in Delivering => worker[w].left > 0
  /\ mail' = [m \in Mail |->
       [status |-> mail[m].status, attempts |-> mail[m].attempts, wait |-> Down(mail[m].wait),
        lease |-> Down(mail[m].lease), token |-> mail[m].token]]
  /\ worker' = [w \in Worker |->
       [phase |-> worker[w].phase, token |-> worker[w].token, deadline |-> Down(worker[w].deadline),
        todo |-> worker[w].todo, now |-> worker[w].now, left |-> Down(worker[w].left)]]
  /\ delay' = [w \in Worker |->
       IF worker[w].phase \in {"idle"} \cup Delivering THEN delay[w] ELSE Delayed(delay[w])]
  /\ UNCHANGED <<copies, unheard>>

\* What a worker does of itself once a round has begun.
Works(w) ==
  \/ \E m \in Mail : PrepareFails(w, m) \/ PrepareFailsUnrecorded(w, m) \/ StartSend(w, m)
  \/ Defer(w) \/ SmtpAccepts(w) \/ SendEnds(w) \/ Report(w)

Next ==
  \/ \E m \in Mail : EnqueueMail(m)
  \/ \E w \in Worker : Begin(w) \/ Claim(w) \/ Works(w) \/ RoundStops(w)
  \/ Tick

Spec == Init /\ [][Next]_vars

\* Workers go on and time passes.  A round that fails is begun again, so that a
\* claim tried again and again meets a database that answers.
FairSpec ==
  /\ Spec
  /\ WF_vars(Tick)
  /\ \A w \in Worker : WF_vars(Begin(w)) /\ WF_vars(Works(w)) /\ SF_vars(Claim(w))

-----------------------------------------------------------------------------
(* Properties. *)

MailType ==
  [status : {"ABSENT", "PENDING", "SENT", "FAILED"}, attempts : 0..MaxAttempts,
   wait : Nat, lease : 0..Lease, token : Token \cup {NoToken}]

WorkerType ==
  [phase : Phase, token : Token \cup {NoToken}, deadline : 0..Lease, todo : SUBSET Mail,
   now : Mail \cup {NoMail}, left : 0..Budget]

\* Types: in particular a row is never attempted more often than MaxAttempts
\* allows (taskMailOutbox.js:30).
TypeOK ==
  /\ mail \in [Mail -> MailType]
  /\ worker \in [Worker -> WorkerType]
  /\ copies \in [Mail -> Nat]
  /\ unheard \subseteq Mail
  /\ delay \in [Worker -> Nat]

\* While a worker talks to the SMTP server about a mail, it owns the row and its
\* lease has not run out (taskMailService.js:74-78, taskMailOutbox.js:190-197):
\* no other round can take the row, and none can have written to it.
SenderHoldsLease ==
  \A w \in Worker : worker[w].phase \in Delivering =>
    /\ Owns(w, worker[w].now)
    /\ mail[worker[w].now].lease > 0

\* Two workers never talk to the SMTP server about the same mail at a time
\* (taskMailOutbox.js:46-53).
NoOverlappingSends ==
  \A v, w \in Worker :
    v # w /\ worker[v].phase \in Delivering /\ worker[w].phase \in Delivering
    => worker[v].now # worker[w].now

\* A recipient gets a mail twice only if the outcome of a delivery never reached
\* the row: the worker stopped or failed before writing it, or wrote it after the
\* lease ran out (taskMailOutbox.js:13-16).  Slow deliveries, deliveries of
\* unknown outcome and other workers are no reason.
DuplicateOnlyIfUnheard == \A m \in Mail : copies[m] > 1 => m \in unheard

\* However often workers stop, a recipient gets no more than MaxAttempts copies
\* (taskMailOutbox.js:135-136).
CopiesBounded == \A m \in Mail : copies[m] <= MaxAttempts

\* A further copy has a lost outcome behind it, and there is an end to them.
CopiesExplained == DuplicateOnlyIfUnheard /\ CopiesBounded

\* The lease of a round covers its batch (taskMailOutbox.js:65-88): a delivery is
\* put off only in a round whose reads and writes took longer than the slack set
\* aside for them, even if every delivery used its whole budget.
LeaseCoversBatch ==
  \A w \in Worker : worker[w].phase = "resolving" /\ ~FitsLease(w)
    => delay[w] > Slack * (BatchSize - 1)

\* Every queued mail is sent or given up in the end, however often rounds stop
\* (taskMailOutbox.js:135-157).
EveryMailSettles ==
  \A m \in Mail : mail[m].status = "PENDING" ~> mail[m].status \in {"SENT", "FAILED"}

\* The lease keeps instances apart (taskMailOutbox.js:46-53): whoever delivers a mail
\* owns its row with time left, nobody else delivers it, and no row is attempted more
\* often than the limit.
SendsExclusive == TypeOK /\ SenderHoldsLease /\ NoOverlappingSends
=============================================================================
