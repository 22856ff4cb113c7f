------------------------- MODULE OutlookOutboxProofs -------------------------
(***************************************************************************)
(* Proofs about OutlookOutbox for every set of workers and contents and    *)
(* every bound.                                                            *)
(*                                                                         *)
(* The first invariant needs no assumption about pauses.  Everything that  *)
(* may still be sent, recorded or restored (Known) has one invitation per  *)
(* number and no number above the row's.  A row that is closed, or of      *)
(* which nothing has escaped, has left no invitation that stands in        *)
(* Outlook, and none stands above a cancellation that may be retried.      *)
(* The worker with the lease has a copy that knows the same, with its own  *)
(* invitation left out; so a cancellation it has delivered is above all    *)
(* that stands, and the row may be closed.  A worker that has lost its     *)
(* lease knows nothing, but what it may yet send was counted before.       *)
(*                                                                         *)
(* The second one is about workers that are not paused for longer than     *)
(* their lease: whoever works has it, and what is carried out for the      *)
(* row's own generation is what row and task are now.                      *)
(***************************************************************************)
EXTENDS OutlookOutbox, FiniteSetTheorems, WellFoundedInduction, TLAPS

(***************************************************************************)
(* One number, one invitation                                              *)
(***************************************************************************)
Invited(w) == worker[w].pc \in {"sending", "accepted"}

\* The revisions somebody may still send, record or restore.
Known ==
  mailbox \cup {r \in {row.pending, row.delivered} : r # NoRev}
          \cup {r \in {worker[w].claim.pending : w \in Worker} : r # NoRev}
          \cup {Invitation(w) : w \in {v \in Worker : Invited(v)}}

OneNumberEach ==
  /\ \A r \in Known : r.seq <= row.sequence
  /\ \A r, s \in Known : r.seq = s.seq => r = s

(***************************************************************************)
(* What may stand in Outlook                                               *)
(***************************************************************************)
\* What has been or may yet be delivered, but for the invitations of some workers.
Deliverable(but) ==
  mailbox \cup {Invitation(w) : w \in {v \in Worker \ but : worker[v].pc = "sending"}}

\* An invitation no delivered cancellation overtakes.
Stands(r) == r.method = "REQUEST" /\ \A s \in mailbox : s.method = "CANCEL" => s.seq <= r.seq

NothingStands(but) == \A r \in Deliverable(but) : ~Stands(r)

\* No invitation stands above a cancellation that may be sent once more.
Tops(rev, but) == \A r \in Deliverable(but) : Stands(r) => r.seq <= rev.seq

Retried(pending, delivered) ==
  pending # NoRev /\ pending.method = "CANCEL" /\ Newer(pending, delivered)

\* The row as the database has it.
RowKnows ==
  /\ ~row.active => row.intent = "NONE" /\ lease.owner = NoWorker /\ NothingStands({})
  /\ row.delivered = NoRev /\ ~row.escaped => NothingStands({})
  /\ Retried(row.pending, row.delivered) => Tops(row.pending, {})

\* The copy of the worker that has the lease.
CopyKnows(w) ==
  LET c == worker[w].claim
  IN  /\ c.delivered = row.delivered
      /\ worker[w].pc \notin {"accepted", "failing"} =>
           /\ NeverEscaped(c) => NothingStands({w})
           /\ Retried(c.pending, c.delivered) => Tops(c.pending, {w})
      /\ worker[w].pc = "closing" => NeverEscaped(c)
      /\ Invited(w) => row.pending = Invitation(w)
      /\ Invited(w) /\ worker[w].plan.method = "CANCEL" => Tops(Invitation(w), {})
      /\ worker[w].pc = "accepted" => Invitation(w) \in mailbox

\* A plan to send something says what.
PlanReady(w) ==
  LET plan == worker[w].plan
  IN  /\ worker[w].pc \in {"allocating", "sending", "accepted", "refused"} =>
           plan.method \in Method /\ plan.of \in Content
      /\ worker[w].pc \in {"sending", "accepted", "refused"} => plan.seq \in 1 .. MaxSequence
      /\ worker[w].pc = "allocating" => ~(plan.method = "CANCEL" /\ plan.reuse)

WorkersKnow ==
  \A w \in Worker :
    /\ worker[w].pc = "idle" => worker[w] = Asleep
    /\ PlanReady(w)
    /\ Owns(w) => worker[w].pc # "idle" /\ CopyKnows(w)

\* The first inductive invariant: numbers, and what may stand in Outlook.
DeliveryInv == TypeOK /\ OneNumberEach /\ RowKnows /\ WorkersKnow

(***************************************************************************)
(* Generations                                                             *)
(***************************************************************************)
\* A removal the user has asked for is queued until it is carried out.
CancelStands == row.active /\ row.cancelRequested => row.intent = "CANCEL"

\* The worker has the lease, and no pause outlasts it.
LeaseLasts == \A w \in Worker : worker[w].pc # "idle" => lease = [owner |-> w, live |-> TRUE]

TaskOpen == task # Gone /\ task.status = "open"

\* What a worker that carries out the generation of the row knows of row and task.
CarriesOut(w) ==
  LET plan == worker[w].plan
  IN  /\ worker[w].claim.cancelRequested = row.cancelRequested
      /\ worker[w].pc = "settling" =>
           /\ ~row.cancelRequested
           /\ TaskOpen => Same(row.delivered, "REQUEST", task.content)
      /\ worker[w].pc \in {"allocating", "sending", "accepted"} =>
           /\ plan.method = "REQUEST" =>
                ~row.cancelRequested /\ (TaskOpen => plan.of = task.content)
           /\ plan.method = "CANCEL" /\ plan.completed => ~row.cancelRequested /\ ~TaskOpen
           /\ plan.method = "CANCEL" /\ ~plan.completed /\ ~Hidden => row.cancelRequested \/ task = Gone
      /\ worker[w].pc = "closing" /\ ~Hidden => row.cancelRequested \/ task = Gone

\* The second one: what is carried out is what the row and the task are now.
GenerationInv ==
  /\ LeaseLasts /\ CancelStands /\ RecordMatchesTask
  /\ \A w \in Worker : worker[w].pc # "idle" =>
       /\ row.intent # "NONE" /\ worker[w].claim.queueSeq <= row.queueSeq
       /\ Current(w) => CarriesOut(w)

(***************************************************************************)
(* Types                                                                   *)
(***************************************************************************)
Agent == [pc : PC, claim : Claimed, plan : Plan]

\* The copy of a row has the row's columns.
LEMMA CopyIs ==
  ASSUME NEW r \in Row
  PROVE  /\ Copy(r) \in Claimed
         /\ \A column \in Copied : Copy(r)[column] = r[column]
<1>1. \A column \in Copied : Copy(r)[column] = r[column]
  BY DEF Copy
<1>2. Copy(r) = [queueSeq |-> r.queueSeq, pending |-> r.pending, delivered |-> r.delivered,
                 escaped |-> r.escaped, forceResend |-> r.forceResend, suspended |-> r.suspended,
                 completedOn |-> r.completedOn, cancelRequested |-> r.cancelRequested]
  BY DEF Copy, Copied
<1> QED BY <1>1, <1>2 DEF Row, Claimed

\* A table without a row and a worker at rest are of their types.
LEMMA NoRowIs == NoRow \in Row /\ Asleep \in Agent
<1>1. NoRow \in Row
  BY NumberAssumption DEF NoRow, Row
<1>2. NoPlan \in Plan
  BY NumberAssumption DEF NoPlan, Plan
<1> QED BY <1>1, <1>2, CopyIs DEF Asleep, Agent, PC

\* An agent with a new place and a new plan.
LEMMA AgentMoves ==
  ASSUME NEW a \in Agent, NEW pc \in PC, NEW plan \in Plan
  PROVE  /\ [a EXCEPT !.pc = pc] \in Agent
         /\ [a EXCEPT !.pc = pc, !.plan = plan] \in Agent
BY DEF Agent

\* A typed state, by its parts.
LEMMA TypeIs ==
  TypeOK <=> /\ task \in [status : {"open", "done"}, content : Content] \cup {Gone}
             /\ row \in Row
             /\ lease \in [owner : Worker \cup {NoWorker}, live : BOOLEAN]
             /\ worker \in [Worker -> Agent]
             /\ adding \in Content \cup {NoRev}
             /\ mailbox \subseteq Revision
BY DEF TypeOK, Agent

(***************************************************************************)
(* What the requests do to the row                                         *)
(***************************************************************************)
\* What Outlook has got, or may get, of the row is as it was.
SentAsBefore ==
  /\ row'.sequence = row.sequence /\ row'.pending = row.pending
  /\ row'.delivered = row.delivered /\ row'.escaped = row.escaped /\ row'.active = row.active
  /\ ~row.active => row'.intent = row.intent

\* A subscription that was over begins anew.
BeginsAnew ==
  /\ ~row.active /\ row'.active
  /\ row'.sequence = row.sequence /\ row'.pending = NoRev
  /\ row'.delivered = NoRev /\ ~row'.escaped

\* A request leaves the generation of a subscription as it found it, or begins another one.
KeepsGeneration ==
  /\ row'.queueSeq >= row.queueSeq
  /\ row.active /\ row'.queueSeq = row.queueSeq =>
       /\ row.intent # "NONE" => row'.intent # "NONE"
       /\ row'.cancelRequested = row.cancelRequested
       /\ ~row.cancelRequested => task' = task
  /\ row'.active /\ row'.intent = "NONE" => row.active /\ row.intent = "NONE" /\ task' = task

\* What a request may do.
RequestDone ==
  /\ row' \in Row /\ (SentAsBefore \/ BeginsAnew)
  /\ CancelStands => CancelStands' /\ KeepsGeneration

\* A new generation of intents leaves the rest of the row alone.
LEMMA RequeuedIs ==
  ASSUME NEW r \in Row, r.queueSeq < MaxQueueSeq
  PROVE  /\ Requeued(r) \in Row /\ Requeued(r).queueSeq = r.queueSeq + 1
         /\ \A column \in {"active", "sequence", "intent", "pending", "delivered", "cancelRequested",
                          "forceResend", "escaped", "suspended", "completedOn"} :
              Requeued(r)[column] = r[column]
<1>1. r.queueSeq + 1 \in 0 .. MaxQueueSeq /\ 0 \in 0 .. MaxAttempts
  BY NumberAssumption DEF Row
<1>2. Requeued(r) \in Row
  BY <1>1 DEF Requeued, Row
<1>3. Requeued(r).queueSeq = r.queueSeq + 1
  BY DEF Requeued, Row
<1>4. \A column \in {"active", "sequence", "intent", "pending", "delivered", "cancelRequested",
                    "forceResend", "escaped", "suspended", "completedOn"} :
        Requeued(r)[column] = r[column]
  BY DEF Requeued, Row
<1> QED BY <1>2, <1>3, <1>4

\* OUTLOOK_ENQUEUE_TASK_SQL, for a commit of the task or the project.
LEMMA EnqueueIs ==
  ASSUME row \in Row, NEW suspend \in BOOLEAN, NEW completed \in BOOLEAN, Enqueue(suspend, completed)
  PROVE  RequestDone
<1>1. CASE ~Follows
  <2>1. row' = row /\ (row.active => row.cancelRequested)
    BY <1>1 DEF Enqueue, Follows
  <2> QED BY <2>1 DEF SentAsBefore, RequestDone, KeepsGeneration, CancelStands, Row
<1>2. CASE Follows
  <2>1. PICK a \in BOOLEAN, b \in BOOLEAN :
          row' = [Requeued(row) EXCEPT !.intent = "REQUEST", !.suspended = a, !.completedOn = b]
    <3>1. (row.suspended \/ suspend) \in BOOLEAN /\ (row.completedOn \/ completed) \in BOOLEAN
      OBVIOUS
    <3>2. row' = [Requeued(row) EXCEPT !.intent = "REQUEST",
                                      !.suspended = row.suspended \/ suspend,
                                      !.completedOn = row.completedOn \/ completed]
      BY <1>2 DEF Enqueue, Requeued, Row
    <3> QED BY <3>1, <3>2
  <2>2. row.queueSeq < MaxQueueSeq
    BY <1>2 DEF Enqueue
  <2>3. row' \in Row /\ row'.queueSeq > row.queueSeq
    <3> DEFINE q == Requeued(row)
    <3>1. q \in Row /\ q.queueSeq = row.queueSeq + 1
      BY <2>2, RequeuedIs
    <3> HIDE DEF q
    <3>2. row' = [q EXCEPT !.intent = "REQUEST", !.suspended = a, !.completedOn = b]
      BY <2>1 DEF q
    <3>3. row' \in Row
      BY <3>1, <3>2 DEF Row, Method
    <3>4. row'.queueSeq = row.queueSeq + 1 /\ row.queueSeq \in Nat
      BY <3>1, <3>2 DEF Row
    <3> QED BY <3>3, <3>4
  <2>4. row.active /\ row'.intent = "REQUEST" /\ ~row.cancelRequested /\ ~row'.cancelRequested
    BY <1>2, <2>1 DEF Follows, Requeued, Row
  <2>5. SentAsBefore
    BY <2>1, <2>4 DEF Requeued, Row, SentAsBefore
  <2> QED BY <2>3, <2>4, <2>5 DEF RequestDone, KeepsGeneration, CancelStands, Row
<1> QED BY <1>1, <1>2

\* A step that gives a followed subscription a new generation.
LEMMA AnotherGeneration ==
  ASSUME row' \in Row, SentAsBefore, row.active, row.queueSeq \in Nat,
         row'.queueSeq = row.queueSeq + 1, row'.intent # "NONE",
         row'.cancelRequested => row'.intent = "CANCEL"
  PROVE  RequestDone
<1>1. KeepsGeneration
  BY DEF KeepsGeneration, Row
<1> QED BY <1>1 DEF RequestDone, CancelStands

\* OUTLOOK_QUEUE_CANCEL_SQL.
LEMMA RemoveIs ==
  ASSUME row \in Row, Remove
  PROVE  RequestDone
<1> DEFINE q == IF row.intent = "CANCEL" /\ row.cancelRequested /\ row.attempts < MaxAttempts
                THEN row ELSE Requeued(row)
<1>1. /\ row.active /\ q.queueSeq <= MaxQueueSeq /\ UNCHANGED task
      /\ row' = [q EXCEPT !.intent = "CANCEL", !.cancelRequested = TRUE, !.forceResend = FALSE]
  BY DEF Remove
<1>2. CASE row.intent = "CANCEL" /\ row.cancelRequested /\ row.attempts < MaxAttempts
  <2>1. row' = [row EXCEPT !.intent = "CANCEL", !.cancelRequested = TRUE, !.forceResend = FALSE]
    BY <1>1, <1>2
  <2>2. /\ row' \in Row /\ row'.queueSeq = row.queueSeq
        /\ \A column \in {"active", "sequence", "pending", "delivered", "escaped"} : row'[column] = row[column]
    BY <2>1 DEF Row, Method
  <2>3. row'.intent = "CANCEL" /\ row'.cancelRequested
    BY <2>1 DEF Row
  <2>4. row.queueSeq \in Nat
    BY DEF Row
  <2>5. SentAsBefore
    BY <1>1, <2>2, <2>3 DEF SentAsBefore
  <2> QED BY <1>1, <1>2, <2>2, <2>3, <2>4, <2>5 DEF RequestDone, KeepsGeneration, CancelStands
<1>3. CASE ~(row.intent = "CANCEL" /\ row.cancelRequested /\ row.attempts < MaxAttempts)
  <2>1. q = Requeued(row)
    BY <1>3
  <2>2. row.queueSeq < MaxQueueSeq /\ row.queueSeq \in Nat
    <3>1. row.queueSeq \in Nat /\ MaxQueueSeq \in Nat
      BY NumberAssumption DEF Row
    <3>2. Requeued(row).queueSeq = row.queueSeq + 1
      BY DEF Requeued, Row
    <3> QED BY <1>1, <2>1, <3>1, <3>2
  <2>3. /\ q \in Row /\ q.queueSeq = row.queueSeq + 1
        /\ \A column \in {"active", "sequence", "intent", "pending", "delivered", "cancelRequested",
                          "forceResend", "escaped", "suspended", "completedOn"} : q[column] = row[column]
    BY <2>1, <2>2, RequeuedIs
  <2> HIDE DEF q
  <2>4. row' \in Row /\ row'.intent = "CANCEL" /\ row'.queueSeq = q.queueSeq
    BY <1>1, <2>3 DEF Row, Method
  <2>5. SentAsBefore
    BY <1>1, <2>3 DEF Row, SentAsBefore
  <2> QED BY <1>1, <2>2, <2>3, <2>4, <2>5, AnotherGeneration
<1> QED BY <1>2, <1>3

\* OUTLOOK_QUEUE_RESEND_SQL.
LEMMA ResendIs ==
  ASSUME row \in Row, Resend
  PROVE  RequestDone
<1> DEFINE q == IF row.forceResend /\ row.attempts < MaxAttempts THEN row ELSE Requeued(row)
<1>1. /\ row.active /\ ~row.cancelRequested /\ q.queueSeq <= MaxQueueSeq /\ UNCHANGED task
      /\ row' = [q EXCEPT !.intent = "REQUEST", !.forceResend = TRUE]
  BY DEF Resend
<1>2. CASE row.forceResend /\ row.attempts < MaxAttempts
  <2>1. row' = [row EXCEPT !.intent = "REQUEST", !.forceResend = TRUE]
    BY <1>1, <1>2
  <2>2. /\ row' \in Row /\ row'.queueSeq = row.queueSeq
        /\ \A column \in {"active", "sequence", "pending", "delivered", "escaped"} : row'[column] = row[column]
    BY <2>1 DEF Row, Method
  <2>3. row'.intent = "REQUEST" /\ ~row'.cancelRequested
    BY <1>1, <2>1 DEF Row
  <2>4. row.queueSeq \in Nat
    BY DEF Row
  <2>5. SentAsBefore
    BY <1>1, <2>2, <2>3 DEF SentAsBefore
  <2> QED BY <1>1, <1>2, <2>2, <2>3, <2>4, <2>5 DEF RequestDone, KeepsGeneration, CancelStands
<1>3. CASE ~(row.forceResend /\ row.attempts < MaxAttempts)
  <2>1. q = Requeued(row)
    BY <1>3
  <2>2. row.queueSeq < MaxQueueSeq /\ row.queueSeq \in Nat
    <3>1. row.queueSeq \in Nat /\ MaxQueueSeq \in Nat
      BY NumberAssumption DEF Row
    <3>2. Requeued(row).queueSeq = row.queueSeq + 1
      BY DEF Requeued, Row
    <3> QED BY <1>1, <2>1, <3>1, <3>2
  <2>3. /\ q \in Row /\ q.queueSeq = row.queueSeq + 1
        /\ \A column \in {"active", "sequence", "intent", "pending", "delivered", "cancelRequested",
                          "forceResend", "escaped", "suspended", "completedOn"} : q[column] = row[column]
    BY <2>1, <2>2, RequeuedIs
  <2> HIDE DEF q
  <2>4. row' \in Row /\ row'.intent = "REQUEST" /\ row'.queueSeq = q.queueSeq /\ ~row'.cancelRequested
    BY <1>1, <2>3 DEF Row, Method
  <2>5. SentAsBefore
    BY <1>1, <2>3 DEF Row, SentAsBefore
  <2> QED BY <1>1, <2>2, <2>3, <2>4, <2>5, AnotherGeneration
<1> QED BY <1>2, <1>3

\* OUTLOOK_ENQUEUE_TASK_CANCEL_SQL.
LEMMA DeleteTaskIs ==
  ASSUME row \in Row, DeleteTask
  PROVE  RequestDone
<1>1. CASE ~Follows
  <2>1. row' = row /\ (row.active => row.cancelRequested)
    BY <1>1 DEF DeleteTask, Follows
  <2> QED BY <2>1 DEF SentAsBefore, RequestDone, KeepsGeneration, CancelStands, Row
<1>2. CASE Follows
  <2> DEFINE q == Requeued(row)
  <2>1. row.active /\ row.queueSeq < MaxQueueSeq /\ row' = [q EXCEPT !.intent = "CANCEL"]
    BY <1>2 DEF DeleteTask, Follows
  <2>2. /\ q \in Row /\ q.queueSeq = row.queueSeq + 1
        /\ \A column \in {"active", "sequence", "intent", "pending", "delivered", "cancelRequested",
                          "forceResend", "escaped", "suspended", "completedOn"} : q[column] = row[column]
    BY <2>1, RequeuedIs
  <2> HIDE DEF q
  <2>3. row' \in Row /\ row'.intent = "CANCEL" /\ row'.queueSeq = q.queueSeq /\ row.queueSeq \in Nat
    BY <2>1, <2>2 DEF Row, Method
  <2>4. SentAsBefore
    BY <2>1, <2>2 DEF Row, SentAsBefore
  <2> QED BY <2>1, <2>2, <2>3, <2>4, AnotherGeneration
<1> QED BY <1>1, <1>2

\* OUTLOOK_REVALIDATE_SQL.
LEMMA RevalidateIs ==
  ASSUME row \in Row, Revalidate
  PROVE  RequestDone
<1> DEFINE q == Requeued(row)
<1>1. /\ row.active /\ row.intent = "NONE" /\ row.queueSeq < MaxQueueSeq /\ UNCHANGED task
      /\ row' = [q EXCEPT !.intent = "REQUEST"]
  BY DEF Revalidate
<1>2. /\ q \in Row /\ q.queueSeq = row.queueSeq + 1
      /\ \A column \in {"active", "sequence", "intent", "pending", "delivered", "cancelRequested",
                        "forceResend", "escaped", "suspended", "completedOn"} : q[column] = row[column]
  BY <1>1, RequeuedIs
<1> HIDE DEF q
<1>3. row' \in Row /\ row'.intent = "REQUEST" /\ row'.queueSeq = q.queueSeq /\ row.queueSeq \in Nat
  BY <1>1, <1>2 DEF Row, Method
<1>4. SentAsBefore /\ row'.cancelRequested = row.cancelRequested
  BY <1>1, <1>2 DEF Row, SentAsBefore
<1>5. CancelStands => ~row.cancelRequested
  BY <1>1 DEF CancelStands
<1> QED BY <1>1, <1>2, <1>3, <1>4, <1>5 DEF RequestDone, KeepsGeneration, CancelStands

\* OUTLOOK_RETRY_FAILED_SQL.
LEMMA RetryFailedIs ==
  ASSUME row \in Row, RetryFailed
  PROVE  RequestDone
<1>1. row' = [row EXCEPT !.attempts = 0, !.failure = FALSE] /\ row.intent # "NONE" /\ UNCHANGED task
  BY DEF RetryFailed
<1>2. row' \in Row
  <2>1. 0 \in 0 .. MaxAttempts
    BY NumberAssumption
  <2> QED BY <1>1, <2>1 DEF Row
<1>3. SentAsBefore /\ UNCHANGED <<row.queueSeq, row.intent, row.cancelRequested>> /\ row.queueSeq \in Nat
  BY <1>1 DEF Row, SentAsBefore
<1> QED BY <1>1, <1>2, <1>3 DEF RequestDone, KeepsGeneration, CancelStands, SentAsBefore

\* OUTLOOK_SUBSCRIPTION_UPSERT_SQL: it withdraws a removal, or the subscription begins anew.
LEMMA AddIs ==
  ASSUME row \in Row, Add
  PROVE  RequestDone
<1> DEFINE upToDate == row.active /\ ~row.suspended /\ row.intent = "NONE"
                       /\ Same(row.delivered, "REQUEST", adding)
           sameIntent == row.active /\ row.intent = "REQUEST"
                         /\ (row.pending = NoRev \/ Same(row.pending, "REQUEST", adding))
           bump == IF upToDate \/ sameIntent THEN 0 ELSE 1
           q == Reopened(row)
<1>1. /\ row.queueSeq + bump <= MaxQueueSeq /\ UNCHANGED task
      /\ row' = [q EXCEPT !.cancelRequested = FALSE, !.attempts = 0, !.failure = FALSE,
                          !.intent = IF upToDate THEN "NONE" ELSE "REQUEST", !.queueSeq = q.queueSeq + bump]
  BY DEF Add
<1>2. /\ q \in Row /\ q.queueSeq = row.queueSeq /\ q.active /\ q.sequence = row.sequence
      /\ row.active => q = row
      /\ ~row.active => q.pending = NoRev /\ q.delivered = NoRev /\ ~q.escaped
  <2>1. CASE row.active
    <3>1. q = row
      BY <2>1 DEF Reopened
    <3> HIDE DEF q
    <3> QED BY <2>1, <3>1
  <2>2. CASE ~row.active
    <3>1. q = [row EXCEPT !.active = TRUE, !.suspended = FALSE, !.completedOn = FALSE,
                          !.escaped = FALSE, !.delivered = NoRev, !.pending = NoRev]
      BY <2>2 DEF Reopened
    <3> HIDE DEF q
    <3>2. q \in Row
      BY <3>1 DEF Row
    <3> QED BY <2>2, <3>1, <3>2 DEF Row
  <2> QED BY <2>1, <2>2
<1>3. upToDate \in BOOLEAN /\ bump \in {0, 1}
  OBVIOUS
<1>4. upToDate => row.active /\ row.intent = "NONE"
  OBVIOUS
<1>5. bump = 0 => row.active /\ (row.intent = "NONE" \/ row.intent = "REQUEST")
  OBVIOUS
<1> HIDE DEF upToDate, sameIntent, bump, q
<1>6. row.queueSeq \in Nat /\ MaxQueueSeq \in Nat /\ 0 \in 0 .. MaxAttempts
  BY NumberAssumption DEF Row
<1>7. row' \in Row
  <2>1. q.queueSeq + bump \in 0 .. MaxQueueSeq
    BY <1>1, <1>2, <1>3, <1>6
  <2>2. PICK number \in 0 .. MaxQueueSeq, intent \in Method \cup {"NONE"} :
          row' = [q EXCEPT !.cancelRequested = FALSE, !.attempts = 0, !.failure = FALSE,
                           !.intent = intent, !.queueSeq = number]
    BY <1>1, <1>3, <2>1 DEF Method
  <2> QED BY <1>2, <1>6, <2>2 DEF Row
<1>8. /\ row'.queueSeq = row.queueSeq + bump /\ ~row'.cancelRequested
      /\ row'.intent = IF upToDate THEN "NONE" ELSE "REQUEST"
  BY <1>1, <1>2 DEF Row
<1>9. SentAsBefore \/ BeginsAnew
  <2>1. CASE row.active
    BY <1>1, <1>2, <2>1 DEF Row, SentAsBefore
  <2>2. CASE ~row.active
    BY <1>1, <1>2, <2>2 DEF Row, BeginsAnew
  <2> QED BY <2>1, <2>2
<1>10. CancelStands'
  BY <1>8 DEF CancelStands
<1>11. ASSUME CancelStands PROVE KeepsGeneration
  <2>1. row'.queueSeq >= row.queueSeq
    BY <1>3, <1>6, <1>8
  <2>2. ASSUME row.active, row'.queueSeq = row.queueSeq
        PROVE  /\ row.intent # "NONE" => row'.intent # "NONE"
               /\ row'.cancelRequested = row.cancelRequested
    <3>1. bump = 0
      BY <1>3, <1>6, <1>8, <2>2
    <3>2. row.intent # "CANCEL"
      BY <1>5, <3>1
    <3>3. row.cancelRequested = FALSE /\ row'.cancelRequested = FALSE
      BY <1>7, <1>8, <1>11, <2>2, <3>2 DEF CancelStands, Row
    <3> QED BY <1>4, <1>8, <3>3
  <2>3. row'.intent = "NONE" => row.active /\ row.intent = "NONE"
    BY <1>4, <1>8
  <2> QED BY <1>1, <2>1, <2>2, <2>3 DEF KeepsGeneration
<1> QED BY <1>7, <1>9, <1>10, <1>11 DEF RequestDone

\* What a request of the user, a commit or the pass does.
LEMMA RequestIs ==
  ASSUME TypeOK, Requesting
  PROVE  TypeOK' /\ RequestDone /\ UNCHANGED <<lease, worker, mailbox>>
<1>1. row \in Row /\ task \in [status : {"open", "done"}, content : Content] \cup {Gone}
  BY TypeIs
<1>2. RequestDone
  <2>1. CASE ReadForAdd
    <3>1. row' = row /\ task' = task /\ row.queueSeq \in Nat
      BY <1>1, <2>1 DEF ReadForAdd, Row
    <3> QED BY <1>1, <3>1 DEF RequestDone, SentAsBefore, KeepsGeneration, CancelStands
  <2>2. CASE \E content \in Content : EditTask(content)
    BY <1>1, <2>2, EnqueueIs DEF EditTask
  <2>3. CASE CompleteTask \/ ReopenTask \/ ProjectChanges
    BY <1>1, <2>3, EnqueueIs DEF CompleteTask, ReopenTask, ProjectChanges
  <2> QED BY <1>1, <2>1, <2>2, <2>3, AddIs, RemoveIs, ResendIs, DeleteTaskIs, RevalidateIs,
             RetryFailedIs DEF Requesting
<1>3. UNCHANGED <<lease, worker, mailbox>>
  BY DEF Requesting, ReadForAdd, Add, Remove, Resend, EditTask, CompleteTask, ReopenTask,
         ProjectChanges, DeleteTask, Revalidate, RetryFailed
<1>4. task' \in [status : {"open", "done"}, content : Content] \cup {Gone}
  <2>1. CASE \E content \in Content : EditTask(content)
    BY <1>1, <2>1 DEF EditTask
  <2>2. CASE CompleteTask \/ ReopenTask \/ DeleteTask
    BY <1>1, <2>2 DEF CompleteTask, ReopenTask, DeleteTask
  <2>3. CASE ReadForAdd \/ Add \/ Remove \/ Resend \/ ProjectChanges \/ Revalidate \/ RetryFailed
    BY <1>1, <2>3 DEF ReadForAdd, Add, Remove, Resend, ProjectChanges, Revalidate, RetryFailed
  <2> QED BY <2>1, <2>2, <2>3 DEF Requesting
<1>5. adding' \in Content \cup {NoRev}
  <2>1. CASE ReadForAdd
    BY <1>1, <2>1 DEF ReadForAdd
  <2>2. CASE Add
    BY <2>2 DEF Add
  <2>3. CASE ~ReadForAdd /\ ~Add
    <3>1. UNCHANGED adding
      BY <2>3 DEF Requesting, Remove, Resend, EditTask, CompleteTask, ReopenTask,
                  ProjectChanges, DeleteTask, Revalidate, RetryFailed
    <3> QED BY <3>1, TypeIs
  <2> QED BY <2>1, <2>2, <2>3
<1>6. row' \in Row
  BY <1>2 DEF RequestDone
<1>7. TypeOK'
  BY <1>3, <1>4, <1>5, <1>6, TypeIs DEF TypeOK, Agent
<1> QED BY <1>2, <1>3, <1>7

(***************************************************************************)
(* What is known and what may be delivered                                 *)
(***************************************************************************)
\* Who knows a revision.
LEMMA KnownIs ==
  /\ \A r : r \in Known <=> \/ r \in mailbox
                            \/ r # NoRev /\ (r = row.pending \/ r = row.delivered)
                            \/ r # NoRev /\ \E w \in Worker : r = worker[w].claim.pending
                            \/ \E w \in Worker : Invited(w) /\ r = Invitation(w)
  /\ (\A r : r \in Known <=> \/ r \in mailbox
                             \/ r # NoRev /\ (r = row.pending \/ r = row.delivered)
                             \/ r # NoRev /\ \E w \in Worker : r = worker[w].claim.pending
                             \/ \E w \in Worker : Invited(w) /\ r = Invitation(w))'
<1>1. \A r : r \in Known <=> \/ r \in mailbox
                             \/ r # NoRev /\ (r = row.pending \/ r = row.delivered)
                             \/ r # NoRev /\ \E w \in Worker : r = worker[w].claim.pending
                             \/ \E w \in Worker : Invited(w) /\ r = Invitation(w)
  BY DEF Known
<1> QED BY <1>1, PTL

\* What may be delivered, and what stands.
LEMMA DeliverableIs ==
  ASSUME NEW but
  PROVE  /\ \A r : r \in Deliverable(but) <=>
                     \/ r \in mailbox
                     \/ \E v \in Worker : v \notin but /\ worker[v].pc = "sending" /\ r = Invitation(v)
         /\ (\A r : r \in Deliverable(but) <=>
                     \/ r \in mailbox
                     \/ \E v \in Worker : v \notin but /\ worker[v].pc = "sending" /\ r = Invitation(v))'
<1>1. \A r : r \in Deliverable(but) <=>
                \/ r \in mailbox
                \/ \E v \in Worker : v \notin but /\ worker[v].pc = "sending" /\ r = Invitation(v)
  BY DEF Deliverable
<1> QED BY <1>1, PTL

\* Every invitation that may be delivered is known.
LEMMA DeliverableKnown ==
  ASSUME NEW but
  PROVE  Deliverable(but) \subseteq Known
BY KnownIs, DeliverableIs DEF Invited

\* What is known are revisions.
LEMMA KnownTyped ==
  ASSUME TypeOK, \A w \in Worker : PlanReady(w)
  PROVE  /\ Known \subseteq Revision
         /\ \A w \in Worker : worker[w].pc \in {"sending", "accepted", "refused"} => Invitation(w) \in Revision
<1>1. /\ row \in Row /\ worker \in [Worker -> Agent] /\ mailbox \subseteq Revision
  BY TypeIs
<1>2. ASSUME NEW w \in Worker, worker[w].pc \in {"sending", "accepted", "refused"}
      PROVE  Invitation(w) \in Revision
  BY <1>2 DEF PlanReady, Invitation, Revision
<1>3. \A w \in Worker : worker[w].claim.pending \in Revision \cup {NoRev}
  BY <1>1 DEF Agent, Claimed
<1>4. row.pending \in Revision \cup {NoRev} /\ row.delivered \in Revision \cup {NoRev}
  BY <1>1 DEF Row
<1> QED BY <1>1, <1>2, <1>3, <1>4, KnownIs DEF Invited

\* Fewer revisions that may be delivered, and more that are: what stood aside stands aside.
LEMMA StandsLess ==
  ASSUME NEW but, mailbox \subseteq mailbox', Deliverable(but)' \subseteq Deliverable(but)
  PROVE  /\ NothingStands(but) => NothingStands(but)'
         /\ \A rev : (\A r \in Deliverable(but) : Stands(r) => r.seq <= rev.seq)
                       => (\A r \in Deliverable(but)' : Stands(r)' => r.seq <= rev.seq)
<1>1. \A r : Stands(r)' => Stands(r)
  BY DEF Stands
<1>2. NothingStands(but) => NothingStands(but)'
  BY <1>1 DEF NothingStands
<1> QED BY <1>1, <1>2

\* Whoever is not sending adds nothing to what may be delivered.
LEMMA NotSending ==
  ASSUME NEW w \in Worker, worker[w].pc # "sending"
  PROVE  Deliverable({w}) = Deliverable({})
<1>1. \A r : r \in Deliverable({w}) <=> r \in Deliverable({})
  BY DeliverableIs
<1> QED BY <1>1 DEF Deliverable

\* Leaving a worker out leaves fewer invitations.
LEMMA ButFewer ==
  ASSUME NEW w \in Worker
  PROVE  Deliverable({w}) \subseteq Deliverable({})
BY DeliverableIs

\* The same numbers, or one more for one more revision.
LEMMA NumbersStay ==
  ASSUME OneNumberEach, row.sequence \in Nat, row'.sequence = row.sequence, Known' \subseteq Known
  PROVE  OneNumberEach'
BY DEF OneNumberEach

\* One more revision, of a new number above all others.
LEMMA OneMoreNumber ==
  ASSUME OneNumberEach, Known \subseteq Revision, row.sequence \in Nat, NEW rev,
         rev.seq = row.sequence + 1, row'.sequence = row.sequence + 1, Known' \subseteq Known \cup {rev}
  PROVE  OneNumberEach'
<1>1. \A r \in Known : r.seq \in Nat /\ r.seq <= row.sequence
  BY NumberAssumption DEF OneNumberEach, Revision
<1> QED BY <1>1 DEF OneNumberEach

(***************************************************************************)
(* Steps                                                                   *)
(***************************************************************************)
\* The invariant after a request.
LEMMA RequestStep ==
  ASSUME DeliveryInv, Requesting
  PROVE  DeliveryInv'
<1>1. TypeOK' /\ RequestDone /\ UNCHANGED <<lease, worker, mailbox>>
  BY RequestIs DEF DeliveryInv
<1>2. row \in Row /\ row.sequence \in Nat /\ row' \in Row
  BY <1>1, TypeIs DEF DeliveryInv, Row, RequestDone
<1>3. \A r : Stands(r)' <=> Stands(r)
  BY <1>1 DEF Stands
<1>4. \A w : Invitation(w)' = Invitation(w)
  BY <1>1 DEF Invitation
<1>5. ASSUME NEW but PROVE Deliverable(but)' = Deliverable(but)
  BY <1>1, <1>4 DEF Deliverable
<1>6. \A but : NothingStands(but)' <=> NothingStands(but)
  BY <1>3, <1>5 DEF NothingStands
<1>7. row'.sequence = row.sequence
  BY <1>1 DEF RequestDone, SentAsBefore, BeginsAnew
<1>8. /\ row'.pending = row.pending \/ row'.pending = NoRev
      /\ row'.delivered = row.delivered \/ row'.delivered = NoRev
  BY <1>1 DEF RequestDone, SentAsBefore, BeginsAnew
<1>9. OneNumberEach'
  <2>1. Known' \subseteq Known
    BY <1>1, <1>4, <1>8, KnownIs DEF Invited
  <2> QED BY <1>2, <1>7, <2>1, NumbersStay DEF DeliveryInv
<1>10. CASE SentAsBefore
  <2>1. RowKnows'
    <3>1. (Retried(row.pending, row.delivered) => Tops(row.pending, {}))'
      BY <1>3, <1>5, <1>10 DEF SentAsBefore, DeliveryInv, RowKnows, Retried, Newer, Tops
    <3>2. (row.delivered = NoRev /\ ~row.escaped => NothingStands({}))'
      BY <1>6, <1>10 DEF SentAsBefore, DeliveryInv, RowKnows
    <3>3. (~row.active => row.intent = "NONE" /\ lease.owner = NoWorker /\ NothingStands({}))'
      BY <1>1, <1>6, <1>10 DEF SentAsBefore, DeliveryInv, RowKnows
    <3> QED BY <3>1, <3>2, <3>3 DEF RowKnows
  <2>2. ASSUME NEW w \in Worker, Owns(w), CopyKnows(w) PROVE CopyKnows(w)'
    <3>1. row'.pending = row.pending /\ row'.delivered = row.delivered
      BY <1>10 DEF SentAsBefore
    <3> QED BY <1>1, <1>3, <1>4, <1>5, <1>6, <2>2, <3>1 DEF CopyKnows, Invited, Tops
  <2>3. WorkersKnow'
    BY <1>1, <2>2 DEF DeliveryInv, WorkersKnow, Owns, PlanReady
  <2> QED BY <1>1, <1>9, <2>1, <2>3 DEF DeliveryInv
<1>11. CASE BeginsAnew
  <2>1. NothingStands({}) /\ lease.owner = NoWorker
    BY <1>11 DEF BeginsAnew, DeliveryInv, RowKnows
  <2>2. RowKnows'
    BY <1>6, <1>11, <2>1 DEF BeginsAnew, RowKnows, Retried
  <2>3. WorkersKnow'
    BY <1>1, <2>1, WorkerAssumption DEF DeliveryInv, WorkersKnow, Owns, PlanReady
  <2> QED BY <1>1, <1>9, <2>2, <2>3 DEF DeliveryInv
<1> QED BY <1>1, <1>10, <1>11 DEF RequestDone

\* A worker forgets what it has; the lease ends with it or stays without it.
LEMMA ForgetStep ==
  ASSUME DeliveryInv, NEW w \in Worker, worker' = [worker EXCEPT ![w] = Asleep],
         UNCHANGED <<row, mailbox>>, TypeOK',
         (lease'.owner = lease.owner /\ ~Owns(w)) \/ lease'.owner = NoWorker
  PROVE  DeliveryInv'
<1>1. /\ worker \in [Worker -> Agent] /\ worker' \in [Worker -> Agent] /\ row \in Row
      /\ row.sequence \in Nat
  BY TypeIs, NoRowIs DEF DeliveryInv, Row
<1>2. /\ worker'[w] = Asleep /\ Asleep.pc = "idle" /\ Asleep.claim.pending = NoRev
      /\ \A v \in Worker : v # w => worker'[v] = worker[v]
  BY <1>1 DEF Asleep, Copy, Copied, NoRow
<1>3. \A v \in Worker : v # w => Invitation(v)' = Invitation(v)
  BY <1>2 DEF Invitation
<1>4. OneNumberEach'
  <2>1. Known' \subseteq Known
    BY <1>2, <1>3, KnownIs DEF Invited
  <2> QED BY <1>1, <2>1, NumbersStay DEF DeliveryInv
<1>5. ASSUME NEW but
      PROVE  /\ Deliverable(but)' \subseteq Deliverable(but)
             /\ NothingStands(but) => NothingStands(but)'
             /\ \A rev : (\A r \in Deliverable(but) : Stands(r) => r.seq <= rev.seq)
                           => (\A r \in Deliverable(but)' : Stands(r)' => r.seq <= rev.seq)
  <2>1. Deliverable(but)' \subseteq Deliverable(but)
    BY <1>2, <1>3, DeliverableIs
  <2> QED BY <2>1, StandsLess
<1>6. RowKnows'
  <2>1. (Retried(row.pending, row.delivered) => Tops(row.pending, {}))'
    BY <1>5 DEF DeliveryInv, RowKnows, Retried, Newer, Tops
  <2>2. (row.delivered = NoRev /\ ~row.escaped => NothingStands({}))'
    BY <1>5 DEF DeliveryInv, RowKnows
  <2>3. (~row.active => row.intent = "NONE" /\ lease.owner = NoWorker /\ NothingStands({}))'
    BY <1>5 DEF DeliveryInv, RowKnows
  <2> QED BY <2>1, <2>2, <2>3 DEF RowKnows
<1>7. ASSUME NEW v \in Worker, Owns(v)' PROVE worker'[v].pc # "idle" /\ CopyKnows(v)'
  <2>1. v # w /\ Owns(v)
    BY <1>7, WorkerAssumption DEF Owns
  <2>2. worker'[v] = worker[v] /\ Invitation(v)' = Invitation(v) /\ worker[v].pc # "idle" /\ CopyKnows(v)
    BY <1>2, <1>3, <2>1 DEF DeliveryInv, WorkersKnow
  <2> QED BY <1>5, <2>2 DEF CopyKnows, Invited, Tops
<1>8. WorkersKnow'
  <2>1. ASSUME NEW v \in Worker PROVE (worker[v].pc = "idle" => worker[v] = Asleep)' /\ PlanReady(v)'
    BY <1>2 DEF DeliveryInv, WorkersKnow, PlanReady
  <2> QED BY <1>7, <2>1 DEF WorkersKnow
<1> QED BY <1>4, <1>6, <1>8 DEF DeliveryInv

\* The worker that has the lease writes the row and gives the lease back.
LEMMA GiveBackStep ==
  ASSUME DeliveryInv, NEW w \in Worker, Owns(w), worker' = [worker EXCEPT ![w] = Asleep],
         UNCHANGED mailbox, TypeOK', lease' = Free, row'.sequence = row.sequence,
         row'.pending \in Known \cup {NoRev}, row'.delivered \in Known \cup {NoRev}, RowKnows'
  PROVE  DeliveryInv'
<1>1. /\ worker \in [Worker -> Agent] /\ worker' \in [Worker -> Agent] /\ row \in Row
      /\ row.sequence \in Nat
  BY TypeIs, NoRowIs DEF DeliveryInv, Row
<1>2. /\ worker'[w] = Asleep /\ Asleep.pc = "idle" /\ Asleep.claim.pending = NoRev
      /\ \A v \in Worker : v # w => worker'[v] = worker[v]
  BY <1>1 DEF Asleep, Copy, Copied, NoRow
<1>3. \A v \in Worker : v # w => Invitation(v)' = Invitation(v)
  BY <1>2 DEF Invitation
<1>4. OneNumberEach'
  <2>1. Known' \subseteq Known
    BY <1>2, <1>3, KnownIs DEF Invited
  <2> QED BY <1>1, <2>1, NumbersStay DEF DeliveryInv
<1>5. \A v \in Worker : ~Owns(v)'
  BY WorkerAssumption DEF Owns, Free
<1>6. WorkersKnow'
  BY <1>2, <1>5 DEF DeliveryInv, WorkersKnow, PlanReady
<1> QED BY <1>4, <1>6 DEF DeliveryInv

\* What is delivered after a step in which nothing new is sent.
LEMMA RowStillKnows ==
  ASSUME DeliveryInv, NEW w \in Worker, worker' = [worker EXCEPT ![w] = Asleep], UNCHANGED mailbox
  PROVE  /\ \A r : Stands(r)' <=> Stands(r)
         /\ Deliverable({})' \subseteq Deliverable({w})
         /\ Deliverable({})' \subseteq Deliverable({})
<1>1. /\ worker'[w].pc = "idle"
      /\ \A v \in Worker : v # w => worker'[v] = worker[v] /\ Invitation(v)' = Invitation(v)
  BY TypeIs DEF DeliveryInv, Asleep, Invitation
<1>2. \A r : Stands(r)' <=> Stands(r)
  BY DEF Stands
<1>3. Deliverable({})' \subseteq Deliverable({w})
  BY <1>1, DeliverableIs
<1> QED BY <1>2, <1>3, ButFewer

\* Who has the lease has an active row.
LEMMA OwnerIsActive ==
  ASSUME RowKnows, NEW w \in Worker, Owns(w)
  PROVE  row.active
BY WorkerAssumption DEF RowKnows, Owns

\* The type of a row whose intent is carried out.
LEMMA DoneIs ==
  ASSUME NEW r \in Row, NEW completed \in BOOLEAN
  PROVE  /\ Done(r, completed) \in Row /\ Done(r, completed).intent = "NONE"
         /\ Done(r, completed).pending = NoRev
         /\ \A column \in {"active", "sequence", "queueSeq", "delivered", "escaped", "cancelRequested"} :
              Done(r, completed)[column] = r[column]
<1>1. PICK b \in BOOLEAN :
        Done(r, completed) = [r EXCEPT !.intent = "NONE", !.pending = NoRev, !.forceResend = FALSE,
                                       !.attempts = 0, !.suspended = completed, !.completedOn = b]
  <2>1. (completed /\ r.completedOn) \in BOOLEAN
    OBVIOUS
  <2> QED BY <2>1 DEF Done
<1>2. 0 \in 0 .. MaxAttempts
  BY NumberAssumption
<1>3. Done(r, completed) \in Row
  BY <1>1, <1>2 DEF Row
<1>4. Done(r, completed).intent = "NONE" /\ Done(r, completed).pending = NoRev
  BY <1>1 DEF Row
<1>5. \A column \in {"active", "sequence", "queueSeq", "delivered", "escaped", "cancelRequested"} :
        Done(r, completed)[column] = r[column]
  BY <1>1 DEF Row
<1> QED BY <1>3, <1>4, <1>5

\* A statement that ends a delivery.
LEMMA FinishIs ==
  ASSUME DeliveryInv, NEW w \in Worker, NEW written \in Row, Finish(w, written)
  PROVE  /\ TypeOK'
         /\ worker' = [worker EXCEPT ![w] = Asleep] /\ UNCHANGED <<task, adding, mailbox>>
         /\ Owns(w) => row' = written /\ lease' = Free
         /\ ~Owns(w) => row' = row /\ lease' = lease
<1>1. /\ worker' = [worker EXCEPT ![w] = Asleep] /\ UNCHANGED <<task, adding, mailbox>>
      /\ Owns(w) => row' = written /\ lease' = Free
      /\ ~Owns(w) => row' = row /\ lease' = lease
  BY DEF Finish
<1>2. row' \in Row
  BY <1>1, TypeIs DEF DeliveryInv
<1>3. lease' \in [owner : Worker \cup {NoWorker}, live : BOOLEAN]
  <2>1. Free \in [owner : Worker \cup {NoWorker}, live : BOOLEAN]
    BY DEF Free
  <2> QED BY <1>1, <2>1, TypeIs DEF DeliveryInv
<1>4. worker' \in [Worker -> Agent]
  BY <1>1, NoRowIs, TypeIs DEF DeliveryInv
<1>5. TypeOK'
  BY <1>1, <1>2, <1>3, <1>4 DEF DeliveryInv, TypeOK, Agent
<1> QED BY <1>1, <1>5

\* OUTLOOK_SETTLE_SQL.
LEMMA SettleStep ==
  ASSUME DeliveryInv, NEW w \in Worker, Settle(w)
  PROVE  DeliveryInv'
<1> DEFINE settled == [row EXCEPT !.failure = FALSE]
           written == IF Current(w) THEN Done(settled, worker[w].plan.completed) ELSE settled
<1>1. Finish(w, written)
  BY DEF Settle
<1>2. /\ worker \in [Worker -> Agent] /\ row \in Row /\ worker[w].plan.completed \in BOOLEAN
      /\ lease \in [owner : Worker \cup {NoWorker}, live : BOOLEAN]
  BY TypeIs DEF DeliveryInv, Agent, Plan
<1>3. /\ settled \in Row
      /\ \A column \in {"active", "sequence", "queueSeq", "delivered", "escaped", "pending", "intent"} :
           settled[column] = row[column]
  BY <1>2 DEF Row
<1>4. /\ written \in Row /\ written.pending \in {row.pending, NoRev}
      /\ \A column \in {"active", "sequence", "delivered", "escaped"} : written[column] = row[column]
  <2>1. CASE Current(w)
    <3>1. written = Done(settled, worker[w].plan.completed)
      BY <2>1
    <3> HIDE DEF settled, written
    <3> QED BY <1>2, <1>3, <3>1, DoneIs
  <2>2. CASE ~Current(w)
    BY <1>3, <2>2
  <2> QED BY <2>1, <2>2
<1> HIDE DEF settled, written
<1>5. /\ worker' = [worker EXCEPT ![w] = Asleep] /\ UNCHANGED <<task, adding, mailbox>>
      /\ Owns(w) => row' = written /\ lease' = Free
      /\ ~Owns(w) => row' = row /\ lease' = lease
  BY <1>1, <1>4, FinishIs
<1>6. TypeOK'
  BY <1>1, <1>4, FinishIs
<1>7. CASE ~Owns(w)
  BY <1>5, <1>6, <1>7, ForgetStep
<1>8. CASE Owns(w)
  <2>1. row.active /\ row' = written /\ RowKnows
    BY <1>5, <1>8, OwnerIsActive DEF DeliveryInv
  <2>2. RowKnows'
    BY <1>4, <1>5, <2>1, RowStillKnows DEF RowKnows, NothingStands, Tops, Retried, Newer
  <2>3. row'.pending \in Known \cup {NoRev} /\ row'.delivered \in Known \cup {NoRev}
    BY <1>4, <2>1, KnownIs
  <2> QED BY <1>4, <1>5, <1>6, <1>8, <2>1, <2>2, <2>3, GiveBackStep
<1> QED BY <1>7, <1>8

\* A worker comes to another decision: it says nothing new and writes nothing.
LEMMA MoveStep ==
  ASSUME DeliveryInv, NEW w \in Worker, NEW a \in Agent, worker' = [worker EXCEPT ![w] = a],
         UNCHANGED <<task, row, lease, adding, mailbox>>,
         worker[w].pc \in {"claimed", "closing", "allocating"}, a.claim = worker[w].claim,
         a.pc \in {"settling", "closing", "allocating", "failing"}, PlanReady(w)',
         a.pc = "closing" => NeverEscaped(a.claim)
  PROVE  DeliveryInv'
<1>1. worker \in [Worker -> Agent] /\ worker' \in [Worker -> Agent] /\ row \in Row /\ row.sequence \in Nat
  BY TypeIs DEF DeliveryInv, Row
<1>2. /\ worker'[w] = a /\ \A v \in Worker : v # w => worker'[v] = worker[v]
      /\ \A v \in Worker : v # w => Invitation(v)' = Invitation(v)
  BY <1>1 DEF Invitation
<1>3. TypeOK'
  BY <1>1 DEF DeliveryInv, TypeOK, Agent
<1>4. OneNumberEach'
  <2>1. Known' \subseteq Known
    BY <1>2, KnownIs DEF Invited
  <2> QED BY <1>1, <2>1, NumbersStay DEF DeliveryInv
<1>5. \A r : Stands(r)' <=> Stands(r)
  BY DEF Stands
<1>6. ASSUME NEW but PROVE Deliverable(but)' = Deliverable(but)
  <2>1. \A r : r \in Deliverable(but)' <=> r \in Deliverable(but)
    BY <1>2, DeliverableIs
  <2> QED BY <2>1 DEF Deliverable
<1>7. \A but : NothingStands(but)' <=> NothingStands(but)
  BY <1>5, <1>6 DEF NothingStands
<1>8. RowKnows'
  BY <1>5, <1>6, <1>7 DEF DeliveryInv, RowKnows, Retried, Newer, Tops
<1>9. ASSUME NEW v \in Worker, Owns(v)' PROVE worker'[v].pc # "idle" /\ CopyKnows(v)'
  <2>1. Owns(v) /\ worker[v].pc # "idle" /\ CopyKnows(v)
    BY <1>9 DEF Owns, DeliveryInv, WorkersKnow
  <2>2. CASE v = w
    <3>1. /\ worker'[v].claim = worker[v].claim /\ worker'[v].pc # "idle" /\ ~Invited(v)'
          /\ worker'[v].pc # "accepted" /\ worker[v].pc \notin {"accepted", "failing"}
          /\ worker'[v].pc = "closing" => NeverEscaped(worker[v].claim)
      BY <1>2, <2>2 DEF Invited
    <3>2. CopyKnows(v)'
      BY <1>5, <1>6, <1>7, <2>1, <3>1 DEF CopyKnows, Retried, Newer, Tops, NeverEscaped
    <3> QED BY <3>1, <3>2
  <2>3. CASE v # w
    <3>1. worker'[v] = worker[v] /\ Invitation(v)' = Invitation(v)
      BY <1>2, <2>3
    <3> QED BY <1>5, <1>6, <1>7, <2>1, <3>1 DEF CopyKnows, Invited, Tops
  <2> QED BY <2>2, <2>3
<1>10. WorkersKnow'
  <2>1. ASSUME NEW v \in Worker PROVE (worker[v].pc = "idle" => worker[v] = Asleep)' /\ PlanReady(v)'
    BY <1>2 DEF DeliveryInv, WorkersKnow, PlanReady
  <2> QED BY <1>9, <2>1 DEF WorkersKnow
<1> QED BY <1>3, <1>4, <1>8, <1>10 DEF DeliveryInv

\* OUTLOOK_DEACTIVATE_SQL.
LEMMA CloseStep ==
  ASSUME DeliveryInv, NEW w \in Worker, Close(w)
  PROVE  DeliveryInv'
<1>1. /\ worker \in [Worker -> Agent] /\ row \in Row /\ worker[w].pc = "closing"
  BY TypeIs DEF DeliveryInv, Close
<1>2. CASE Owns(w) /\ Current(w)
  <2> DEFINE written == [Done(row, FALSE) EXCEPT !.active = FALSE, !.failure = FALSE,
                                                 !.forceResend = row.forceResend]
  <2>1. Finish(w, written)
    BY <1>2 DEF Close
  <2>2. /\ written \in Row /\ written.pending = NoRev /\ ~written.active /\ written.intent = "NONE"
        /\ written.sequence = row.sequence /\ written.delivered = row.delivered
        /\ written.escaped = row.escaped
    <3> DEFINE done == Done(row, FALSE)
    <3>1. /\ done \in Row /\ done.intent = "NONE" /\ done.pending = NoRev /\ done.sequence = row.sequence
          /\ done.delivered = row.delivered /\ done.escaped = row.escaped /\ row.forceResend \in BOOLEAN
      BY <1>1, DoneIs DEF Row
    <3>2. written = [done EXCEPT !.active = FALSE, !.failure = FALSE, !.forceResend = row.forceResend]
      OBVIOUS
    <3> HIDE DEF done, written
    <3> QED BY <3>1, <3>2 DEF Row
  <2> HIDE DEF written
  <2>3. /\ TypeOK' /\ worker' = [worker EXCEPT ![w] = Asleep] /\ UNCHANGED <<task, adding, mailbox>>
        /\ row' = written /\ lease' = Free
    BY <1>2, <2>1, <2>2, FinishIs
  <2>4. NothingStands({w})
    BY <1>1, <1>2 DEF DeliveryInv, WorkersKnow, CopyKnows
  <2>5. NothingStands({})'
    BY <2>3, <2>4, RowStillKnows DEF NothingStands
  <2>6. RowKnows'
    BY <2>2, <2>3, <2>5 DEF RowKnows, Retried, Free
  <2>7. row'.pending \in Known \cup {NoRev} /\ row'.delivered \in Known \cup {NoRev}
    BY <2>2, <2>3, KnownIs
  <2> QED BY <1>2, <2>2, <2>3, <2>6, <2>7, GiveBackStep
<1>3. CASE ~(Owns(w) /\ Current(w))
  <2> DEFINE a == [worker[w] EXCEPT !.pc = "settling"]
  <2>1. worker' = [worker EXCEPT ![w] = a] /\ UNCHANGED <<task, row, lease, adding, mailbox>>
    BY <1>3 DEF Close, Goes
  <2>2. a \in Agent /\ a.pc = "settling" /\ a.claim = worker[w].claim
    BY <1>1 DEF Agent, PC
  <2> HIDE DEF a
  <2>3. PlanReady(w)'
    BY <1>1, <2>1, <2>2 DEF PlanReady
  <2> QED BY <1>1, <2>1, <2>2, <2>3, MoveStep
<1> QED BY <1>2, <1>3

\* OUTLOOK_COMPLETE_SQL: a cancellation that closes the row is above all that stands.
LEMMA CompleteStep ==
  ASSUME DeliveryInv, NEW w \in Worker, Complete(w)
  PROVE  DeliveryInv'
<1> DEFINE plan == worker[w].plan
           rev == Invitation(w)
           sent == [row EXCEPT !.delivered = rev, !.attempts = 0, !.failure = FALSE]
           closes == plan.method = "CANCEL" /\ ~plan.completed
           written == IF Current(w) THEN [Done(sent, plan.completed) EXCEPT !.active = @ /\ ~closes] ELSE sent
<1>1. worker[w].pc = "accepted" /\ Finish(w, written)
  BY DEF Complete
<1>2. /\ worker \in [Worker -> Agent] /\ row \in Row /\ plan.completed \in BOOLEAN /\ closes \in BOOLEAN
      /\ rev \in Revision /\ rev.method = plan.method /\ 0 \in 0 .. MaxAttempts
  BY <1>1, TypeIs, KnownTyped, NumberAssumption DEF DeliveryInv, WorkersKnow, Agent, Plan, Invitation
<1>3. /\ sent \in Row /\ sent.delivered = rev
      /\ \A column \in {"active", "sequence", "queueSeq", "escaped", "pending", "intent"} :
           sent[column] = row[column]
  BY <1>2 DEF Row
<1>4. /\ written \in Row /\ written.pending \in {row.pending, NoRev} /\ written.delivered = rev
      /\ written.sequence = row.sequence
      /\ written.active \/ ~row.active \/ (closes /\ written.intent = "NONE")
  <2>1. CASE Current(w)
    <3> DEFINE done == Done(sent, plan.completed)
    <3>1. /\ done \in Row /\ done.intent = "NONE" /\ done.pending = NoRev
          /\ done.delivered = rev /\ done.sequence = row.sequence /\ done.active = row.active
      <4> HIDE DEF sent, closes
      <4>1. /\ done \in Row /\ done.intent = "NONE" /\ done.pending = NoRev
            /\ done.delivered = sent.delivered /\ done.sequence = sent.sequence /\ done.active = sent.active
        BY <1>2, <1>3, DoneIs
      <4> QED BY <1>3, <4>1
    <3>2. PICK b \in BOOLEAN : written = [done EXCEPT !.active = b] /\ (b \/ ~row.active \/ closes)
      <4>1. written = [done EXCEPT !.active = done.active /\ ~closes]
        BY <2>1
      <4>2. (done.active /\ ~closes) \in BOOLEAN
        OBVIOUS
      <4> QED BY <3>1, <4>1, <4>2
    <3> HIDE DEF done, closes, written
    <3> QED BY <3>1, <3>2 DEF Row
  <2>2. CASE ~Current(w)
    BY <1>3, <2>2 DEF Row
  <2> QED BY <2>1, <2>2
<1> HIDE DEF sent, written
<1>5. /\ TypeOK' /\ worker' = [worker EXCEPT ![w] = Asleep] /\ UNCHANGED <<task, adding, mailbox>>
      /\ Owns(w) => row' = written /\ lease' = Free
      /\ ~Owns(w) => row' = row /\ lease' = lease
  BY <1>1, <1>4, FinishIs
<1>6. CASE ~Owns(w)
  BY <1>5, <1>6, ForgetStep
<1>7. CASE Owns(w)
  <2>1. row.active /\ row' = written /\ CopyKnows(w)
    BY <1>5, <1>7, OwnerIsActive DEF DeliveryInv, WorkersKnow
  <2>2. row.pending = rev /\ rev \in mailbox /\ (rev.method = "CANCEL" => Tops(rev, {}))
    BY <1>1, <1>2, <2>1 DEF CopyKnows, Invited
  <2>3. /\ \A r : Stands(r)' <=> Stands(r)
        /\ Deliverable({})' \subseteq Deliverable({})
    BY <1>5, RowStillKnows
  <2>4. ASSUME closes PROVE NothingStands({})'
    <3>1. Tops(rev, {}) /\ rev.method = "CANCEL"
      BY <1>2, <2>2, <2>4
    <3>2. ASSUME NEW r \in Deliverable({}), Stands(r) PROVE FALSE
      <4>1. r.seq <= rev.seq
        BY <3>1, <3>2 DEF Tops
      <4>2. rev.seq <= r.seq
        BY <2>2, <3>1, <3>2 DEF Stands
      <4>3. r \in Known /\ rev \in Known /\ r \in Revision
        BY <2>2, DeliverableKnown, KnownIs, KnownTyped DEF DeliveryInv, WorkersKnow
      <4>4. r.seq \in Nat /\ rev.seq \in Nat
        BY <1>2, <4>3, NumberAssumption DEF Revision
      <4>5. r = rev
        BY <4>1, <4>2, <4>3, <4>4 DEF DeliveryInv, OneNumberEach
      <4> QED BY <3>1, <3>2, <4>5 DEF Stands
    <3> QED BY <2>3, <3>2 DEF NothingStands
  <2>5. RowKnows'
    <3>1. row'.delivered = rev /\ rev # NoRev
      BY <1>2, <1>4, <2>1, NoRevAssumption
    <3>2. ~Retried(row'.pending, row'.delivered)
      BY <1>2, <1>4, <2>1, <2>2, <3>1, NumberAssumption DEF Retried, Newer, Revision
    <3>3. ~row'.active => row'.intent = "NONE" /\ lease'.owner = NoWorker /\ NothingStands({})'
      BY <1>4, <1>5, <1>7, <2>1, <2>4 DEF Free
    <3> QED BY <3>1, <3>2, <3>3 DEF RowKnows, Retried, Newer
  <2>6. row'.pending \in Known \cup {NoRev} /\ row'.delivered \in Known \cup {NoRev}
    BY <1>4, <2>1, <2>2, KnownIs
  <2> QED BY <1>4, <1>5, <1>7, <2>1, <2>5, <2>6, GiveBackStep
<1> QED BY <1>6, <1>7

\* failed() and OUTLOOK_FAIL_SQL.
LEMMA FailStep ==
  ASSUME DeliveryInv, NEW w \in Worker, Fail(w)
  PROVE  DeliveryInv'
<1> DEFINE c == worker[w].claim
           definite == worker[w].pc = "refused"
           before == IF c.escaped /\ c.pending # NoRev /\ Newer(c.pending, c.delivered) THEN c.pending ELSE NoRev
           clear == definite /\ NeverEscaped(c) /\ row.delivered = NoRev
           pending == IF definite /\ ~NeverEscaped(c) THEN before ELSE row.pending
           written == [row EXCEPT !.escaped = @ /\ ~clear, !.pending = pending,
                                  !.failure = @ \/ Current(w)]
<1>1. worker[w].pc \notin {"idle", "sending"} /\ Finish(w, written)
  BY DEF Fail
<1>2. /\ worker \in [Worker -> Agent] /\ row \in Row /\ c \in Claimed
      /\ c.pending \in Revision \cup {NoRev}
  BY TypeIs DEF DeliveryInv, Agent, Claimed
<1>3. pending \in Revision \cup {NoRev}
  BY <1>2 DEF Row
<1>4. pending = row.pending \/ pending = NoRev \/ (definite /\ pending = c.pending)
  OBVIOUS
<1>5. /\ written \in Row /\ written.pending = pending /\ written.delivered = row.delivered
      /\ written.sequence = row.sequence /\ written.active = row.active
      /\ written.escaped \/ ~row.escaped \/ clear
  <2>1. PICK e \in BOOLEAN, f \in BOOLEAN :
          /\ written = [row EXCEPT !.escaped = e, !.pending = pending, !.failure = f]
          /\ e \/ ~row.escaped \/ clear
    <3>1. (row.escaped /\ ~clear) \in BOOLEAN /\ (row.failure \/ Current(w)) \in BOOLEAN
      OBVIOUS
    <3> QED BY <3>1
  <2> HIDE DEF written, clear, pending
  <2> QED BY <1>2, <1>3, <2>1 DEF Row
<1> HIDE DEF pending, written
<1>6. /\ TypeOK' /\ worker' = [worker EXCEPT ![w] = Asleep] /\ UNCHANGED <<task, adding, mailbox>>
      /\ Owns(w) => row' = written /\ lease' = Free
      /\ ~Owns(w) => row' = row /\ lease' = lease
  BY <1>1, <1>5, FinishIs
<1>7. CASE ~Owns(w)
  BY <1>6, <1>7, ForgetStep
<1>8. CASE Owns(w)
  <2>1. row.active /\ row' = written /\ RowKnows /\ CopyKnows(w)
    BY <1>6, <1>8, OwnerIsActive DEF DeliveryInv, WorkersKnow
  <2>2. /\ \A r : Stands(r)' <=> Stands(r)
        /\ Deliverable({})' \subseteq Deliverable({w})
        /\ Deliverable({})' \subseteq Deliverable({})
    BY <1>6, RowStillKnows
  <2>3. definite => (Retried(c.pending, c.delivered) => Tops(c.pending, {w}))
                    /\ (NeverEscaped(c) => NothingStands({w})) /\ c.delivered = row.delivered
    BY <2>1 DEF CopyKnows
  <2>4. row'.active /\ row'.delivered = row.delivered /\ row'.pending = pending
    BY <1>5, <2>1
  <2>5. row'.delivered = NoRev /\ ~row'.escaped => NothingStands({})'
    <3>1. CASE ~row.escaped
      BY <2>1, <2>2, <2>4, <3>1 DEF RowKnows, NothingStands
    <3>2. CASE clear
      BY <2>2, <2>3, <3>2 DEF NothingStands
    <3> QED BY <1>5, <2>1, <3>1, <3>2
  <2>6. (Retried(row.pending, row.delivered) => Tops(row.pending, {}))'
    <3>1. CASE pending = row.pending
      BY <2>1, <2>2, <2>4, <3>1 DEF RowKnows, Retried, Newer, Tops
    <3>2. CASE pending = NoRev
      BY <2>4, <3>2 DEF Retried
    <3>3. CASE definite /\ pending = c.pending
      BY <2>2, <2>3, <2>4, <3>3 DEF Retried, Newer, Tops
    <3> QED BY <1>4, <3>1, <3>2, <3>3
  <2>7. RowKnows'
    BY <2>4, <2>5, <2>6 DEF RowKnows
  <2>8. row'.pending \in Known \cup {NoRev} /\ row'.delivered \in Known \cup {NoRev}
    BY <1>2, <1>4, <2>4, KnownIs
  <2> QED BY <1>5, <1>6, <1>8, <2>1, <2>7, <2>8, GiveBackStep
<1> QED BY <1>7, <1>8

\* OUTLOOK_CLAIM_SQL.
LEMMA ClaimStep ==
  ASSUME DeliveryInv, NEW w \in Worker, Claim(w)
  PROVE  /\ DeliveryInv'
         /\ row' = [row EXCEPT !.attempts = row.attempts + 1] /\ row.active
<1>1. /\ worker \in [Worker -> Agent] /\ row \in Row /\ mailbox' = mailbox
      /\ row' = [row EXCEPT !.attempts = row.attempts + 1] /\ row.attempts < MaxAttempts
      /\ lease' = [owner |-> w, live |-> TRUE]
      /\ worker' = [worker EXCEPT ![w] = [pc |-> "claimed", claim |-> Copy(row'), plan |-> NoPlan]]
      /\ row.intent # "NONE" /\ worker[w].pc = "idle" /\ UNCHANGED <<task, adding>>
  BY TypeIs DEF DeliveryInv, Claim, AttemptsLeft
<1>2. /\ row' \in Row
      /\ \A column \in {"active", "sequence", "pending", "delivered", "escaped", "intent"} : row'[column] = row[column]
  <2>1. row.attempts + 1 \in 0 .. MaxAttempts
    BY <1>1, NumberAssumption DEF Row
  <2> QED BY <1>1, <2>1 DEF Row
<1>3. /\ Copy(row') \in Claimed /\ Copy(row').pending = row.pending /\ Copy(row').delivered = row.delivered
      /\ Copy(row').escaped = row.escaped
  BY <1>2, CopyIs DEF Copied
<1>4. NoPlan \in Plan
  BY NumberAssumption DEF NoPlan, Plan
<1>5. /\ worker'[w].pc = "claimed" /\ worker'[w].claim = Copy(row')
      /\ \A v \in Worker : v # w => worker'[v] = worker[v] /\ Invitation(v)' = Invitation(v)
  BY <1>1 DEF Invitation
<1>6. TypeOK'
  <2>1. [pc |-> "claimed", claim |-> Copy(row'), plan |-> NoPlan] \in Agent
    BY <1>3, <1>4 DEF Agent, PC
  <2>2. worker' \in [Worker -> Agent]
    BY <1>1, <2>1
  <2>3. lease' \in [owner : Worker \cup {NoWorker}, live : BOOLEAN]
    BY <1>1
  <2> QED BY <1>1, <1>2, <2>2, <2>3 DEF DeliveryInv, TypeOK, Agent
<1>7. OneNumberEach'
  <2>1. Known' \subseteq Known
    BY <1>1, <1>2, <1>3, <1>5, KnownIs DEF Invited
  <2>2. row.sequence \in Nat
    BY <1>1 DEF Row
  <2> QED BY <1>2, <2>1, <2>2, NumbersStay DEF DeliveryInv
<1>8. row.active
  BY <1>1 DEF DeliveryInv, RowKnows
<1>9. \A r : Stands(r)' <=> Stands(r)
  BY <1>1 DEF Stands
<1>10. ASSUME NEW but PROVE Deliverable(but)' = Deliverable(but)
  <2>1. \A r : r \in Deliverable(but)' <=> r \in Deliverable(but)
    BY <1>1, <1>5, DeliverableIs
  <2> QED BY <2>1 DEF Deliverable
<1>11. RowKnows'
  BY <1>2, <1>8, <1>9, <1>10 DEF DeliveryInv, RowKnows, Retried, Newer, Tops, NothingStands
<1>12. CopyKnows(w)'
  <2>1. ~Invited(w)' /\ worker'[w].pc # "closing" /\ worker'[w].pc # "accepted"
    BY <1>5 DEF Invited
  <2>2. (worker[w].claim.delivered = row.delivered)'
    BY <1>2, <1>3, <1>5
  <2>3. NeverEscaped(worker'[w].claim) => NothingStands({w})'
    <3>1. NeverEscaped(worker'[w].claim) => NothingStands({})
      BY <1>3, <1>5 DEF NeverEscaped, DeliveryInv, RowKnows
    <3> QED BY <1>9, <1>10, <3>1, ButFewer DEF NothingStands
  <2>4. (Retried(worker[w].claim.pending, worker[w].claim.delivered) => Tops(worker[w].claim.pending, {w}))'
    <3>1. Retried(row.pending, row.delivered) => Tops(row.pending, {w})
      BY ButFewer DEF DeliveryInv, RowKnows, Tops
    <3> QED BY <1>3, <1>5, <1>9, <1>10, <3>1 DEF Retried, Newer, Tops
  <2> QED BY <2>1, <2>2, <2>3, <2>4 DEF CopyKnows, NeverEscaped
<1>13. WorkersKnow'
  <2>1. ASSUME NEW v \in Worker PROVE (worker[v].pc = "idle" => worker[v] = Asleep)' /\ PlanReady(v)'
    BY <1>5 DEF DeliveryInv, WorkersKnow, PlanReady
  <2>2. \A v \in Worker : Owns(v)' => v = w
    BY <1>1 DEF Owns
  <2> QED BY <1>5, <1>12, <2>1, <2>2 DEF WorkersKnow
<1> QED BY <1>1, <1>6, <1>7, <1>8, <1>11, <1>13 DEF DeliveryInv

\* What deliverSubscription() makes of a copy of the row.
LEMMA DecisionIs ==
  ASSUME NEW c \in Claimed, NEW unavailable \in BOOLEAN, unavailable \/ task # Gone,
         task \in [status : {"open", "done"}, content : Content] \cup {Gone}
  PROVE  LET a == Decision(c, unavailable)
         IN  /\ a \in Agent /\ a.claim = c /\ a.pc \in {"settling", "closing", "allocating", "failing"}
             /\ a.pc = "settling" => ~unavailable /\ (TaskOpen => Same(c.delivered, "REQUEST", task.content))
             /\ a.pc = "closing" => NeverEscaped(c) /\ unavailable
             /\ a.pc = "allocating" =>
                  /\ a.plan.method \in Method /\ a.plan.of \in Content
                  /\ a.plan.method = "CANCEL" => ~a.plan.reuse
                  /\ a.plan.method = "REQUEST" => ~unavailable /\ a.plan.of = task.content
                  /\ a.plan.method = "CANCEL" /\ a.plan.completed => ~unavailable /\ ~TaskOpen
                  /\ a.plan.method = "CANCEL" /\ ~a.plan.completed => unavailable
<1> DEFINE a == Decision(c, unavailable)
           completed == ~unavailable /\ task.status = "done"
           shown == IF c.pending # NoRev THEN c.pending ELSE c.delivered
           plan == [NoPlan EXCEPT !.completed = completed]
           reuse == c.forceResend /\ ~c.suspended /\ ~(c.delivered # NoRev /\ c.delivered.method = "CANCEL")
           To(pc, p) == [pc |-> pc, claim |-> c, plan |-> p]
<1>1. completed \in BOOLEAN /\ reuse \in BOOLEAN
  BY DEF Claimed
<1>2. shown # NoRev => shown.of \in Content
  BY DEF Claimed, Revision
<1>4. completed => ~unavailable /\ ~TaskOpen
  BY DEF TaskOpen
<1>5. ~unavailable => task.content \in Content /\ (TaskOpen \/ completed)
  BY DEF TaskOpen
<1> HIDE DEF completed, shown, reuse
<1>3. ASSUME NEW b \in BOOLEAN
      PROVE  LET p == [NoPlan EXCEPT !.completed = b]
             IN  p \in Plan /\ p.completed = b /\ p.reuse = FALSE
  <2>1. NoPlan \in Plan /\ NoPlan.reuse = FALSE
    BY NumberAssumption DEF Plan, NoPlan
  <2> QED BY <2>1 DEF Plan
<1>6. plan \in Plan /\ plan.completed = completed /\ plan.reuse = FALSE
  BY <1>1, <1>3
<1>7. CASE completed /\ ~NeedsCancellation(c, task.content)
  <2>1. a = To("settling", plan)
    BY <1>7 DEF Decision, completed
  <2> HIDE DEF plan
  <2> QED BY <1>4, <1>6, <1>7, <2>1 DEF Agent, PC
<1>8. CASE /\ ~(completed /\ ~NeedsCancellation(c, task.content))
           /\ unavailable \/ completed
           /\ c.delivered = NoRev /\ ~c.escaped
  <2>1. a = To("closing", plan)
    BY <1>8 DEF Decision, completed
  <2>2. ~completed
    BY <1>8 DEF NeedsCancellation
  <2> HIDE DEF plan
  <2> QED BY <1>6, <1>8, <2>1, <2>2 DEF Agent, PC, NeverEscaped
<1>9. CASE /\ ~(completed /\ ~NeedsCancellation(c, task.content))
           /\ unavailable \/ completed
           /\ ~(c.delivered = NoRev /\ ~c.escaped) /\ shown = NoRev
  <2>1. a = To("failing", plan)
    BY <1>9 DEF Decision, completed, shown
  <2> HIDE DEF plan
  <2> QED BY <1>6, <2>1 DEF Agent, PC
<1>10. CASE /\ ~(completed /\ ~NeedsCancellation(c, task.content))
            /\ unavailable \/ completed
            /\ ~(c.delivered = NoRev /\ ~c.escaped) /\ shown # NoRev
  <2> DEFINE cancel == [plan EXCEPT !.method = "CANCEL", !.of = shown.of]
  <2>1. a = To("allocating", cancel)
    BY <1>10 DEF Decision, completed, shown
  <2>2. /\ cancel \in Plan /\ cancel.method = "CANCEL" /\ cancel.of \in Content
        /\ cancel.completed = completed /\ cancel.reuse = FALSE
    <3> HIDE DEF plan
    <3>1. shown.of \in Content
      BY <1>2, <1>10
    <3> QED BY <1>6, <3>1 DEF Plan, Method
  <2> HIDE DEF cancel, plan
  <2> QED BY <1>4, <1>10, <2>1, <2>2 DEF Agent, PC, Method
<1>11. CASE ~(unavailable \/ completed) /\ Unchanged(c, task.content)
  <2>1. a = To("settling", plan)
    BY <1>11 DEF Decision, completed
  <2>2. Same(c.delivered, "REQUEST", task.content)
    BY <1>11 DEF Unchanged
  <2> HIDE DEF plan
  <2> QED BY <1>6, <1>11, <2>1, <2>2 DEF Agent, PC
<1>12. CASE ~(unavailable \/ completed) /\ ~Unchanged(c, task.content)
  <2> DEFINE request == [plan EXCEPT !.method = "REQUEST", !.of = task.content, !.reuse = reuse]
  <2>1. a = To("allocating", request)
    BY <1>12 DEF Decision, completed, reuse
  <2>2. /\ request \in Plan /\ request.method = "REQUEST" /\ request.of = task.content
        /\ request.of \in Content
    <3> HIDE DEF plan
    <3>1. task.content \in Content
      BY <1>5, <1>12
    <3> QED BY <1>1, <1>6, <3>1 DEF Plan, Method
  <2> HIDE DEF request, plan
  <2> QED BY <1>12, <2>1, <2>2 DEF Agent, PC, Method
<1>13. \/ completed /\ ~NeedsCancellation(c, task.content)
       \/ /\ ~(completed /\ ~NeedsCancellation(c, task.content))
          /\ unavailable \/ completed
       \/ ~(unavailable \/ completed)
  OBVIOUS
<1> QED BY <1>7, <1>8, <1>9, <1>10, <1>11, <1>12, <1>13

\* deliverSubscription() decides.
LEMMA DecideIs ==
  ASSUME DeliveryInv, NEW w \in Worker, Decide(w)
  PROVE  /\ worker[w].pc = "claimed" /\ worker \in [Worker -> Agent]
         /\ UNCHANGED <<task, row, lease, adding, mailbox>>
         /\ task \in [status : {"open", "done"}, content : Content] \cup {Gone}
         /\ worker[w].claim \in Claimed
         /\ \E unavailable \in BOOLEAN :
              /\ unavailable \/ task # Gone
              /\ unavailable /\ ~Hidden => worker[w].claim.cancelRequested \/ task = Gone
              /\ worker[w].claim.cancelRequested => unavailable
              /\ worker' = [worker EXCEPT ![w] = Decision(worker[w].claim, unavailable)]
<1>1. /\ worker[w].pc = "claimed" /\ worker \in [Worker -> Agent]
      /\ UNCHANGED <<task, row, lease, adding, mailbox>>
      /\ task \in [status : {"open", "done"}, content : Content] \cup {Gone}
  BY TypeIs DEF DeliveryInv, Decide
<1>2. worker[w].claim \in Claimed
  BY <1>1 DEF Agent
<1>3. PICK hidden \in (IF Hidden THEN BOOLEAN ELSE {FALSE}) :
        worker' = [worker EXCEPT ![w] =
          Decision(worker[w].claim, worker[w].claim.cancelRequested \/ task = Gone \/ hidden)]
  BY DEF Decide
<1>4. hidden \in BOOLEAN /\ (hidden => Hidden)
  BY ModeAssumption
<1>5. (worker[w].claim.cancelRequested \/ task = Gone \/ hidden) \in BOOLEAN
  OBVIOUS
<1> QED BY <1>1, <1>2, <1>3, <1>4, <1>5

\* deliverSubscription() decides over its copy and writes nothing.
LEMMA DecideStep ==
  ASSUME DeliveryInv, NEW w \in Worker, Decide(w)
  PROVE  DeliveryInv'
<1>1. PICK unavailable \in BOOLEAN :
        /\ unavailable \/ task # Gone
        /\ worker' = [worker EXCEPT ![w] = Decision(worker[w].claim, unavailable)]
  BY DecideIs
<1>2. /\ worker[w].pc = "claimed" /\ worker \in [Worker -> Agent]
      /\ UNCHANGED <<task, row, lease, adding, mailbox>>
      /\ worker[w].claim \in Claimed
  BY DecideIs
<1> DEFINE a == Decision(worker[w].claim, unavailable)
<1>3. /\ a \in Agent /\ a.claim = worker[w].claim
      /\ a.pc \in {"settling", "closing", "allocating", "failing"}
      /\ a.pc = "closing" => NeverEscaped(a.claim)
      /\ a.pc = "allocating" => /\ a.plan.method \in Method /\ a.plan.of \in Content
                                /\ a.plan.method = "CANCEL" => ~a.plan.reuse
  BY <1>1, DecideIs, DecisionIs
<1>4. worker' = [worker EXCEPT ![w] = a]
  BY <1>1
<1> HIDE DEF a
<1>5. PlanReady(w)'
  BY <1>2, <1>3, <1>4 DEF PlanReady
<1> QED BY <1>2, <1>3, <1>4, <1>5, MoveStep

\* sendMail(): what was on its way may have arrived.
LEMMA SendStep ==
  ASSUME DeliveryInv, NEW w \in Worker, Send(w)
  PROVE  DeliveryInv'
<1>1. PICK pc \in {"accepted", "failing", "refused"} :
        /\ worker' = [worker EXCEPT ![w].pc = pc]
        /\ mailbox' = mailbox \/ mailbox' = mailbox \cup {Invitation(w)}
        /\ pc = "accepted" => mailbox' = mailbox \cup {Invitation(w)}
        /\ pc = "refused" => mailbox' = mailbox
  BY DEF Send, Goes
<1>2. /\ worker \in [Worker -> Agent] /\ worker[w].pc = "sending" /\ UNCHANGED <<task, row, lease, adding>>
      /\ row \in Row /\ row.sequence \in Nat /\ Invitation(w) \in Revision
  BY TypeIs, KnownTyped DEF Send, DeliveryInv, WorkersKnow, Row
<1>3. /\ worker'[w] = [worker[w] EXCEPT !.pc = pc]
      /\ \A v \in Worker : v # w => worker'[v] = worker[v]
  BY <1>1, <1>2
<1>4. /\ worker'[w].pc = pc /\ worker'[w].claim = worker[w].claim /\ worker'[w].plan = worker[w].plan
      /\ worker'[w] \in Agent
  BY <1>2, <1>3 DEF Agent, PC
<1>5. \A v \in Worker : Invitation(v)' = Invitation(v) /\ worker'[v].claim = worker[v].claim
  BY <1>3, <1>4 DEF Invitation
<1>6. TypeOK'
  <2>1. worker' \in [Worker -> Agent]
    BY <1>1, <1>2, <1>3, <1>4
  <2>2. mailbox' \subseteq Revision
    BY <1>1, <1>2 DEF DeliveryInv, TypeOK
  <2> QED BY <1>2, <2>1, <2>2 DEF DeliveryInv, TypeOK, Agent
<1>7. \A v \in Worker : Invited(v)' => Invited(v)
  BY <1>2, <1>3, <1>4 DEF Invited
<1>8. OneNumberEach'
  <2>1. Invited(w)
    BY <1>2 DEF Invited
  <2>2. Known' \subseteq Known
    BY <1>1, <1>2, <1>5, <1>7, <2>1, KnownIs
  <2> QED BY <1>2, <2>2, NumbersStay DEF DeliveryInv
<1>9. ASSUME NEW but, w \notin but \/ mailbox' = mailbox
      PROVE  /\ NothingStands(but) => NothingStands(but)'
             /\ \A rev : (\A r \in Deliverable(but) : Stands(r) => r.seq <= rev.seq)
                           => (\A r \in Deliverable(but)' : Stands(r)' => r.seq <= rev.seq)
  <2>1. \A v \in Worker : worker'[v].pc = "sending" => worker[v].pc = "sending"
    BY <1>2, <1>3, <1>4
  <2>2. mailbox \subseteq mailbox'
    BY <1>1
  <2>3. w \notin but => Invitation(w) \in Deliverable(but)
    BY <1>2, DeliverableIs
  <2>4. Deliverable(but)' \subseteq Deliverable(but)
    BY <1>1, <1>5, <1>9, <2>1, <2>3, DeliverableIs
  <2> QED BY <2>2, <2>4, StandsLess
<1>10. RowKnows'
  <2>1. (Retried(row.pending, row.delivered) => Tops(row.pending, {}))'
    BY <1>2, <1>9 DEF DeliveryInv, RowKnows, Retried, Newer, Tops
  <2>2. (row.delivered = NoRev /\ ~row.escaped => NothingStands({}))'
    BY <1>2, <1>9 DEF DeliveryInv, RowKnows
  <2>3. (~row.active => row.intent = "NONE" /\ lease.owner = NoWorker /\ NothingStands({}))'
    BY <1>2, <1>9 DEF DeliveryInv, RowKnows
  <2> QED BY <2>1, <2>2, <2>3 DEF RowKnows
<1>11. ASSUME NEW v \in Worker, Owns(v)' PROVE worker'[v].pc # "idle" /\ CopyKnows(v)'
  <2>1. Owns(v) /\ worker[v].pc # "idle" /\ CopyKnows(v)
    BY <1>2, <1>11 DEF Owns, DeliveryInv, WorkersKnow
  <2>2. CASE v # w
    <3>1. worker'[v] = worker[v] /\ Invitation(v)' = Invitation(v) /\ mailbox \subseteq mailbox'
      BY <1>1, <1>3, <1>5, <2>2
    <3>2. w \notin {v}
      BY <2>2
    <3>3. /\ NothingStands({v}) => NothingStands({v})'
          /\ \A rev : (\A r \in Deliverable({v}) : Stands(r) => r.seq <= rev.seq)
                        => (\A r \in Deliverable({v})' : Stands(r)' => r.seq <= rev.seq)
      BY <1>9, <3>2
    <3>4. \A rev : (\A r \in Deliverable({}) : Stands(r) => r.seq <= rev.seq)
                     => (\A r \in Deliverable({})' : Stands(r)' => r.seq <= rev.seq)
      BY <1>9
    <3> QED BY <1>2, <2>1, <3>1, <3>3, <3>4 DEF CopyKnows, Invited, Tops
  <2>3. CASE v = w
    <3>1. worker'[w].pc # "idle" /\ worker'[w].pc # "closing" /\ Invited(w)
      BY <1>2, <1>4 DEF Invited
    <3>2. (worker[w].claim.delivered = row.delivered)'
      BY <1>2, <1>5, <2>1, <2>3 DEF CopyKnows
    <3>3. worker'[w].pc \notin {"accepted", "failing"} =>
            /\ NeverEscaped(worker[w].claim) => NothingStands({w})'
            /\ Retried(worker[w].claim.pending, worker[w].claim.delivered) =>
                 \A r \in Deliverable({w})' : Stands(r)' => r.seq <= worker[w].claim.pending.seq
      <4>1. SUFFICES ASSUME worker'[w].pc \notin {"accepted", "failing"}
                     PROVE  /\ NeverEscaped(worker[w].claim) => NothingStands({w})'
                            /\ Retried(worker[w].claim.pending, worker[w].claim.delivered) =>
                                 \A r \in Deliverable({w})' : Stands(r)' => r.seq <= worker[w].claim.pending.seq
        OBVIOUS
      <4>2. mailbox' = mailbox
        BY <1>1, <1>4, <4>1
      <4>3. /\ NeverEscaped(worker[w].claim) => NothingStands({w})
            /\ Retried(worker[w].claim.pending, worker[w].claim.delivered) =>
                 \A r \in Deliverable({w}) : Stands(r) => r.seq <= worker[w].claim.pending.seq
        BY <1>2, <2>1, <2>3 DEF CopyKnows, Tops
      <4> QED BY <1>9, <4>2, <4>3
    <3>4. (Invited(w) => row.pending = Invitation(w))'
      BY <1>2, <1>5, <2>1, <2>3, <3>1 DEF CopyKnows
    <3>5. (Invited(w) /\ worker[w].plan.method = "CANCEL" => Tops(Invitation(w), {}))'
      <4>1. worker[w].plan.method = "CANCEL" => \A r \in Deliverable({}) : Stands(r) => r.seq <= Invitation(w).seq
        BY <2>1, <2>3, <3>1 DEF CopyKnows, Tops
      <4>2. worker[w].plan.method = "CANCEL" => \A r \in Deliverable({})' : Stands(r)' => r.seq <= Invitation(w).seq
        BY <1>9, <4>1
      <4> QED BY <1>4, <1>5, <4>2 DEF Tops
    <3>6. (worker[w].pc = "accepted" => Invitation(w) \in mailbox)'
      BY <1>1, <1>4, <1>5
    <3> QED BY <1>5, <2>3, <3>1, <3>2, <3>3, <3>4, <3>5, <3>6 DEF CopyKnows, Tops, NeverEscaped, Retried, Newer
  <2> QED BY <2>2, <2>3
<1>12. WorkersKnow'
  <2>1. ASSUME NEW v \in Worker PROVE (worker[v].pc = "idle" => worker[v] = Asleep)' /\ PlanReady(v)'
    BY <1>2, <1>3, <1>4 DEF DeliveryInv, WorkersKnow, PlanReady
  <2> QED BY <1>11, <2>1 DEF WorkersKnow
<1> QED BY <1>6, <1>8, <1>10, <1>12 DEF DeliveryInv

\* OUTLOOK_ALLOCATE_SQL.  What it has a worker send is a known revision or one of a new
\* number, and no invitation stands above a cancellation among them.
LEMMA AllocateStep ==
  ASSUME DeliveryInv, NEW w \in Worker, Allocate(w)
  PROVE  DeliveryInv'
<1> DEFINE plan == worker[w].plan
           next == IF ReusesPending(plan) \/ ReusesDelivered(plan) THEN row.sequence ELSE row.sequence + 1
           seq  == IF ReusesPending(plan) THEN row.pending.seq ELSE next
           rev  == [seq |-> seq, method |-> plan.method, of |-> plan.of]
<1>1. /\ worker \in [Worker -> Agent] /\ worker[w].pc = "allocating" /\ row \in Row
      /\ UNCHANGED <<task, lease, adding, mailbox>>
      /\ plan \in Plan /\ plan.method \in Method /\ plan.of \in Content /\ row.sequence \in Nat
      /\ plan.method = "CANCEL" => ~plan.reuse
  BY TypeIs DEF DeliveryInv, Allocate, WorkersKnow, PlanReady, Agent, Row
<1>2. CASE ~(Owns(w) /\ Current(w) /\ lease.live)
  <2> DEFINE a == [worker[w] EXCEPT !.pc = "settling", !.plan = [plan EXCEPT !.completed = FALSE]]
  <2>1. worker' = [worker EXCEPT ![w] = a] /\ UNCHANGED row
    BY <1>1, <1>2 DEF Allocate, Plans
  <2>2. [plan EXCEPT !.completed = FALSE] \in Plan
    BY <1>1 DEF Plan
  <2>3. a \in Agent /\ a.pc = "settling" /\ a.claim = worker[w].claim
    <3> DEFINE p == [plan EXCEPT !.completed = FALSE]
    <3>1. p \in Plan
      BY <2>2
    <3>2. a = [worker[w] EXCEPT !.pc = "settling", !.plan = p]
      OBVIOUS
    <3> HIDE DEF p, a
    <3> QED BY <1>1, <3>1, <3>2 DEF Agent, PC
  <2> HIDE DEF a
  <2>4. PlanReady(w)'
    BY <1>1, <2>1, <2>3 DEF PlanReady
  <2> QED BY <1>1, <2>1, <2>3, <2>4, MoveStep
<1>3. CASE Owns(w) /\ Current(w) /\ lease.live
  <2>1. /\ next <= MaxSequence
        /\ row' = [row EXCEPT !.sequence = next, !.intent = plan.method, !.escaped = TRUE, !.pending = rev]
        /\ worker' = [worker EXCEPT ![w].pc = "sending", ![w].plan = [plan EXCEPT !.seq = seq]]
    BY <1>3 DEF Allocate, Plans
  <2>2. \/ rev = row.pending /\ row.pending # NoRev /\ Newer(row.pending, row.delivered) /\ next = row.sequence
        \/ rev = row.delivered /\ row.delivered # NoRev /\ next = row.sequence /\ plan.reuse
        \/ seq = row.sequence + 1 /\ next = row.sequence + 1
    <3>1. CASE ReusesPending(plan)
      BY <1>1, <3>1 DEF ReusesPending, Same, Row, Revision
    <3>2. CASE ~ReusesPending(plan) /\ ReusesDelivered(plan)
      BY <1>1, <3>2 DEF ReusesDelivered, Same, Row, Revision
    <3>3. CASE ~ReusesPending(plan) /\ ~ReusesDelivered(plan)
      BY <3>3
    <3> QED BY <3>1, <3>2, <3>3
  <2>3. rev.seq = seq /\ rev.method = plan.method /\ rev.of = plan.of
    OBVIOUS
  <2>4. next \in 0 .. MaxSequence /\ (next = row.sequence \/ next = row.sequence + 1)
    BY <1>1, <2>1, <2>2, NumberAssumption
  <2>5. rev \in Revision
    <3>1. CASE rev \in {row.pending, row.delivered} /\ rev # NoRev
      BY <1>1, <3>1 DEF Row
    <3>2. CASE seq = row.sequence + 1 /\ next = row.sequence + 1
      <4>1. seq \in 1 .. MaxSequence
        BY <1>1, <2>1, <3>2, NumberAssumption
      <4> QED BY <1>1, <4>1 DEF Revision
    <3> QED BY <2>2, <3>1, <3>2
  <2>6. seq \in 1 .. MaxSequence
    BY <2>3, <2>5 DEF Revision
  <2> HIDE DEF next, seq, rev
  <2>7. /\ row' \in Row /\ row'.sequence = next /\ row'.pending = rev /\ row'.escaped = TRUE
        /\ row'.active = row.active /\ row'.delivered = row.delivered
    BY <1>1, <2>1, <2>4, <2>5 DEF Row, Method
  <2>8. /\ worker'[w] \in Agent /\ worker'[w].pc = "sending" /\ worker'[w].claim = worker[w].claim
        /\ worker'[w].plan.method = plan.method /\ worker'[w].plan.of = plan.of /\ worker'[w].plan.seq = seq
    <3> DEFINE p == [plan EXCEPT !.seq = seq]
    <3>1. p \in Plan /\ p.method = plan.method /\ p.of = plan.of /\ p.seq = seq
      BY <1>1, <2>6, NumberAssumption DEF Plan
    <3> HIDE DEF p
    <3>2. worker'[w] = [worker[w] EXCEPT !.pc = "sending", !.plan = p]
      BY <1>1, <2>1 DEF p
    <3> QED BY <1>1, <3>1, <3>2 DEF Agent, PC
  <2>9. \A v \in Worker : v # w => worker'[v] = worker[v] /\ Invitation(v)' = Invitation(v)
    BY <1>1, <2>1 DEF Invitation
  <2>10. Invitation(w)' = rev
    BY <2>8 DEF Invitation, rev
  <2>11. TypeOK'
    <3>1. worker' \in [Worker -> Agent]
      BY <1>1, <2>1, <2>8, <2>9
    <3> QED BY <1>1, <2>7, <3>1 DEF DeliveryInv, TypeOK, Agent
  <2>12. Known' \subseteq Known \cup {rev}
    BY <1>1, <2>7, <2>8, <2>9, <2>10, KnownIs DEF Invited
  <2>13. Known \subseteq Revision
    BY KnownTyped DEF DeliveryInv, WorkersKnow
  <2>14. OneNumberEach'
    <3>1. CASE rev \in {row.pending, row.delivered} /\ rev # NoRev /\ next = row.sequence
      <4>1. Known' \subseteq Known
        BY <2>12, <3>1, KnownIs
      <4> QED BY <1>1, <2>7, <3>1, <4>1, NumbersStay DEF DeliveryInv
    <3>2. CASE seq = row.sequence + 1 /\ next = row.sequence + 1
      BY <1>1, <2>3, <2>7, <2>12, <2>13, <3>2, OneMoreNumber DEF DeliveryInv
    <3> QED BY <2>2, <3>1, <3>2
  <2>15. \A r : Stands(r)' <=> Stands(r)
    BY <1>1 DEF Stands
  <2>16. /\ Deliverable({w})' = Deliverable({w})
         /\ Deliverable({})' \subseteq Deliverable({}) \cup {rev}
    <3>1. \A r : r \in Deliverable({w})' <=> r \in Deliverable({w})
      BY <1>1, <2>9, DeliverableIs
    <3>2. Deliverable({})' \subseteq Deliverable({}) \cup {rev}
      BY <1>1, <2>8, <2>9, <2>10, DeliverableIs
    <3> QED BY <3>1, <3>2 DEF Deliverable
  <2>17. row.active /\ RowKnows /\ CopyKnows(w) /\ OneNumberEach
    BY <1>3, OwnerIsActive DEF DeliveryInv, WorkersKnow
  <2>18. ASSUME rev.method = "CANCEL" PROVE \A r \in Deliverable({})' : Stands(r)' => r.seq <= rev.seq
    <3>1. CASE rev = row.pending /\ row.pending # NoRev /\ Newer(row.pending, row.delivered)
      <4>1. Tops(rev, {})
        BY <2>17, <2>18, <3>1 DEF RowKnows, Retried
      <4> QED BY <2>3, <2>6, <2>15, <2>16, <4>1 DEF Tops
    <3>2. CASE plan.reuse
      BY <1>1, <2>3, <2>18, <3>2
    <3>3. CASE seq = row.sequence + 1
      <4>1. \A r \in Deliverable({}) : r.seq \in Nat /\ r.seq <= row.sequence
        BY <2>13, <2>17, DeliverableKnown, NumberAssumption DEF OneNumberEach, Revision
      <4> QED BY <1>1, <2>3, <2>16, <3>3, <4>1
    <3> QED BY <2>2, <3>1, <3>2, <3>3
  <2>19. RowKnows'
    BY <2>7, <2>17, <2>18 DEF RowKnows, Retried, Tops
  <2>20. CopyKnows(w)'
    <3>1. (worker[w].claim.delivered = row.delivered)'
      BY <2>7, <2>8, <2>17 DEF CopyKnows
    <3>2. /\ NeverEscaped(worker[w].claim) => NothingStands({w})'
          /\ Retried(worker[w].claim.pending, worker[w].claim.delivered) =>
               \A r \in Deliverable({w})' : Stands(r)' => r.seq <= worker[w].claim.pending.seq
      BY <1>1, <2>15, <2>16, <2>17 DEF CopyKnows, Tops, NothingStands
    <3>3. (row.pending = Invitation(w))'
      BY <2>7, <2>10
    <3>4. (worker[w].plan.method = "CANCEL" => Tops(Invitation(w), {}))'
      BY <2>3, <2>8, <2>10, <2>18 DEF Tops
    <3> QED BY <2>8, <3>1, <3>2, <3>3, <3>4 DEF CopyKnows, Tops, NeverEscaped, Retried, Newer
  <2>21. WorkersKnow'
    <3>1. ASSUME NEW v \in Worker PROVE (worker[v].pc = "idle" => worker[v] = Asleep)' /\ PlanReady(v)'
      BY <1>1, <2>6, <2>8, <2>9 DEF DeliveryInv, WorkersKnow, PlanReady
    <3>2. \A v \in Worker : Owns(v)' => v = w
      BY <1>1, <1>3 DEF Owns
    <3> QED BY <2>8, <2>20, <3>1, <3>2 DEF WorkersKnow
  <2> QED BY <2>11, <2>14, <2>19, <2>21 DEF DeliveryInv
<1> QED BY <1>2, <1>3

\* A crash, a lease that ends, or nothing at all.
LEMMA CrashStep ==
  ASSUME DeliveryInv, NEW w \in Worker, Crash(w)
  PROVE  DeliveryInv'
<1>1. /\ worker' = [worker EXCEPT ![w] = Asleep] /\ UNCHANGED <<task, row, adding, mailbox>>
      /\ Owns(w) => lease' = [lease EXCEPT !.owner = NoWorker]
      /\ ~Owns(w) => lease' = lease
  BY DEF Crash
<1>2. lease \in [owner : Worker \cup {NoWorker}, live : BOOLEAN] /\ worker \in [Worker -> Agent]
  BY TypeIs DEF DeliveryInv
<1>3. lease' \in [owner : Worker \cup {NoWorker}, live : BOOLEAN]
  BY <1>1, <1>2
<1>4. worker' \in [Worker -> Agent]
  BY <1>1, <1>2, NoRowIs
<1>5. TypeOK'
  BY <1>1, <1>3, <1>4 DEF DeliveryInv, TypeOK, Agent
<1>6. (lease'.owner = lease.owner /\ ~Owns(w)) \/ lease'.owner = NoWorker
  BY <1>1, <1>2
<1> QED BY <1>1, <1>5, <1>6, ForgetStep

\* A step after which everybody has what he had.
LEMMA RestStep ==
  ASSUME DeliveryInv, UNCHANGED <<task, row, worker, adding, mailbox>>, lease'.owner = lease.owner, TypeOK'
  PROVE  DeliveryInv'
<1>1. (\A r : Stands(r)' <=> Stands(r)) /\ (\A v : Invitation(v)' = Invitation(v) /\ (Invited(v)' <=> Invited(v)))
  BY DEF Stands, Invitation, Invited
<1>2. Known' = Known
  BY <1>1 DEF Known
<1>3. ASSUME NEW but PROVE Deliverable(but)' = Deliverable(but)
  BY <1>1 DEF Deliverable
<1>4. OneNumberEach'
  BY <1>2 DEF DeliveryInv, OneNumberEach
<1>5. RowKnows'
  BY <1>1, <1>3 DEF DeliveryInv, RowKnows, Tops, NothingStands
<1>6. ASSUME NEW w \in Worker, Owns(w)' PROVE worker'[w].pc # "idle" /\ CopyKnows(w)'
  <2>1. Owns(w) /\ worker[w].pc # "idle" /\ CopyKnows(w)
    BY <1>6 DEF Owns, DeliveryInv, WorkersKnow
  <2> QED BY <1>1, <1>3, <2>1 DEF CopyKnows, Tops, NothingStands
<1>7. WorkersKnow'
  BY <1>6 DEF DeliveryInv, WorkersKnow, PlanReady
<1> QED BY <1>4, <1>5, <1>7 DEF DeliveryInv

\* There is no subscription and nobody works.
LEMMA DeliveryStarts == Init => DeliveryInv
<1> SUFFICES ASSUME Init PROVE DeliveryInv
  OBVIOUS
<1>1. /\ row = NoRow /\ lease = Free /\ worker = [w \in Worker |-> Asleep] /\ adding = NoRev /\ mailbox = {}
      /\ task \in [status : {"open", "done"}, content : Content]
  BY DEF Init
<1>2. TypeOK
  BY <1>1, NoRowIs DEF TypeOK, Agent, Free
<1>3. /\ \A w \in Worker : /\ worker[w] = Asleep /\ worker[w].pc = "idle"
                           /\ worker[w].claim.pending = NoRev /\ ~Owns(w)
      /\ row.pending = NoRev /\ row.delivered = NoRev /\ row.intent = "NONE" /\ lease.owner = NoWorker
  BY <1>1, WorkerAssumption DEF Asleep, Copy, Copied, NoRow, Owns, Free
<1>4. Known = {}
  BY <1>1, <1>3, KnownIs DEF Invited
<1>5. Deliverable({}) = {}
  BY <1>1, <1>3, DeliverableIs
<1>6. OneNumberEach
  BY <1>4 DEF OneNumberEach
<1>7. RowKnows
  BY <1>3, <1>5 DEF RowKnows, NothingStands, Retried
<1>8. WorkersKnow
  BY <1>3 DEF WorkersKnow, PlanReady
<1> QED BY <1>2, <1>6, <1>7, <1>8 DEF DeliveryInv

\* Every step, by the actions of the specification.
LEMMA DeliveryStep == DeliveryInv /\ [Next]_vars => DeliveryInv'
<1> SUFFICES ASSUME DeliveryInv, [Next]_vars PROVE DeliveryInv'
  OBVIOUS
<1>1. ASSUME NEW w \in Worker, Working(w) PROVE DeliveryInv'
  BY <1>1, ClaimStep, DecideStep, SettleStep, CloseStep, AllocateStep, SendStep, CompleteStep, FailStep
     DEF Working
<1>2. ASSUME NEW w \in Worker, Crash(w) PROVE DeliveryInv'
  BY <1>2, CrashStep
<1>3. CASE LeaseExpires
  <2>1. lease' = [lease EXCEPT !.live = FALSE] /\ UNCHANGED <<task, row, worker, adding, mailbox>>
    BY <1>3 DEF LeaseExpires
  <2>2. lease \in [owner : Worker \cup {NoWorker}, live : BOOLEAN]
    BY TypeIs DEF DeliveryInv
  <2>3. lease' \in [owner : Worker \cup {NoWorker}, live : BOOLEAN] /\ lease'.owner = lease.owner
    BY <2>1, <2>2
  <2>4. TypeOK'
    BY <2>1, <2>3 DEF DeliveryInv, TypeOK
  <2> QED BY <2>1, <2>3, <2>4, RestStep
<1>4. CASE UNCHANGED vars
  <2>1. UNCHANGED <<task, row, lease, worker, adding, mailbox>>
    BY <1>4 DEF vars
  <2>2. TypeOK'
    BY <2>1 DEF DeliveryInv, TypeOK
  <2> QED BY <2>1, <2>2, RestStep
<1>5. CASE Requesting
  BY <1>5, RequestStep
<1> QED BY <1>1, <1>2, <1>3, <1>4, <1>5 DEF Next, Delivering

\* The first invariant holds throughout, whatever workers are paused for longer than their lease.
THEOREM DeliveryInvHolds == Spec => []DeliveryInv
BY DeliveryStarts, DeliveryStep, PTL DEF Spec

\* A SEQUENCE names one invitation, whatever is retried, restored and resent
\* (OUTLOOK_ALLOCATE_SQL, OUTLOOK_FAIL_SQL).
THEOREM OneInvitationPerNumber == Spec => []SequenceNamesInvitation
<1>1. DeliveryInv => SequenceNamesInvitation
  BY KnownIs DEF DeliveryInv, OneNumberEach, SequenceNamesInvitation
<1> QED BY <1>1, DeliveryInvHolds, PTL

\* Of some revisions one has the highest number.
LEMMA HighestExists ==
  ASSUME NEW revs \in SUBSET Revision, revs # {}
  PROVE  \E r \in revs : \A s \in revs : s.seq <= r.seq
<1> DEFINE above(r) == r.seq + 1 .. MaxSequence
           Sets == {above(r) : r \in revs}
<1>1. \A r \in revs : r.seq \in Nat /\ r.seq <= MaxSequence
  BY NumberAssumption DEF Revision
<1>2. Sets \subseteq FiniteSubsetsOf(Nat) /\ Sets # {}
  <2>1. \A r \in revs : IsFiniteSet(above(r)) /\ above(r) \in SUBSET Nat
    <3>1. \A r \in revs : r.seq + 1 \in Int /\ MaxSequence \in Int
      BY <1>1, NumberAssumption
    <3>2. \A r \in revs : IsFiniteSet(above(r))
      BY <3>1, FS_Interval
    <3>3. \A r \in revs : above(r) \in SUBSET Nat
      BY <1>1, NumberAssumption
    <3> QED BY <3>2, <3>3
  <2> QED BY <2>1 DEF FiniteSubsetsOf
<1>3. \E S \in Sets : \A T \in Sets : ~(<<T, S>> \in StrictSubsetOrdering(Nat))
  BY <1>2, FS_StrictSubsetOrderingWellFounded, WFMin
<1>4. PICK r \in revs : \A s \in revs : ~(<<above(s), above(r)>> \in StrictSubsetOrdering(Nat))
  BY <1>3
<1>5. ASSUME NEW s \in revs, ~(s.seq <= r.seq) PROVE FALSE
  <2>1. s.seq \in above(r) /\ s.seq \notin above(s) /\ above(s) \subseteq above(r)
    BY <1>1, <1>5, NumberAssumption
  <2>2. above(s) \in SUBSET Nat /\ above(r) \in SUBSET Nat
    BY <1>1, NumberAssumption
  <2> QED BY <1>4, <2>1, <2>2 DEF StrictSubsetOrdering
<1> QED BY <1>5

\* Once nothing is queued, a closed subscription has left nothing in Outlook, also when
\* workers that lost their leases sent or will send something (ClosedLeavesNothing).
THEOREM NothingLeftBehind == Spec => []ClosedSafely
<1>1. DeliveryInv => ClosedSafely
  <2> SUFFICES ASSUME DeliveryInv, ~row.active, mailbox # {} PROVE Shown.method = "CANCEL"
    BY DEF ClosedSafely, ClosedLeavesNothing, Shown, DeliveryInv
  <2>1. mailbox \in SUBSET Revision
    BY DEF DeliveryInv, TypeOK
  <2>2. Shown \in mailbox /\ \A s \in mailbox : s.seq <= Shown.seq
    BY <2>1, HighestExists DEF Shown
  <2>3. ~Stands(Shown)
    BY <2>2, DeliverableIs DEF DeliveryInv, RowKnows, NothingStands
  <2>4. Shown.method \in Method
    BY <2>1, <2>2 DEF Revision
  <2> QED BY <2>2, <2>3, <2>4 DEF Stands, Method
<1> QED BY <1>1, DeliveryInvHolds, PTL

(***************************************************************************)
(* Generations: no worker is paused for longer than its lease              *)
(***************************************************************************)
\* Who works has the lease, and nobody else works.
LEMMA OnlyWorker ==
  ASSUME DeliveryInv, GenerationInv, NEW w \in Worker, worker[w].pc # "idle"
  PROVE  /\ Owns(w) /\ lease.live /\ row.active
         /\ \A v \in Worker : v # w => worker[v].pc = "idle"
<1>1. lease = [owner |-> w, live |-> TRUE] /\ Owns(w)
  BY DEF GenerationInv, LeaseLasts, Owns
<1>2. \A v \in Worker : v # w => worker[v].pc = "idle"
  BY <1>1 DEF GenerationInv, LeaseLasts
<1> QED BY <1>1, <1>2, OwnerIsActive DEF DeliveryInv

\* What the columns the invariant speaks of say.
LEMMA RequestGeneration ==
  ASSUME ~Stalls, DeliveryInv, GenerationInv, Requesting
  PROVE  GenerationInv'
<1>1. RequestDone /\ UNCHANGED <<lease, worker, mailbox>> /\ row \in Row /\ row' \in Row
  BY RequestIs, TypeIs DEF DeliveryInv, RequestDone
<1>2. CancelStands' /\ KeepsGeneration
  BY <1>1 DEF RequestDone, GenerationInv
<1>3. row.active => row'.delivered = row.delivered /\ row'.active
  BY <1>1 DEF RequestDone, SentAsBefore, BeginsAnew
<1>4. LeaseLasts'
  BY <1>1 DEF GenerationInv, LeaseLasts
<1>5. RecordMatchesTask'
  BY <1>2, <1>3 DEF KeepsGeneration, GenerationInv, RecordMatchesTask, Settled
<1>6. ASSUME NEW w \in Worker, worker'[w].pc # "idle"
      PROVE  /\ row'.intent # "NONE" /\ worker'[w].claim.queueSeq <= row'.queueSeq
             /\ Current(w)' => CarriesOut(w)'
  <2>1. row.active /\ row.intent # "NONE" /\ worker[w].claim.queueSeq <= row.queueSeq /\ worker[w].pc # "idle"
    BY <1>1, <1>6, OnlyWorker DEF GenerationInv
  <2>2. row'.intent # "NONE" /\ row'.active
    BY <1>2, <1>3, <2>1 DEF KeepsGeneration
  <2>3. row.queueSeq \in Nat /\ row'.queueSeq \in Nat /\ worker[w].claim.queueSeq \in Nat
    BY <1>1, TypeIs DEF DeliveryInv, Row, Agent, Claimed
  <2>4. worker'[w].claim.queueSeq <= row'.queueSeq
    BY <1>1, <1>2, <2>1, <2>3 DEF KeepsGeneration
  <2>5. ASSUME Current(w)' PROVE CarriesOut(w)'
    <3>1. row'.queueSeq = row.queueSeq /\ Current(w)
      BY <1>1, <1>2, <2>1, <2>3, <2>5 DEF Current, KeepsGeneration
    <3>2. CarriesOut(w)
      BY <2>1, <3>1 DEF GenerationInv
    <3>3. /\ row'.cancelRequested = row.cancelRequested /\ row'.delivered = row.delivered
          /\ ~row.cancelRequested => task' = task
      BY <1>2, <1>3, <2>1, <3>1 DEF KeepsGeneration
    <3> QED BY <1>1, <3>2, <3>3 DEF CarriesOut, TaskOpen
  <2> QED BY <2>2, <2>4, <2>5
<1> QED BY <1>2, <1>4, <1>5, <1>6 DEF GenerationInv

\* After a delivery nobody works.
LEMMA NobodyWorks ==
  ASSUME DeliveryInv, GenerationInv, NEW w \in Worker, worker[w].pc # "idle",
         worker' = [worker EXCEPT ![w] = Asleep], CancelStands', RecordMatchesTask'
  PROVE  GenerationInv'
<1>1. \A v \in Worker : worker'[v].pc = "idle"
  BY OnlyWorker, TypeIs DEF DeliveryInv, Asleep
<1> QED BY <1>1 DEF GenerationInv, LeaseLasts

\* A worker that goes on, over a row whose generation and owner stay.
LEMMA WorkerGoesOn ==
  ASSUME DeliveryInv, GenerationInv, NEW w \in Worker, worker[w].pc # "idle",
         NEW a, worker' = [worker EXCEPT ![w] = a], a.claim = worker[w].claim,
         lease' = lease, row'.queueSeq = row.queueSeq, row'.intent # "NONE",
         CancelStands', RecordMatchesTask', Current(w) => CarriesOut(w)'
  PROVE  GenerationInv'
<1>1. worker'[w] = a /\ \A v \in Worker : v # w => worker'[v].pc = "idle"
  BY OnlyWorker, TypeIs DEF DeliveryInv
<1>2. LeaseLasts'
  BY <1>1 DEF GenerationInv, LeaseLasts
<1>3. worker'[w].claim.queueSeq <= row'.queueSeq
  BY <1>1 DEF GenerationInv
<1>4. Current(w)' => CarriesOut(w)'
  BY <1>1 DEF Current
<1> QED BY <1>1, <1>2, <1>3, <1>4 DEF GenerationInv

\* Whoever ends a delivery with the lease is the only one who worked.
LEMMA FinishGeneration ==
  ASSUME DeliveryInv, GenerationInv, NEW w \in Worker, Settle(w) \/ Complete(w) \/ Fail(w)
  PROVE  GenerationInv'
<1>1. row \in Row /\ worker[w].pc # "idle"
  BY TypeIs DEF DeliveryInv, Settle, Complete, Fail
<1>2. Owns(w) /\ row.active
  BY <1>1, OnlyWorker
<1>3. worker' = [worker EXCEPT ![w] = Asleep] /\ UNCHANGED task
  BY DEF Settle, Complete, Fail, Finish
<1>4. worker[w].plan.completed \in BOOLEAN
  BY TypeIs DEF DeliveryInv, Agent, Plan
<1>5. CASE Settle(w)
  <2> DEFINE settled == [row EXCEPT !.failure = FALSE]
  <2>1. /\ settled \in Row
        /\ \A column \in {"active", "delivered", "cancelRequested", "intent"} : settled[column] = row[column]
    BY <1>1 DEF Row
  <2>2. CASE Current(w)
    <3>1. row' = Done(settled, worker[w].plan.completed)
      BY <1>2, <1>5, <2>2 DEF Settle, Finish
    <3>2. CarriesOut(w) /\ worker[w].pc = "settling"
      BY <1>1, <1>5, <2>2 DEF GenerationInv, Settle
    <3> HIDE DEF settled
    <3>3. row'.delivered = row.delivered /\ row'.cancelRequested = row.cancelRequested
      BY <1>4, <2>1, <3>1, DoneIs
    <3>4. CancelStands' /\ RecordMatchesTask'
      BY <1>3, <3>2, <3>3 DEF CarriesOut, CancelStands, RecordMatchesTask, TaskOpen
    <3> QED BY <1>1, <1>3, <3>4, NobodyWorks
  <2>3. CASE ~Current(w)
    <3>1. row' = settled
      BY <1>2, <1>5, <2>3 DEF Settle, Finish
    <3>2. CancelStands' /\ RecordMatchesTask'
      BY <1>3, <2>1, <3>1 DEF GenerationInv, CancelStands, RecordMatchesTask, Settled
    <3> QED BY <1>1, <1>3, <3>2, NobodyWorks
  <2> QED BY <2>2, <2>3
<1>6. CASE Complete(w)
  <2> DEFINE plan == worker[w].plan
             sent == [row EXCEPT !.delivered = Invitation(w), !.attempts = 0, !.failure = FALSE]
             closes == plan.method = "CANCEL" /\ ~plan.completed
  <2>1. worker[w].pc = "accepted" /\ plan.method \in Method /\ Invitation(w) \in Revision
    BY <1>6, KnownTyped DEF Complete, DeliveryInv, WorkersKnow, PlanReady
  <2>2. Invitation(w).method = plan.method /\ Invitation(w).of = plan.of /\ Invitation(w) # NoRev
    BY <2>1, NoRevAssumption DEF Invitation
  <2>3. /\ sent \in Row /\ sent.delivered = Invitation(w)
        /\ \A column \in {"active", "cancelRequested", "intent"} : sent[column] = row[column]
    <3>1. 0 \in 0 .. MaxAttempts
      BY NumberAssumption
    <3> QED BY <1>1, <2>1, <3>1 DEF Row
  <2>4. CASE Current(w)
    <3> DEFINE done == Done(sent, plan.completed)
    <3>1. row' = [done EXCEPT !.active = done.active /\ ~closes]
      BY <1>2, <1>6, <2>4 DEF Complete, Finish
    <3>2. /\ done \in Row /\ done.delivered = Invitation(w) /\ done.cancelRequested = row.cancelRequested
      BY <1>4, <2>3, DoneIs
    <3> HIDE DEF done, sent
    <3>3. /\ row'.delivered = Invitation(w) /\ row'.cancelRequested = row.cancelRequested
          /\ row'.active => ~closes
      <4>1. PICK b \in BOOLEAN : row' = [done EXCEPT !.active = b] /\ (b => ~closes)
        <5>1. (done.active /\ ~closes) \in BOOLEAN
          OBVIOUS
        <5> QED BY <3>1, <5>1
      <4> QED BY <3>2, <4>1 DEF Row
    <3>4. CarriesOut(w)
      BY <1>1, <2>4 DEF GenerationInv
    <3>5. plan.method = "REQUEST" \/ (plan.method = "CANCEL" /\ plan.completed) \/ ~row'.active
      BY <2>1, <3>3 DEF Method
    <3>6. CancelStands' /\ RecordMatchesTask'
      BY <1>3, <2>1, <2>2, <3>3, <3>4, <3>5 DEF CarriesOut, CancelStands, RecordMatchesTask, TaskOpen, Same
    <3> QED BY <1>1, <1>3, <3>6, NobodyWorks
  <2>5. CASE ~Current(w)
    <3>1. row' = sent
      BY <1>2, <1>6, <2>5 DEF Complete, Finish
    <3>2. row.intent # "NONE"
      BY <1>1 DEF GenerationInv
    <3>3. CancelStands' /\ RecordMatchesTask'
      BY <2>3, <3>1, <3>2 DEF GenerationInv, CancelStands, RecordMatchesTask, Settled
    <3> QED BY <1>1, <1>3, <3>3, NobodyWorks
  <2> QED BY <2>4, <2>5
<1>7. CASE Fail(w)
  <2>1. PICK e, p, f : row' = [row EXCEPT !.escaped = e, !.pending = p, !.failure = f]
    BY <1>2, <1>7 DEF Fail, Finish
  <2>2. \A column \in {"active", "delivered", "cancelRequested", "intent"} : row'[column] = row[column]
    BY <1>1, <2>1 DEF Row
  <2>3. CancelStands' /\ RecordMatchesTask'
    BY <1>3, <2>2 DEF GenerationInv, CancelStands, RecordMatchesTask, Settled
  <2> QED BY <1>1, <1>3, <2>3, NobodyWorks
<1> QED BY <1>5, <1>6, <1>7

\* The copy is fresh, hence of the row's generation.
LEMMA ClaimGeneration ==
  ASSUME DeliveryInv, GenerationInv, NEW w \in Worker, Claim(w)
  PROVE  GenerationInv'
<1>1. /\ ~lease.live /\ row.intent # "NONE" /\ lease' = [owner |-> w, live |-> TRUE] /\ UNCHANGED task
      /\ worker' = [worker EXCEPT ![w] = [pc |-> "claimed", claim |-> Copy(row'), plan |-> NoPlan]]
      /\ row' = [row EXCEPT !.attempts = row.attempts + 1]
  BY DEF Claim
<1>2. /\ row \in Row
      /\ \A column \in {"active", "delivered", "cancelRequested", "intent", "queueSeq"} : row'[column] = row[column]
  BY <1>1, TypeIs DEF DeliveryInv, Row
<1>3. \A v \in Worker : worker[v].pc = "idle"
  BY <1>1 DEF GenerationInv, LeaseLasts
<1>4. /\ worker'[w].pc = "claimed" /\ worker'[w].claim = Copy(row')
      /\ \A v \in Worker : v # w => worker'[v].pc = "idle"
  BY <1>1, <1>3, TypeIs DEF DeliveryInv
<1>5. worker'[w].claim.queueSeq = row'.queueSeq /\ worker'[w].claim.cancelRequested = row'.cancelRequested
  BY <1>4 DEF Copy, Copied
<1>6. LeaseLasts'
  BY <1>1, <1>4 DEF LeaseLasts
<1>7. CancelStands' /\ RecordMatchesTask'
  BY <1>1, <1>2 DEF GenerationInv, CancelStands, RecordMatchesTask, Settled
<1>8. CarriesOut(w)'
  BY <1>4, <1>5 DEF CarriesOut
<1>9. row'.queueSeq \in Nat /\ row'.intent # "NONE"
  BY <1>1, <1>2 DEF Row
<1> QED BY <1>4, <1>5, <1>6, <1>7, <1>8, <1>9 DEF GenerationInv

\* The decision is made over a copy of the row and over the task as it is now.
LEMMA DecideGeneration ==
  ASSUME DeliveryInv, GenerationInv, NEW w \in Worker, Decide(w)
  PROVE  GenerationInv'
<1> DEFINE c == worker[w].claim
<1>1. PICK unavailable \in BOOLEAN :
        /\ unavailable \/ task # Gone
        /\ unavailable /\ ~Hidden => c.cancelRequested \/ task = Gone
        /\ c.cancelRequested => unavailable
        /\ worker' = [worker EXCEPT ![w] = Decision(c, unavailable)]
  BY DecideIs
<1>2. /\ worker[w].pc = "claimed" /\ worker \in [Worker -> Agent] /\ UNCHANGED <<task, row, lease>>
      /\ c \in Claimed
      /\ task \in [status : {"open", "done"}, content : Content] \cup {Gone}
  BY DecideIs
<1> DEFINE a == Decision(c, unavailable)
<1>3. /\ a.claim = c /\ a.pc \in {"settling", "closing", "allocating", "failing"}
      /\ a.pc = "settling" => ~unavailable /\ (TaskOpen => Same(c.delivered, "REQUEST", task.content))
      /\ a.pc = "closing" => unavailable
      /\ a.pc = "allocating" =>
           /\ a.plan.method = "REQUEST" => ~unavailable /\ a.plan.of = task.content
           /\ a.plan.method = "CANCEL" /\ a.plan.completed => ~unavailable /\ ~TaskOpen
           /\ a.plan.method = "CANCEL" /\ ~a.plan.completed => unavailable
  BY <1>1, <1>2, DecisionIs
<1>4. worker' = [worker EXCEPT ![w] = a] /\ worker'[w] = a
  BY <1>1, <1>2
<1> HIDE DEF a
<1>5. row.intent # "NONE" /\ c.delivered = row.delivered
  BY <1>2, OnlyWorker DEF GenerationInv, DeliveryInv, WorkersKnow, CopyKnows
<1>6. CancelStands' /\ RecordMatchesTask'
  BY <1>2 DEF GenerationInv, CancelStands, RecordMatchesTask, Settled
<1>7. ASSUME Current(w) PROVE CarriesOut(w)'
  <2>1. c.cancelRequested = row.cancelRequested
    BY <1>2, <1>7 DEF GenerationInv, CarriesOut
  <2>2. row.cancelRequested => unavailable
    BY <1>1, <2>1
  <2>3. unavailable /\ ~Hidden => row.cancelRequested \/ task = Gone
    BY <1>1, <2>1
  <2>4. /\ a.pc = "settling" => /\ ~row.cancelRequested
                                /\ TaskOpen => Same(row.delivered, "REQUEST", task.content)
        /\ a.pc = "closing" /\ ~Hidden => row.cancelRequested \/ task = Gone
    BY <1>3, <1>5, <2>2, <2>3
  <2>5. a.pc \in {"allocating", "sending", "accepted"} =>
          /\ a.plan.method = "REQUEST" => ~row.cancelRequested /\ (TaskOpen => a.plan.of = task.content)
          /\ a.plan.method = "CANCEL" /\ a.plan.completed => ~row.cancelRequested /\ ~TaskOpen
          /\ a.plan.method = "CANCEL" /\ ~a.plan.completed /\ ~Hidden => row.cancelRequested \/ task = Gone
    BY <1>3, <2>2, <2>3
  <2> QED BY <1>2, <1>3, <1>4, <2>1, <2>4, <2>5 DEF CarriesOut, TaskOpen
<1> QED BY <1>2, <1>3, <1>4, <1>5, <1>6, <1>7, WorkerGoesOn

\* A row that is closed has nothing to match.
LEMMA CloseGeneration ==
  ASSUME DeliveryInv, GenerationInv, NEW w \in Worker, Close(w)
  PROVE  GenerationInv'
<1>1. row \in Row /\ worker[w].pc = "closing" /\ worker \in [Worker -> Agent]
  BY TypeIs DEF DeliveryInv, Close
<1>2. Owns(w) /\ row.intent # "NONE"
  BY <1>1, OnlyWorker DEF GenerationInv
<1>3. CASE Current(w)
  <2> DEFINE done == Done(row, FALSE)
  <2>1. /\ row' = [done EXCEPT !.active = FALSE, !.failure = FALSE, !.forceResend = row.forceResend]
        /\ worker' = [worker EXCEPT ![w] = Asleep]
    BY <1>2, <1>3 DEF Close, Finish
  <2>2. done \in Row
    BY <1>1, DoneIs
  <2> HIDE DEF done
  <2>3. ~row'.active
    BY <2>1, <2>2 DEF Row
  <2>4. CancelStands' /\ RecordMatchesTask'
    BY <2>3 DEF CancelStands, RecordMatchesTask
  <2> QED BY <1>1, <2>1, <2>4, NobodyWorks
<1>4. CASE ~Current(w)
  <2> DEFINE a == [worker[w] EXCEPT !.pc = "settling"]
  <2>1. worker' = [worker EXCEPT ![w] = a] /\ UNCHANGED <<task, row, lease>>
    BY <1>4 DEF Close, Goes
  <2>2. a.claim = worker[w].claim
    BY <1>1 DEF Agent
  <2> HIDE DEF a
  <2>3. CancelStands' /\ RecordMatchesTask'
    BY <2>1 DEF GenerationInv, CancelStands, RecordMatchesTask, Settled
  <2> QED BY <1>1, <1>2, <1>4, <2>1, <2>2, <2>3, WorkerGoesOn
<1> QED BY <1>3, <1>4

\* A number is written only over the generation it was planned for.
LEMMA AllocateGeneration ==
  ASSUME DeliveryInv, GenerationInv, NEW w \in Worker, Allocate(w)
  PROVE  GenerationInv'
<1> DEFINE plan == worker[w].plan
           next == IF ReusesPending(plan) \/ ReusesDelivered(plan) THEN row.sequence ELSE row.sequence + 1
           seq  == IF ReusesPending(plan) THEN row.pending.seq ELSE next
           rev  == [seq |-> seq, method |-> plan.method, of |-> plan.of]
<1>1. row \in Row /\ worker[w].pc = "allocating" /\ worker \in [Worker -> Agent] /\ UNCHANGED <<task, lease>>
  BY TypeIs DEF DeliveryInv, Allocate
<1>2. Owns(w) /\ lease.live /\ row.active /\ row.intent # "NONE" /\ plan.method \in Method /\ plan \in Plan
  BY <1>1, OnlyWorker DEF GenerationInv, DeliveryInv, WorkersKnow, PlanReady, Agent
<1>3. CASE Current(w)
  <2>1. /\ row' = [row EXCEPT !.sequence = next, !.intent = plan.method, !.escaped = TRUE, !.pending = rev]
        /\ worker' = [worker EXCEPT ![w].pc = "sending", ![w].plan = [plan EXCEPT !.seq = seq]]
    BY <1>2, <1>3 DEF Allocate, Plans
  <2> HIDE DEF next, seq, rev
  <2> DEFINE p == [plan EXCEPT !.seq = seq]
             a == [worker[w] EXCEPT !.pc = "sending", !.plan = p]
  <2>2. p.method = plan.method /\ p.of = plan.of /\ p.completed = plan.completed
    BY <1>2 DEF Plan
  <2>3. worker' = [worker EXCEPT ![w] = a]
    BY <1>1, <2>1
  <2> HIDE DEF p
  <2>4. a.claim = worker[w].claim /\ a.pc = "sending" /\ a.plan = p
    BY <1>1 DEF Agent
  <2> HIDE DEF a
  <2>5. /\ row'.intent = plan.method
        /\ \A column \in {"active", "delivered", "cancelRequested", "queueSeq"} : row'[column] = row[column]
    BY <1>1, <2>1 DEF Row
  <2>6. CarriesOut(w)
    BY <1>1, <1>3 DEF GenerationInv
  <2>7. plan.method = "REQUEST" \/ plan.method = "CANCEL"
    BY <1>2 DEF Method
  <2>8. CancelStands' /\ RecordMatchesTask'
    BY <1>1, <2>5, <2>6, <2>7 DEF CarriesOut, CancelStands, RecordMatchesTask, Settled
  <2>9. worker'[w] = a
    BY <1>1, <2>3
  <2>10. CarriesOut(w)'
    BY <1>1, <2>2, <2>4, <2>5, <2>6, <2>9 DEF CarriesOut, TaskOpen
  <2> QED BY <1>1, <2>3, <2>4, <2>5, <2>7, <2>8, <2>10, WorkerGoesOn
<1>4. CASE ~Current(w)
  <2> DEFINE p == [plan EXCEPT !.completed = FALSE]
             a == [worker[w] EXCEPT !.pc = "settling", !.plan = p]
  <2>1. worker' = [worker EXCEPT ![w] = a] /\ UNCHANGED row
    BY <1>1, <1>4 DEF Allocate, Plans
  <2> HIDE DEF p
  <2>2. a.claim = worker[w].claim
    BY <1>1 DEF Agent
  <2> HIDE DEF a
  <2>3. CancelStands' /\ RecordMatchesTask'
    BY <1>1, <2>1 DEF GenerationInv, CancelStands, RecordMatchesTask, Settled
  <2> QED BY <1>1, <1>2, <1>4, <2>1, <2>2, <2>3, WorkerGoesOn
<1> QED BY <1>3, <1>4

\* What becomes of a mail changes nothing the worker knows.
LEMMA SendGeneration ==
  ASSUME DeliveryInv, GenerationInv, NEW w \in Worker, Send(w)
  PROVE  GenerationInv'
<1>1. PICK pc \in {"accepted", "failing", "refused"} : worker' = [worker EXCEPT ![w].pc = pc]
  BY DEF Send, Goes
<1>2. worker[w].pc = "sending" /\ worker \in [Worker -> Agent] /\ UNCHANGED <<task, row, lease>>
  BY TypeIs DEF DeliveryInv, Send
<1> DEFINE a == [worker[w] EXCEPT !.pc = pc]
<1>3. worker' = [worker EXCEPT ![w] = a] /\ worker'[w] = a
  BY <1>1, <1>2
<1>4. a.claim = worker[w].claim /\ a.plan = worker[w].plan /\ a.pc = pc
  BY <1>2 DEF Agent
<1> HIDE DEF a
<1>5. row.intent # "NONE" /\ CancelStands' /\ RecordMatchesTask'
  BY <1>2 DEF GenerationInv, CancelStands, RecordMatchesTask, Settled
<1>6. ASSUME Current(w) PROVE CarriesOut(w)'
  <2>1. CarriesOut(w)
    BY <1>2, <1>6 DEF GenerationInv
  <2> QED BY <1>2, <1>3, <1>4, <2>1 DEF CarriesOut, TaskOpen
<1> QED BY <1>2, <1>3, <1>4, <1>5, <1>6, WorkerGoesOn

\* Every step, for workers that are not paused for longer than their lease.
LEMMA GenerationStep ==
  ASSUME ~Stalls, DeliveryInv, GenerationInv, [Next]_vars
  PROVE  GenerationInv'
<1>1. ASSUME NEW w \in Worker, Working(w) PROVE GenerationInv'
  BY <1>1, ClaimGeneration, DecideGeneration, FinishGeneration, CloseGeneration, AllocateGeneration,
     SendGeneration DEF Working
<1>2. ASSUME NEW w \in Worker, Crash(w) PROVE GenerationInv'
  <2>1. worker[w].pc # "idle" /\ worker' = [worker EXCEPT ![w] = Asleep] /\ UNCHANGED <<task, row>>
    BY <1>2 DEF Crash
  <2>2. CancelStands' /\ RecordMatchesTask'
    BY <2>1 DEF GenerationInv, CancelStands, RecordMatchesTask, Settled
  <2> QED BY <2>1, <2>2, NobodyWorks
<1>3. CASE LeaseExpires
  <2>1. lease.owner = NoWorker /\ UNCHANGED <<task, row, worker>>
    BY <1>3 DEF LeaseExpires
  <2>2. \A w \in Worker : worker[w].pc = "idle"
    BY <2>1, WorkerAssumption DEF GenerationInv, LeaseLasts
  <2> QED BY <2>1, <2>2 DEF GenerationInv, LeaseLasts, CancelStands, RecordMatchesTask, Settled
<1>4. CASE UNCHANGED vars
  BY <1>4 DEF vars, GenerationInv, LeaseLasts, CancelStands, RecordMatchesTask, Settled, CarriesOut,
              TaskOpen, Current
<1>5. CASE Requesting
  BY <1>5, RequestGeneration
<1> QED BY <1>1, <1>2, <1>3, <1>4, <1>5 DEF Next, Delivering

\* Nobody works and there is nothing to match.
LEMMA GenerationStarts == Init => GenerationInv
<1> SUFFICES ASSUME Init PROVE GenerationInv
  OBVIOUS
<1>1. \A w \in Worker : worker[w].pc = "idle"
  BY DEF Init, Asleep
<1>2. ~row.active
  BY DEF Init, NoRow
<1> QED BY <1>1, <1>2 DEF GenerationInv, LeaseLasts, CancelStands, RecordMatchesTask

\* The second invariant, of workers that are never paused for longer than their lease.
THEOREM GenerationInvHolds ==
  ASSUME ~Stalls
  PROVE  Spec => [](DeliveryInv /\ GenerationInv)
<1>1. Init => DeliveryInv /\ GenerationInv
  BY DeliveryStarts, GenerationStarts
<1>2. DeliveryInv /\ GenerationInv /\ [Next]_vars => (DeliveryInv /\ GenerationInv)'
  BY DeliveryStep, GenerationStep
<1> QED BY <1>1, <1>2, PTL DEF Spec

\* Once nothing is queued, the invitation on record is that of the open task as it is now,
\* and the only one of its number: no change is lost, however it overlaps with a delivery.
THEOREM RecordStaysSound ==
  ASSUME ~Stalls
  PROVE  Spec => []RecordSound
<1>1. DeliveryInv /\ GenerationInv => RecordMatchesTask
  BY DEF GenerationInv
<1> QED BY <1>1, GenerationInvHolds, OneInvitationPerNumber, PTL DEF RecordSound

\* A subscription closes only on the user's own, not withdrawn request or when the task is
\* gone (OUTLOOK_DEACTIVATE_SQL, OUTLOOK_COMPLETE_SQL).
THEOREM ClosesForReason ==
  ASSUME ~Stalls, ~Hidden
  PROVE  Spec => ClosedOnlyForReason
<1>1. ASSUME DeliveryInv, GenerationInv, [Next]_vars, row.active, ~row'.active
      PROVE  row.cancelRequested \/ task = Gone
  <2>1. row \in Row
    BY <1>1, TypeIs DEF DeliveryInv
  <2>2. ASSUME Requesting PROVE FALSE
    BY <1>1, <2>2, RequestIs DEF DeliveryInv, RequestDone, SentAsBefore, BeginsAnew
  <2>3. ASSUME NEW w \in Worker, Crash(w) \/ Send(w) \/ Decide(w) PROVE FALSE
    BY <1>1, <2>3 DEF Crash, Send, Decide
  <2>4. ASSUME LeaseExpires \/ UNCHANGED vars PROVE FALSE
    BY <1>1, <2>4 DEF LeaseExpires, vars
  <2>5. ASSUME NEW w \in Worker, Claim(w) PROVE FALSE
    <3>1. row' = [row EXCEPT !.attempts = row.attempts + 1]
      BY <1>1, <2>5, ClaimStep
    <3> QED BY <1>1, <2>1, <3>1 DEF Row
  <2>6. ASSUME NEW w \in Worker, Allocate(w) PROVE FALSE
    <3> DEFINE plan == worker[w].plan
               next == IF ReusesPending(plan) \/ ReusesDelivered(plan) THEN row.sequence ELSE row.sequence + 1
               seq  == IF ReusesPending(plan) THEN row.pending.seq ELSE next
               rev  == [seq |-> seq, method |-> plan.method, of |-> plan.of]
               sent == [row EXCEPT !.sequence = next, !.intent = plan.method, !.escaped = TRUE, !.pending = rev]
    <3>1. row' = row \/ row' = sent
      BY <2>6 DEF Allocate
    <3> HIDE DEF next, seq, rev
    <3> QED BY <1>1, <2>1, <3>1 DEF Row
  <2>7. ASSUME NEW w \in Worker, Fail(w) PROVE FALSE
    <3>1. row' = row \/ \E e, p, f : row' = [row EXCEPT !.escaped = e, !.pending = p, !.failure = f]
      BY <2>7 DEF Fail, Finish
    <3> QED BY <1>1, <2>1, <3>1 DEF Row
  <2>8. ASSUME NEW w \in Worker, Settle(w) PROVE FALSE
    <3> DEFINE settled == [row EXCEPT !.failure = FALSE]
    <3>1. settled \in Row /\ settled.active = row.active /\ worker[w].plan.completed \in BOOLEAN
      BY <1>1, <2>1, TypeIs DEF Row, DeliveryInv, Agent, Plan
    <3>2. row' = row \/ row' = settled \/ row' = Done(settled, worker[w].plan.completed)
      BY <2>8 DEF Settle, Finish
    <3> HIDE DEF settled
    <3> QED BY <1>1, <3>1, <3>2, DoneIs
  <2>9. ASSUME NEW w \in Worker, Close(w) PROVE row.cancelRequested \/ task = Gone
    <3>1. worker[w].pc = "closing" /\ Current(w)
      BY <1>1, <2>9 DEF Close
    <3> QED BY <1>1, <3>1 DEF GenerationInv, CarriesOut
  <2>10. ASSUME NEW w \in Worker, Complete(w) PROVE row.cancelRequested \/ task = Gone
    <3> DEFINE plan == worker[w].plan
               sent == [row EXCEPT !.delivered = Invitation(w), !.attempts = 0, !.failure = FALSE]
               closes == plan.method = "CANCEL" /\ ~plan.completed
               done == Done(sent, plan.completed)
    <3>1. worker[w].pc = "accepted" /\ Invitation(w) \in Revision /\ plan.completed \in BOOLEAN
      BY <1>1, <2>10, KnownTyped, TypeIs DEF Complete, DeliveryInv, WorkersKnow, Agent, Plan
    <3>2. sent \in Row /\ sent.active = row.active
      <4>1. 0 \in 0 .. MaxAttempts
        BY NumberAssumption
      <4> QED BY <2>1, <3>1, <4>1 DEF Row
    <3>3. row' = row \/ row' = sent \/ (Current(w) /\ row' = [done EXCEPT !.active = done.active /\ ~closes])
      BY <2>10 DEF Complete, Finish
    <3>4. done \in Row /\ done.active = row.active
      <4> HIDE DEF sent
      <4> QED BY <3>1, <3>2, DoneIs
    <3> HIDE DEF done, sent
    <3>5. ASSUME Current(w), row' = [done EXCEPT !.active = done.active /\ ~closes]
          PROVE  row.cancelRequested \/ task = Gone
      <4>1. PICK b \in BOOLEAN : row' = [done EXCEPT !.active = b] /\ (b <=> done.active /\ ~closes)
        <5>1. (done.active /\ ~closes) \in BOOLEAN
          OBVIOUS
        <5> QED BY <3>5, <5>1
      <4>2. closes
        BY <1>1, <3>4, <4>1 DEF Row
      <4> QED BY <1>1, <3>1, <3>5, <4>2 DEF GenerationInv, CarriesOut
    <3> QED BY <1>1, <3>2, <3>3, <3>5
  <2> QED BY <1>1, <2>2, <2>3, <2>4, <2>5, <2>6, <2>7, <2>8, <2>9, <2>10 DEF Next, Delivering, Working
<1>2. DeliveryInv /\ GenerationInv /\ [Next]_vars
        => [row.active /\ ~row'.active => row.cancelRequested \/ task = Gone]_vars
  BY <1>1
<1> QED BY <1>2, GenerationInvHolds, PTL DEF Spec, ClosedOnlyForReason
==============================================================================
