---------------------- MODULE RemindersAndRequestsProofs ----------------------
(***************************************************************************)
(* Proofs about two components that have no state in common.               *)
(*                                                                         *)
(* ReminderDelivery, for every number of workers and recipients and for    *)
(* all times: one owner, one copy for each recipient, true checkpoints,    *)
(* true and final outcomes.                                                *)
(*                                                                         *)
(* TaskRequests, below, for all people, windows and dates: the records of  *)
(* a person stay consistent with one another and with the task, the        *)
(* version names what a window shows, and whoever changes the task has     *)
(* seen what he changes.                                                   *)
(***************************************************************************)
EXTENDS ReminderDelivery, TaskRequests, FiniteSetTheorems, TLAPS

\* Whoever works on the reminder has its row in hand, and the time since the claim
\* is the part of the round that is over.
OwnerHoldsRow ==
  \A w \in Worker : Busy(w) =>
    /\ worker[w].phase # "idle"
    /\ row.status = "PENDING" /\ row.active
    /\ row.age + worker[w].left = RoundLimit

\* The states tell the truth about every recipient a mail was started for, though
\* an uncertain one leaves it open.
True(states) ==
  /\ tried \subseteq DOMAIN states
  /\ \A r \in DOMAIN states :
       /\ states[r] = "untried" => r \notin tried
       /\ states[r] = "sent" => copies[r] = 1
       /\ states[r] = "refused" => copies[r] = 0

\* What the row says: without a checkpoint nobody was tried, unless it is closed.
RowIsTrue ==
  /\ row.digest = Null => tried = {}
  /\ row.digest = Masked => row.status \in {"SENT", "FAILED"}
  /\ IsCheckpoint(row.digest) => True(row.digest)
  /\ row.status = "ABSENT" => row.digest = Null

\* What an owner knows, from the claim to the end.
Right(w) ==
  /\ worker[w].phase \in {"claimed", "owned", "resolved"} /\ ~worker[w].reclaimed => row.digest = Null
  /\ worker[w].phase = "resolved" =>
       worker[w].states \in Progress /\ Untouched(worker[w].states)
  /\ worker[w].phase \in {"next", "marked", "told", "closing"} =>
       worker[w].states \in Progress /\ True(worker[w].states)
  /\ worker[w].phase \in {"marked", "told"} =>
       /\ IsCheckpoint(row.digest) /\ worker[w].at \in DOMAIN row.digest
       /\ row.digest[worker[w].at] = "uncertain"
  /\ worker[w].phase = "marked" => worker[w].at \notin tried /\ worker[w].states = row.digest
  /\ worker[w].phase = "told" => worker[w].at \in DOMAIN worker[w].states

OwnerIsRight == \A w \in Worker : Right(w)

\* A mail accepted is a mail started, and is accepted once.
CopiesTried == \A r \in Recipient : copies[r] <= 1 /\ (copies[r] > 0 => r \in tried)

IInv ==
  /\ TypeOK /\ OneOwner
  /\ OwnerHoldsRow /\ RowIsTrue /\ OwnerIsRight /\ CopiesTried

(***************************************************************************)
(* Checkpoints and rows                                                    *)
(***************************************************************************)
\* A checkpoint is a function on some recipients; changing the state of one of
\* them makes another one.
LEMMA ProgressFacts ==
  /\ Null \notin Progress /\ Masked \notin Progress
  /\ \A s \in Progress : DOMAIN s \subseteq Recipient /\ s \in [DOMAIN s -> State]
  /\ \A p \in SUBSET Recipient : [p -> State] \subseteq Progress
  /\ \A s \in Progress : \A r \in DOMAIN s : \A state \in State : [s EXCEPT ![r] = state] \in Progress
<1>1. Null \notin Progress /\ Masked \notin Progress
  BY NullAssumption
<1>2. \A s \in Progress : DOMAIN s \subseteq Recipient /\ s \in [DOMAIN s -> State]
  BY DEF Progress
<1>3. \A p \in SUBSET Recipient : [p -> State] \subseteq Progress
  BY DEF Progress
<1>4. ASSUME NEW s \in Progress, NEW r \in DOMAIN s, NEW state \in State
      PROVE  [s EXCEPT ![r] = state] \in Progress
  <2>1. [s EXCEPT ![r] = state] \in [DOMAIN s -> State]
    BY <1>2
  <2> QED BY <1>2, <1>3, <2>1
<1> QED BY <1>1, <1>2, <1>3, <1>4

Codes ==
  {Null, "ABANDONED", "DELIVERY_IN_PROGRESS", "RECIPIENTS_PENDING", "MAIL_DELIVERY_UNCERTAIN",
   "NOT_ELIGIBLE", "NO_RECIPIENTS", "NOT_RENDERED", "UNEXPECTED_ERROR"}

\* The rows the statements write are rows.
LEMMA RowType ==
  ASSUME NEW status \in {"ABSENT", "PENDING", "SENT", "FAILED"}, NEW code \in Codes,
         NEW digest \in Digest, NEW active \in BOOLEAN, NEW age \in 0..Stale + 1
  PROVE  Row(status, code, digest, active, age) \in Rows
<1>1. 0 \in 0..Window + 1
  BY TimeAssumption
<1> QED BY <1>1 DEF Row, Rows, Codes

LEMMA CompletedType ==
  ASSUME TypeOK, NEW status \in {"PENDING", "SENT", "FAILED"}, NEW code \in Codes, NEW digest \in Digest
  PROVE  Completed(status, code, digest) \in Rows
<1>1. row.age \in 0..Stale + 1
  BY DEF TypeOK, Rows
<1> QED BY <1>1, RowType DEF Completed

(***************************************************************************)
(* How a step changes its worker                                           *)
(***************************************************************************)
others == <<kind, people, eligible, changes>>

\* Whoever leaves was the only one: nobody is left to be wrong.
LEMMA NobodyLeft ==
  ASSUME IInv, NEW w \in Worker, Busy(w), Leaves(w), UNCHANGED <<others, observers>>,
         row' \in Rows, RowIsTrue'
  PROVE  IInv'
<1>1. worker' = [v \in Worker |-> Idle]
  BY DEF Leaves, IInv, TypeOK, OneOwner, Busy
<1>2. Idle \in Workers
  BY TimeAssumption DEF Idle, Workers, Phase
<1>3. TypeOK'
  BY <1>1, <1>2 DEF IInv, TypeOK, others, observers
<1>4. OneOwner' /\ OwnerHoldsRow'
  BY <1>1 DEF OneOwner, OwnerHoldsRow, Busy
<1>5. OwnerIsRight'
  BY <1>1 DEF OwnerIsRight, Right, Idle
<1>6. CopiesTried'
  BY DEF IInv, CopiesTried, observers
<1> QED BY <1>3, <1>4, <1>5, <1>6 DEF IInv

\* One worker goes on with his round; the others stay where they are.
GoesOn(w) ==
  /\ worker' \in [Worker -> Workers]
  /\ \A v \in Worker : v # w => worker'[v] = worker[v]
  /\ worker'[w].phase # "idle"
  /\ worker'[w].left = worker[w].left /\ worker'[w].reclaimed = worker[w].reclaimed

\* A step of a round changes the place, the states, the recipient or the doubt.
LEMMA MovesOn ==
  ASSUME worker \in [Worker -> Workers], NEW w \in Worker, NEW after \in Workers,
         worker' = [worker EXCEPT ![w] = after], after.phase # "idle",
         after.left = worker[w].left, after.reclaimed = worker[w].reclaimed
  PROVE  GoesOn(w) /\ worker'[w] = after
BY DEF GoesOn

\* Whoever goes on stays the owner, and has to be right about what he does.
LEMMA OwnerGoesOn ==
  ASSUME IInv, NEW w \in Worker, Busy(w), UNCHANGED others, GoesOn(w),
         row' \in Rows, row'.status = "PENDING", row'.active, row'.age = row.age,
         copies' \in [Recipient -> Nat], tried' \subseteq Recipient,
         RowIsTrue', Right(w)', CopiesTried'
  PROVE  IInv'
<1>1. \A v \in Worker : v # w => worker'[v] = Idle
  BY DEF IInv, OneOwner, Busy, GoesOn
<1>2. Busy(w)'
  BY DEF Busy, Idle, GoesOn
<1>3. TypeOK'
  BY DEF IInv, TypeOK, others, GoesOn
<1>4. OneOwner'
  BY <1>1 DEF OneOwner, Busy
<1>5. OwnerHoldsRow'
  BY <1>1 DEF IInv, OwnerHoldsRow, Busy, GoesOn
<1>6. OwnerIsRight'
  <2>1. ASSUME NEW v \in Worker, v # w PROVE Right(v)'
    <3>1. worker'[v].phase = "idle"
      BY <1>1, <2>1 DEF Idle
    <3> QED BY <3>1 DEF Right
  <2> QED BY <2>1 DEF OwnerIsRight
<1> QED BY <1>3, <1>4, <1>5, <1>6 DEF IInv

\* Without a new row and without a mail, only the worker's own knowledge changes.
LEMMA OwnerThinks ==
  ASSUME IInv, NEW w \in Worker, Busy(w), UNCHANGED <<others, row, observers>>, GoesOn(w), Right(w)'
  PROVE  IInv'
<1>1. row' \in Rows /\ row'.status = "PENDING" /\ row'.active /\ row'.age = row.age
  BY DEF IInv, TypeOK, OwnerHoldsRow
<1>2. copies' \in [Recipient -> Nat] /\ tried' \subseteq Recipient
  BY DEF IInv, TypeOK, observers
<1>3. RowIsTrue' /\ CopiesTried'
  BY DEF IInv, RowIsTrue, CopiesTried, True, observers
<1>4. UNCHANGED others
  OBVIOUS
<1> QED BY <1>1, <1>2, <1>3, <1>4, OwnerGoesOn

(***************************************************************************)
(* The steps                                                               *)
(***************************************************************************)
LEMMA InitRight == Init => IInv
<1> SUFFICES ASSUME Init PROVE IInv
  OBVIOUS
<1>1. Idle \in Workers
  BY TimeAssumption DEF Idle, Workers, Phase
<1>2. row \in Rows
  <2>1. 0 \in 0..Stale + 1
    BY TimeAssumption
  <2>2. Null \in Codes /\ Null \in Digest
    BY DEF Codes, Digest
  <2> QED BY <2>1, <2>2, RowType DEF Init
<1>3. TypeOK
  <2>1. 0 \in 0..MaxChanges
    BY TimeAssumption
  <2>2. kind \in {"AUTOMATIC", "MANUAL"} /\ worker \in [Worker -> Workers]
    BY <1>1 DEF Init
  <2>3. copies \in [Recipient -> Nat] /\ tried \subseteq Recipient
    BY DEF Init
  <2> QED BY <1>2, <2>1, <2>2, <2>3 DEF Init, TypeOK
<1>4. \A w \in Worker : worker[w] = Idle
  BY DEF Init
<1>5. OneOwner /\ OwnerHoldsRow
  BY <1>4 DEF OneOwner, OwnerHoldsRow, Busy
<1>6. RowIsTrue
  BY NullAssumption DEF Init, RowIsTrue, Row, IsCheckpoint
<1>7. OwnerIsRight
  BY <1>4 DEF OwnerIsRight, Right, Idle
<1>8. CopiesTried
  BY DEF Init, CopiesTried
<1> QED BY <1>3, <1>5, <1>6, <1>7, <1>8 DEF IInv

\* A row that may be taken up has no owner.
LEMMA FreeRow ==
  ASSUME IInv, row.status = "ABSENT" \/ ~row.active \/ row.age > Stale
  PROVE  \A v \in Worker : ~Busy(v)
<1> SUFFICES ASSUME NEW v \in Worker, Busy(v) PROVE FALSE
  OBVIOUS
<1>1. row.status = "PENDING" /\ row.active /\ row.age + worker[v].left = RoundLimit
  BY DEF IInv, OwnerHoldsRow
<1>2. row.age \in Nat /\ worker[v].left \in Nat
  BY DEF IInv, TypeOK, Rows, Workers
<1> QED BY <1>1, <1>2, TimeAssumption

\* Whoever takes up a free row becomes its owner: of a row nobody had before, or
\* of one whose checkpoint he leaves as it is.
LEMMA TakesOver ==
  ASSUME IInv, NEW w \in Worker, NEW reclaimed \in BOOLEAN, NEW code \in Codes,
         row.status = "ABSENT" \/ ~row.active \/ row.age > Stale,
         row.status \in {"ABSENT", "PENDING"}, ~reclaimed => row.status = "ABSENT",
         row' = Row("PENDING", code, row.digest, TRUE, 0),
         worker' = [worker EXCEPT ![w] = Claimed(reclaimed)],
         UNCHANGED <<others, observers>>
  PROVE  IInv'
<1>1. \A v \in Worker : worker[v] = Idle
  BY FreeRow DEF Busy
<1>2. worker'[w] = Claimed(reclaimed) /\ \A v \in Worker : v # w => worker'[v] = Idle
  BY <1>1 DEF IInv, TypeOK
<1>3. Claimed(reclaimed) \in Workers
  BY TimeAssumption DEF Claimed, Workers, Phase
<1>4. row.digest \in Digest /\ 0 \in 0..Stale + 1
  BY TimeAssumption DEF IInv, TypeOK, Rows
<1>5. row' \in Rows
  BY <1>4, RowType
<1>6. TypeOK'
  BY <1>3, <1>5 DEF IInv, TypeOK, others, observers
<1>7. OneOwner'
  BY <1>2 DEF OneOwner, Busy
<1>8. OwnerHoldsRow'
  BY <1>2, TimeAssumption DEF OwnerHoldsRow, Busy, Claimed, Row
<1>9. row'.digest = row.digest /\ row'.status = "PENDING" /\ row.digest # Masked
  BY DEF Row, IInv, RowIsTrue
<1>10. RowIsTrue'
  BY <1>9 DEF IInv, RowIsTrue, True, observers
<1>11. OwnerIsRight'
  <2>1. worker'[w].phase \in {"claimed", "owned"} /\ worker'[w].reclaimed = reclaimed
    BY <1>2 DEF Claimed
  <2>2. Right(w)'
    BY <1>9, <2>1 DEF Right, IInv, RowIsTrue
  <2>3. ASSUME NEW v \in Worker, v # w PROVE Right(v)'
    <3>1. worker'[v].phase = "idle"
      BY <1>2, <2>3 DEF Idle
    <3> QED BY <3>1 DEF Right
  <2> QED BY <2>2, <2>3 DEF OwnerIsRight
<1>12. CopiesTried'
  BY DEF IInv, CopiesTried, observers
<1> QED BY <1>6, <1>7, <1>8, <1>10, <1>11, <1>12 DEF IInv

LEMMA ClaimStep == ASSUME IInv, NEW w \in Worker, Claim(w) \/ Ask(w) PROVE IInv'
<1>1. UNCHANGED <<others, observers>>
  BY DEF Claim, Ask, others
<1>2. {Null, "ABANDONED", "DELIVERY_IN_PROGRESS"} \subseteq Codes
  BY DEF Codes
<1>3. CASE /\ row.status = "ABSENT" /\ row' = Row("PENDING", Null, Null, TRUE, 0)
           /\ worker' = [worker EXCEPT ![w] = Claimed(FALSE)]
  <2>1. row.digest = Null
    BY <1>3 DEF IInv, RowIsTrue
  <2> QED BY <1>1, <1>2, <1>3, <2>1, TakesOver
<1>4. CASE /\ row.status = "PENDING" /\ LeftBehind
           /\ row' = Row("PENDING", "ABANDONED", row.digest, TRUE, 0)
           /\ worker' = [worker EXCEPT ![w] = Claimed(TRUE)]
  BY <1>1, <1>2, <1>4, TakesOver DEF LeftBehind
<1>5. CASE /\ row.status = "PENDING" /\ ~row.active /\ row' = Resumed
           /\ worker' = [worker EXCEPT ![w] = Claimed(TRUE)]
  BY <1>1, <1>2, <1>5, TakesOver DEF Resumed
<1> QED BY <1>3, <1>4, <1>5 DEF Claim, Ask

\* A final write that keeps the checkpoint, or masks the addresses of a closed row,
\* leaves the row as true as it was.
LEMMA FinalRow ==
  ASSUME IInv, NEW status \in {"PENDING", "SENT", "FAILED"}, NEW code \in Codes, NEW digest \in Digest,
         UNCHANGED observers, row.status = "PENDING",
         \/ digest = row.digest
         \/ digest = Masked /\ status # "PENDING"
         \/ IsCheckpoint(digest) /\ True(digest),
         Finalize(Completed(status, code, digest))
  PROVE  row' \in Rows /\ RowIsTrue'
<1>1. CASE UNCHANGED row
  BY <1>1 DEF IInv, TypeOK, RowIsTrue, True, observers
<1>2. CASE row' = Completed(status, code, digest)
  <2>1. row' \in Rows
    BY <1>2, CompletedType DEF IInv
  <2>2. row'.digest = digest /\ row'.status = status
    BY <1>2 DEF Completed, Row
  <2>3. True(digest)' <=> True(digest)
    BY DEF True, observers
  <2>4. digest = row.digest => (digest = Null => tried = {}) /\ digest # Masked
                               /\ (IsCheckpoint(digest) => True(digest))
    BY DEF IInv, RowIsTrue
  <2>5. (digest = Null => tried' = {}) /\ (digest = Masked => status \in {"SENT", "FAILED"})
        /\ (IsCheckpoint(digest) => True(digest)')
    BY <2>3, <2>4, NullAssumption DEF IsCheckpoint, observers
  <2>6. RowIsTrue'
    BY <2>2, <2>5 DEF RowIsTrue, IsCheckpoint, True
  <2> QED BY <2>1, <2>6
<1> QED BY <1>1, <1>2 DEF Finalize

LEMMA LeavesStep ==
  ASSUME IInv, NEW w \in Worker,
         NoLongerDue(w) \/ Throws(w) \/ Unsendable(w) \/ GiveUp(w) \/ Stops(w)
  PROVE  IInv'
<1>1. UNCHANGED <<others, observers>> /\ Leaves(w)
  BY DEF NoLongerDue, Throws, Unsendable, GiveUp, Stops, others
<1>2. Busy(w)
  BY DEF NoLongerDue, Throws, Unsendable, GiveUp, Stops, Busy, Idle
<1>3. row.status = "PENDING" /\ row.active /\ row.digest \in Digest /\ Right(w)
  BY <1>2 DEF IInv, OwnerHoldsRow, OwnerIsRight, TypeOK, Rows
<1>4. worker[w].phase \in {"claimed", "owned"} => Kept(w, Null) = row.digest
  BY <1>3 DEF Right, Kept
<1>5. row' \in Rows /\ RowIsTrue'
  <2>1. CASE NoLongerDue(w)
    <3>1. Finalize(Completed("FAILED", "NOT_ELIGIBLE", row.digest))
      BY <1>4, <2>1 DEF NoLongerDue
    <3> QED BY <1>1, <1>3, <3>1, FinalRow DEF Codes
  <2>2. CASE Throws(w)
    <3>1. \/ Finalize(Completed("PENDING", "RECIPIENTS_PENDING", row.digest))
          \/ Finalize(Completed("FAILED", "UNEXPECTED_ERROR", row.digest))
      BY <1>3, <2>2 DEF Throws, Right, Finalize
    <3> QED BY <1>1, <1>3, <3>1, FinalRow DEF Codes
  <2>3. CASE Unsendable(w)
    <3>1. \/ Finalize(Completed("FAILED", "NO_RECIPIENTS", row.digest))
          \/ Finalize(Completed("FAILED", "NOT_RENDERED", row.digest))
      BY <1>4, <2>3 DEF Unsendable
    <3> QED BY <1>1, <1>3, <3>1, FinalRow DEF Codes
  <2>4. CASE GiveUp(w)
    <3>1. Finalize(Completed("PENDING", "MAIL_DELIVERY_UNCERTAIN", row.digest))
      BY <2>4 DEF GiveUp
    <3> QED BY <1>1, <1>3, <3>1, FinalRow DEF Codes
  <2>5. CASE Stops(w)
    BY <2>5 DEF Stops, IInv, TypeOK, RowIsTrue, True, observers
  <2> QED BY <2>1, <2>2, <2>3, <2>4, <2>5
<1> QED BY <1>1, <1>2, <1>5, NobodyLeft

\* The outcome written in the end is that of states which are true.
LEMMA CloseStep == ASSUME IInv, NEW w \in Worker, Close(w) PROVE IInv'
<1>1. UNCHANGED <<others, observers>> /\ Leaves(w) /\ Busy(w)
  BY DEF Close, others, Busy, Idle
<1>2. row.status = "PENDING" /\ Right(w)
  BY <1>1 DEF IInv, OwnerHoldsRow, OwnerIsRight
<1>3. worker[w].states \in Progress /\ True(worker[w].states)
  BY <1>2 DEF Right, Close
<1>4. IsCheckpoint(worker[w].states) /\ worker[w].states \in Digest /\ Masked \in Digest
  BY <1>3, ProgressFacts DEF IsCheckpoint, Digest
<1>5. \/ Finalize(Completed("PENDING", "RECIPIENTS_PENDING", worker[w].states))
      \/ Finalize(Completed("PENDING", "MAIL_DELIVERY_UNCERTAIN", worker[w].states))
      \/ Finalize(Completed("SENT", Null, Masked)) \/ Finalize(Completed("FAILED", Null, Masked))
  BY DEF Close, Outcome
<1>6. row' \in Rows /\ RowIsTrue'
  BY <1>1, <1>2, <1>3, <1>4, <1>5, FinalRow DEF Codes
<1> QED BY <1>1, <1>6, NobodyLeft

\* What is known of the owner before a step.
LEMMA OwnerFacts ==
  ASSUME IInv, NEW w \in Worker, Busy(w)
  PROVE  /\ worker[w] \in Workers /\ worker \in [Worker -> Workers]
         /\ row \in Rows /\ row.status = "PENDING" /\ row.active /\ row.age \in 0..Stale + 1
         /\ row.digest \in Digest /\ row.digest # Masked
         /\ copies \in [Recipient -> Nat] /\ tried \subseteq Recipient
         /\ Right(w) /\ RowIsTrue /\ CopiesTried
<1>1. worker[w] \in Workers /\ worker \in [Worker -> Workers]
  BY DEF IInv, TypeOK
<1>2. /\ row \in Rows /\ row.status = "PENDING" /\ row.active /\ row.age \in 0..Stale + 1
      /\ row.digest \in Digest /\ row.digest # Masked
  BY DEF IInv, OwnerHoldsRow, TypeOK, Rows, RowIsTrue
<1> QED BY <1>1, <1>2 DEF IInv, TypeOK, OwnerIsRight

\* Truth is about what was done: it does not change while nobody mails.
LEMMA StillTrue == ASSUME UNCHANGED observers, NEW s, True(s) PROVE
  /\ tried' \subseteq DOMAIN s
  /\ \A r \in DOMAIN s :
       /\ s[r] = "untried" => r \notin tried'
       /\ s[r] = "sent" => copies'[r] = 1
       /\ s[r] = "refused" => copies'[r] = 0
BY DEF True, observers

LEMMA BeforeFirstMail ==
  ASSUME IInv, NEW w \in Worker, StillDue(w) \/ Resolve(w) \/ TakeUp(w) PROVE IInv'
<1>1. Busy(w) /\ UNCHANGED <<others, row, observers>>
  BY DEF StillDue, Resolve, TakeUp, Busy, Idle, others
<1>2. CASE StillDue(w)
  <2>1. GoesOn(w) /\ worker'[w].phase = "owned"
    BY <1>1, <1>2, OwnerFacts DEF StillDue, GoesOn, Workers, Phase
  <2>2. Right(w)'
    BY <1>1, <1>2, <2>1, OwnerFacts DEF Right, StillDue, GoesOn
  <2> QED BY <1>1, <2>1, <2>2, OwnerThinks
<1>3. CASE Resolve(w)
  <2> DEFINE new == [r \in people |-> "untried"]
  <2>1. new \in Progress /\ Untouched(new)
    BY ProgressFacts DEF Untouched, State, IInv, TypeOK
  <2> HIDE DEF new
  <2>2. worker' = [worker EXCEPT ![w].phase = "resolved", ![w].states = new]
    BY <1>3 DEF Resolve, new
  <2>3. GoesOn(w) /\ worker'[w].phase = "resolved" /\ worker'[w].states = new
    <3>1. worker \in [Worker -> Workers] /\ worker[w] \in Workers
      BY <1>1, OwnerFacts
    <3> DEFINE after == [worker[w] EXCEPT !.phase = "resolved", !.states = new]
    <3>2. worker' = [worker EXCEPT ![w] = after]
      BY <2>2, <3>1
    <3>3. /\ after \in Workers /\ after.phase = "resolved" /\ after.states = new
          /\ after.left = worker[w].left /\ after.reclaimed = worker[w].reclaimed
      BY <2>1, <3>1 DEF Workers, Phase
    <3> HIDE DEF after
    <3> QED BY <3>1, <3>2, <3>3, MovesOn
  <2>4. Right(w)'
    BY <1>1, <1>3, <2>1, <2>3, OwnerFacts DEF Right, Resolve, GoesOn
  <2> QED BY <1>1, <2>3, <2>4, OwnerThinks
<1>4. CASE TakeUp(w)
  <2>1. PICK new : new = IF IsCheckpoint(row.digest) /\ DOMAIN row.digest = DOMAIN worker[w].states
                         THEN row.digest ELSE worker[w].states
    OBVIOUS
  <2>2. worker[w].states \in Progress /\ Untouched(worker[w].states)
    BY <1>1, <1>4, OwnerFacts DEF Right, TakeUp
  <2>3. new \in Progress
    BY <1>1, <2>1, <2>2, OwnerFacts DEF Digest, IsCheckpoint
  <2>4. True(new)
    <3>1. CASE IsCheckpoint(row.digest) /\ DOMAIN row.digest = DOMAIN worker[w].states
      BY <1>1, <2>1, <3>1, OwnerFacts DEF RowIsTrue
    <3>2. CASE ~(IsCheckpoint(row.digest) /\ DOMAIN row.digest = DOMAIN worker[w].states)
      <4>1. tried = {}
        <5>1. CASE ~IsCheckpoint(row.digest)
          BY <1>1, <5>1, OwnerFacts DEF IsCheckpoint, RowIsTrue
        <5>2. CASE IsCheckpoint(row.digest)
          <6>1. Untouched(row.digest)
            BY <1>4, <3>2, <5>2 DEF TakeUp, Doubtful
          <6> QED BY <1>1, <5>2, <6>1, OwnerFacts DEF RowIsTrue, True, Untouched
        <5> QED BY <5>1, <5>2
      <4> QED BY <2>1, <2>2, <3>2, <4>1 DEF True, Untouched
    <3> QED BY <3>1, <3>2
  <2>5. worker' = [worker EXCEPT ![w].phase = "next", ![w].states = new]
    BY <1>1, <1>4, <2>1, OwnerFacts DEF TakeUp, Workers
  <2>6. GoesOn(w) /\ worker'[w].phase = "next" /\ worker'[w].states = new
    BY <1>1, <2>3, <2>5, OwnerFacts DEF GoesOn, Workers, Phase
  <2>7. Right(w)'
    BY <1>1, <2>3, <2>4, <2>6, StillTrue DEF Right, True
  <2> QED BY <1>1, <2>6, <2>7, OwnerThinks
<1> QED BY <1>2, <1>3, <1>4

\* A checkpoint written on the way keeps the row with its owner.
LEMMA CheckpointRow ==
  ASSUME IInv, NEW w \in Worker, Busy(w), NEW s \in Progress, True(s), UNCHANGED observers,
         row' = Checkpoint(s) \/ UNCHANGED row
  PROVE  row' \in Rows /\ row'.status = "PENDING" /\ row'.active /\ row'.age = row.age /\ RowIsTrue'
<1>1. CASE UNCHANGED row
  BY <1>1, OwnerFacts DEF RowIsTrue, True, observers
<1>2. CASE row' = Checkpoint(s)
  <2>1. IsCheckpoint(s) /\ s \in Digest
    BY ProgressFacts DEF IsCheckpoint, Digest
  <2>2. row' \in Rows
    BY <1>2, <2>1, OwnerFacts, RowType DEF Checkpoint, Codes
  <2>3. row'.digest = s /\ row'.status = "PENDING" /\ row'.active /\ row'.age = row.age
    BY <1>2 DEF Checkpoint, Row
  <2>4. RowIsTrue'
    BY <2>1, <2>3, StillTrue DEF RowIsTrue, True, IsCheckpoint
  <2> QED BY <2>2, <2>3, <2>4
<1> QED BY <1>1, <1>2

\* In doubt about one recipient more, the states stay true.
LEMMA MarkedTrue ==
  ASSUME IInv, NEW w \in Worker, worker[w].phase = "next", NEW r \in Untried(w)
  PROVE  LET s == MarkBefore(w, r) IN
         /\ worker[w].states \in Progress /\ True(worker[w].states)
         /\ s \in Progress /\ True(s) /\ r \in DOMAIN s /\ s[r] = "uncertain"
         /\ r \in Recipient /\ r \notin tried
<1>1. worker[w].states \in Progress /\ True(worker[w].states)
  BY DEF IInv, OwnerIsRight, Right
<1>2. r \in DOMAIN worker[w].states /\ worker[w].states[r] = "untried"
  BY DEF Untried
<1>3. MarkBefore(w, r) \in Progress
  BY <1>1, <1>2, ProgressFacts DEF MarkBefore, Marked, State
<1>4. /\ DOMAIN MarkBefore(w, r) = DOMAIN worker[w].states /\ MarkBefore(w, r)[r] = "uncertain"
      /\ \A q \in DOMAIN worker[w].states : q # r => MarkBefore(w, r)[q] = worker[w].states[q]
  BY <1>1, <1>2, ProgressFacts DEF MarkBefore, Marked
<1>5. True(MarkBefore(w, r))
  BY <1>1, <1>4 DEF True
<1> QED BY <1>1, <1>2, <1>3, <1>4, <1>5, ProgressFacts DEF True

LEMMA MarkStep ==
  ASSUME IInv, NEW w \in Worker, NEW r \in Recipient, Mark(w, r) \/ MarkFails(w, r) PROVE IInv'
<1>1. Busy(w) /\ UNCHANGED <<others, observers>> /\ worker[w].phase = "next" /\ r \in Untried(w)
  BY DEF Mark, MarkFails, Busy, Idle, others
<1>2. PICK s : s = MarkBefore(w, r)
  OBVIOUS
<1>3. /\ worker[w].states \in Progress /\ True(worker[w].states)
      /\ s \in Progress /\ True(s) /\ r \in DOMAIN s /\ s[r] = "uncertain" /\ r \notin tried
  BY <1>1, <1>2, MarkedTrue
<1>4. row' = Checkpoint(s) \/ UNCHANGED row
  BY <1>2 DEF Mark, MarkFails
<1>5. row' \in Rows /\ row'.status = "PENDING" /\ row'.active /\ row'.age = row.age /\ RowIsTrue'
  BY <1>1, <1>3, <1>4, CheckpointRow
<1>6. copies' \in [Recipient -> Nat] /\ tried' \subseteq Recipient /\ CopiesTried'
  BY <1>1, OwnerFacts DEF CopiesTried, observers
<1>7. GoesOn(w) /\ Right(w)'
  <2>1. CASE Mark(w, r)
    <3>1. worker' = [worker EXCEPT ![w].phase = "marked", ![w].at = r, ![w].states = s]
      BY <1>2, <2>1 DEF Mark
    <3>2. /\ GoesOn(w)
          /\ worker'[w].phase = "marked" /\ worker'[w].at = r /\ worker'[w].states = s
      BY <1>1, <1>3, <3>1, OwnerFacts DEF GoesOn, Workers, Phase
    <3>3. row'.digest = s /\ IsCheckpoint(s)
      BY <1>2, <1>3, <2>1, ProgressFacts DEF Mark, Checkpoint, Row, IsCheckpoint
    <3>4. tried' = tried
      BY <1>1 DEF observers
    <3> QED BY <1>1, <1>3, <3>2, <3>3, <3>4, StillTrue DEF Right, True, IsCheckpoint
  <2>2. CASE MarkFails(w, r)
    <3>1. GoesOn(w) /\ worker'[w].phase = "closing" /\ worker'[w].states = worker[w].states
      BY <1>1, <2>2, OwnerFacts DEF MarkFails, GoesOn, Workers, Phase
    <3> QED BY <1>1, <1>3, <3>1, StillTrue DEF Right, True
  <2> QED BY <2>1, <2>2
<1>8. UNCHANGED others
  BY <1>1
<1> QED BY <1>1, <1>5, <1>6, <1>7, <1>8, OwnerGoesOn

LEMMA ClosingStep ==
  ASSUME IInv, NEW w \in Worker, TimeIsUp(w) \/ AllTried(w) PROVE IInv'
<1>1. Busy(w) /\ UNCHANGED <<others, row, observers>> /\ worker[w].phase \in {"next", "marked"}
  BY DEF TimeIsUp, AllTried, Busy, Idle, others
<1>2. worker[w].states \in Progress /\ True(worker[w].states)
  BY <1>1, OwnerFacts DEF Right
<1>3. PICK s \in Progress :
        True(s) /\ worker' = [worker EXCEPT ![w].phase = "closing", ![w].states = s]
  <2>1. CASE worker' = [worker EXCEPT ![w].phase = "closing"]
    <3>1. worker' = [worker EXCEPT ![w].phase = "closing", ![w].states = worker[w].states]
      BY <1>1, <2>1, OwnerFacts DEF Workers
    <3> QED BY <1>2, <3>1
  <2>2. CASE /\ worker[w].phase = "marked"
             /\ worker' = [worker EXCEPT ![w].phase = "closing",
                                         ![w].states = Marked(w, worker[w].at, "untried")]
    <3>1. worker[w].at \in DOMAIN worker[w].states /\ worker[w].at \notin tried
      BY <1>1, <2>2, OwnerFacts DEF Right
    <3>2. Marked(w, worker[w].at, "untried") \in Progress
      BY <1>2, <3>1, ProgressFacts DEF Marked, State
    <3>3. True(Marked(w, worker[w].at, "untried"))
      BY <1>2, <3>1, ProgressFacts DEF Marked, True
    <3> QED BY <2>2, <3>2, <3>3
  <2> QED BY <2>1, <2>2 DEF TimeIsUp, AllTried
<1>4. GoesOn(w) /\ worker'[w].phase = "closing" /\ worker'[w].states = s
  BY <1>1, <1>3, OwnerFacts DEF GoesOn, Workers, Phase
<1>5. Right(w)'
  <2>1. UNCHANGED observers
    BY <1>1
  <2>2. /\ tried' \subseteq DOMAIN s
        /\ \A r \in DOMAIN s :
             /\ s[r] = "untried" => r \notin tried'
             /\ s[r] = "sent" => copies'[r] = 1
             /\ s[r] = "refused" => copies'[r] = 0
    BY <1>3, <2>1, StillTrue
  <2> QED BY <1>4, <2>2 DEF Right, True
<1> QED BY <1>1, <1>4, <1>5, OwnerThinks

\* What SMTP does with the mail of a recipient who was marked before: nobody had
\* mailed him, so that he has one copy now, or none.
LEMMA SendStep == ASSUME IInv, NEW w \in Worker, Send(w) PROVE IInv'
<1>1. Busy(w) /\ UNCHANGED <<others, row>> /\ worker[w].phase = "marked"
  BY DEF Send, Busy, Idle, others
<1>2. PICK r : r = worker[w].at
  OBVIOUS
<1>3. /\ worker[w].states \in Progress /\ True(worker[w].states) /\ worker[w].states = row.digest
      /\ r \in DOMAIN row.digest /\ row.digest[r] = "uncertain" /\ IsCheckpoint(row.digest)
      /\ r \notin tried /\ r \in Recipient
  BY <1>1, <1>2, OwnerFacts, ProgressFacts DEF Right
<1>4. PICK accepted \in BOOLEAN, heard \in BOOLEAN :
        LET state == IF ~heard THEN "uncertain" ELSE IF accepted THEN "sent" ELSE "refused"
        IN  /\ worker' = [worker EXCEPT ![w].phase = "told", ![w].states = Marked(w, r, state),
                                        ![w].escaped = @ \/ ~heard]
            /\ copies' = [copies EXCEPT ![r] = IF accepted THEN @ + 1 ELSE @]
            /\ tried' = tried \cup {r}
  BY <1>2 DEF Send
<1>5. PICK s : s = Marked(w, r, IF ~heard THEN "uncertain" ELSE IF accepted THEN "sent" ELSE "refused")
  OBVIOUS
<1>6. s \in Progress /\ DOMAIN s = DOMAIN row.digest
  <2>1. (IF ~heard THEN "uncertain" ELSE IF accepted THEN "sent" ELSE "refused") \in State
    BY DEF State
  <2> QED BY <1>3, <1>5, <2>1, ProgressFacts DEF Marked
<1>7. /\ s[r] = IF ~heard THEN "uncertain" ELSE IF accepted THEN "sent" ELSE "refused"
      /\ \A q \in DOMAIN s : q # r => s[q] = row.digest[q]
  BY <1>3, <1>5, <1>6, ProgressFacts DEF Marked
<1>8. copies[r] = 0 /\ copies \in [Recipient -> Nat]
  BY <1>1, <1>3, OwnerFacts DEF CopiesTried
<1>9. /\ copies'[r] = IF accepted THEN 1 ELSE 0
      /\ \A q \in Recipient : q # r => copies'[q] = copies[q]
      /\ tried' = tried \cup {r}
  BY <1>3, <1>4, <1>8
<1>10. copies' \in [Recipient -> Nat] /\ tried' \subseteq Recipient /\ CopiesTried'
  <2>1. copies' \in [Recipient -> Nat]
    <3>1. copies' = [copies EXCEPT ![r] = IF accepted THEN 1 ELSE 0]
      BY <1>3, <1>4, <1>8
    <3> QED BY <1>3, <1>8, <3>1
  <2>2. CopiesTried'
    BY <1>1, <1>9, OwnerFacts DEF CopiesTried
  <2> QED BY <1>1, <1>3, <1>9, <2>1, <2>2, OwnerFacts
<1>11. DOMAIN row.digest \subseteq Recipient
  BY <1>3, ProgressFacts
<1>12. True(row.digest)'
  BY <1>1, <1>3, <1>9, <1>11 DEF True
<1>13. GoesOn(w) /\ worker'[w].phase = "told" /\ worker'[w].states = s /\ worker'[w].at = r
  <2>1. worker' = [worker EXCEPT ![w].phase = "told", ![w].states = s, ![w].escaped = @ \/ ~heard]
    BY <1>4, <1>5
  <2>2. worker \in [Worker -> Workers] /\ worker[w] \in Workers /\ worker[w].at = r
    BY <1>1, <1>2, OwnerFacts
  <2>3. PICK escaped \in BOOLEAN : escaped = (worker[w].escaped \/ ~heard)
    BY <2>2 DEF Workers
  <2> DEFINE after == [worker[w] EXCEPT !.phase = "told", !.states = s, !.escaped = escaped]
  <2>4. worker' = [worker EXCEPT ![w] = after]
    BY <2>1, <2>2, <2>3
  <2>5. /\ after \in Workers /\ after.phase = "told" /\ after.states = s /\ after.at = r
        /\ after.left = worker[w].left /\ after.reclaimed = worker[w].reclaimed
    BY <1>6, <2>2 DEF Workers, Phase
  <2> HIDE DEF after
  <2> QED BY <2>2, <2>4, <2>5, MovesOn
<1>14. /\ tried' \subseteq DOMAIN s
       /\ \A q \in DOMAIN s :
            /\ s[q] = "untried" => q \notin tried'
            /\ s[q] = "sent" => copies'[q] = 1
            /\ s[q] = "refused" => copies'[q] = 0
  BY <1>3, <1>6, <1>7, <1>9, <1>11 DEF True
<1>15. Right(w)'
  BY <1>1, <1>3, <1>6, <1>13, <1>14 DEF Right, True, IsCheckpoint
<1>16. RowIsTrue'
  BY <1>1, <1>3, <1>12, OwnerFacts DEF RowIsTrue, IsCheckpoint
<1>17. row' \in Rows /\ row'.status = "PENDING" /\ row'.active /\ row'.age = row.age
  BY <1>1, OwnerFacts
<1>18. UNCHANGED others
  BY <1>1
<1> QED BY <1>1, <1>10, <1>13, <1>15, <1>16, <1>17, <1>18, OwnerGoesOn

LEMMA ReportStep == ASSUME IInv, NEW w \in Worker, Report(w) \/ ReportFails(w) PROVE IInv'
<1>1. Busy(w) /\ UNCHANGED <<others, observers>> /\ worker[w].phase = "told"
  BY DEF Report, ReportFails, Busy, Idle, others
<1>2. worker[w].states \in Progress /\ True(worker[w].states)
  BY <1>1, OwnerFacts DEF Right
<1>3. row' = Checkpoint(worker[w].states) \/ UNCHANGED row
  BY DEF Report, ReportFails
<1>4. row' \in Rows /\ row'.status = "PENDING" /\ row'.active /\ row'.age = row.age /\ RowIsTrue'
  BY <1>1, <1>2, <1>3, CheckpointRow
<1>5. copies' \in [Recipient -> Nat] /\ tried' \subseteq Recipient /\ CopiesTried'
  BY <1>1, OwnerFacts DEF CopiesTried, observers
<1>6. GoesOn(w) /\ worker'[w].phase \in {"next", "closing"} /\ worker'[w].states = worker[w].states
  <2>1. worker \in [Worker -> Workers] /\ worker[w] \in Workers
    BY OwnerFacts, <1>1
  <2>3. CASE Report(w)
    <3> DEFINE after == [worker[w] EXCEPT !.phase = "next", !.at = Null]
    <3>1. worker' = [worker EXCEPT ![w] = after]
      BY <2>1, <2>3 DEF Report
    <3>2. /\ after \in Workers /\ after.phase = "next" /\ after.states = worker[w].states
          /\ after.left = worker[w].left /\ after.reclaimed = worker[w].reclaimed
      BY <2>1 DEF Workers, Phase
    <3> HIDE DEF after
    <3> QED BY <2>1, <3>1, <3>2, MovesOn
  <2>4. CASE ReportFails(w)
    <3> DEFINE after == [worker[w] EXCEPT !.phase = "closing", !.escaped = TRUE]
    <3>1. worker' = [worker EXCEPT ![w] = after]
      BY <2>1, <2>4 DEF ReportFails
    <3>2. /\ after \in Workers /\ after.phase = "closing" /\ after.states = worker[w].states
          /\ after.left = worker[w].left /\ after.reclaimed = worker[w].reclaimed
      BY <2>1 DEF Workers, Phase
    <3> HIDE DEF after
    <3> QED BY <2>1, <3>1, <3>2, MovesOn
  <2> QED BY <2>3, <2>4
<1>7. Right(w)'
  BY <1>1, <1>2, <1>6, StillTrue DEF Right, True
<1>8. UNCHANGED others
  BY <1>1
<1> QED BY <1>1, <1>4, <1>5, <1>6, <1>7, <1>8, OwnerGoesOn

\* Time passes for the owner and for his row alike.
LEMMA TickStep == ASSUME IInv, Tick PROVE IInv'
<1>1. UNCHANGED <<others, observers>> /\ worker \in [Worker -> Workers] /\ row \in Rows
  BY DEF Tick, others, IInv, TypeOK
<1>2. \A w \in Worker : worker'[w] = IF Busy(w) THEN [worker[w] EXCEPT !.left = @ - 1] ELSE Idle
  BY DEF Tick, Busy
<1>3. /\ row' \in Rows /\ row'.status = row.status /\ row'.active = row.active
      /\ row'.digest = row.digest /\ row'.code = row.code
      /\ row'.age = UpTo(row.age, Stale + 1)
  <2>1. \A limit \in Nat : \A n \in 0..limit : UpTo(n, limit) \in 0..limit
    BY DEF UpTo
  <2>2. row.age \in 0..Stale + 1 /\ row.rest \in 0..Window + 1
    BY <1>1 DEF Rows
  <2>3. UpTo(row.age, Stale + 1) \in 0..Stale + 1 /\ UpTo(row.rest, Window + 1) \in 0..Window + 1
    BY <2>1, <2>2, TimeAssumption
  <2>4. row' = [row EXCEPT !.age = UpTo(@, Stale + 1), !.rest = UpTo(@, Window + 1)]
    BY DEF Tick
  <2> QED BY <1>1, <2>3, <2>4 DEF Rows
<1>4. ASSUME NEW w \in Worker, Busy(w)
      PROVE  /\ worker'[w] \in Workers /\ Busy(w)' /\ worker'[w].phase # "idle"
             /\ worker'[w].phase = worker[w].phase /\ worker'[w].states = worker[w].states
             /\ worker'[w].reclaimed = worker[w].reclaimed /\ worker'[w].at = worker[w].at
             /\ row.status = "PENDING" /\ row.active /\ row'.age + worker'[w].left = RoundLimit
  <2>1. worker[w].left > 0 /\ worker[w].left \in 0..RoundLimit /\ worker[w] \in Workers
    BY <1>1, <1>4 DEF Tick, Busy, Workers
  <2>2. /\ worker[w].phase # "idle" /\ row.status = "PENDING" /\ row.active
        /\ row.age + worker[w].left = RoundLimit
    BY <1>4 DEF IInv, OwnerHoldsRow
  <2>3. worker[w].left - 1 \in 0..RoundLimit
    BY <2>1, TimeAssumption
  <2>4. /\ worker'[w] \in Workers /\ worker'[w].left = worker[w].left - 1
        /\ worker'[w].phase = worker[w].phase /\ worker'[w].states = worker[w].states
        /\ worker'[w].reclaimed = worker[w].reclaimed /\ worker'[w].at = worker[w].at
    BY <1>2, <1>4, <2>1, <2>3 DEF Workers
  <2>5. row.age \in Nat
    BY <1>1 DEF Rows
  <2>6. row'.age = row.age + 1
    BY <1>3, <2>1, <2>2, <2>5, TimeAssumption DEF UpTo
  <2> QED BY <2>1, <2>2, <2>4, <2>5, <2>6, TimeAssumption DEF Busy, Idle
<1>5. TypeOK'
  <2>1. Idle \in Workers
    BY TimeAssumption DEF Idle, Workers, Phase
  <2>2. worker' \in [Worker -> Workers]
    BY <1>2, <1>4, <2>1 DEF Tick
  <2> QED BY <1>1, <1>3, <2>2 DEF IInv, TypeOK, others, observers
<1>6. OneOwner'
  BY <1>2 DEF IInv, OneOwner, Busy
<1>7. OwnerHoldsRow'
  BY <1>2, <1>3, <1>4 DEF OwnerHoldsRow, Busy
<1>8. RowIsTrue'
  BY <1>1, <1>3, StillTrue DEF IInv, RowIsTrue, True, IsCheckpoint, observers
<1>9. OwnerIsRight'
  <2> SUFFICES ASSUME NEW w \in Worker PROVE Right(w)'
    BY DEF OwnerIsRight
  <2>1. CASE Busy(w)
    <3>1. Right(w)
      BY DEF IInv, OwnerIsRight
    <3> QED BY <1>1, <1>3, <1>4, <2>1, <3>1, StillTrue DEF Right, True, IsCheckpoint, observers
  <2>2. CASE ~Busy(w)
    <3>1. worker'[w] = Idle
      BY <1>2, <2>2
    <3>2. worker'[w].phase = "idle"
      BY <3>1 DEF Idle
    <3> QED BY <3>2 DEF Right
  <2> QED BY <2>1, <2>2
<1>10. CopiesTried'
  BY <1>1 DEF IInv, CopiesTried, observers
<1> QED BY <1>5, <1>6, <1>7, <1>8, <1>9, <1>10 DEF IInv

\* Neither a change of the task nor a stuttering step touches the reminder.
LEMMA OutsideStep == ASSUME IInv, Change \/ UNCHANGED vars PROVE IInv'
<1>1. UNCHANGED <<kind, row, worker, observers>>
  BY DEF Change, vars, observers
<1>2. people' \subseteq Recipient /\ eligible' \in BOOLEAN /\ changes' \in 0..MaxChanges
  <2>1. people \subseteq Recipient /\ eligible \in BOOLEAN /\ changes \in 0..MaxChanges
    BY DEF IInv, TypeOK
  <2>2. CASE Change
    <3>1. people' \subseteq Recipient /\ eligible' \in BOOLEAN
      BY <2>1, <2>2 DEF Change
    <3>2. changes' \in 0..MaxChanges
      BY <2>1, <2>2, TimeAssumption DEF Change
    <3> QED BY <3>1, <3>2
  <2>3. CASE UNCHANGED vars
    BY <2>1, <2>3 DEF vars
  <2> QED BY <2>2, <2>3
<1>3. TypeOK'
  BY <1>1, <1>2 DEF IInv, TypeOK, observers
<1>4. OneOwner' /\ OwnerHoldsRow' /\ CopiesTried'
  BY <1>1 DEF IInv, OneOwner, OwnerHoldsRow, CopiesTried, Busy, observers
<1>5. RowIsTrue'
  BY <1>1, StillTrue DEF IInv, RowIsTrue, True, observers
<1>6. OwnerIsRight'
  <2> SUFFICES ASSUME NEW w \in Worker PROVE Right(w)'
    BY DEF OwnerIsRight
  <2>1. Right(w)
    BY DEF IInv, OwnerIsRight
  <2> QED BY <1>1, <2>1, StillTrue DEF Right, True, observers
<1> QED BY <1>3, <1>4, <1>5, <1>6 DEF IInv

LEMMA NextRight == IInv /\ [Next]_vars => IInv'
<1> SUFFICES ASSUME IInv, [Next]_vars PROVE IInv'
  OBVIOUS
<1>1. CASE \E w \in Worker : Claim(w) \/ Ask(w)
  BY <1>1, ClaimStep
<1>2. CASE \E w \in Worker : Delivery(w)
  <2>1. PICK w \in Worker : Delivery(w)
    BY <1>2
  <2>2. CASE NoLongerDue(w) \/ Unsendable(w) \/ GiveUp(w)
    BY <2>2, LeavesStep
  <2>3. CASE StillDue(w) \/ Resolve(w) \/ TakeUp(w)
    BY <2>3, BeforeFirstMail
  <2>4. CASE \E r \in Recipient : Mark(w, r) \/ MarkFails(w, r)
    BY <2>4, MarkStep
  <2>5. CASE TimeIsUp(w) \/ AllTried(w)
    BY <2>5, ClosingStep
  <2>6. CASE Send(w)
    BY <2>6, SendStep
  <2>7. CASE Report(w) \/ ReportFails(w)
    BY <2>7, ReportStep
  <2>8. CASE Close(w)
    BY <2>8, CloseStep
  <2> QED BY <2>1, <2>2, <2>3, <2>4, <2>5, <2>6, <2>7, <2>8 DEF Delivery
<1>3. CASE \E w \in Worker : Throws(w) \/ Stops(w)
  BY <1>3, LeavesStep
<1>4. CASE Change \/ UNCHANGED vars
  BY <1>4, OutsideStep
<1>5. CASE Tick
  BY <1>5, TickStep
<1> QED BY <1>1, <1>2, <1>3, <1>4, <1>5 DEF Next

\* The reminder has one owner at most, who knows what was done, and a row that tells
\* the truth about it: reminderService.js:155-233.
THEOREM IInvHolds == Spec => []IInv
BY InitRight, NextRight, PTL DEF Spec

(***************************************************************************)
(* The properties                                                          *)
(***************************************************************************)
\* One reminder, one owner, one copy for each recipient, however many instances and
\* windows there are and wherever they stop: reminderService.js:155-169.
THEOREM OneDelivery == Spec => []DeliveredOnce
<1>1. IInv => DeliveredOnce
  BY DEF IInv, DeliveredOnce, NoSecondCopy, CopiesTried
<1> QED BY <1>1, IInvHolds, PTL

\* What the next owner resumes from is true (the checkpoints of reminderService.js:166-196).
THEOREM TrueCheckpoint == Spec => []CheckpointIsTrue
<1>1. IInv => CheckpointIsTrue
  BY DEF IInv, RowIsTrue, CheckpointIsTrue, True
<1> QED BY <1>1, IInvHolds, PTL

\* A row becomes SENT only in the hands of an owner who closes it with true states.
LEMMA SentByClose ==
  ASSUME IInv, [Next]_vars, row'.status = "SENT", row.status # "SENT"
  PROVE  \E w \in Worker : Close(w) /\ ~In(worker[w].states, "untried")
                           /\ ~In(worker[w].states, "uncertain")
<1>1. CASE \E w \in Worker : Close(w)
  <2>1. PICK w \in Worker : Close(w)
    BY <1>1
  <2>2. row' = Outcome(worker[w].states, worker[w].escaped)
    BY <2>1 DEF Close, Finalize
  <2> QED BY <2>1, <2>2 DEF Outcome, Completed, Row
<1>2. CASE \E w \in Worker : Claim(w) \/ Ask(w)
  <2>1. row'.status = "PENDING"
    <3>1. \E code \in Codes, digest \in Digest : row' = Row("PENDING", code, digest, TRUE, 0)
      BY <1>2 DEF Claim, Ask, Resumed, Codes, Digest, IInv, TypeOK, Rows
    <3> QED BY <3>1 DEF Row
  <2> QED BY <2>1
<1>3. CASE \E w \in Worker : NoLongerDue(w) \/ Unsendable(w) \/ GiveUp(w) \/ Throws(w)
  BY <1>3 DEF NoLongerDue, Unsendable, GiveUp, Throws, Finalize, Completed, Row
<1>4. CASE \E w \in Worker : \/ StillDue(w) \/ Resolve(w) \/ TakeUp(w) \/ TimeIsUp(w)
                             \/ Send(w) \/ AllTried(w) \/ Stops(w)
  BY <1>4 DEF StillDue, Resolve, TakeUp, TimeIsUp, Send, AllTried, Stops
<1>5. CASE \E w \in Worker : \/ \E r \in Recipient : Mark(w, r) \/ MarkFails(w, r)
                             \/ Report(w) \/ ReportFails(w)
  <2>1. PICK states : row' = Checkpoint(states) \/ UNCHANGED row
    BY <1>5 DEF Mark, MarkFails, Report, ReportFails
  <2>2. row' = Checkpoint(states) => row'.status = "PENDING"
    BY DEF Checkpoint, Row
  <2> QED BY <2>1, <2>2
<1>6. CASE Change \/ UNCHANGED vars
  BY <1>6 DEF Change, vars
<1>7. CASE Tick
  <2>1. row'.status = row.status
    BY <1>7 DEF Tick, IInv, TypeOK, Rows
  <2> QED BY <2>1
<1> QED BY <1>1, <1>2, <1>3, <1>4, <1>5, <1>6, <1>7 DEF Next, Delivery

\* A settled row is nobody's, and nothing but time touches it.
LEMMA SettledStep == ASSUME IInv, [Next]_vars, Settled
  PROVE Settled' /\ row'.status = row.status /\ row'.digest = row.digest /\ copies' = copies
<1>1. \A w \in Worker : ~Busy(w)
  BY DEF IInv, OwnerHoldsRow, Settled
<1>2. \A w \in Worker : worker[w].phase = "idle"
  BY <1>1 DEF Busy, Idle
<1>3. \A w \in Worker : ~Delivery(w) /\ ~Throws(w) /\ ~Stops(w)
  <2> SUFFICES ASSUME NEW w \in Worker PROVE ~Delivery(w) /\ ~Throws(w) /\ ~Stops(w)
    OBVIOUS
  <2>1. worker[w].phase = "idle"
    BY <1>2
  <2>2. ~Delivery(w)
    BY <2>1 DEF Delivery, NoLongerDue, StillDue, Unsendable, Resolve, GiveUp, TakeUp, Mark, MarkFails,
                TimeIsUp, Send, Report, ReportFails, AllTried, Close
  <2> QED BY <1>1, <2>1, <2>2 DEF Throws, Stops, Busy
<1>4. \A w \in Worker : ~Claim(w) /\ ~Ask(w)
  BY DEF Claim, Ask, Settled, LeftBehind
<1>5. CASE Change \/ UNCHANGED vars
  BY <1>5 DEF Change, vars, observers, Settled
<1>6. CASE Tick
  <2>1. /\ row'.status = row.status /\ row'.active = row.active
        /\ row'.digest = row.digest /\ row'.code = row.code
    BY <1>6 DEF Tick, IInv, TypeOK, Rows
  <2> QED BY <1>6, <2>1 DEF Settled, Tick, observers
<1> QED BY <1>3, <1>4, <1>5, <1>6 DEF Next

\* A reminder recorded as sent was sent, and what is settled stays as it is:
\* reminderService.js:201-233.
THEOREM FinalOutcome == Spec => OutcomeIsFinal
<1>1. ASSUME IInv, [Next]_vars
      PROVE  row'.status = "SENT" /\ row.status # "SENT" =>
               \E w \in Worker :
                 /\ Busy(w) /\ ~Busy(w)'
                 /\ \A r \in DOMAIN worker[w].states :
                      \/ worker[w].states[r] = "sent" /\ copies[r] = 1
                      \/ worker[w].states[r] = "refused" /\ copies[r] = 0
  <2> SUFFICES ASSUME row'.status = "SENT", row.status # "SENT"
               PROVE  \E w \in Worker :
                        /\ Busy(w) /\ ~Busy(w)'
                        /\ \A r \in DOMAIN worker[w].states :
                             \/ worker[w].states[r] = "sent" /\ copies[r] = 1
                             \/ worker[w].states[r] = "refused" /\ copies[r] = 0
    OBVIOUS
  <2>1. PICK w \in Worker : Close(w) /\ ~In(worker[w].states, "untried")
                            /\ ~In(worker[w].states, "uncertain")
    BY <1>1, SentByClose
  <2>2. Busy(w) /\ ~Busy(w)'
    BY <1>1, <2>1 DEF Close, Busy, Idle, Leaves, IInv, TypeOK
  <2>3. worker[w].states \in Progress /\ True(worker[w].states)
    BY <1>1, <2>1 DEF Close, IInv, OwnerIsRight, Right
  <2>4. \A r \in DOMAIN worker[w].states : worker[w].states[r] \in {"sent", "refused"}
    BY <2>1, <2>3, ProgressFacts DEF In, State
  <2> QED BY <2>2, <2>3, <2>4 DEF True
<1>2. Spec => SentIsTrue
  BY <1>1, IInvHolds, PTL DEF Spec, SentIsTrue
<1>3. ASSUME IInv, [Next]_vars
      PROVE  Settled => Settled' /\ row'.status = row.status /\ row'.digest = row.digest /\ copies' = copies
  BY <1>3, SettledStep
<1>4. Spec => SettledForGood
  BY <1>3, IInvHolds, PTL DEF Spec, SettledForGood
<1> QED BY <1>2, <1>4 DEF OutcomeIsFinal

(***************************************************************************)
(* The requests about a task                                               *)
(***************************************************************************)
\* The records that say somebody was made responsible.
InForce == {"APPROVED", "CANCELLATION_REQUESTED"}

\* The records of one person: told apart by their id, one open, one in force.
Sound(records) ==
  /\ records \in SUBSET Record /\ IsFiniteSet(records)
  /\ \A r, s \in records :
       /\ r.id = s.id => r = s
       /\ r.status \in Open /\ s.status \in Open => r = s
       /\ r.status \in InForce /\ s.status \in InForce => r = s

RecordsSound == \A p \in Person : Sound(coordination[p])

\* Whom a save was begun against is who is responsible when it is written.
ReadIsCurrent ==
  task # "deleted" => \A e \in current : editor[e].phase = "saving" => editor[e].read = assignees

RequestInv ==
  /\ RequestTypeOK /\ RecordsSound /\ OpenRecordsAgree
  /\ VersionNamesTask /\ ReadIsCurrent

(***************************************************************************)
(* The records of one person                                               *)
(***************************************************************************)
\* Among one id more than there are records one is free, so that a new record gets
\* an id of its own.
LEMMA NewIdIsFree ==
  ASSUME NEW records, IsFiniteSet(records)
  PROVE  NewId(records) \in Nat /\ \A r \in records : r.id # NewId(records)
<1> DEFINE Ids == 1..Cardinality(records) + 1
<1>1. Cardinality(records) \in Nat
  BY FS_CardinalityType
<1>2. IsFiniteSet(Ids) /\ Cardinality(Ids) = Cardinality(records) + 1
  BY <1>1, FS_Interval
<1>3. \E n \in Ids : \A r \in records : r.id # n
  <2> SUFFICES ASSUME \A n \in Ids : \E r \in records : r.id = n PROVE FALSE
    OBVIOUS
  <2> DEFINE holder == [n \in Ids |-> CHOOSE r \in records : r.id = n]
  <2>1. \A n \in Ids : holder[n] \in records /\ holder[n].id = n
    OBVIOUS
  <2>2. holder \in [Ids -> records]
    BY <2>1
  <2> HIDE DEF holder, Ids
  <2>3. Cardinality(records) < Cardinality(Ids)
    BY <1>1, <1>2
  <2>4. \E m, n \in Ids : m # n /\ holder[m] = holder[n]
    BY <1>2, <2>2, <2>3, FS_PigeonHole
  <2> QED BY <2>1, <2>4
<1>4. NewId(records) \in Ids /\ \A r \in records : r.id # NewId(records)
  BY <1>3 DEF NewId, Cardinality, Cardinality
<1> QED BY <1>1, <1>4

\* Closing records leaves the others as they are.
LEMMA Fewer == ASSUME NEW records, Sound(records), NEW rest \in SUBSET records PROVE Sound(rest)
BY FS_Subset DEF Sound

\* A new record fits if its id is free and nothing it would compete with is left.
LEMMA OneMore ==
  ASSUME NEW records, Sound(records), NEW r \in Record,
         \A s \in records :
           /\ s.id # r.id
           /\ ~(r.status \in Open /\ s.status \in Open)
           /\ ~(r.status \in InForce /\ s.status \in InForce)
  PROVE  Sound(records \cup {r})
<1>1. IsFiniteSet(records \cup {r})
  BY FS_AddElement DEF Sound
<1> QED BY <1>1 DEF Sound

LEMMA RequestFits ==
  ASSUME NEW records, Sound(records), NEW original \in SUBSET Person, NEW siblings \in SUBSET Person
  PROVE  Sound(WithoutOpen(records) \cup {Pending(NewId(records), original, siblings)})
<1>1. Sound(WithoutOpen(records))
  BY Fewer DEF WithoutOpen
<1>2. NewId(records) \in Nat /\ \A r \in records : r.id # NewId(records)
  BY NewIdIsFree DEF Sound
<1>3. Pending(NewId(records), original, siblings) \in Record
  BY <1>2 DEF Pending, Record, Status, Open
<1> QED BY <1>1, <1>2, <1>3, OneMore DEF Pending, WithoutOpen, InForce

LEMMA NoticeFits ==
  ASSUME NEW records, Sound(records)
  PROVE  Sound(WithoutApproved(WithoutOpen(records)) \cup {Approved(NewId(records))})
<1>1. Sound(WithoutApproved(WithoutOpen(records)))
  BY Fewer DEF WithoutOpen, WithoutApproved
<1>2. NewId(records) \in Nat /\ \A r \in records : r.id # NewId(records)
  BY NewIdIsFree DEF Sound
<1>3. Approved(NewId(records)) \in Record
  BY <1>2 DEF Approved, Record, Status
<1> QED BY <1>1, <1>2, <1>3, OneMore DEF Approved, WithoutOpen, WithoutApproved, Open, InForce

LEMMA ApprovalFits ==
  ASSUME NEW records, Sound(records), NEW r \in records, r.status = "PENDING"
  PROVE  Sound(WithoutApproved(records \ {r}) \cup {Approved(r.id)})
<1>1. Sound(WithoutApproved(records \ {r}))
  BY Fewer DEF WithoutApproved
<1>2. \A s \in records \ {r} : s.id # r.id /\ s.status \notin Open
  BY DEF Sound, Open
<1>3. Approved(r.id) \in Record
  BY DEF Sound, Approved, Record, Status
<1> QED BY <1>1, <1>2, <1>3, OneMore DEF Approved, WithoutApproved, Open, InForce

\* A release that is asked for, or refused, takes the place of what is in force.
LEMMA StatusFits ==
  ASSUME NEW records, Sound(records), NEW r \in records, r.status \in InForce, NEW status \in InForce,
         \A s \in records : s.status # "PENDING"
  PROVE  Sound((records \ {r}) \cup {[r EXCEPT !.status = status]})
<1>1. Sound(records \ {r})
  BY Fewer
<1>2. \A s \in records \ {r} : s.id # r.id /\ s.status \notin InForce /\ s.status \notin Open
  BY DEF Sound, Open, InForce
<1>3. /\ [r EXCEPT !.status = status] \in Record
      /\ [r EXCEPT !.status = status].id = r.id /\ [r EXCEPT !.status = status].status = status
  BY DEF Sound, Record, Status, InForce, Open
<1> QED BY <1>1, <1>2, <1>3, OneMore

(***************************************************************************)
(* The steps                                                               *)
(***************************************************************************)
LEMMA RequestInitHolds == RequestInit => RequestInv
<1> SUFFICES ASSUME RequestInit PROVE RequestInv
  OBVIOUS
<1>1. /\ task \in {"live", "closed", "deleted"} /\ current \subseteq Editor /\ assignees \in SUBSET Person
      /\ dates \in Date /\ coordination \in [Person -> SUBSET Record]
      /\ schedule \in [Person -> SUBSET [original : Date, target : Date]]
  BY DEF RequestInit
<1>2. editor \in [Editor -> [phase : {"viewing", "saving"}, seen : SUBSET Person, plan : Date,
                             people : SUBSET Person, draft : Date, read : SUBSET Person]]
  BY DEF RequestInit, Shows
<1>3. RecordsSound
  <2>1. \A p \in Person : coordination[p] = {}
    BY DEF RequestInit
  <2>2. Sound({})
    BY FS_EmptySet DEF Sound
  <2> QED BY <2>1, <2>2 DEF RecordsSound
<1>4. OpenRecordsAgree
  BY DEF RequestInit, OpenRecordsAgree
<1>5. VersionNamesTask /\ ReadIsCurrent
  BY DEF RequestInit, VersionNamesTask, ReadIsCurrent, Shows
<1> QED BY <1>1, <1>2, <1>3, <1>4, <1>5 DEF RequestInv, RequestTypeOK

\* While the task and the windows stay as they are, so does what is known of them.
LEMMA WindowsKept ==
  ASSUME RequestInv, UNCHANGED <<current, assignees, dates, editor>>, task = "deleted" => task' = "deleted"
  PROVE  VersionNamesTask' /\ ReadIsCurrent'
BY DEF RequestInv, VersionNamesTask, ReadIsCurrent

\* When the version moves on, no window knows the task any more.
LEMMA NobodyCurrent == ASSUME Touched({}) PROVE VersionNamesTask' /\ ReadIsCurrent'
BY DEF Touched, VersionNamesTask, ReadIsCurrent

\* What becomes of the records of one person.
LEMMA OnePerson ==
  ASSUME RequestInv, NEW p \in Person, NEW records, Sound(records),
         coordination' = [coordination EXCEPT ![p] = records]
  PROVE  /\ coordination' \in [Person -> SUBSET Record] /\ RecordsSound'
         /\ coordination'[p] = records
         /\ \A q \in Person : q # p => coordination'[q] = coordination[q]
<1>1. coordination \in [Person -> SUBSET Record] /\ records \in SUBSET Record
  BY DEF RequestInv, RequestTypeOK, Sound
<1> QED BY <1>1 DEF RequestInv, RecordsSound

LEMMA RequestsStep == ASSUME RequestInv, NEW persons \in SUBSET Person, Requests(persons) PROVE RequestInv'
<1> DEFINE wanted == persons \ assignees
<1>1. UNCHANGED <<task, current, assignees, dates, schedule, editor>>
  BY DEF Requests
<1>2. \A p \in Person : coordination'[p] =
        IF p \in wanted
        THEN WithoutOpen(coordination[p])
               \cup {Pending(NewId(coordination[p]), assignees, wanted \ {p})}
        ELSE coordination[p]
  BY DEF Requests
<1>3. assignees \in SUBSET Person /\ \A p \in Person : wanted \ {p} \in SUBSET Person
  BY DEF RequestInv, RequestTypeOK
<1> HIDE DEF wanted
<1>4. RecordsSound'
  <2> SUFFICES ASSUME NEW p \in Person PROVE Sound(coordination'[p])
    BY DEF RecordsSound, Sound
  <2>1. Sound(coordination[p])
    BY DEF RequestInv, RecordsSound
  <2>2. CASE p \in wanted
    <3>1. coordination'[p] = WithoutOpen(coordination[p])
            \cup {Pending(NewId(coordination[p]), assignees, wanted \ {p})}
      BY <1>2, <2>2
    <3>2. Sound(WithoutOpen(coordination[p])
                  \cup {Pending(NewId(coordination[p]), assignees, wanted \ {p})})
      BY <1>3, <2>1, RequestFits
    <3> QED BY <3>1, <3>2
  <2>3. CASE p \notin wanted
    <3>1. coordination'[p] = coordination[p]
      BY <1>2, <2>3
    <3> QED BY <2>1, <3>1
  <2> QED BY <2>2, <2>3
<1>5. RequestTypeOK'
  <2>1. coordination' = [p \in Person |-> coordination'[p]]
    BY DEF Requests
  <2>2. \A p \in Person : coordination'[p] \in SUBSET Record
    BY <1>4 DEF RecordsSound, Sound
  <2>3. coordination' \in [Person -> SUBSET Record]
    BY <2>1, <2>2
  <2> QED BY <1>1, <2>3 DEF RequestInv, RequestTypeOK
<1>6. OpenRecordsAgree'
  <2> SUFFICES ASSUME task # "deleted", NEW p \in Person, NEW r \in coordination'[p]
               PROVE  /\ r.status = "PENDING" => p \notin assignees
                      /\ r.status = "CANCELLATION_REQUESTED" => p \in assignees
    BY <1>1 DEF OpenRecordsAgree
  <2>1. CASE r \in coordination[p]
    BY <2>1 DEF RequestInv, OpenRecordsAgree
  <2>2. CASE r \notin coordination[p]
    <3>1. p \in wanted
      BY <1>2, <2>2
    <3>2. r = Pending(NewId(coordination[p]), assignees, wanted \ {p})
      BY <1>2, <2>2, <3>1 DEF WithoutOpen
    <3>3. r.status = "PENDING" /\ p \notin assignees
      BY <3>1, <3>2 DEF Pending, wanted
    <3> QED BY <3>3
  <2> QED BY <2>1, <2>2
<1> QED BY <1>1, <1>4, <1>5, <1>6, WindowsKept DEF RequestInv

\* A decision whose record leaves makes nobody responsible and releases nobody.
LEMMA RecordSettledStep ==
  ASSUME RequestInv, NEW p \in Person, NEW r \in coordination[p], Declines(p, r) \/ FindsStale(p, r)
  PROVE  RequestInv'
<1>1. UNCHANGED <<task, current, assignees, dates, schedule, editor>> /\ IsSettled(p, r)
  BY DEF Declines, FindsStale
<1>2. Sound(coordination[p] \ {r})
  BY Fewer DEF RequestInv, RecordsSound
<1>3. coordination' = [coordination EXCEPT ![p] = coordination[p] \ {r}]
  BY <1>1 DEF IsSettled, RequestInv, RequestTypeOK
<1>4. /\ coordination' \in [Person -> SUBSET Record] /\ RecordsSound'
      /\ coordination'[p] = coordination[p] \ {r}
      /\ \A q \in Person : q # p => coordination'[q] = coordination[q]
  BY <1>2, <1>3, OnePerson
<1>5. RequestTypeOK'
  BY <1>1, <1>4 DEF RequestInv, RequestTypeOK
<1>6. OpenRecordsAgree'
  BY <1>1, <1>4 DEF RequestInv, OpenRecordsAgree
<1> QED BY <1>1, <1>4, <1>5, <1>6, WindowsKept DEF RequestInv

\* Who is responsible has no request that waits, so that there is no other open
\* record when his release is asked for, nor another approval when it is refused.
LEMMA StatusStep ==
  ASSUME RequestInv, NEW p \in Person, NEW r \in coordination[p], AsksToCancel(p, r) \/ KeepsAssigned(p, r)
  PROVE  RequestInv'
<1>1. UNCHANGED <<task, current, assignees, dates, schedule, editor>>
  BY DEF AsksToCancel, KeepsAssigned
<1>2. PICK status \in InForce :
        /\ Becomes(p, r, status) /\ r.status \in InForce
        /\ status = "CANCELLATION_REQUESTED" => p \in assignees
  BY DEF AsksToCancel, KeepsAssigned, InForce, Has
<1>3. Sound(coordination[p])
  BY DEF RequestInv, RecordsSound
<1>4. \A s \in coordination[p] : s.status # "PENDING"
  <2>1. CASE AsksToCancel(p, r)
    BY <2>1 DEF AsksToCancel, RequestInv, OpenRecordsAgree
  <2>2. CASE KeepsAssigned(p, r)
    BY <1>3, <2>2 DEF KeepsAssigned, Has, Sound, Open
  <2> QED BY <2>1, <2>2
<1>5. PICK records : records = (coordination[p] \ {r}) \cup {[r EXCEPT !.status = status]}
  OBVIOUS
<1>6. Sound(records)
  BY <1>2, <1>3, <1>4, <1>5, StatusFits
<1>7. coordination' = [coordination EXCEPT ![p] = records]
  BY <1>2, <1>5 DEF Becomes, RequestInv, RequestTypeOK
<1>8. /\ coordination' \in [Person -> SUBSET Record] /\ RecordsSound'
      /\ coordination'[p] = records
      /\ \A q \in Person : q # p => coordination'[q] = coordination[q]
  BY <1>6, <1>7, OnePerson
<1>9. RequestTypeOK'
  BY <1>1, <1>8 DEF RequestInv, RequestTypeOK
<1>10. OpenRecordsAgree'
  <2>1. [r EXCEPT !.status = status].status = status
    BY <1>3 DEF Sound, Record
  <2> QED BY <1>1, <1>2, <1>5, <1>8, <2>1 DEF RequestInv, OpenRecordsAgree, InForce
<1> QED BY <1>1, <1>8, <1>9, <1>10, WindowsKept DEF RequestInv

LEMMA ApprovesStep ==
  ASSUME RequestInv, NEW p \in Person, NEW r \in coordination[p], Approves(p, r) PROVE RequestInv'
<1>1. UNCHANGED <<task, dates, schedule, editor>> /\ Touched({}) /\ assignees' = assignees \cup {p}
  BY DEF Approves
<1>2. PICK records : records = WithoutApproved(coordination[p] \ {r}) \cup {Approved(r.id)}
  OBVIOUS
<1>3. Sound(coordination[p]) /\ r.status = "PENDING"
  BY DEF RequestInv, RecordsSound, Approves, Has
<1>4. Sound(records)
  BY <1>2, <1>3, ApprovalFits
<1>5. coordination' = [coordination EXCEPT ![p] = records]
  BY <1>2 DEF Approves, RequestInv, RequestTypeOK
<1>6. /\ coordination' \in [Person -> SUBSET Record] /\ RecordsSound'
      /\ coordination'[p] = records
      /\ \A q \in Person : q # p => coordination'[q] = coordination[q]
  BY <1>4, <1>5, OnePerson
<1>7. RequestTypeOK'
  BY <1>1, <1>6 DEF RequestInv, RequestTypeOK, Touched
<1>8. \A s \in records : s.status \notin Open
  BY <1>2, <1>3 DEF Sound, Open, WithoutApproved, Approved
<1>9. OpenRecordsAgree'
  BY <1>1, <1>6, <1>8 DEF RequestInv, OpenRecordsAgree, Open
<1> QED BY <1>1, <1>6, <1>7, <1>9, NobodyCurrent DEF RequestInv

LEMMA ReleasesStep ==
  ASSUME RequestInv, NEW p \in Person, NEW r \in coordination[p], Releases(p, r) PROVE RequestInv'
<1>1. UNCHANGED <<task, dates, schedule, editor>> /\ Touched({}) /\ assignees' = assignees \ {p}
  BY DEF Releases
<1>2. Sound(coordination[p]) /\ Sound(coordination[p] \ {r}) /\ r.status = "CANCELLATION_REQUESTED"
  BY Fewer DEF RequestInv, RecordsSound, Releases, Has
<1>3. coordination' = [coordination EXCEPT ![p] = coordination[p] \ {r}]
  BY DEF Releases, IsSettled, RequestInv, RequestTypeOK
<1>4. /\ coordination' \in [Person -> SUBSET Record] /\ RecordsSound'
      /\ coordination'[p] = coordination[p] \ {r}
      /\ \A q \in Person : q # p => coordination'[q] = coordination[q]
  BY <1>2, <1>3, OnePerson
<1>5. RequestTypeOK'
  BY <1>1, <1>4 DEF RequestInv, RequestTypeOK, Touched
<1>6. \A s \in coordination[p] \ {r} : s.status \notin Open
  BY <1>2 DEF Sound, Open
<1>7. OpenRecordsAgree'
  BY <1>1, <1>4, <1>6 DEF RequestInv, OpenRecordsAgree, Open
<1> QED BY <1>1, <1>4, <1>5, <1>7, NobodyCurrent DEF RequestInv

LEMMA DateStep ==
  ASSUME RequestInv, NEW p \in Person,
         \/ \E target \in Date : AsksForDate(p, target)
         \/ \E request \in schedule[p] : AcceptsDate(p, request) \/ DropsDate(p, request)
  PROVE  RequestInv'
<1>1. UNCHANGED <<task, assignees, coordination, editor>>
  BY DEF AsksForDate, AcceptsDate, DropsDate
<1>2. RecordsSound' /\ OpenRecordsAgree'
  BY <1>1 DEF RequestInv, RecordsSound, Sound, OpenRecordsAgree
<1>3. schedule \in [Person -> SUBSET [original : Date, target : Date]] /\ dates \in Date
      /\ current \subseteq Editor
  BY DEF RequestInv, RequestTypeOK
<1>4. CASE \E target \in Date : AsksForDate(p, target)
  <2>1. UNCHANGED <<current, dates>> /\ schedule' \in [Person -> SUBSET [original : Date, target : Date]]
    BY <1>3, <1>4 DEF AsksForDate
  <2>2. RequestTypeOK'
    BY <1>1, <2>1 DEF RequestInv, RequestTypeOK
  <2> QED BY <1>1, <1>2, <2>1, <2>2, WindowsKept DEF RequestInv
<1>5. CASE \E request \in schedule[p] : AcceptsDate(p, request)
  <2>1. PICK request \in schedule[p] : AcceptsDate(p, request)
    BY <1>5
  <2>2. Touched({}) /\ dates' = request.target /\ IsDecided(p, request)
    BY <2>1 DEF AcceptsDate
  <2>3. dates' \in Date /\ schedule' \in [Person -> SUBSET [original : Date, target : Date]]
    BY <1>3, <2>2 DEF IsDecided
  <2>4. RequestTypeOK'
    BY <1>1, <2>2, <2>3 DEF RequestInv, RequestTypeOK, Touched
  <2> QED BY <1>1, <1>2, <2>2, <2>4, NobodyCurrent DEF RequestInv
<1>6. CASE \E request \in schedule[p] : DropsDate(p, request)
  <2>1. UNCHANGED <<current, dates>> /\ schedule' \in [Person -> SUBSET [original : Date, target : Date]]
    BY <1>3, <1>6 DEF DropsDate, IsDecided
  <2>2. RequestTypeOK'
    BY <1>1, <2>1 DEF RequestInv, RequestTypeOK
  <2> QED BY <1>1, <1>2, <2>1, <2>2, WindowsKept DEF RequestInv
<1> QED BY <1>4, <1>5, <1>6

WindowRecord ==
  [phase : {"viewing", "saving"}, seen : SUBSET Person, plan : Date,
   people : SUBSET Person, draft : Date, read : SUBSET Person]

\* A window that is loaded, submits or is refused changes nothing but itself.
LEMMA WindowStep ==
  ASSUME RequestInv, NEW e \in Editor, Loads(e) \/ BeginsSave(e) \/ IsRefused(e) PROVE RequestInv'
<1>1. UNCHANGED <<task, assignees, dates, coordination, schedule>>
  BY DEF Loads, BeginsSave, IsRefused
<1>2. RecordsSound' /\ OpenRecordsAgree'
  BY <1>1 DEF RequestInv, RecordsSound, Sound, OpenRecordsAgree
<1>3. editor \in [Editor -> WindowRecord] /\ current \subseteq Editor /\ assignees \in SUBSET Person /\ dates \in Date
  BY DEF RequestInv, RequestTypeOK, WindowRecord
<1>4. /\ editor' \in [Editor -> WindowRecord] /\ \A f \in Editor : f # e => editor'[f] = editor[f]
      /\ current \subseteq current' /\ current' \subseteq current \cup {e}
      /\ task # "deleted" /\ e \in current' =>
           /\ editor'[e].seen = assignees /\ editor'[e].plan = dates
           /\ editor'[e].phase = "saving" => editor'[e].read = assignees
  <2>0. e \in current /\ task # "deleted" => editor[e].seen = assignees /\ editor[e].plan = dates
    BY DEF RequestInv, VersionNamesTask
  <2>1. CASE Loads(e)
    <3>1. Shows(assignees, dates) \in WindowRecord
      BY <1>3 DEF Shows, WindowRecord
    <3>2. editor'[e] = Shows(assignees, dates)
      BY <1>3, <2>1 DEF Loads
    <3> QED BY <1>3, <2>1, <3>1, <3>2 DEF Loads, Shows
  <2>2. CASE BeginsSave(e)
    <3>1. PICK persons \in SUBSET Person, plan \in Date :
            editor' = [editor EXCEPT ![e].phase = "saving", ![e].people = persons,
                                     ![e].draft = plan, ![e].read = assignees]
      <4>1. editor[e] \in WindowRecord
        BY <1>3
      <4>2. CASE \E persons \in SUBSET Person :
              editor' = [editor EXCEPT ![e].phase = "saving", ![e].people = persons, ![e].read = assignees]
        <5>1. PICK persons \in SUBSET Person :
                editor' = [editor EXCEPT ![e].phase = "saving", ![e].people = persons, ![e].read = assignees]
          BY <4>2
        <5>2. editor' = [editor EXCEPT ![e].phase = "saving", ![e].people = persons,
                                       ![e].draft = editor[e].draft, ![e].read = assignees]
          BY <1>3, <4>1, <5>1 DEF WindowRecord
        <5>3. editor[e].draft \in Date
          BY <4>1 DEF WindowRecord
        <5> QED BY <5>2, <5>3
      <4>3. CASE \E plan \in Date \ {editor[e].plan} :
              editor' = [editor EXCEPT ![e].phase = "saving", ![e].people = editor[e].seen,
                                       ![e].draft = plan, ![e].read = assignees]
        <5>1. editor[e].seen \in SUBSET Person
          BY <4>1 DEF WindowRecord
        <5> QED BY <4>3, <5>1
      <4> QED BY <2>2, <4>2, <4>3 DEF BeginsSave
    <3>2. /\ editor' \in [Editor -> WindowRecord] /\ \A f \in Editor : f # e => editor'[f] = editor[f]
          /\ editor'[e].seen = editor[e].seen /\ editor'[e].plan = editor[e].plan
          /\ editor'[e].read = assignees
      <4>1. editor'[e] = [editor[e] EXCEPT !.phase = "saving", !.people = persons,
                                           !.draft = plan, !.read = assignees]
        BY <1>3, <3>1
      <4>2. editor[e] \in WindowRecord
        BY <1>3
      <4>3. /\ editor'[e] \in WindowRecord
            /\ editor'[e].seen = editor[e].seen /\ editor'[e].plan = editor[e].plan
            /\ editor'[e].read = assignees
        BY <1>3, <4>1, <4>2 DEF WindowRecord
      <4> QED BY <1>3, <3>1, <4>3
    <3>3. current' = current
      BY <2>2 DEF BeginsSave
    <3> QED BY <2>0, <3>2, <3>3
  <2>3. CASE IsRefused(e)
    <3>1. Shows(editor[e].seen, editor[e].plan) \in WindowRecord
      BY <1>3 DEF Shows, WindowRecord
    <3>2. editor'[e] = Shows(editor[e].seen, editor[e].plan) /\ current' = current
      BY <1>3, <2>3 DEF IsRefused
    <3>3. /\ editor'[e].phase = "viewing"
          /\ editor'[e].seen = editor[e].seen /\ editor'[e].plan = editor[e].plan
      BY <3>2 DEF Shows
    <3>4. /\ editor' \in [Editor -> WindowRecord] /\ \A f \in Editor : f # e => editor'[f] = editor[f]
      BY <1>3, <2>3, <3>1 DEF IsRefused
    <3> QED BY <2>0, <3>2, <3>3, <3>4
  <2> QED BY <2>1, <2>2, <2>3
<1>5. RequestTypeOK'
  BY <1>1, <1>3, <1>4 DEF RequestInv, RequestTypeOK, WindowRecord
<1>6. VersionNamesTask' /\ ReadIsCurrent'
  BY <1>1, <1>4 DEF RequestInv, VersionNamesTask, ReadIsCurrent, RequestTypeOK
<1> QED BY <1>2, <1>5, <1>6 DEF RequestInv

\* A save is written by a window that has the version: it was begun against whoever is
\* responsible still, so that the records it closes are those it has to close.
LEMMA PublishedRecords ==
  ASSUME RecordsSound, OpenRecordsAgree, coordination \in [Person -> SUBSET Record],
         task # "deleted", NEW persons \in SUBSET Person,
         NEW noticed \in SUBSET (persons \ assignees),
         coordination' = Published(assignees \ persons, persons \ assignees, noticed),
         assignees' = persons
  PROVE  coordination' \in [Person -> SUBSET Record] /\ RecordsSound' /\ OpenRecordsAgree'
<1> DEFINE touched == (assignees \ persons) \cup (persons \ assignees)
<1>1. \A p \in Person : coordination'[p] =
        IF p \in noticed
        THEN WithoutApproved(WithoutOpen(coordination[p])) \cup {Approved(NewId(coordination[p]))}
        ELSE IF p \in touched THEN WithoutOpen(coordination[p])
        ELSE coordination[p]
  BY DEF Published
<1> HIDE DEF touched
<1>2. ASSUME NEW p \in Person
      PROVE  /\ Sound(coordination'[p])
             /\ \A r \in coordination'[p] :
                  /\ r.status = "PENDING" => p \notin persons
                  /\ r.status = "CANCELLATION_REQUESTED" => p \in persons
  <2>1. Sound(coordination[p])
    BY DEF RecordsSound
  <2>2. CASE p \in noticed
    <3>1. coordination'[p] =
            WithoutApproved(WithoutOpen(coordination[p])) \cup {Approved(NewId(coordination[p]))}
      BY <1>1, <2>2
    <3>2. Sound(coordination'[p])
      BY <2>1, <3>1, NoticeFits
    <3>3. \A r \in coordination'[p] : r.status \notin Open
      BY <3>1 DEF WithoutApproved, WithoutOpen, Approved, Open
    <3> QED BY <3>2, <3>3 DEF Open
  <2>3. CASE p \notin noticed /\ p \in touched
    <3>1. coordination'[p] = WithoutOpen(coordination[p])
      BY <1>1, <2>3
    <3>2. Sound(coordination'[p])
      BY <2>1, <3>1, Fewer DEF WithoutOpen
    <3>3. \A r \in coordination'[p] : r.status \notin Open
      BY <3>1 DEF WithoutOpen
    <3> QED BY <3>2, <3>3 DEF Open
  <2>4. CASE p \notin noticed /\ p \notin touched
    <3>1. coordination'[p] = coordination[p]
      BY <1>1, <2>4
    <3>2. p \in persons <=> p \in assignees
      BY <2>4 DEF touched
    <3> QED BY <2>1, <3>1, <3>2 DEF OpenRecordsAgree
  <2> QED BY <2>2, <2>3, <2>4
<1>3. coordination' \in [Person -> SUBSET Record]
  <2>1. \A p \in Person : coordination'[p] \in SUBSET Record
    BY <1>2 DEF Sound
  <2>2. coordination' = [p \in Person |-> coordination'[p]]
    BY DEF Published
  <2> QED BY <2>1, <2>2
<1>4. RecordsSound'
  BY <1>2 DEF RecordsSound, Sound
<1>5. OpenRecordsAgree'
  BY <1>2 DEF OpenRecordsAgree
<1> QED BY <1>3, <1>4, <1>5

LEMMA WritesFacts ==
  ASSUME RequestInv, NEW e \in Editor, Writes(e)
  PROVE  /\ editor[e] \in WindowRecord /\ task = "live" /\ task' = task /\ e \in current
         /\ editor[e].read = assignees /\ editor[e].seen = assignees /\ editor[e].plan = dates
         /\ assignees' = editor[e].people /\ dates' = editor[e].draft /\ current' = {e}
         /\ editor' = [editor EXCEPT ![e] = Shows(assignees', dates')] /\ schedule' = schedule
         /\ editor[e].phase = "saving" /\ editor'[e] = Shows(assignees', dates')
<1>1. editor[e] \in WindowRecord /\ e \in current /\ task = "live" /\ editor[e].phase = "saving"
  BY DEF Writes, RequestInv, RequestTypeOK, WindowRecord
<1>2. editor[e].read = assignees /\ editor[e].seen = assignees /\ editor[e].plan = dates
  BY <1>1 DEF RequestInv, VersionNamesTask, ReadIsCurrent
<1>3. assignees' = editor[e].people
  BY <1>2 DEF Writes
<1>4. editor' = [editor EXCEPT ![e] = Shows(assignees', dates')]
  BY DEF Writes
<1>5. editor'[e] = Shows(assignees', dates')
  BY <1>4 DEF RequestInv, RequestTypeOK
<1> QED BY <1>1, <1>2, <1>3, <1>4, <1>5 DEF Writes, Touched

LEMMA WritesStep == ASSUME RequestInv, NEW e \in Editor, Writes(e) PROVE RequestInv'
<1>1. PICK noticed \in SUBSET (editor[e].people \ assignees) :
        coordination' = Published(assignees \ editor[e].people, editor[e].people \ assignees, noticed)
  BY WritesFacts DEF Writes
<1>2. coordination \in [Person -> SUBSET Record] /\ RecordsSound /\ OpenRecordsAgree
      /\ editor[e].people \in SUBSET Person /\ editor[e].draft \in Date
      /\ assignees' = editor[e].people /\ task # "deleted"
  BY WritesFacts DEF RequestInv, RequestTypeOK, WindowRecord
<1>3. coordination' \in [Person -> SUBSET Record] /\ RecordsSound' /\ OpenRecordsAgree'
  BY <1>1, <1>2, PublishedRecords
<1>4. Shows(assignees', dates') \in WindowRecord
  BY <1>2, WritesFacts DEF Shows, WindowRecord
<1>5. RequestTypeOK'
  BY <1>2, <1>3, <1>4, WritesFacts DEF RequestInv, RequestTypeOK, WindowRecord
<1>6. VersionNamesTask' /\ ReadIsCurrent'
  BY WritesFacts DEF VersionNamesTask, ReadIsCurrent, Shows
<1> QED BY <1>3, <1>5, <1>6 DEF RequestInv

LEMMA TaskStep ==
  ASSUME RequestInv,
         (\E e \in Editor : Deletes(e)) \/ ProjectCloses \/ ProjectReopens \/ UNCHANGED requestVars
  PROVE  RequestInv'
<1>1. UNCHANGED <<current, dates, coordination, editor>>
      /\ task' \in {"live", "closed", "deleted"} /\ (task = "deleted" => task' = "deleted")
  BY DEF Deletes, ProjectCloses, ProjectReopens, requestVars, RequestInv, RequestTypeOK
<1>2. RecordsSound'
  BY <1>1 DEF RequestInv, RecordsSound, Sound
<1>3. CASE \E e \in Editor : Deletes(e)
  <2>1. task' = "deleted" /\ assignees' = {} /\ schedule' = [p \in Person |-> {}]
    BY <1>3 DEF Deletes
  <2>2. RequestTypeOK'
    BY <1>1, <2>1 DEF RequestInv, RequestTypeOK
  <2>3. OpenRecordsAgree' /\ VersionNamesTask' /\ ReadIsCurrent'
    BY <2>1 DEF OpenRecordsAgree, VersionNamesTask, ReadIsCurrent
  <2> QED BY <1>2, <2>2, <2>3 DEF RequestInv
<1>4. CASE ProjectCloses \/ ProjectReopens \/ UNCHANGED requestVars
  <2>1. UNCHANGED <<assignees, schedule>>
    BY <1>4 DEF ProjectCloses, ProjectReopens, requestVars
  <2>2. RequestTypeOK'
    BY <1>1, <2>1 DEF RequestInv, RequestTypeOK
  <2>3. OpenRecordsAgree'
    BY <1>1, <2>1 DEF RequestInv, OpenRecordsAgree
  <2> QED BY <1>1, <1>2, <2>1, <2>2, <2>3, WindowsKept DEF RequestInv
<1> QED BY <1>3, <1>4

LEMMA RequestNextHolds == RequestInv /\ [RequestNext]_requestVars => RequestInv'
<1> SUFFICES ASSUME RequestInv, [RequestNext]_requestVars PROVE RequestInv'
  OBVIOUS
<1>1. CASE \E persons \in SUBSET Person : Requests(persons)
  BY <1>1, RequestsStep
<1>2. CASE \E p \in Person : \E r \in coordination[p] : Decides(p, r)
  <2>0. PICK p \in Person : \E r \in coordination[p] : Decides(p, r)
    BY <1>2
  <2>1. PICK r \in coordination[p] : Decides(p, r)
    BY <2>0
  <2> QED BY <2>1, RecordSettledStep, StatusStep, ApprovesStep, ReleasesStep DEF Decides
<1>3. CASE \E p \in Person :
             \/ \E target \in Date : AsksForDate(p, target)
             \/ \E request \in schedule[p] : AcceptsDate(p, request) \/ DropsDate(p, request)
  BY <1>3, DateStep
<1>4. CASE \E e \in Editor : Loads(e) \/ BeginsSave(e) \/ IsRefused(e)
  BY <1>4, WindowStep
<1>5. CASE \E e \in Editor : Writes(e)
  BY <1>5, WritesStep
<1>6. CASE (\E e \in Editor : Deletes(e)) \/ ProjectCloses \/ ProjectReopens \/ UNCHANGED requestVars
  BY <1>6, TaskStep
<1> QED BY <1>1, <1>2, <1>3, <1>4, <1>5, <1>6 DEF RequestNext

\* Records, windows and task agree after every step (assignmentCoordinationStore.js:284-822,
\* sqlAppRepository.js:2424-2620).
THEOREM RequestInvHolds == RequestSpec => []RequestInv
BY RequestInitHolds, RequestNextHolds, PTL DEF RequestSpec

(***************************************************************************)
(* The properties                                                          *)
(***************************************************************************)
\* A person has one open record and one approval at most, and no open record contradicts
\* the task: assignmentCoordinationStore.js:41-71, sqlAppRepository.js:2581-2620.
THEOREM ConsistentRecords == RequestSpec => []RecordsConsistent
<1>1. RequestInv => RecordsConsistent
  <2> SUFFICES ASSUME RequestInv PROVE RecordsConsistent
    OBVIOUS
  <2>1. OneOpenRecord
    BY DEF RequestInv, RecordsSound, Sound, OneOpenRecord
  <2>2. OneApproval
    BY DEF RequestInv, RecordsSound, Sound, OneApproval, InForce
  <2> QED BY <2>1, <2>2 DEF RequestInv, RecordsConsistent
<1> QED BY <1>1, RequestInvHolds, PTL

\* Whoever has the version of the task shows its responsibles and dates, as every decision
\* touches the row (touchTaskVersion, assignmentCoordinationStore.js:499-508).
THEOREM VersionIsTrue == RequestSpec => []VersionNamesTask
<1>1. RequestInv => VersionNamesTask
  BY DEF RequestInv
<1> QED BY <1>1, RequestInvHolds, PTL

\* Who becomes responsible or ceases to be.
LEMMA AssigneesKnown ==
  ASSUME RequestInv, [RequestNext]_requestVars
  PROVE  /\ \A p \in assignees' \ assignees :
              \/ \E e \in Editor : Saved(e) /\ p \in editor[e].people
              \/ \E r \in coordination[p] : r.status = "PENDING" /\ Approved(r.id) \in coordination'[p]
         /\ \A p \in assignees \ assignees' :
              \/ \E e \in Editor : Saved(e) /\ p \in editor[e].seen \ editor[e].people
              \/ \E r \in coordination[p] :
                   /\ r.status = "CANCELLATION_REQUESTED"
                   /\ \A s \in coordination'[p] : s.id # r.id
              \/ task' = "deleted"
<1>1. CASE \E e \in Editor : Writes(e)
  <2>1. PICK e \in Editor : Writes(e)
    BY <1>1
  <2>2. Saved(e) /\ editor[e].seen = assignees /\ assignees' = editor[e].people
    BY <2>1, WritesFacts DEF Saved, Shows
  <2> QED BY <2>2
<1>2. CASE \E p \in Person : \E r \in coordination[p] : Approves(p, r)
  <2>0. PICK p \in Person : \E r \in coordination[p] : Approves(p, r)
    BY <1>2
  <2>1. PICK r \in coordination[p] : Approves(p, r)
    BY <2>0
  <2>2. r.status = "PENDING" /\ assignees' = assignees \cup {p}
    BY <2>1 DEF Approves, Has
  <2>3. Approved(r.id) \in coordination'[p]
    BY <2>1 DEF Approves, RequestInv, RequestTypeOK
  <2> QED BY <2>2, <2>3
<1>3. CASE \E p \in Person : \E r \in coordination[p] : Releases(p, r)
  <2>0. PICK p \in Person : \E r \in coordination[p] : Releases(p, r)
    BY <1>3
  <2>1. PICK r \in coordination[p] : Releases(p, r)
    BY <2>0
  <2>2. r.status = "CANCELLATION_REQUESTED" /\ assignees' = assignees \ {p}
    BY <2>1 DEF Releases, Has
  <2>3. coordination'[p] = coordination[p] \ {r}
    BY <2>1 DEF Releases, IsSettled, RequestInv, RequestTypeOK
  <2>4. \A s \in coordination'[p] : s.id # r.id
    BY <2>3 DEF RequestInv, RecordsSound, Sound
  <2> QED BY <2>2, <2>4
<1>4. CASE \E e \in Editor : Deletes(e)
  BY <1>4 DEF Deletes
<1>5. CASE UNCHANGED assignees
  BY <1>5
<1>6. \/ UNCHANGED assignees
      \/ \E e \in Editor : Writes(e) \/ Deletes(e)
      \/ \E p \in Person : \E r \in coordination[p] : Approves(p, r) \/ Releases(p, r)
  BY DEF RequestNext, requestVars, Requests, AsksForDate, Decides, Declines, AsksToCancel,
         KeepsAssigned, FindsStale, AcceptsDate, DropsDate, Loads, BeginsSave,
         IsRefused, ProjectCloses, ProjectReopens
<1> QED BY <1>1, <1>2, <1>3, <1>4, <1>5, <1>6

\* What becomes of the dates.
LEMMA DatesKnown ==
  ASSUME RequestInv, [RequestNext]_requestVars, dates' # dates
  PROVE  \/ \E e \in Editor : Saved(e) /\ editor[e].plan = dates /\ editor[e].draft = dates'
         \/ \E p \in Person : [original |-> dates, target |-> dates'] \in schedule[p] \ schedule'[p]
<1>1. CASE \E e \in Editor : Writes(e)
  BY <1>1, WritesFacts DEF Saved, Shows
<1>2. CASE \E p \in Person : \E request \in schedule[p] : AcceptsDate(p, request)
  <2>0. PICK p \in Person : \E request \in schedule[p] : AcceptsDate(p, request)
    BY <1>2
  <2>1. PICK request \in schedule[p] : AcceptsDate(p, request)
    BY <2>0
  <2>2. request \in [original : Date, target : Date] /\ schedule'[p] = schedule[p] \ {request}
    BY <2>1 DEF AcceptsDate, IsDecided, RequestInv, RequestTypeOK
  <2>3. request = [original |-> dates, target |-> dates']
    BY <2>1, <2>2 DEF AcceptsDate
  <2> QED BY <2>2, <2>3
<1>3. \/ UNCHANGED dates
      \/ \E e \in Editor : Writes(e)
      \/ \E p \in Person : \E request \in schedule[p] : AcceptsDate(p, request)
  BY DEF RequestNext, requestVars, Requests, AsksForDate, Decides, Approves, Releases,
         Declines, AsksToCancel, KeepsAssigned, FindsStale, DropsDate, Loads,
         BeginsSave, IsRefused, Deletes, ProjectCloses, ProjectReopens
<1> QED BY <1>1, <1>2, <1>3

\* Nothing changes over the head of whoever changes it: a save is written against what
\* its user saw, and a decision against what its request was made for.
THEOREM KnowingChanges == RequestSpec => ChangesAreKnowing
<1>1. RequestSpec => AssigneesChangeKnowingly
  BY AssigneesKnown, RequestInvHolds, PTL DEF RequestSpec, AssigneesChangeKnowingly
<1>2. RequestSpec => DatesChangeKnowingly
  <2>1. RequestInv /\ [RequestNext]_requestVars =>
          (dates' # dates =>
             \/ \E e \in Editor : Saved(e) /\ editor[e].plan = dates /\ editor[e].draft = dates'
             \/ \E p \in Person :
                  [original |-> dates, target |-> dates'] \in schedule[p] \ schedule'[p])
    BY DatesKnown
  <2> QED BY <2>1, RequestInvHolds, PTL DEF RequestSpec, DatesChangeKnowingly
<1> QED BY <1>1, <1>2 DEF ChangesAreKnowing
================================================================================
