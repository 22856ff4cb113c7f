------------------------- MODULE MailAndCatalogProofs -------------------------
(***************************************************************************)
(* Proofs about two components that have no state in common.               *)
(*                                                                         *)
(* TaskMailOutbox, for any mails, instances, times and limits.  The core is*)
(* LeasesLast: as long as a round's own deadline has not passed, it owns   *)
(* the rows it has still to do, and their leases last at least as long.  A *)
(* delivery only begins, and only goes on, before that deadline, so that   *)
(* nobody else can have the row; and what its round learns is written to   *)
(* the row, unless the observer unheard says so.  And the lease of a round *)
(* covers its batch.                                                       *)
(*                                                                         *)
(* CorporateCatalog and its runs, below, for any plans, requests and runs. *)
(* A merge is passed over where the tree has as many nodes as the record.  *)
(* That is sound because the record is the plan merged last and the tree   *)
(* still holds it: a merge takes only nodes away that are in no plan just  *)
(* merged, in no task and above no other node, and tasks do not change the *)
(* tree.  The flight the process remembers is the only scheduled run at    *)
(* work; whoever waits, waits for it; and what the process believes of the *)
(* store (warm, fresh, a probe that found a tree) is so.                   *)
(***************************************************************************)
EXTENDS TaskMailOutbox, CorporateCatalog, FiniteSetTheorems, TLAPS

(***************************************************************************)
(* The inductive invariant                                                 *)
(***************************************************************************)
\* What a round looks like in each phase.
Shape ==
  \A w \in Worker :
    /\ worker[w].phase \in {"idle", "claiming"} => worker[w].token = NoToken /\ worker[w].todo = {}
    /\ worker[w].phase \notin {"idle", "claiming"} => worker[w].token \in Token
    /\ worker[w].phase \in Delivering \cup Outcome => worker[w].now \in worker[w].todo
    /\ worker[w].phase \in Delivering => worker[w].left + Slack <= worker[w].deadline
    /\ \A m \in worker[w].todo : mail[m].status # "ABSENT"

TokensDiffer ==
  \A v, w \in Worker : v # w /\ worker[v].token # NoToken => worker[v].token # worker[w].token

LeasesLast ==
  \A w \in Worker : \A m \in worker[w].todo :
    worker[w].deadline > 0 => Owns(w, m) /\ worker[w].deadline <= mail[m].lease

\* The round has the row still before it, as far as SMTP is concerned.
Untried(w, m) ==
  /\ m \in worker[w].todo
  /\ ~(worker[w].now = m /\ worker[w].phase \in {"accepted"} \cup Outcome)

\* Every copy has had an attempt of its own.
CopiesTried ==
  \A m \in Mail :
    /\ copies[m] <= mail[m].attempts
    /\ \A w \in Worker : Untried(w, m) /\ Owns(w, m) => copies[m] < mail[m].attempts

\* What SMTP accepted is still with the round, which owns the row.
WithRound(w, m) ==
  worker[w].phase \in {"accepted", "sent", "uncertain"} /\ worker[w].now = m /\ Owns(w, m)

\* Unless an outcome got lost, a mail that SMTP accepted is settled or about to be.
OutcomesHeard ==
  \A m \in Mail : m \notin unheard =>
    /\ copies[m] <= 1
    /\ copies[m] = 1 /\ mail[m].status = "PENDING" => \E w \in Worker : WithRound(w, m)
    /\ copies[m] = 1 => mail[m].status # "ABSENT"
    /\ \A w \in Worker : worker[w].phase \in Outcome /\ worker[w].now = m
         => Owns(w, m) \/ mail[m].status # "PENDING"

MailInv == TypeOK /\ Shape /\ TokensDiffer /\ LeasesLast /\ CopiesTried /\ OutcomesHeard

(***************************************************************************)
(* Times and tokens                                                        *)
(***************************************************************************)
\* The lease of a round is a positive time, and a delivery takes some of it.
LEMMA Times == Lease \in Nat \ {0} /\ PerMail \in Nat \ {0} /\ PerMail = Budget + Slack
<1>1. PerMail \in Nat \ {0} /\ PerMail = Budget + Slack
  BY TimeAssumption DEF PerMail
<1>2. MaxLease \div PerMail \in Int
  BY <1>1, TimeAssumption
<1>3. BatchSize \in Int
  BY <1>2, CountAssumption DEF BatchSize, Least, Greatest
<1>4. BatchSize * PerMail \in Int
  BY <1>1, <1>3
<1>5. Lease \in Nat \ {0}
  BY <1>4, TimeAssumption DEF Lease, Least, Greatest
<1> QED BY <1>1, <1>5

\* A failed delivery waits some time.
LEMMA BackoffTime == ASSUME NEW n \in Nat PROVE Backoff(n) \in Nat
<1>1. Greatest(1, Least(n, 5)) \in 1..5
  BY DEF Greatest, Least
<1>2. \A i \in 1..5 : Doublings[i] \in Nat
  BY DEF Doublings
<1>3. Doublings[Greatest(1, Least(n, 5))] \in Nat
  BY <1>1, <1>2
<1> QED BY <1>3, TimeAssumption DEF Backoff

\* The token of a claim is one that neither a row nor a round carries.
LEMMA FreshToken ==
  ASSUME TypeOK
  PROVE  /\ Fresh \in Token
         /\ \A m \in Mail : mail[m].token # Fresh
         /\ \A w \in Worker : worker[w].token # Fresh
<1> DEFINE OfRows   == {mail[m].token : m \in Mail}
           OfRounds == {worker[w].token : w \in Worker}
<1>1. IsFiniteSet(OfRows) /\ Cardinality(OfRows) <= Cardinality(Mail)
  <2> DEFINE f == [m \in Mail |-> mail[m].token]
  <2>1. f \in Surjection(Mail, OfRows)
    BY DEF Surjection
  <2> QED BY <2>1, FS_Surjection, MailAssumption
<1>2. IsFiniteSet(OfRounds) /\ Cardinality(OfRounds) <= Cardinality(Worker)
  <2> DEFINE f == [w \in Worker |-> worker[w].token]
  <2>1. f \in Surjection(Worker, OfRounds)
    BY DEF Surjection
  <2> QED BY <2>1, FS_Surjection, MailAssumption
<1>3. IsFiniteSet(OfRows \cup OfRounds)
      /\ Cardinality(OfRows \cup OfRounds) <= Cardinality(Mail) + Cardinality(Worker)
  <2>1. IsFiniteSet(OfRows \cap OfRounds)
    BY <1>1, FS_Subset
  <2> HIDE DEF OfRows, OfRounds
  <2>2. Cardinality(OfRows \cup OfRounds)
          = Cardinality(OfRows) + Cardinality(OfRounds) - Cardinality(OfRows \cap OfRounds)
        /\ IsFiniteSet(OfRows \cup OfRounds)
    BY <1>1, <1>2, FS_Union
  <2>3. /\ Cardinality(OfRows) \in Nat /\ Cardinality(OfRounds) \in Nat
        /\ Cardinality(OfRows \cap OfRounds) \in Nat
        /\ Cardinality(Mail) \in Nat /\ Cardinality(Worker) \in Nat
    BY <1>1, <1>2, <2>1, FS_CardinalityType, MailAssumption
  <2> QED BY <1>1, <1>2, <2>2, <2>3
<1>4. \E token \in Token : token \notin OfRows \cup OfRounds
  <2>1. SUFFICES ASSUME Token \subseteq OfRows \cup OfRounds PROVE FALSE
    OBVIOUS
  <2> HIDE DEF OfRows, OfRounds
  <2>2. Cardinality(Token) <= Cardinality(OfRows \cup OfRounds)
    BY <1>3, <2>1, FS_Subset
  <2>3. /\ Cardinality(Token) \in Nat /\ Cardinality(OfRows \cup OfRounds) \in Nat
        /\ Cardinality(Mail) \in Nat /\ Cardinality(Worker) \in Nat
    BY <1>3, FS_CardinalityType, MailAssumption, TokenAssumption
  <2> QED BY <1>3, <2>2, <2>3, TokenAssumption
<1>5. \E token \in Token : /\ \A m \in Mail : mail[m].token # token
                           /\ \A w \in Worker : worker[w].token # token
  BY <1>4
<1> QED BY <1>5 DEF Fresh

(***************************************************************************)
(* Types                                                                   *)
(***************************************************************************)
\* What a status write or a claim makes of a row is a row.
LEMMA RowTypes ==
  ASSUME NEW row \in MailType
  PROVE  /\ MarkFailed(row) \in MailType /\ GiveUp(row) \in MailType
         /\ \A outcome \in Outcome : Mark(row, outcome) \in MailType
         /\ \A token \in Token : row.attempts < MaxAttempts => Claimed(row, token) \in MailType
<1>1. ASSUME NEW status \in {"PENDING", "SENT", "FAILED"}, NEW wait \in Nat
      PROVE  Written(row, status, wait) \in MailType
  BY Times DEF MailType, Written
<1>2. row.wait \in Nat /\ Backoff(row.attempts) \in Nat
  BY BackoffTime DEF MailType
<1>3. MarkSent(row) \in MailType /\ GiveUp(row) \in MailType /\ MarkFailed(row) \in MailType
  BY <1>1, <1>2 DEF MarkSent, GiveUp, MarkFailed
<1>4. \A outcome \in Outcome : Mark(row, outcome) \in MailType
  BY <1>3 DEF Mark
<1>5. ASSUME NEW token \in Token, row.attempts < MaxAttempts PROVE Claimed(row, token) \in MailType
  BY <1>5, Times, CountAssumption DEF MailType, Claimed, Leased
<1> QED BY <1>3, <1>4, <1>5

LEMMA RoundTypes ==
  /\ Idle \in WorkerType
  /\ Round("claiming", Lease) \in WorkerType
BY Times, TimeAssumption DEF Idle, Round, WorkerType, Phase

LEMMA ResolvingType ==
  ASSUME TypeOK, NEW w \in Worker, NEW token \in Token \cup {NoToken}, NEW rest \in SUBSET Mail
  PROVE  Resolving(w, token, rest) \in WorkerType
BY TimeAssumption DEF TypeOK, WorkerType, Resolving, Phase

LEMMA AtType ==
  ASSUME TypeOK, NEW w \in Worker, NEW phase \in Phase, NEW m \in Mail \cup {NoMail}, NEW left \in 0..Budget
  PROVE  At(w, phase, m, left) \in WorkerType
BY DEF TypeOK, WorkerType, At

\* The rest of a batch is a round like the one before, or none.
LEMMA ProceedType ==
  ASSUME TypeOK, NEW w \in Worker, NEW m, Proceed(w, m) \/ Ends(w)
  PROVE  worker' \in [Worker -> WorkerType]
<1>1. worker[w].token \in Token \cup {NoToken} /\ worker[w].todo \ {m} \in SUBSET Mail
  BY DEF TypeOK, WorkerType
<1>2. Resolving(w, worker[w].token, worker[w].todo \ {m}) \in WorkerType
  BY <1>1, ResolvingType
<1> QED BY <1>2, RoundTypes DEF TypeOK, Proceed, Ends

LEMMA InitTypes == Init => TypeOK
<1>1. Absent \in MailType
  BY Times, CountAssumption DEF Absent, MailType
<1> QED BY <1>1, RoundTypes DEF Init, TypeOK

LEMMA ClaimTypes == ASSUME TypeOK, NEW w \in Worker, Claim(w) PROVE TypeOK'
<1>1. PICK batch \in Batches, answered \in BOOLEAN :
        /\ mail' = [m \in Mail |-> IF Exhausted(m) THEN GiveUp(mail[m])
                                   ELSE IF m \in batch THEN Claimed(mail[m], Fresh)
                                   ELSE mail[m]]
        /\ worker' = [worker EXCEPT ![w] =
                        IF batch = {} \/ ~answered THEN Idle ELSE Resolving(w, Fresh, batch)]
        /\ unheard' = unheard \cup
             {m \in batch : \E v \in Worker : worker[v].phase \in Outcome /\ worker[v].now = m}
  BY DEF Claim
<1>2. batch \in SUBSET Mail /\ \A m \in batch : Due(m)
  BY DEF Batches
<1>3. Fresh \in Token
  BY FreshToken
<1>4. \A m \in batch : Claimed(mail[m], Fresh) \in MailType
  <2>1. \A m \in batch : mail[m] \in MailType /\ mail[m].attempts < MaxAttempts
    BY <1>2 DEF TypeOK, Due
  <2> QED BY <1>3, <2>1, RowTypes
<1>5. \A m \in Mail : GiveUp(mail[m]) \in MailType
  BY RowTypes DEF TypeOK
<1>6. mail' \in [Mail -> MailType]
  BY <1>1, <1>4, <1>5 DEF TypeOK
<1>7. worker' \in [Worker -> WorkerType]
  <2>1. Resolving(w, Fresh, batch) \in WorkerType
    BY <1>2, <1>3, ResolvingType
  <2> QED BY <1>1, <2>1, RoundTypes DEF TypeOK
<1>8. unheard' \in SUBSET Mail
  BY <1>1, <1>2 DEF TypeOK
<1> QED BY <1>6, <1>7, <1>8 DEF TypeOK, Claim

LEMMA TickTypes == ASSUME TypeOK, Tick PROVE TypeOK'
<1>0. /\ \A n \in Nat : Down(n) \in Nat
      /\ \A n \in 0..Lease : Down(n) \in 0..Lease
      /\ \A n \in 0..Budget : Down(n) \in 0..Budget
  BY Times, TimeAssumption DEF Down
<1>1. mail' \in [Mail -> MailType]
  <2>1. ASSUME NEW m \in Mail
        PROVE  [status |-> mail[m].status, attempts |-> mail[m].attempts, wait |-> Down(mail[m].wait),
                lease |-> Down(mail[m].lease), token |-> mail[m].token] \in MailType
    BY <1>0 DEF TypeOK, MailType
  <2> QED BY <2>1 DEF Tick
<1>2. BatchSize \in Nat \ {0}
  <2>1. MaxLease \div PerMail \in Int
    BY Times, TimeAssumption
  <2> QED BY <2>1, CountAssumption DEF BatchSize, Least, Greatest
<1>3. \A n \in Nat : Delayed(n) \in Nat
  <2>1. Slack * (BatchSize - 1) \in Nat
    BY <1>2, TimeAssumption
  <2> QED BY <2>1 DEF Delayed, Least
<1>4. worker' \in [Worker -> WorkerType]
  <2>1. ASSUME NEW w \in Worker
        PROVE  [phase |-> worker[w].phase, token |-> worker[w].token, deadline |-> Down(worker[w].deadline),
                todo |-> worker[w].todo, now |-> worker[w].now, left |-> Down(worker[w].left)] \in WorkerType
    BY <1>0 DEF TypeOK, WorkerType
  <2> QED BY <2>1 DEF Tick
<1>5. delay' \in [Worker -> Nat]
  BY <1>3 DEF TypeOK, Tick
<1> QED BY <1>1, <1>4, <1>5 DEF TypeOK, Tick

LEMMA StepTypes ==
  ASSUME TypeOK, Shape, NEW w \in Worker, Begin(w) \/ Works(w) \/ RoundStops(w)
  PROVE  TypeOK'
<1>0. \A m \in Mail, row \in MailType : Write(w, m, row) => mail' \in [Mail -> MailType]
  BY DEF TypeOK, Write
<1>a. worker[w].phase \in Delivering \cup Outcome => worker[w].now \in Mail
  BY DEF Shape, TypeOK, WorkerType
<1>1. CASE Begin(w)
  BY <1>1, RoundTypes DEF TypeOK, Begin
<1>2. ASSUME NEW m \in Mail, PrepareFails(w, m) PROVE TypeOK'
  <2>1. MarkFailed(mail[m]) \in MailType
    BY RowTypes DEF TypeOK
  <2>2. mail' \in [Mail -> MailType] /\ worker' \in [Worker -> WorkerType]
    BY <1>0, <1>2, <2>1, ProceedType DEF PrepareFails
  <2> QED BY <1>2, <2>2 DEF TypeOK, PrepareFails, observers
<1>3. ASSUME NEW m \in Mail, PrepareFailsUnrecorded(w, m) PROVE TypeOK'
  <2>1. worker' \in [Worker -> WorkerType]
    BY <1>3, ProceedType DEF PrepareFailsUnrecorded
  <2> QED BY <1>3, <2>1 DEF TypeOK, PrepareFailsUnrecorded, observers
<1>4. ASSUME NEW m \in Mail, StartSend(w, m) PROVE TypeOK'
  <2>1. At(w, "sending", m, Budget) \in WorkerType
    BY AtType, TimeAssumption DEF Phase, Delivering
  <2> QED BY <1>4, <2>1 DEF TypeOK, StartSend, observers
<1>5. CASE Defer(w)
  BY <1>5, RoundTypes DEF TypeOK, Defer, Ends, observers
<1>6. CASE SmtpAccepts(w)
  <2>1. worker[w].now \in Mail /\ worker[w].left \in 0..Budget
    BY <1>6, <1>a DEF SmtpAccepts, Delivering, TypeOK, WorkerType
  <2>2. At(w, "accepted", worker[w].now, worker[w].left) \in WorkerType
    BY <2>1, AtType DEF Phase, Delivering
  <2> QED BY <1>6, <2>1, <2>2 DEF TypeOK, SmtpAccepts
<1>7. CASE SendEnds(w)
  <2>1. worker[w].now \in Mail
    BY <1>7, <1>a DEF SendEnds
  <2>2. Outcome \subseteq Phase /\ 0 \in 0..Budget
    BY TimeAssumption DEF Phase
  <2>3. At(w, "uncertain", worker[w].now, 0) \in WorkerType /\ At(w, "sent", worker[w].now, 0) \in WorkerType
        /\ At(w, "refused", worker[w].now, 0) \in WorkerType
    BY <2>1, <2>2, AtType DEF Outcome
  <2> QED BY <1>7, <2>3 DEF TypeOK, SendEnds, observers
<1>8. CASE Report(w)
  <2>1. worker[w].now \in Mail /\ worker[w].phase \in Outcome
    BY <1>8, <1>a DEF Report
  <2>2. Mark(mail[worker[w].now], worker[w].phase) \in MailType
    BY <2>1, RowTypes DEF TypeOK
  <2>3. mail' \in [Mail -> MailType]
    BY <1>0, <1>8, <2>1, <2>2 DEF Report
  <2>4. worker' \in [Worker -> WorkerType]
    BY <1>8, ProceedType DEF Report
  <2> QED BY <1>8, <2>1, <2>3, <2>4 DEF TypeOK, Report
<1>9. CASE RoundStops(w)
  <2>1. unheard' \in SUBSET Mail
    BY <1>9, <1>a DEF RoundStops, TypeOK
  <2> QED BY <1>9, <2>1, RoundTypes DEF TypeOK, RoundStops, Ends
<1> QED BY <1>1, <1>2, <1>3, <1>4, <1>5, <1>6, <1>7, <1>8, <1>9 DEF Works

(***************************************************************************)
(* Rounds and rows                                                         *)
(***************************************************************************)
\* Two rounds never own the same row.
LEMMA OneOwner ==
  ASSUME MailInv, NEW v \in Worker, NEW w \in Worker, v # w,
         NEW m \in worker[v].todo, Owns(v, m)
  PROVE  ~Owns(w, m)
<1>1. worker[v].token \in Token
  BY DEF MailInv, Shape, TypeOK, WorkerType, Phase
<1>2. worker[v].token # worker[w].token
  BY <1>1, TokenAssumption DEF MailInv, TokensDiffer
<1> QED BY <1>2 DEF Owns

\* A round that is done with a row, or altogether, having written at most to the
\* row, and only if it owned it.
LEMMA LeaveInv ==
  ASSUME MailInv, TypeOK', NEW w \in Worker, NEW m,
         \A v \in Worker \ {w} : worker'[v] = worker[v],
         \/ worker'[w] = Idle
         \/ /\ worker[w].phase \notin {"idle", "claiming"}
            /\ worker'[w] = Resolving(w, worker[w].token, worker[w].todo \ {m}),
         worker[w].phase \in Delivering \cup Outcome => worker[w].now = m,
         \A n \in Mail \ {m} : mail'[n] = mail[n],
         m \in Mail =>
           \/ mail'[m] = mail[m]
           \/ /\ m \in worker[w].todo /\ Owns(w, m)
              /\ mail'[m].attempts = mail[m].attempts
              /\ mail'[m].token = NoToken /\ mail'[m].status # "ABSENT",
         copies' = copies, unheard \subseteq unheard',
         m \in Mail /\ m \notin unheard' =>
           \/ copies[m] = 0 \/ mail'[m].status # "PENDING"
           \/ mail'[m] = mail[m] /\ worker[w].phase \notin Delivering \cup Outcome
  PROVE  Shape' /\ TokensDiffer' /\ LeasesLast' /\ CopiesTried' /\ OutcomesHeard'
<1> USE DEF MailInv
<1>1. /\ worker'[w].phase \in {"idle", "resolving"}
      /\ worker'[w].todo \subseteq worker[w].todo \ {m}
      /\ worker'[w].token \in {NoToken, worker[w].token}
      /\ worker'[w].todo # {} => worker'[w].token = worker[w].token /\ worker'[w].deadline = worker[w].deadline
      /\ worker'[w].phase = "idle" => worker'[w].todo = {} /\ worker'[w].token = NoToken
      /\ worker'[w].phase = "resolving" => worker'[w].token \in Token
      /\ worker'[w].now = NoMail
  BY DEF Idle, Round, Resolving, Shape
<1>2. \A v \in Worker : \A n \in worker[v].todo : n \in Mail /\ worker[v].token \in Token
  BY DEF Shape, TypeOK, WorkerType, Phase
<1>3. ASSUME NEW v \in Worker \ {w}, NEW n \in worker[v].todo, Owns(v, n) PROVE mail'[n] = mail[n]
  BY <1>2, <1>3, OneOwner
<1>4. Shape'
  <2> SUFFICES ASSUME NEW v \in Worker
      PROVE /\ worker'[v].phase \in {"idle", "claiming"} => worker'[v].token = NoToken /\ worker'[v].todo = {}
            /\ worker'[v].phase \notin {"idle", "claiming"} => worker'[v].token \in Token
            /\ worker'[v].phase \in Delivering \cup Outcome => worker'[v].now \in worker'[v].todo
            /\ worker'[v].phase \in Delivering => worker'[v].left + Slack <= worker'[v].deadline
            /\ \A n \in worker'[v].todo : mail'[n].status # "ABSENT"
    BY DEF Shape
  <2>1. \A n \in Mail : mail[n].status # "ABSENT" => mail'[n].status # "ABSENT"
    OBVIOUS
  <2>2. CASE v = w
    BY <1>1, <1>2, <2>1, <2>2 DEF Shape, Delivering, Outcome
  <2>3. CASE v # w
    BY <1>2, <2>1, <2>3 DEF Shape
  <2> QED BY <2>2, <2>3
<1>5. TokensDiffer'
  BY <1>1 DEF TokensDiffer
<1>6. LeasesLast'
  <2> SUFFICES ASSUME NEW v \in Worker, NEW n \in worker'[v].todo, worker'[v].deadline > 0
      PROVE  Owns(v, n)' /\ worker'[v].deadline <= mail'[n].lease
    BY DEF LeasesLast
  <2>1. CASE v = w
    <3>1. n \in worker[w].todo /\ n # m /\ n \in Mail
      BY <1>1, <1>2, <2>1
    <3> QED BY <1>1, <2>1, <3>1 DEF LeasesLast, Owns
  <2>2. CASE v # w
    <3>1. n \in worker[v].todo /\ Owns(v, n) /\ worker[v].deadline <= mail[n].lease
      BY <2>2 DEF LeasesLast
    <3> QED BY <1>3, <2>2, <3>1 DEF Owns
  <2> QED BY <2>1, <2>2
<1>7. CopiesTried'
  <2> SUFFICES ASSUME NEW n \in Mail
      PROVE  /\ copies[n] <= mail'[n].attempts
             /\ \A v \in Worker : Untried(v, n)' /\ Owns(v, n)' => copies[n] < mail'[n].attempts
    BY DEF CopiesTried
  <2>1. mail'[n].attempts = mail[n].attempts
    OBVIOUS
  <2>2. ASSUME NEW v \in Worker, Untried(v, n)', Owns(v, n)' PROVE Untried(v, n) /\ Owns(v, n)
    <3>1. CASE v = w
      BY <1>1, <2>2, <3>1 DEF Untried, Owns, Delivering
    <3>2. CASE v # w
      BY <1>2, <2>2, <3>2, TokenAssumption DEF Untried, Owns
    <3> QED BY <3>1, <3>2
  <2> QED BY <2>1, <2>2 DEF CopiesTried
<1>8. OutcomesHeard'
  <2> SUFFICES ASSUME NEW n \in Mail, n \notin unheard'
      PROVE  /\ copies[n] <= 1
             /\ copies[n] = 1 /\ mail'[n].status = "PENDING" => \E v \in Worker : WithRound(v, n)'
             /\ copies[n] = 1 => mail'[n].status # "ABSENT"
             /\ \A v \in Worker : worker'[v].phase \in Outcome /\ worker'[v].now = n
                  => Owns(v, n)' \/ mail'[n].status # "PENDING"
    BY DEF OutcomesHeard
  <2>1. n \notin unheard
    OBVIOUS
  <2>2. ASSUME copies[n] = 1, mail'[n].status = "PENDING" PROVE \E v \in Worker : WithRound(v, n)'
    <3>1. mail'[n] = mail[n] /\ (n # m \/ worker[w].phase \notin Delivering \cup Outcome)
      BY <2>2
    <3>2. PICK v \in Worker : WithRound(v, n)
      BY <2>1, <2>2, <3>1 DEF OutcomesHeard
    <3>3. v # w
      BY <3>1, <3>2 DEF WithRound, Delivering, Outcome
    <3> QED BY <3>1, <3>2, <3>3 DEF WithRound, Owns
  <2>3. ASSUME NEW v \in Worker, worker'[v].phase \in Outcome, worker'[v].now = n
        PROVE  Owns(v, n)' \/ mail'[n].status # "PENDING"
    <3>1. v # w
      BY <1>1, <2>3 DEF Outcome
    <3>2. n \in worker[v].todo /\ (Owns(v, n) \/ mail[n].status # "PENDING")
      BY <2>1, <2>3, <3>1 DEF Shape, OutcomesHeard
    <3>3. CASE Owns(v, n)
      BY <1>3, <3>1, <3>2, <3>3 DEF Owns
    <3>4. CASE mail[n].status # "PENDING"
      <4>1. mail'[n] = mail[n]
        BY <3>4 DEF Owns
      <4> QED BY <3>4, <4>1
    <3> QED BY <3>2, <3>3, <3>4
  <2> QED BY <2>1, <2>2, <2>3 DEF OutcomesHeard
<1> QED BY <1>4, <1>5, <1>6, <1>7, <1>8

(***************************************************************************)
(* Every step keeps the invariant                                          *)
(***************************************************************************)
LEMMA InitInv == Init => MailInv
<1> SUFFICES ASSUME Init PROVE MailInv
  OBVIOUS
<1>1. TypeOK
  BY InitTypes
<1>2. \A w \in Worker : worker[w].phase = "idle" /\ worker[w].token = NoToken /\ worker[w].todo = {}
  BY DEF Init, Idle, Round
<1>3. \A m \in Mail : copies[m] = 0 /\ mail[m].attempts = 0
  BY DEF Init, Absent
<1>4. Shape /\ TokensDiffer /\ LeasesLast
  BY <1>2 DEF Shape, TokensDiffer, LeasesLast, Delivering, Outcome
<1>5. CopiesTried /\ OutcomesHeard
  BY <1>2, <1>3 DEF CopiesTried, OutcomesHeard, Untried, Outcome
<1> QED BY <1>1, <1>4, <1>5 DEF MailInv

LEMMA EnqueueInv == ASSUME MailInv, NEW m \in Mail, EnqueueMail(m) PROVE MailInv'
<1> USE DEF MailInv
<1>1. /\ mail[m].status = "ABSENT" /\ mail'[m].status = "PENDING"
      /\ mail'[m].attempts = mail[m].attempts /\ mail'[m].lease = mail[m].lease
      /\ mail'[m].token = mail[m].token
      /\ \A n \in Mail \ {m} : mail'[n] = mail[n]
      /\ worker' = worker /\ copies' = copies /\ unheard' = unheard
  BY DEF EnqueueMail, TypeOK, MailType, observers
<1>2. TypeOK'
  BY DEF EnqueueMail, TypeOK, MailType, observers
<1>3. \A w \in Worker : m \notin worker[w].todo
  BY <1>1 DEF Shape
<1>4. \A w \in Worker : \A n \in worker[w].todo : n \in Mail \ {m} /\ mail'[n] = mail[n]
  BY <1>1, <1>3 DEF TypeOK, WorkerType
<1>5. Shape' /\ TokensDiffer' /\ LeasesLast'
  BY <1>1, <1>4 DEF Shape, TokensDiffer, LeasesLast, Owns
<1>6. CopiesTried'
  BY <1>1, <1>3 DEF CopiesTried, Untried, Owns
<1>7. OutcomesHeard'
  <2> SUFFICES ASSUME NEW n \in Mail, n \notin unheard
      PROVE  /\ copies[n] <= 1
             /\ copies[n] = 1 /\ mail'[n].status = "PENDING" => \E v \in Worker : WithRound(v, n)'
             /\ copies[n] = 1 => mail'[n].status # "ABSENT"
             /\ \A v \in Worker : worker[v].phase \in Outcome /\ worker[v].now = n
                  => Owns(v, n)' \/ mail'[n].status # "PENDING"
    BY <1>1 DEF OutcomesHeard
  <2>1. CASE n = m
    <3>1. copies[m] # 1 /\ copies[m] <= 1
      BY <1>1, <2>1 DEF OutcomesHeard
    <3>2. \A v \in Worker : worker[v].phase \in Outcome => worker[v].now # m
      BY <1>3 DEF Shape
    <3> QED BY <2>1, <3>1, <3>2
  <2>2. CASE n # m
    BY <1>1, <2>2 DEF OutcomesHeard, WithRound, Owns
  <2> QED BY <2>1, <2>2
<1> QED BY <1>2, <1>5, <1>6, <1>7

LEMMA BeginInv == ASSUME MailInv, NEW w \in Worker, Begin(w) PROVE MailInv'
<1> USE DEF MailInv
<1>1. TypeOK'
  BY StepTypes
<1>2. /\ worker[w].phase = "idle" /\ worker'[w].phase = "claiming"
      /\ worker'[w].todo = {} /\ worker'[w].token = NoToken
      /\ \A v \in Worker \ {w} : worker'[v] = worker[v]
      /\ mail' = mail /\ copies' = copies /\ unheard' = unheard
  BY DEF Begin, Round, TypeOK
<1>3. Shape' /\ TokensDiffer' /\ LeasesLast'
  BY <1>2 DEF Shape, TokensDiffer, LeasesLast, Owns, Delivering, Outcome
<1>4. CopiesTried'
  BY <1>2 DEF CopiesTried, Untried, Owns
<1>5. OutcomesHeard'
  BY <1>2 DEF OutcomesHeard, WithRound, Owns, Outcome
<1> QED BY <1>1, <1>3, <1>4, <1>5

LEMMA PrepareFailsInv ==
  ASSUME MailInv, NEW w \in Worker, NEW m \in Mail, PrepareFails(w, m) \/ PrepareFailsUnrecorded(w, m)
  PROVE  MailInv'
<1>1. TypeOK'
  BY StepTypes DEF MailInv, Works
<1>2. /\ worker[w].phase = "resolving" /\ m \in worker[w].todo
      /\ Proceed(w, m) \/ Ends(w)
      /\ mail' = mail \/ Write(w, m, MarkFailed(mail[m]))
      /\ copies' = copies /\ unheard' = unheard
  BY DEF PrepareFails, PrepareFailsUnrecorded, observers
<1>3. /\ \A v \in Worker \ {w} : worker'[v] = worker[v]
      /\ worker'[w] = Idle \/ worker'[w] = Resolving(w, worker[w].token, worker[w].todo \ {m})
  BY <1>2 DEF Proceed, Ends, MailInv, TypeOK
<1>4. /\ \A n \in Mail \ {m} : mail'[n] = mail[n]
      /\ \/ mail'[m] = mail[m]
         \/ Owns(w, m) /\ mail'[m] = MarkFailed(mail[m])
  BY <1>2 DEF Write, MailInv, TypeOK
<1>5. /\ MarkFailed(mail[m]).attempts = mail[m].attempts /\ MarkFailed(mail[m]).token = NoToken
      /\ MarkFailed(mail[m]).status # "ABSENT"
  BY DEF MarkFailed, Written
<1>6. ASSUME m \notin unheard, Owns(w, m) PROVE copies[m] = 0
  <2>1. copies[m] = 1 => \E v \in Worker : WithRound(v, m)
    BY <1>6 DEF MailInv, OutcomesHeard, Owns
  <2>2. \A v \in Worker : ~WithRound(v, m)
    BY <1>2, <1>6, OneOwner DEF WithRound
  <2> QED BY <1>6, <2>1, <2>2 DEF MailInv, OutcomesHeard, TypeOK
<1>7. worker[w].phase \notin {"idle", "claiming"} \cup Delivering \cup Outcome
  BY <1>2 DEF Delivering, Outcome
<1> QED BY <1>1, <1>2, <1>3, <1>4, <1>5, <1>6, <1>7, LeaveInv DEF MailInv

LEMMA DeferInv == ASSUME MailInv, NEW w \in Worker, Defer(w) PROVE MailInv'
<1>1. TypeOK'
  BY StepTypes DEF MailInv, Works
<1>2. /\ worker[w].phase \notin Delivering \cup Outcome
      /\ \A v \in Worker \ {w} : worker'[v] = worker[v]
      /\ worker'[w] = Idle
      /\ mail' = mail /\ copies' = copies /\ unheard' = unheard
  BY DEF Defer, Ends, observers, MailInv, TypeOK, Delivering, Outcome
<1> QED BY <1>1, <1>2, MailAssumption, LeaveInv DEF MailInv

LEMMA RoundStopsInv == ASSUME MailInv, NEW w \in Worker, RoundStops(w) PROVE MailInv'
<1>1. TypeOK'
  BY StepTypes DEF MailInv
<1>2. /\ \A v \in Worker \ {w} : worker'[v] = worker[v]
      /\ worker'[w] = Idle
      /\ mail' = mail /\ copies' = copies /\ unheard \subseteq unheard'
      /\ worker[w].phase \in Delivering \cup Outcome => worker[w].now \in unheard'
  BY DEF RoundStops, Ends, MailInv, TypeOK
<1> QED BY <1>1, <1>2, LeaveInv DEF MailInv

LEMMA ReportInv == ASSUME MailInv, NEW w \in Worker, Report(w) PROVE MailInv'
<1> DEFINE m == worker[w].now
<1>1. TypeOK'
  BY StepTypes DEF MailInv, Works
<1>2. /\ worker[w].phase \in Outcome /\ m \in worker[w].todo /\ m \in Mail
      /\ Proceed(w, m) \/ Ends(w)
      /\ Write(w, m, Mark(mail[m], worker[w].phase))
      /\ copies' = copies
      /\ unheard' = IF Owns(w, m) THEN unheard ELSE unheard \cup {m}
  BY DEF Report, MailInv, Shape, TypeOK, WorkerType
<1> HIDE DEF m
<1>3. /\ \A v \in Worker \ {w} : worker'[v] = worker[v]
      /\ worker'[w] = Idle \/ worker'[w] = Resolving(w, worker[w].token, worker[w].todo \ {m})
  BY <1>2 DEF Proceed, Ends, MailInv, TypeOK
<1>4. /\ \A n \in Mail \ {m} : mail'[n] = mail[n]
      /\ ~Owns(w, m) => mail'[m] = mail[m]
      /\ Owns(w, m) => mail'[m] = Mark(mail[m], worker[w].phase)
  BY <1>2 DEF Write, MailInv, TypeOK
<1>5. /\ Mark(mail[m], worker[w].phase).attempts = mail[m].attempts
      /\ Mark(mail[m], worker[w].phase).token = NoToken
      /\ Mark(mail[m], worker[w].phase).status # "ABSENT"
      /\ worker[w].phase # "refused" => Mark(mail[m], worker[w].phase).status # "PENDING"
  BY <1>2 DEF Mark, MarkSent, MarkFailed, GiveUp, Written, Outcome
<1>6. ASSUME m \notin unheard, Owns(w, m), worker[w].phase = "refused" PROVE copies[m] = 0
  <2>1. copies[m] = 1 => \E v \in Worker : WithRound(v, m)
    BY <1>2, <1>6 DEF MailInv, OutcomesHeard, Owns
  <2>2. \A v \in Worker : ~WithRound(v, m)
    BY <1>2, <1>6, OneOwner DEF WithRound
  <2> QED BY <1>2, <1>6, <2>1, <2>2 DEF MailInv, OutcomesHeard, TypeOK
<1>7. worker[w].phase \notin {"idle", "claiming"} /\ worker[w].now = m
  BY <1>2 DEF Outcome, m
<1> QED BY <1>1, <1>2, <1>3, <1>4, <1>5, <1>6, <1>7, LeaveInv DEF MailInv

\* A step of a delivery: the round stays at the row, which it owns.
LEMMA AtInv ==
  ASSUME MailInv, TypeOK', NEW w \in Worker, NEW m \in worker[w].todo,
         NEW phase \in Delivering \cup Outcome, NEW left \in 0..Budget,
         worker' = [worker EXCEPT ![w] = At(w, phase, m, left)],
         worker[w].phase \in {"resolving"} \cup Delivering,
         worker[w].phase # "resolving" => worker[w].now = m,
         worker[w].deadline > 0,
         phase \in Delivering => left + Slack <= worker[w].deadline,
         phase = "sending" => worker[w].phase = "resolving",
         worker[w].phase = "accepted" => phase \in {"accepted", "sent", "uncertain"},
         mail' = mail, unheard' = unheard,
         copies' = IF phase = "accepted" /\ worker[w].phase = "sending"
                   THEN [copies EXCEPT ![m] = @ + 1] ELSE copies,
         phase = "accepted" => worker[w].phase = "sending"
  PROVE  MailInv'
<1> USE DEF MailInv
<1>1. /\ worker'[w].phase = phase /\ worker'[w].now = m /\ worker'[w].left = left
      /\ worker'[w].todo = worker[w].todo /\ worker'[w].token = worker[w].token
      /\ worker'[w].deadline = worker[w].deadline
      /\ \A v \in Worker \ {w} : worker'[v] = worker[v]
  BY DEF At, TypeOK
<1>2. Owns(w, m) /\ m \in Mail /\ mail[m].attempts \in Nat /\ copies[m] \in Nat
  BY DEF LeasesLast, TypeOK, WorkerType, MailType
<1>3. worker[w].token \in Token /\ phase \notin {"idle", "claiming"}
  BY DEF Shape, Delivering, Outcome
<1>4. Shape'
  BY <1>1, <1>3 DEF Shape
<1>5. TokensDiffer' /\ LeasesLast'
  BY <1>1 DEF TokensDiffer, LeasesLast, Owns
<1>6. \A v \in Worker \ {w} : m \in worker[v].todo => ~Owns(v, m)
  BY <1>2, OneOwner
<1>7. worker[w].phase # "accepted" => Untried(w, m)
  BY DEF Untried, Delivering, Outcome
<1>8. \A v \in Worker, n \in Mail : Owns(v, n)' <=> Owns(v, n)
  BY <1>1 DEF Owns
<1>9. CopiesTried'
  <2> SUFFICES ASSUME NEW n \in Mail
      PROVE  /\ copies'[n] <= mail[n].attempts
             /\ \A v \in Worker : Untried(v, n)' /\ Owns(v, n)' => copies'[n] < mail[n].attempts
    BY DEF CopiesTried
  <2>1. CASE n # m
    <3>1. copies'[n] = copies[n]
      BY <2>1 DEF TypeOK
    <3>2. \A v \in Worker : Untried(v, n)' => Untried(v, n)
      BY <1>1, <2>1 DEF Untried, Delivering, Outcome
    <3> QED BY <1>8, <3>1, <3>2 DEF CopiesTried
  <2>2. CASE n = m
    <3>1. ASSUME NEW v \in Worker \ {w}, Untried(v, m)' PROVE ~Owns(v, m)'
      <4>1. m \in worker[v].todo
        BY <1>1, <3>1 DEF Untried
      <4> QED BY <1>2, <1>6, <1>8, <4>1
    <3>2. CASE phase = "accepted"
      <4>1. copies[m] < mail[m].attempts /\ copies'[m] = copies[m] + 1
        BY <1>2, <1>7, <3>2 DEF CopiesTried, TypeOK
      <4>2. ~Untried(w, m)'
        BY <1>1, <3>2 DEF Untried
      <4> QED BY <1>2, <2>2, <3>1, <4>1, <4>2
    <3>3. CASE phase # "accepted"
      <4>1. copies' = copies
        BY <3>3
      <4>2. Untried(w, m)' => Untried(w, m)
        BY <1>1, <1>7 DEF Untried, Outcome
      <4> QED BY <1>8, <2>2, <3>1, <4>1, <4>2 DEF CopiesTried
    <3> QED BY <3>2, <3>3
  <2> QED BY <2>1, <2>2
<1>10. OutcomesHeard'
  <2> SUFFICES ASSUME NEW n \in Mail, n \notin unheard
      PROVE  /\ copies'[n] <= 1
             /\ copies'[n] = 1 /\ mail[n].status = "PENDING" => \E v \in Worker : WithRound(v, n)'
             /\ copies'[n] = 1 => mail[n].status # "ABSENT"
             /\ \A v \in Worker : worker'[v].phase \in Outcome /\ worker'[v].now = n
                  => Owns(v, n)' \/ mail[n].status # "PENDING"
    BY DEF OutcomesHeard
  <2>1. CASE n # m
    <3>1. copies'[n] = copies[n]
      BY <2>1 DEF TypeOK
    <3>2. ASSUME NEW v \in Worker, WithRound(v, n) PROVE WithRound(v, n)'
      <4>1. v # w
        BY <2>1, <3>2 DEF WithRound, Delivering, Outcome
      <4> QED BY <1>1, <1>8, <3>2, <4>1 DEF WithRound
    <3> QED BY <1>1, <1>8, <2>1, <3>1, <3>2 DEF OutcomesHeard
  <2>2. CASE n = m
    <3>1. ASSUME NEW v \in Worker, WithRound(v, m) PROVE v = w
      <4>1. m \in worker[v].todo
        BY <3>1 DEF WithRound, Shape, Delivering, Outcome
      <4> QED BY <1>6, <3>1, <4>1 DEF WithRound
    <3>2. mail[m].status = "PENDING"
      BY <1>2 DEF Owns
    <3>3. ASSUME worker[w].phase # "accepted" PROVE copies[m] = 0
      <4>1. ~WithRound(w, m)
        BY <3>3 DEF WithRound, Delivering
      <4> QED BY <1>2, <2>2, <3>1, <3>2, <4>1 DEF OutcomesHeard
    <3>4. ASSUME NEW v \in Worker, worker'[v].phase \in Outcome, worker'[v].now = m
          PROVE  Owns(v, m)'
      <4>1. CASE v = w
        BY <1>2, <1>8, <4>1
      <4>2. CASE v # w
        <5>1. Owns(v, m)
          BY <1>1, <2>2, <3>2, <3>4, <4>2 DEF OutcomesHeard
        <5> QED BY <1>2, <1>8, <5>1
      <4> QED BY <4>1, <4>2
    <3>5. CASE phase = "accepted"
      <4>1. copies'[m] = 1
        BY <3>3, <3>5 DEF TypeOK
      <4>2. WithRound(w, m)'
        BY <1>1, <1>2, <1>8, <3>5 DEF WithRound
      <4> QED BY <2>2, <3>2, <3>4, <4>1, <4>2
    <3>6. CASE phase # "accepted" /\ worker[w].phase # "accepted"
      BY <2>2, <3>2, <3>3, <3>4, <3>6
    <3>7. CASE phase # "accepted" /\ worker[w].phase = "accepted"
      <4>1. WithRound(w, m)'
        BY <1>1, <1>2, <1>8, <3>7 DEF WithRound
      <4>2. copies' = copies
        BY <3>7
      <4> QED BY <2>2, <3>2, <3>4, <4>1, <4>2 DEF OutcomesHeard
    <3> QED BY <3>5, <3>6, <3>7
  <2> QED BY <2>1, <2>2
<1> QED BY <1>4, <1>5, <1>9, <1>10

LEMMA StartSendInv == ASSUME MailInv, NEW w \in Worker, NEW m \in Mail, StartSend(w, m) PROVE MailInv'
<1>1. TypeOK'
  BY StepTypes DEF MailInv, Works
<1>2. /\ worker[w].phase = "resolving" /\ m \in worker[w].todo
      /\ worker' = [worker EXCEPT ![w] = At(w, "sending", m, Budget)]
      /\ mail' = mail /\ copies' = copies /\ unheard' = unheard
  BY DEF StartSend, observers
<1>3. worker[w].deadline > 0 /\ Budget + Slack <= worker[w].deadline
  BY Times, TimeAssumption DEF StartSend, FitsLease, MailInv, TypeOK, WorkerType
<1>4. Budget \in 0..Budget /\ "sending" \in Delivering
  BY TimeAssumption DEF Delivering
<1> QED BY <1>1, <1>2, <1>3, <1>4, AtInv

LEMMA SmtpAcceptsInv == ASSUME MailInv, NEW w \in Worker, SmtpAccepts(w) PROVE MailInv'
<1>1. TypeOK'
  BY StepTypes DEF MailInv, Works
<1>2. /\ worker[w].phase = "sending"
      /\ worker' = [worker EXCEPT ![w] = At(w, "accepted", worker[w].now, worker[w].left)]
      /\ copies' = [copies EXCEPT ![worker[w].now] = @ + 1]
      /\ mail' = mail /\ unheard' = unheard
  BY DEF SmtpAccepts
<1>3. worker[w].now \in worker[w].todo /\ worker[w].left + Slack <= worker[w].deadline
  BY <1>2 DEF MailInv, Shape, Delivering
<1>4. worker[w].left \in 0..Budget /\ worker[w].deadline > 0
  BY <1>3, TimeAssumption, Times DEF MailInv, TypeOK, WorkerType
<1>5. /\ "accepted" \in Delivering /\ worker[w].phase \in {"resolving"} \cup Delivering
      /\ "accepted" # "sending" /\ worker[w].phase # "accepted"
      /\ "accepted" \in Delivering \cup Outcome
  BY <1>2 DEF Delivering
<1>6. copies' = IF "accepted" = "accepted" /\ worker[w].phase = "sending"
                THEN [copies EXCEPT ![worker[w].now] = @ + 1] ELSE copies
  BY <1>2
<1> HIDE DEF Delivering, Outcome
<1> QED BY <1>1, <1>2, <1>3, <1>4, <1>5, <1>6, AtInv

LEMMA SendEndsInv == ASSUME MailInv, NEW w \in Worker, SendEnds(w) PROVE MailInv'
<1>1. TypeOK'
  BY StepTypes DEF MailInv, Works
<1>2. PICK outcome \in {"uncertain", IF worker[w].phase = "accepted" THEN "sent" ELSE "refused"} :
        /\ worker[w].phase \in Delivering
        /\ worker' = [worker EXCEPT ![w] = At(w, outcome, worker[w].now, 0)]
        /\ mail' = mail /\ copies' = copies /\ unheard' = unheard
  BY DEF SendEnds, observers
<1>3. worker[w].now \in worker[w].todo /\ worker[w].left + Slack <= worker[w].deadline
  BY <1>2 DEF MailInv, Shape
<1>4. 0 \in 0..Budget /\ worker[w].deadline > 0
  BY <1>3, TimeAssumption, Times DEF MailInv, TypeOK, WorkerType
<1>5. /\ outcome \in Outcome /\ outcome \notin Delivering
      /\ outcome = "refused" => worker[w].phase # "accepted"
      /\ worker[w].phase = "accepted" => outcome \in {"sent", "uncertain"}
  BY DEF Outcome, Delivering
<1> QED BY <1>1, <1>2, <1>3, <1>4, <1>5, AtInv DEF Delivering

LEMMA ClaimInv == ASSUME MailInv, NEW w \in Worker, Claim(w) PROVE MailInv'
<1> USE DEF MailInv
<1>1. PICK batch \in Batches, answered \in BOOLEAN :
        /\ mail' = [m \in Mail |-> IF Exhausted(m) THEN GiveUp(mail[m])
                                   ELSE IF m \in batch THEN Claimed(mail[m], Fresh)
                                   ELSE mail[m]]
        /\ worker' = [worker EXCEPT ![w] =
                        IF batch = {} \/ ~answered THEN Idle ELSE Resolving(w, Fresh, batch)]
        /\ unheard' = unheard \cup
             {m \in batch : \E v \in Worker : worker[v].phase \in Outcome /\ worker[v].now = m}
  BY DEF Claim
<1>2. TypeOK'
  BY ClaimTypes
<1>3. worker[w].phase = "claiming" /\ copies' = copies /\ \A v \in Worker \ {w} : worker'[v] = worker[v]
  BY <1>1 DEF Claim, TypeOK
<1>4. \/ worker'[w] = Idle
      \/ worker'[w] = Resolving(w, Fresh, batch)
  BY <1>1 DEF TypeOK
<1>5. /\ worker'[w].phase \in {"idle", "resolving"}
      /\ worker'[w].phase = "idle" => worker'[w].todo = {} /\ worker'[w].token = NoToken
      /\ worker'[w].phase = "resolving" => worker'[w].todo = batch /\ worker'[w].token = Fresh
      /\ worker'[w].todo \subseteq batch
  BY <1>4 DEF Idle, Round, Resolving
<1>6. /\ Fresh \in Token /\ \A m \in Mail : mail[m].token # Fresh
      /\ \A v \in Worker : worker[v].token # Fresh
  BY FreshToken
<1>7. \A m \in batch : m \in Mail /\ Due(m) /\ ~Exhausted(m)
  BY CountAssumption DEF Batches, Due, Exhausted, TypeOK, MailType
<1>8. ASSUME NEW m \in batch
      PROVE  /\ mail'[m].status = "PENDING" /\ mail'[m].token = Fresh /\ mail'[m].lease = Lease
             /\ mail'[m].attempts = mail[m].attempts + 1
             /\ mail[m].status = "PENDING" /\ mail[m].lease = 0
  BY <1>1, <1>7 DEF Claimed, Leased, Due, Free
<1>9. ASSUME NEW m \in Mail, Exhausted(m)
      PROVE  /\ mail'[m].status = "FAILED" /\ mail'[m].attempts = mail[m].attempts
             /\ mail[m].lease = 0
  BY <1>1, <1>9 DEF GiveUp, Written, Exhausted, Free
<1>10. \A m \in Mail : m \notin batch /\ ~Exhausted(m) => mail'[m] = mail[m]
  BY <1>1
\* What a round with time left has still to do is leased.
<1>11. ASSUME NEW v \in Worker, NEW m \in worker[v].todo, worker[v].deadline > 0
       PROVE  m \in Mail /\ m \notin batch /\ mail'[m] = mail[m]
  <2>1. m \in Mail /\ mail[m].lease # 0
    BY <1>11, Times DEF LeasesLast, TypeOK, WorkerType, MailType
  <2> QED BY <1>8, <1>9, <1>10, <2>1
<1>12. Shape'
  <2> SUFFICES ASSUME NEW v \in Worker
      PROVE /\ worker'[v].phase \in {"idle", "claiming"} => worker'[v].token = NoToken /\ worker'[v].todo = {}
            /\ worker'[v].phase \notin {"idle", "claiming"} => worker'[v].token \in Token
            /\ worker'[v].phase \in Delivering \cup Outcome => worker'[v].now \in worker'[v].todo
            /\ worker'[v].phase \in Delivering => worker'[v].left + Slack <= worker'[v].deadline
            /\ \A n \in worker'[v].todo : mail'[n].status # "ABSENT"
    BY DEF Shape
  <2>1. \A n \in Mail : mail[n].status # "ABSENT" => mail'[n].status # "ABSENT"
    BY <1>8, <1>9, <1>10
  <2>2. CASE v = w
    BY <1>5, <1>6, <1>8, <2>2 DEF Delivering, Outcome
  <2>3. CASE v # w
    <3>1. \A n \in worker[v].todo : n \in Mail
      BY DEF TypeOK, WorkerType
    <3> QED BY <1>3, <2>1, <2>3, <3>1 DEF Shape
  <2> QED BY <2>2, <2>3
<1>13. TokensDiffer'
  BY <1>3, <1>5, <1>6 DEF TokensDiffer
<1>14. LeasesLast'
  <2> SUFFICES ASSUME NEW v \in Worker, NEW n \in worker'[v].todo, worker'[v].deadline > 0
      PROVE  Owns(v, n)' /\ worker'[v].deadline <= mail'[n].lease
    BY DEF LeasesLast
  <2>1. CASE v = w
    <3>1. worker'[w].phase = "resolving" /\ n \in batch
      BY <1>5, <2>1
    <3>2. worker'[w].deadline <= Lease
      BY <1>2, Times DEF TypeOK, WorkerType
    <3> QED BY <1>5, <1>8, <2>1, <3>1, <3>2 DEF Owns
  <2>2. CASE v # w
    <3>1. worker'[v] = worker[v] /\ mail'[n] = mail[n]
      BY <1>3, <1>11, <2>2
    <3> QED BY <3>1 DEF LeasesLast, Owns
  <2> QED BY <2>1, <2>2
<1>15. CopiesTried'
  <2> SUFFICES ASSUME NEW n \in Mail
      PROVE  /\ copies[n] <= mail'[n].attempts
             /\ \A v \in Worker : Untried(v, n)' /\ Owns(v, n)' => copies[n] < mail'[n].attempts
    BY <1>3 DEF CopiesTried
  <2>1. copies[n] \in Nat /\ mail[n].attempts \in Nat /\ copies[n] <= mail[n].attempts
    BY DEF CopiesTried, TypeOK, MailType
  <2>2. CASE n \in batch
    BY <1>8, <2>1, <2>2
  <2>3. CASE Exhausted(n)
    BY <1>9, <2>1, <2>3 DEF Owns
  <2>4. CASE n \notin batch /\ ~Exhausted(n)
    <3>1. mail'[n] = mail[n]
      BY <1>10, <2>4
    <3>2. ASSUME NEW v \in Worker, Untried(v, n)', Owns(v, n)' PROVE Untried(v, n) /\ Owns(v, n)
      <4>1. v # w
        BY <1>5, <2>4, <3>2 DEF Untried
      <4> QED BY <1>3, <3>1, <3>2, <4>1 DEF Untried, Owns
    <3> QED BY <2>1, <3>1, <3>2 DEF CopiesTried
  <2> QED BY <2>2, <2>3, <2>4
<1>16. OutcomesHeard'
  <2> SUFFICES ASSUME NEW n \in Mail, n \notin unheard'
      PROVE  /\ copies[n] <= 1
             /\ copies[n] = 1 /\ mail'[n].status = "PENDING" => \E v \in Worker : WithRound(v, n)'
             /\ copies[n] = 1 => mail'[n].status # "ABSENT"
             /\ \A v \in Worker : worker'[v].phase \in Outcome /\ worker'[v].now = n
                  => Owns(v, n)' \/ mail'[n].status # "PENDING"
    BY <1>3 DEF OutcomesHeard
  <2>1. n \notin unheard /\ copies[n] \in Nat /\ copies[n] <= 1
    BY <1>1 DEF OutcomesHeard, TypeOK
  <2>2. \A v \in Worker : worker'[v].phase \in Outcome => v # w /\ worker'[v] = worker[v]
    BY <1>3, <1>5 DEF Outcome
  <2>3. CASE n \in batch
    <3>1. \A v \in Worker : worker[v].phase \in Outcome => worker[v].now # n
      BY <1>1, <2>3
    <3>2. ASSUME NEW v \in Worker, WithRound(v, n) PROVE FALSE
      <4>1. worker[v].phase = "accepted" /\ worker[v].now = n
        BY <3>1, <3>2 DEF WithRound, Outcome
      <4>2. n \in worker[v].todo /\ worker[v].deadline > 0
        BY <4>1, TimeAssumption, Times DEF Shape, Delivering, TypeOK, WorkerType
      <4> QED BY <1>11, <2>3, <4>2
    <3>3. copies[n] = 0
      BY <1>8, <2>1, <2>3, <3>2 DEF OutcomesHeard
    <3> QED BY <2>1, <2>2, <3>1, <3>3
  <2>4. CASE n \notin batch /\ Exhausted(n)
    BY <1>9, <2>1, <2>4
  <2>5. CASE n \notin batch /\ ~Exhausted(n)
    <3>1. mail'[n] = mail[n]
      BY <1>10, <2>5
    <3>2. ASSUME NEW v \in Worker, WithRound(v, n) PROVE WithRound(v, n)'
      <4>1. v # w
        BY <1>3, <3>2 DEF WithRound
      <4> QED BY <1>3, <3>1, <3>2, <4>1 DEF WithRound, Owns
    <3>3. ASSUME NEW v \in Worker, worker'[v].phase \in Outcome, worker'[v].now = n
          PROVE  Owns(v, n)' \/ mail'[n].status # "PENDING"
      <4>1. Owns(v, n) \/ mail[n].status # "PENDING"
        BY <2>1, <2>2, <3>3 DEF OutcomesHeard
      <4> QED BY <2>2, <3>1, <3>3, <4>1 DEF Owns
    <3>4. copies[n] = 1 /\ mail'[n].status = "PENDING" => \E v \in Worker : WithRound(v, n)'
      BY <2>1, <3>1, <3>2 DEF OutcomesHeard
    <3>5. copies[n] = 1 => mail'[n].status # "ABSENT"
      BY <2>1, <3>1 DEF OutcomesHeard
    <3> QED BY <2>1, <3>3, <3>4, <3>5
  <2> QED BY <2>3, <2>4, <2>5
<1> QED BY <1>2, <1>12, <1>13, <1>14, <1>15, <1>16

LEMMA TickInv == ASSUME MailInv, Tick PROVE MailInv'
<1> USE DEF MailInv
<1>1. TypeOK'
  BY TickTypes
<1>2. ASSUME NEW m \in Mail
      PROVE  /\ mail'[m].status = mail[m].status /\ mail'[m].attempts = mail[m].attempts
             /\ mail'[m].token = mail[m].token /\ mail'[m].lease = Down(mail[m].lease)
  BY DEF Tick
<1>3. ASSUME NEW w \in Worker
      PROVE  /\ worker'[w].phase = worker[w].phase /\ worker'[w].token = worker[w].token
             /\ worker'[w].todo = worker[w].todo /\ worker'[w].now = worker[w].now
             /\ worker'[w].deadline = Down(worker[w].deadline)
             /\ worker'[w].left = Down(worker[w].left)
             /\ worker[w].deadline \in Nat /\ worker[w].left \in Nat
             /\ worker[w].todo \subseteq Mail
             /\ worker[w].phase \in Delivering => worker[w].left > 0
  BY Times, TimeAssumption DEF Tick, TypeOK, WorkerType
<1>4. copies' = copies /\ unheard' = unheard
  BY DEF Tick
<1>5. \A w \in Worker, m \in Mail : Owns(w, m)' <=> Owns(w, m)
  BY <1>2, <1>3 DEF Owns
<1>6. Shape'
  <2>1. ASSUME NEW w \in Worker, worker[w].phase \in Delivering
        PROVE  worker'[w].left + Slack <= worker'[w].deadline
    <3>1. worker[w].left + Slack <= worker[w].deadline /\ worker[w].left > 0
      BY <1>3, <2>1 DEF Shape
    <3> QED BY <1>3, <3>1, TimeAssumption DEF Down
  <2>2. \A w \in Worker : \A m \in worker[w].todo : m \in Mail
    BY <1>3
  <2> QED BY <1>2, <1>3, <2>1, <2>2 DEF Shape
<1>7. TokensDiffer'
  BY <1>3 DEF TokensDiffer
<1>8. LeasesLast'
  <2> SUFFICES ASSUME NEW w \in Worker, NEW m \in worker'[w].todo, worker'[w].deadline > 0
      PROVE  Owns(w, m)' /\ worker'[w].deadline <= mail'[m].lease
    BY DEF LeasesLast
  <2>1. m \in worker[w].todo /\ m \in Mail /\ worker[w].deadline > 0
    BY <1>3 DEF Down
  <2>2. Owns(w, m) /\ worker[w].deadline <= mail[m].lease
    BY <2>1 DEF LeasesLast
  <2>3. mail[m].lease \in Nat
    BY <2>1, Times DEF TypeOK, MailType
  <2> QED BY <1>2, <1>3, <1>5, <2>1, <2>2, <2>3 DEF Down
<1>9. CopiesTried'
  BY <1>2, <1>3, <1>4, <1>5 DEF CopiesTried, Untried
<1>10. OutcomesHeard'
  BY <1>2, <1>3, <1>4, <1>5 DEF OutcomesHeard, WithRound
<1> QED BY <1>1, <1>6, <1>7, <1>8, <1>9, <1>10

LEMMA NextInv == MailInv /\ [Next]_vars => MailInv'
<1> SUFFICES ASSUME MailInv, [Next]_vars PROVE MailInv'
  OBVIOUS
<1>1. CASE UNCHANGED vars
  BY <1>1 DEF vars, MailInv, TypeOK, Shape, TokensDiffer, LeasesLast, CopiesTried, OutcomesHeard,
              Owns, Untried, WithRound
<1>2. ASSUME NEW m \in Mail, EnqueueMail(m) PROVE MailInv'
  BY <1>2, EnqueueInv
<1>3. ASSUME NEW w \in Worker, Works(w) PROVE MailInv'
  BY <1>3, PrepareFailsInv, StartSendInv, DeferInv, SmtpAcceptsInv, SendEndsInv, ReportInv DEF Works
<1>4. ASSUME NEW w \in Worker, Begin(w) \/ Claim(w) \/ RoundStops(w) PROVE MailInv'
  BY <1>4, BeginInv, ClaimInv, RoundStopsInv
<1>5. CASE Tick
  BY <1>5, TickInv
<1> QED BY <1>1, <1>2, <1>3, <1>4, <1>5 DEF Next

(***************************************************************************)
(* The theorems                                                            *)
(***************************************************************************)
\* Every reachable state of the queue and its workers has the inductive invariant.
THEOREM MailInvariant == Spec => []MailInv
<1> QED BY InitInv, NextInv, PTL DEF Spec

\* A row is never attempted more often than the limit, whatever rounds stop,
\* and no round outlasts the longest lease (taskMailOutbox.js:30).
THEOREM MailTypes == Spec => []TypeOK
<1>1. MailInv => TypeOK
  BY DEF MailInv
<1> QED BY <1>1, MailInvariant, PTL

LEMMA DeliveryLease == MailInv => SenderHoldsLease
<1> SUFFICES ASSUME MailInv, NEW w \in Worker, worker[w].phase \in Delivering
    PROVE  Owns(w, worker[w].now) /\ mail[worker[w].now].lease > 0
  BY DEF SenderHoldsLease
<1>1. /\ worker[w].now \in worker[w].todo /\ worker[w].left + Slack <= worker[w].deadline
      /\ worker[w].left \in Nat /\ worker[w].deadline \in Nat
      /\ worker[w].now \in Mail /\ mail[worker[w].now].lease \in Nat
  BY Times, TimeAssumption DEF MailInv, Shape, TypeOK, WorkerType, MailType
<1>2. worker[w].deadline > 0
  BY <1>1, TimeAssumption
<1> QED BY <1>1, <1>2 DEF MailInv, LeasesLast

\* While a worker talks to the SMTP server about a mail, the row is its own and
\* its lease goes on (taskMailService.js:74-78), for every batch size and timing.
THEOREM SenderOwnsRow == Spec => []SenderHoldsLease
BY DeliveryLease, MailInvariant, PTL

\* Two instances never deliver the same mail at a time (taskMailOutbox.js:46-53).
THEOREM OneSender == Spec => []NoOverlappingSends
<1>1. MailInv => NoOverlappingSends
  <2> SUFFICES ASSUME MailInv, NEW v \in Worker, NEW w \in Worker, v # w,
                      worker[v].phase \in Delivering, worker[w].phase \in Delivering,
                      worker[v].now = worker[w].now
      PROVE  FALSE
    BY DEF NoOverlappingSends
  <2>1. Owns(v, worker[v].now) /\ Owns(w, worker[v].now)
    BY DeliveryLease DEF SenderHoldsLease
  <2>2. worker[v].now \in worker[v].todo
    BY DEF MailInv, Shape
  <2> QED BY <2>1, <2>2, OneOwner
<1> QED BY <1>1, MailInvariant, PTL

\* Types, leases and exclusion together: what the run on two instances checks.
THEOREM SendersApart == Spec => []SendsExclusive
BY MailTypes, SenderOwnsRow, OneSender, PTL DEF SendsExclusive

\* A recipient gets a second copy only after the outcome of a delivery was lost
\* on the way to the row (taskMailOutbox.js:13-16).
THEOREM DuplicatesExplained == Spec => []DuplicateOnlyIfUnheard
<1>1. MailInv => DuplicateOnlyIfUnheard
  BY DEF MailInv, TypeOK, OutcomesHeard, DuplicateOnlyIfUnheard
<1> QED BY <1>1, MailInvariant, PTL

\* Every copy costs an attempt, and attempts are limited (taskMailOutbox.js:135-136).
THEOREM CopiesLimited == Spec => []CopiesBounded
<1>1. MailInv => CopiesBounded
  BY CountAssumption DEF MailInv, TypeOK, MailType, CopiesTried, CopiesBounded
<1> QED BY <1>1, MailInvariant, PTL

\* A mail goes out again only for a lost outcome, and at most MaxAttempts times
\* in all (taskMailOutbox.js:13-16, 135-136).
THEOREM CopiesAccountedFor == Spec => []CopiesExplained
<1>1. CopiesExplained <=> DuplicateOnlyIfUnheard /\ CopiesBounded
  BY DEF CopiesExplained
<1> QED BY <1>1, DuplicatesExplained, CopiesLimited, PTL

(***************************************************************************)
(* The lease covers the batch                                              *)
(***************************************************************************)
\* The time deliveries have taken at most: the budget of each row that is done,
\* and what the one under way has used of its own.
Used(w) ==
  LET done == Budget * (BatchSize - Cardinality(worker[w].todo))
  IN  IF worker[w].phase \in {"idle", "claiming"} THEN 0
      ELSE IF worker[w].phase = "resolving" THEN done
      ELSE done + Budget - worker[w].left

\* Its reads and writes took longer than the slack of its batch.
LateRound(w) == delay[w] > Slack * (BatchSize - 1)

\* What a round has still to do is part of a batch.
BatchFits(w) ==
  worker[w].phase \notin {"idle", "claiming"} => Cardinality(worker[w].todo) \in 1..BatchSize

\* A round that is not late has lost no time but in deliveries and as its delay says.
TimeSpent(w) ==
  worker[w].phase # "idle" /\ ~LateRound(w) => Lease <= worker[w].deadline + delay[w] + Used(w)

\* A delivery that is over is charged its whole budget.
LeftSpent(w) == worker[w].phase \in Outcome => worker[w].left = 0

BatchInv == \A w \in Worker : BatchFits(w) /\ TimeSpent(w) /\ LeftSpent(w)

\* The lease carries a batch of deliveries, each with its slack.
LEMMA LeaseCovers ==
  /\ BatchSize \in Nat \ {0}
  /\ Slack * (BatchSize - 1) \in Nat
  /\ Slack * (BatchSize - 1) + Budget * (BatchSize - 1) + PerMail <= Lease
<1> DEFINE q == MaxLease \div PerMail
<1>1. /\ PerMail \in Nat \ {0} /\ PerMail = Budget + Slack /\ PerMail <= MaxLease
      /\ MaxLease \in Nat /\ Budget \in Nat /\ Slack \in Nat /\ MinLease \in Nat
  BY Times, TimeAssumption
<1>2. q \in Nat /\ q * PerMail <= MaxLease /\ q >= 1
  BY <1>1
<1> HIDE DEF q
<1>3. BatchSize \in Nat \ {0} /\ BatchSize <= q
  <2>1. BatchSize = Greatest(1, Least(Requested, q))
    BY DEF BatchSize, q
  <2> QED BY <1>2, <2>1, CountAssumption DEF Greatest, Least
<1>4. BatchSize * PerMail <= MaxLease /\ BatchSize * PerMail \in Nat
  <2>1. BatchSize * PerMail <= q * PerMail /\ BatchSize * PerMail \in Nat /\ q * PerMail \in Nat
    BY <1>1, <1>2, <1>3
  <2> QED BY <1>1, <1>2, <2>1
<1>5. BatchSize * PerMail <= Lease
  BY <1>1, <1>4 DEF Lease, Least, Greatest
<1>6. Slack * (BatchSize - 1) \in Nat /\ Budget * (BatchSize - 1) \in Nat
  BY <1>1, <1>3
<1>7. BatchSize * PerMail = Slack * (BatchSize - 1) + Budget * (BatchSize - 1) + PerMail
  BY <1>1, <1>3
<1> QED BY <1>3, <1>5, <1>6, <1>7

\* What the budgets of a number of deliveries come to.
LEMMA Budgets ==
  ASSUME NEW n \in Nat
  PROVE  /\ Budget * (BatchSize - n) \in Int
         /\ Budget * (BatchSize - (n - 1)) = Budget * (BatchSize - n) + Budget
         /\ n <= BatchSize => Budget * (BatchSize - n) \in Nat
<1>1. Budget \in Nat /\ BatchSize \in Nat
  BY LeaseCovers, TimeAssumption
<1> QED BY <1>1

\* The types of what a round counts.
LEMMA RoundCounts ==
  ASSUME TypeOK, NEW w \in Worker
  PROVE  /\ worker[w].todo \in SUBSET Mail /\ IsFiniteSet(worker[w].todo)
         /\ Cardinality(worker[w].todo) \in Nat
         /\ worker[w].deadline \in Nat /\ worker[w].left \in 0..Budget /\ delay[w] \in Nat
         /\ worker[w].phase \in Phase
         /\ Lease \in Nat /\ Budget \in Nat /\ Slack \in Nat /\ Used(w) \in Int
<1>1. worker[w].todo \in SUBSET Mail /\ IsFiniteSet(worker[w].todo)
  BY FS_Subset, MailAssumption DEF TypeOK, WorkerType
<1>2. Cardinality(worker[w].todo) \in Nat
  BY <1>1, FS_CardinalityType
<1>3. /\ worker[w].deadline \in Nat /\ worker[w].left \in 0..Budget /\ delay[w] \in Nat
      /\ worker[w].phase \in Phase /\ Lease \in Nat /\ Budget \in Nat /\ Slack \in Nat
  BY Times, TimeAssumption DEF TypeOK, WorkerType
<1>4. Used(w) \in Int
  <2>1. Budget * (BatchSize - Cardinality(worker[w].todo)) \in Int
    BY <1>2, Budgets
  <2> QED BY <1>3, <2>1 DEF Used
<1> QED BY <1>1, <1>2, <1>3, <1>4

\* A worker that has not moved is where it was.
LEMMA BatchStays ==
  ASSUME BatchInv, NEW v \in Worker, worker'[v] = worker[v], delay'[v] = delay[v]
  PROVE  BatchFits(v)' /\ TimeSpent(v)' /\ LeftSpent(v)'
BY DEF BatchInv, BatchFits, TimeSpent, LeftSpent, Used, LateRound

\* An idle worker has nothing to cover.
LEMMA BatchIdle ==
  ASSUME NEW w \in Worker, worker'[w] = Idle
  PROVE  BatchFits(w)' /\ TimeSpent(w)' /\ LeftSpent(w)'
BY DEF Idle, Round, BatchFits, TimeSpent, LeftSpent, Outcome

\* One worker moves.
LEMMA BatchMoves ==
  ASSUME BatchInv, TypeOK, NEW w \in Worker, NEW next, worker' = [worker EXCEPT ![w] = next], UNCHANGED delay,
         BatchFits(w)' /\ TimeSpent(w)' /\ LeftSpent(w)'
  PROVE  BatchInv'
<1>1. \A v \in Worker \ {w} : worker'[v] = worker[v] /\ delay'[v] = delay[v]
  BY DEF TypeOK
<1> QED BY <1>1, BatchStays DEF BatchInv

\* A round is over.
LEMMA BatchEnds ==
  ASSUME BatchInv, TypeOK, NEW w \in Worker, Ends(w), UNCHANGED delay
  PROVE  BatchInv'
<1>1. worker' = [worker EXCEPT ![w] = Idle] /\ worker'[w] = Idle
  BY DEF Ends, TypeOK
<1> QED BY <1>1, BatchIdle, BatchMoves

\* A round goes on with its next row: the one that is done had its budget.
LEMMA BatchProceeds ==
  ASSUME BatchInv, TypeOK, NEW w \in Worker, NEW m \in worker[w].todo, Proceed(w, m), UNCHANGED delay,
         worker[w].phase \in {"resolving"} \cup Outcome
  PROVE  BatchInv'
<1> DEFINE rest == worker[w].todo \ {m}
           n == Cardinality(worker[w].todo)
           next == Resolving(w, worker[w].token, rest)
<1>1. CASE worker[w].todo = {m}
  <2>1. Ends(w)
    BY <1>1 DEF Proceed, Ends
  <2> QED BY <2>1, BatchEnds
<1>2. CASE worker[w].todo # {m}
  <2>1. worker' = [worker EXCEPT ![w] = next] /\ worker'[w] = next
    BY <1>2 DEF Proceed, TypeOK
  <2>2. /\ next.phase = "resolving" /\ next.todo = rest /\ next.deadline = worker[w].deadline
    BY DEF Resolving
  <2>3. IsFiniteSet(rest) /\ Cardinality(rest) = n - 1 /\ rest # {}
    <3>1. IsFiniteSet(worker[w].todo)
      BY RoundCounts
    <3>2. IsFiniteSet(rest) /\ Cardinality(rest) = n - 1
      BY <3>1, FS_RemoveElement
    <3> QED BY <1>2, <3>2
  <2>4. Cardinality(rest) # 0
    BY <2>3, FS_EmptySet
  <2>5. n \in 1..BatchSize /\ n \in Nat /\ BatchSize \in Nat
    BY RoundCounts, LeaseCovers DEF BatchInv, BatchFits, Outcome
  <2> HIDE DEF next, rest, n
  <2>6. Cardinality(rest) \in 1..BatchSize
    BY <2>3, <2>4, <2>5
  <2>7. BatchFits(w)' /\ LeftSpent(w)'
    BY <2>1, <2>2, <2>6 DEF BatchFits, LeftSpent, Outcome
  <2>8. Used(w)' = Budget * (BatchSize - n) + Budget
    <3>1. Used(w)' = Budget * (BatchSize - Cardinality(rest))
      BY <2>1, <2>2 DEF Used
    <3> QED BY <2>3, <2>5, <3>1, Budgets
  <2>9. Used(w) <= Budget * (BatchSize - n) + Budget
    <3>1. worker[w].left \in Nat /\ Budget \in Nat /\ Budget * (BatchSize - n) \in Int
      BY <2>5, RoundCounts, Budgets
    <3>2. Used(w) = Budget * (BatchSize - n) \/ Used(w) = Budget * (BatchSize - n) + Budget - worker[w].left
      BY DEF Used, Outcome, n
    <3> QED BY <3>1, <3>2
  <2>10. TimeSpent(w)'
    <3>1. worker[w].phase # "idle"
      BY DEF Outcome
    <3>2. ~LateRound(w)' => ~LateRound(w) /\ Lease <= worker[w].deadline + delay[w] + Used(w)
      BY <3>1 DEF LateRound, BatchInv, TimeSpent
    <3>3. Budget * (BatchSize - n) \in Int
      BY <2>5, Budgets
    <3>4. worker'[w].deadline = worker[w].deadline /\ delay'[w] = delay[w]
      BY <2>1, <2>2
    <3> QED BY <2>8, <2>9, <3>2, <3>3, <3>4, RoundCounts DEF TimeSpent
  <2> QED BY <2>1, <2>7, <2>10, BatchMoves
<1> QED BY <1>1, <1>2

\* A worker is at another place with its row.
LEMMA BatchAt ==
  ASSUME BatchInv, TypeOK, NEW w \in Worker, NEW phase \in Delivering \cup Outcome, NEW m,
         NEW left \in 0..Budget, worker' = [worker EXCEPT ![w] = At(w, phase, m, left)], UNCHANGED delay,
         worker[w].phase \in {"resolving"} \cup Delivering, worker[w].phase # "resolving" => left <= worker[w].left,
         phase \in Outcome => left = 0
  PROVE  BatchInv'
<1> DEFINE next == At(w, phase, m, left)
           n == Cardinality(worker[w].todo)
<1>1. worker'[w] = next
  BY DEF TypeOK
<1>2. next.phase = phase /\ next.todo = worker[w].todo /\ next.deadline = worker[w].deadline /\ next.left = left
  BY DEF At
<1> HIDE DEF next
<1>3. BatchFits(w)' /\ LeftSpent(w)'
  BY <1>1, <1>2 DEF BatchFits, LeftSpent, BatchInv, Delivering
<1>4. phase \notin {"idle", "claiming", "resolving"} /\ worker[w].phase \notin {"idle", "claiming"}
  BY DEF Delivering, Outcome
<1>5. /\ Used(w)' = Budget * (BatchSize - n) + Budget - left
      /\ Used(w) = IF worker[w].phase = "resolving" THEN Budget * (BatchSize - n)
                   ELSE Budget * (BatchSize - n) + Budget - worker[w].left
  BY <1>1, <1>2, <1>4 DEF Used
<1>6. /\ Budget * (BatchSize - n) \in Int /\ Budget \in Nat /\ worker[w].left \in 0..Budget /\ delay[w] \in Nat
      /\ worker[w].deadline \in Nat /\ Lease \in Nat
  BY RoundCounts, Budgets
<1> HIDE DEF n
<1>7. Used(w) <= Used(w)'
  BY <1>5, <1>6
<1>8. TimeSpent(w)'
  <2>1. ~LateRound(w)' => Lease <= worker[w].deadline + delay[w] + Used(w)
    BY <1>4 DEF LateRound, BatchInv, TimeSpent
  <2>2. worker'[w].deadline = worker[w].deadline /\ delay'[w] = delay[w] /\ Used(w) \in Int /\ Used(w)' \in Int
    BY <1>1, <1>2, <1>5, <1>6
  <2> QED BY <1>6, <1>7, <2>1, <2>2 DEF TimeSpent
<1> QED BY <1>3, <1>8, BatchMoves DEF next

\* A claim leases no more rows than make a batch.
LEMMA BatchClaim ==
  ASSUME BatchInv, TypeOK, Shape, NEW w \in Worker, Claim(w)
  PROVE  BatchInv'
<1>1. PICK batch \in Batches, answered \in BOOLEAN :
        worker' = [worker EXCEPT ![w] = IF batch = {} \/ ~answered THEN Idle ELSE Resolving(w, Fresh, batch)]
  BY DEF Claim
<1>2. worker[w].phase = "claiming" /\ UNCHANGED delay
  BY DEF Claim
<1>3. CASE batch = {} \/ ~answered
  BY <1>1, <1>2, <1>3, BatchEnds DEF Ends
<1>4. CASE ~(batch = {} \/ ~answered)
  <2> DEFINE next == Resolving(w, Fresh, batch)
  <2>1. worker' = [worker EXCEPT ![w] = next] /\ worker'[w] = next
    BY <1>1, <1>4 DEF TypeOK
  <2>2. next.phase = "resolving" /\ next.todo = batch /\ next.deadline = worker[w].deadline
    BY DEF Resolving
  <2> HIDE DEF next
  <2>3. IsFiniteSet(batch) /\ Cardinality(batch) \in Nat /\ Cardinality(batch) <= BatchSize
    <3>1. batch \in SUBSET Mail
      BY DEF Batches
    <3>2. IsFiniteSet(batch) /\ Cardinality(batch) \in Nat
      BY <3>1, FS_Subset, FS_CardinalityType, MailAssumption
    <3> DEFINE due == {m \in Mail : Due(m)}
    <3>3. IF Cardinality(due) <= BatchSize THEN batch = due ELSE Cardinality(batch) = BatchSize
      BY DEF Batches
    <3> HIDE DEF due
    <3>4. Cardinality(batch) <= BatchSize
      BY <3>2, <3>3, LeaseCovers
    <3> QED BY <3>2, <3>4
  <2>4. Cardinality(batch) # 0
    BY <1>4, <2>3, FS_EmptySet
  <2>5. BatchFits(w)' /\ LeftSpent(w)'
    BY <2>1, <2>2, <2>3, <2>4, LeaseCovers DEF BatchFits, LeftSpent, Outcome
  <2>6. Used(w)' = Budget * (BatchSize - Cardinality(batch)) /\ Used(w)' \in Nat /\ Used(w) = 0
    <3>1. Used(w)' = Budget * (BatchSize - Cardinality(batch)) /\ Used(w) = 0
      BY <1>2, <2>1, <2>2 DEF Used
    <3> QED BY <2>3, <3>1, Budgets
  <2>7. TimeSpent(w)'
    <3>1. ~LateRound(w)' => Lease <= worker[w].deadline + delay[w] + Used(w)
      BY <1>2 DEF LateRound, BatchInv, TimeSpent
    <3>2. worker'[w].deadline = worker[w].deadline /\ delay'[w] = delay[w]
      BY <1>2, <2>1, <2>2
    <3> QED BY <2>6, <3>1, <3>2, RoundCounts DEF TimeSpent
  <2> QED BY <1>2, <2>1, <2>5, <2>7, BatchMoves
<1> QED BY <1>3, <1>4

\* The round begins before its rows are leased.
LEMMA BatchBegins ==
  ASSUME BatchInv, TypeOK, NEW w \in Worker, Begin(w)
  PROVE  BatchInv'
<1> DEFINE next == Round("claiming", Lease)
<1>1. /\ worker' = [worker EXCEPT ![w] = next] /\ worker'[w] = next
      /\ delay'[w] = 0 /\ \A v \in Worker \ {w} : worker'[v] = worker[v] /\ delay'[v] = delay[v]
  BY DEF Begin, TypeOK
<1>2. next.phase = "claiming" /\ next.deadline = Lease
  BY DEF Round
<1> HIDE DEF next
<1>3. Used(w)' = 0
  BY <1>1, <1>2 DEF Used
<1>4. BatchFits(w)' /\ TimeSpent(w)' /\ LeftSpent(w)'
  BY <1>1, <1>2, <1>3, Times DEF BatchFits, TimeSpent, LeftSpent, Outcome
<1> QED BY <1>1, <1>4, BatchStays DEF BatchInv

\* Time passes: outside of deliveries the delay counts it, within one the delivery does.
LEMMA BatchTick ==
  ASSUME BatchInv, TypeOK, Tick
  PROVE  BatchInv'
<1> SUFFICES ASSUME NEW w \in Worker PROVE BatchFits(w)' /\ TimeSpent(w)' /\ LeftSpent(w)'
  BY DEF BatchInv
<1>1. /\ worker'[w].phase = worker[w].phase /\ worker'[w].todo = worker[w].todo
      /\ worker'[w].deadline = Down(worker[w].deadline) /\ worker'[w].left = Down(worker[w].left)
      /\ delay'[w] = IF worker[w].phase \in {"idle"} \cup Delivering THEN delay[w] ELSE Delayed(delay[w])
      /\ worker[w].phase \in Delivering => worker[w].left > 0
  BY DEF Tick
<1>2. BatchFits(w)' /\ LeftSpent(w)'
  BY <1>1 DEF BatchInv, BatchFits, LeftSpent, Down
<1> DEFINE done == Budget * (BatchSize - Cardinality(worker[w].todo))
           cap == Slack * (BatchSize - 1)
<1>3. /\ done \in Int /\ cap \in Nat /\ Lease \in Nat /\ Budget \in Nat
      /\ worker[w].deadline \in Nat /\ worker[w].left \in 0..Budget /\ delay[w] \in Nat /\ worker[w].phase \in Phase
  BY RoundCounts, Budgets, LeaseCovers
<1>4. Used(w) = (IF worker[w].phase \in {"idle", "claiming"} THEN 0
                 ELSE IF worker[w].phase = "resolving" THEN done ELSE done + Budget - worker[w].left)
  BY DEF Used
<1>5. Used(w)' = (IF worker[w].phase \in {"idle", "claiming"} THEN 0
                  ELSE IF worker[w].phase = "resolving" THEN done ELSE done + Budget - Down(worker[w].left))
  BY <1>1 DEF Used
<1>6. /\ LateRound(w) <=> delay[w] > cap
      /\ LateRound(w)' <=> delay'[w] > cap
  BY DEF LateRound
<1>7. Delayed(delay[w]) = Least(delay[w] + 1, cap + 1)
  BY DEF Delayed
<1> HIDE DEF done, cap
<1>8. ASSUME worker[w].phase # "idle", delay'[w] <= cap
      PROVE  Lease <= worker'[w].deadline + delay'[w] + Used(w)'
  <2>1. CASE worker[w].phase \in Delivering
    <3>1. Lease <= worker[w].deadline + delay[w] + Used(w)
      BY <1>1, <1>3, <1>6, <1>8, <2>1 DEF BatchInv, TimeSpent
    <3>2. Used(w)' = Used(w) + 1
      BY <1>1, <1>3, <1>4, <1>5, <2>1 DEF Delivering, Down
    <3> QED BY <1>1, <1>3, <1>4, <2>1, <3>1, <3>2 DEF Down, Delivering
  <2>2. CASE worker[w].phase \notin Delivering
    <3>1. delay'[w] = delay[w] + 1
      BY <1>1, <1>3, <1>7, <1>8, <2>2 DEF Least
    <3>2. Lease <= worker[w].deadline + delay[w] + Used(w)
      BY <1>3, <1>6, <1>8, <3>1 DEF BatchInv, TimeSpent
    <3>3. Used(w)' = Used(w) /\ Used(w) \in Int
      <4>1. worker[w].phase \in Outcome => worker[w].left = 0
        BY DEF BatchInv, LeftSpent
      <4> QED BY <1>3, <1>4, <1>5, <1>8, <2>2, <4>1 DEF Phase, Down
    <3> QED BY <1>1, <1>3, <3>1, <3>2, <3>3 DEF Down
  <2> QED BY <2>1, <2>2
<1>9. delay'[w] \in Nat
  BY <1>1, <1>3, <1>7 DEF Least
<1> QED BY <1>1, <1>2, <1>3, <1>6, <1>8, <1>9 DEF TimeSpent

\* Every step keeps it.
LEMMA BatchNext ==
  ASSUME BatchInv, MailInv, [Next]_vars
  PROVE  BatchInv'
<1>0. TypeOK /\ Shape
  BY DEF MailInv
<1>1. CASE UNCHANGED vars
  BY <1>1, BatchStays DEF vars, observers, BatchInv
<1>2. ASSUME NEW m \in Mail, EnqueueMail(m) PROVE BatchInv'
  BY <1>2, BatchStays DEF EnqueueMail, observers, BatchInv
<1>3. ASSUME NEW w \in Worker, Works(w) PROVE BatchInv'
  <2>1. ASSUME NEW m \in Mail, PrepareFails(w, m) \/ PrepareFailsUnrecorded(w, m) PROVE BatchInv'
    BY <1>0, <2>1, BatchEnds, BatchProceeds DEF PrepareFails, PrepareFailsUnrecorded, observers
  <2>2. ASSUME NEW m \in Mail, StartSend(w, m) PROVE BatchInv'
    <3>1. "sending" \in Delivering /\ "sending" \notin Outcome /\ Budget \in 0..Budget
      BY TimeAssumption DEF Delivering, Outcome
    <3> QED BY <1>0, <2>2, <3>1, BatchAt DEF StartSend, observers
  <2>3. CASE Defer(w)
    BY <1>0, <2>3, BatchEnds DEF Defer, observers
  <2>4. CASE SmtpAccepts(w)
    <3>1. "accepted" \in Delivering /\ "accepted" \notin Outcome /\ "sending" \in Delivering
      BY DEF Delivering, Outcome
    <3>2. worker[w].left \in 0..Budget /\ worker[w].left <= worker[w].left
      BY <1>0, RoundCounts
    <3>3. /\ worker' = [worker EXCEPT ![w] = At(w, "accepted", worker[w].now, worker[w].left)]
          /\ worker[w].phase \in Delivering /\ UNCHANGED delay
      BY <2>4, <3>1 DEF SmtpAccepts
    <3> QED BY <1>0, <3>1, <3>2, <3>3, BatchAt
  <2>5. CASE SendEnds(w)
    <3>1. PICK outcome \in Outcome : worker' = [worker EXCEPT ![w] = At(w, outcome, worker[w].now, 0)]
      BY <2>5 DEF SendEnds, Outcome
    <3>2. 0 \in 0..Budget /\ 0 <= worker[w].left
      BY <1>0, RoundCounts
    <3>3. worker[w].phase \in Delivering /\ UNCHANGED delay
      BY <2>5 DEF SendEnds, observers
    <3> QED BY <1>0, <3>1, <3>2, <3>3, BatchAt
  <2>6. CASE Report(w)
    <3>1. worker[w].phase \in Outcome /\ worker[w].now \in worker[w].todo /\ UNCHANGED delay
      BY <1>0, <2>6 DEF Report, Shape
    <3>2. Proceed(w, worker[w].now) \/ Ends(w)
      BY <2>6 DEF Report
    <3> QED BY <1>0, <3>1, <3>2, BatchEnds, BatchProceeds
  <2> QED BY <1>3, <2>1, <2>2, <2>3, <2>4, <2>5, <2>6 DEF Works
<1>4. ASSUME NEW w \in Worker, Begin(w) \/ Claim(w) \/ RoundStops(w) PROVE BatchInv'
  BY <1>0, <1>4, BatchBegins, BatchClaim, BatchEnds DEF RoundStops
<1>5. CASE Tick
  BY <1>0, <1>5, BatchTick
<1> QED BY <1>1, <1>2, <1>3, <1>4, <1>5 DEF Next

\* A delivery is put off only in a round whose reads and writes took longer than
\* the slack of its batch, whatever the sizes and the budgets (taskMailOutbox.js:65-88).
THEOREM BatchCovered == Spec => []LeaseCoversBatch
<1>1. Init => BatchInv
  <2> SUFFICES ASSUME Init, NEW w \in Worker PROVE BatchFits(w) /\ TimeSpent(w) /\ LeftSpent(w)
    BY DEF BatchInv
  <2> QED BY DEF Init, Idle, Round, BatchFits, TimeSpent, LeftSpent, Outcome
<1>2. BatchInv /\ MailInv /\ [Next]_vars => BatchInv'
  BY BatchNext
<1>3. BatchInv /\ MailInv => LeaseCoversBatch
  <2> SUFFICES ASSUME BatchInv, MailInv, NEW w \in Worker, worker[w].phase = "resolving",
                      ~FitsLease(w), ~LateRound(w)
      PROVE  FALSE
    BY RoundCounts, LeaseCovers DEF LeaseCoversBatch, LateRound, MailInv
  <2> DEFINE n == Cardinality(worker[w].todo)
  <2>1. Lease <= worker[w].deadline + delay[w] + Budget * (BatchSize - n)
    BY DEF BatchInv, TimeSpent, Used
  <2>2. /\ n \in 1..BatchSize /\ BatchSize \in Nat /\ Budget \in Nat
        /\ worker[w].deadline \in Nat /\ delay[w] \in Nat /\ Lease \in Nat
    BY RoundCounts, LeaseCovers DEF BatchInv, BatchFits, MailInv
  <2> HIDE DEF n
  <2>3. Budget * (BatchSize - n) <= Budget * (BatchSize - 1)
    BY <2>2
  <2>4. worker[w].deadline < PerMail /\ delay[w] <= Slack * (BatchSize - 1)
    BY <2>2, Times, LeaseCovers DEF FitsLease, LateRound
  <2>5. /\ Budget * (BatchSize - n) \in Int /\ Budget * (BatchSize - 1) \in Int
        /\ Slack * (BatchSize - 1) \in Int /\ PerMail \in Int
    BY <2>2, Times, LeaseCovers
  <2> QED BY <2>1, <2>2, <2>3, <2>4, <2>5, LeaseCovers
<1> QED BY <1>1, <1>2, <1>3, MailInvariant, PTL DEF Spec

(***************************************************************************)
(* CorporateCatalog: what holds of the store                               *)
(***************************************************************************)
\* A tree that has every node of a plan, in its place.
Holds(nodes, plan) ==
  /\ DOMAIN plan \subseteq DOMAIN nodes
  /\ \A node \in DOMAIN plan : nodes[node] = plan[node]

\* The record is the plan merged last, which is never the empty one: nothing takes a node
\* of it away before the next merge.
RecordInTree == record # NoRecord => record # Empty /\ Holds(tree, record)

\* What a run has read to merge is a plan with nodes.
MergesNodes == \A r \in Run : RunAt(r, "merge") => run[r].read # Empty

\* Who waits, waits for a flight.
WaitsForFlight == \A q \in Request : request[q].phase = "waiting" => request[q].flight # NoRun

\* There is a tree, or this process has found that there is none to build.
Seen == record # NoRecord \/ succeeded

\* What the process believes of the store is so.
Beliefs ==
  /\ warm \/ fresh => Seen
  /\ \A q \in Request : /\ request[q].phase = "probed" /\ request[q].value => Seen
                        /\ request[q].phase = "skipped" => Seen

CatalogInv ==
  /\ CatalogTypeOK /\ SingleFlight /\ WaitsForFlight
  /\ RecordInTree /\ TreeStaysWhole /\ MergesNodes /\ Beliefs

(***************************************************************************)
(* The merge                                                               *)
(***************************************************************************)
\* A tree is a function from nodes to nodes or the root.
LEMMA TreeIs ==
  ASSUME NEW t, t = [node \in DOMAIN t |-> t[node]], DOMAIN t \subseteq Node,
         \A node \in DOMAIN t : t[node] \in Node \cup {Root}
  PROVE  t \in Tree
<1>1. t \in [DOMAIN t -> Node \cup {Root}]
  OBVIOUS
<1> QED BY <1>1 DEF Tree

\* A tree has finitely many nodes, each with a parent.
LEMMA TreeHas ==
  ASSUME NEW t \in Tree
  PROVE  /\ DOMAIN t \subseteq Node
         /\ t = [node \in DOMAIN t |-> t[node]]
         /\ \A node \in DOMAIN t : t[node] \in Node \cup {Root}
         /\ IsFiniteSet(DOMAIN t) /\ Cardinality(DOMAIN t) \in 0 .. Cardinality(Node)
<1>1. PICK nodes \in SUBSET Node : t \in [nodes -> Node \cup {Root}]
  BY DEF Tree
<1>2. DOMAIN t \subseteq Node
  BY <1>1
<1>3. /\ IsFiniteSet(DOMAIN t) /\ Cardinality(DOMAIN t) <= Cardinality(Node)
      /\ Cardinality(DOMAIN t) \in Nat /\ Cardinality(Node) \in Nat
  BY <1>2, PlanAssumption, FS_Subset, FS_CardinalityType
<1> QED BY <1>1, <1>2, <1>3

\* Two trees of one size, one of which holds the other, are the same.
LEMMA HeldOfOneSize ==
  ASSUME NEW t \in Tree, NEW plan \in Tree, Holds(t, plan),
         Cardinality(DOMAIN t) = Cardinality(DOMAIN plan)
  PROVE  t = plan
<1>1. IsFiniteSet(DOMAIN t) /\ DOMAIN plan \subseteq DOMAIN t
  BY TreeHas DEF Holds
<1>2. DOMAIN t = DOMAIN plan
  BY <1>1, FS_Subset
<1> QED BY <1>2, TreeHas DEF Holds

\* A merge makes a whole tree that holds the plan and every node of a task.
LEMMA MergeIsSound ==
  ASSUME NEW stored \in Tree, NEW plan \in Plan, NEW tasks \in SUBSET DOMAIN stored,
         \A node \in DOMAIN stored : stored[node] \in DOMAIN stored \cup {Root}
  PROVE  /\ Merged(stored, plan, tasks) \in Tree
         /\ Holds(Merged(stored, plan, tasks), plan)
         /\ tasks \subseteq DOMAIN Merged(stored, plan, tasks)
         /\ \A node \in DOMAIN Merged(stored, plan, tasks) :
              Merged(stored, plan, tasks)[node] \in DOMAIN Merged(stored, plan, tasks) \cup {Root}
<1> DEFINE u == Updated(stored, plan)
           left == Superfluous(u, plan, tasks)
           m == Merged(stored, plan, tasks)
<1>1. /\ plan \in Tree /\ DOMAIN plan \subseteq Node
      /\ \A node \in DOMAIN plan : plan[node] \in DOMAIN plan \cup {Root}
  BY PlanAssumption, TreeHas
<1>2. /\ DOMAIN stored \subseteq Node
      /\ \A node \in DOMAIN stored : stored[node] \in Node \cup {Root}
  BY TreeHas
<1>3. /\ DOMAIN u = DOMAIN stored \cup DOMAIN plan
      /\ \A node \in DOMAIN plan : u[node] = plan[node]
      /\ \A node \in DOMAIN u : u[node] \in DOMAIN u \cup {Root}
  BY <1>1 DEF Updated
<1>4. m = [node \in DOMAIN u \ left |-> u[node]]
  BY DEF Merged
<1>5. left \cap DOMAIN plan = {} /\ left \cap tasks = {} /\ left \subseteq DOMAIN u
  BY DEF Superfluous
<1>6. \A node \in DOMAIN u : u[node] \notin left
  BY <1>3 DEF Superfluous
<1> HIDE DEF u, left
<1>7. DOMAIN m = DOMAIN u \ left /\ \A node \in DOMAIN m : m[node] = u[node]
  BY <1>4
<1>8. m = [node \in DOMAIN m |-> m[node]]
  BY <1>4
<1> HIDE DEF m
<1>9. \A node \in DOMAIN m : m[node] \in DOMAIN m \cup {Root}
  BY <1>3, <1>6, <1>7
<1>10. DOMAIN m \subseteq Node
  BY <1>1, <1>2, <1>3, <1>7
<1>11. m \in Tree
  BY <1>8, <1>9, <1>10, TreeIs
<1>12. Holds(m, plan) /\ tasks \subseteq DOMAIN m
  BY <1>3, <1>5, <1>7 DEF Holds
<1> QED BY <1>9, <1>11, <1>12 DEF m

(***************************************************************************)
(* The database and the runs                                               *)
(***************************************************************************)
RunState == [phase : RunPhase, seen : Plan \cup {NoRecord}, stored : 0..Cardinality(Node), read : Plan]

StoreTyped ==
  /\ source \in Plan /\ tree \in Tree /\ record \in Plan \cup {NoRecord}
  /\ task \subseteq Node /\ up \in BOOLEAN
  /\ run \in [Run -> RunState]
  /\ events \in 0..MaxEvents

StoreInv == StoreTyped /\ RecordInTree /\ TreeStaysWhole /\ MergesNodes

\* No statement forgets that there was a merge.
Remembers == record # NoRecord => record' # NoRecord

\* An idle run has nothing in hand.
LEMMA IdleRunIs == IdleRun \in RunState /\ IdleRun.phase = "idle"
<1>1. Cardinality(Node) \in Nat
  BY PlanAssumption, FS_CardinalityType
<1> QED BY <1>1, PlanAssumption DEF IdleRun, RunState, RunPhase

\* A step that changes runs only, and gives none of them another plan to merge.
LEMMA RunsOnly ==
  ASSUME StoreInv, UNCHANGED <<source, tree, record, task, up>>, events' \in 0..MaxEvents,
         run' \in [Run -> RunState],
         \A r \in Run : RunAt(r, "merge")' => RunAt(r, "merge") /\ run'[r].read = run[r].read
  PROVE  StoreInv' /\ Remembers
BY DEF StoreInv, StoreTyped, RecordInTree, Holds, TreeStaysWhole, MergesNodes, Remembers

\* A run that moves on keeps what it has read; the others stay where they are.
LEMMA RunMovesTo ==
  ASSUME StoreInv, NEW r \in Run, NEW phase \in RunPhase \ {"merge"},
         RunMoves(r, phase), UNCHANGED <<source, tree, record, task, up>>, events' \in 0..MaxEvents
  PROVE  StoreInv' /\ Remembers
<1>1. run \in [Run -> RunState]
  BY DEF StoreInv, StoreTyped
<1>2. run' = [run EXCEPT ![r] = [run[r] EXCEPT !.phase = phase]]
  BY <1>1 DEF RunMoves
<1>3. run[r] \in RunState
  BY <1>1
<1>4. [run[r] EXCEPT !.phase = phase] \in RunState
  BY <1>3 DEF RunState
<1>5. run' \in [Run -> RunState]
  BY <1>1, <1>2, <1>4
<1>6. ASSUME NEW s \in Run, RunAt(s, "merge")'
      PROVE  RunAt(s, "merge") /\ run'[s].read = run[s].read
  BY <1>1, <1>2, <1>3, <1>6 DEF RunAt, RunState
<1> QED BY <1>5, <1>6, RunsOnly

\* A run that ends.
LEMMA RunEnds ==
  ASSUME StoreInv, NEW r \in Run, run' = [run EXCEPT ![r] = IdleRun],
         UNCHANGED <<source, tree, record, task, up, events>>
  PROVE  StoreInv' /\ Remembers
<1>1. run \in [Run -> RunState] /\ run' \in [Run -> RunState] /\ events' \in 0..MaxEvents
  BY IdleRunIs DEF StoreInv, StoreTyped
<1>2. ASSUME NEW s \in Run, RunAt(s, "merge")'
      PROVE  RunAt(s, "merge") /\ run'[s].read = run[s].read
  BY <1>1, <1>2, IdleRunIs DEF RunAt
<1> QED BY <1>1, <1>2, RunsOnly

\* What a run reads before its merge leaves the store sound, and it takes no empty plan along.
LEMMA ReadingStep ==
  ASSUME StoreInv, NEW r \in Run, ReadsRecord(r) \/ CountsNodes(r) \/ ReadsSource(r)
  PROVE  StoreInv' /\ Remembers
<1>1. /\ run \in [Run -> RunState] /\ run[r] \in RunState
      /\ record \in Plan \cup {NoRecord} /\ source \in Plan /\ tree \in Tree
  BY DEF StoreInv, StoreTyped
<1>2. UNCHANGED <<source, tree, record, task, up, events>>
  BY DEF ReadsRecord, CountsNodes, ReadsSource
<1>3. events' \in 0..MaxEvents
  BY <1>2 DEF StoreInv, StoreTyped
<1>4. ASSUME NEW state \in RunState, run' = [run EXCEPT ![r] = state], state.phase # "merge"
      PROVE  StoreInv' /\ Remembers
  <2>1. run' \in [Run -> RunState]
    BY <1>1, <1>4
  <2>2. ASSUME NEW s \in Run, RunAt(s, "merge")'
        PROVE  RunAt(s, "merge") /\ run'[s].read = run[s].read
    BY <1>1, <1>4, <2>2 DEF RunAt
  <2> QED BY <1>2, <1>3, <2>1, <2>2, RunsOnly
<1>5. CASE ReadsRecord(r)
  <2>1. PICK phase \in {"count", "source"}, seen \in Plan \cup {NoRecord} :
          run' = [run EXCEPT ![r].phase = phase, ![r].seen = seen]
    BY <1>1, <1>5 DEF ReadsRecord
  <2>2. [run[r] EXCEPT !.phase = phase, !.seen = seen] \in RunState
    BY <1>1 DEF RunState, RunPhase
  <2>3. run' = [run EXCEPT ![r] = [run[r] EXCEPT !.phase = phase, !.seen = seen]]
    BY <1>1, <2>1
  <2>4. [run[r] EXCEPT !.phase = phase, !.seen = seen].phase = phase
    BY <1>1 DEF RunState
  <2> QED BY <1>4, <2>2, <2>3, <2>4
<1>6. CASE CountsNodes(r)
  <2>1. PICK n \in 0..Cardinality(Node) : n = Cardinality(DOMAIN tree)
    BY <1>1, TreeHas
  <2>2. [run[r] EXCEPT !.phase = "source", !.stored = n] \in RunState
    BY <1>1 DEF RunState, RunPhase
  <2>3. run' = [run EXCEPT ![r] = [run[r] EXCEPT !.phase = "source", !.stored = n]]
    BY <1>1, <1>6, <2>1 DEF CountsNodes
  <2>4. [run[r] EXCEPT !.phase = "source", !.stored = n].phase = "source"
    BY <1>1 DEF RunState
  <2> QED BY <1>4, <2>2, <2>3, <2>4
<1>7. CASE ReadsSource(r)
  <2>1. \/ run' = [run EXCEPT ![r] = [IdleRun EXCEPT !.phase = "finish"]]
        \/ source # Empty /\ run' = [run EXCEPT ![r] = [IdleRun EXCEPT !.phase = "merge", !.read = source]]
    BY <1>7 DEF ReadsSource
  <2>2. CASE run' = [run EXCEPT ![r] = [IdleRun EXCEPT !.phase = "finish"]]
    <3>1. /\ [IdleRun EXCEPT !.phase = "finish"] \in RunState
          /\ [IdleRun EXCEPT !.phase = "finish"].phase = "finish"
      BY IdleRunIs DEF RunState, RunPhase
    <3> QED BY <1>4, <2>2, <3>1
  <2>3. CASE /\ source # Empty
             /\ run' = [run EXCEPT ![r] = [IdleRun EXCEPT !.phase = "merge", !.read = source]]
    <3>1. /\ [IdleRun EXCEPT !.phase = "merge", !.read = source] \in RunState
          /\ [IdleRun EXCEPT !.phase = "merge", !.read = source].read = source
      BY <1>1, IdleRunIs DEF RunState, RunPhase
    <3>2. run' \in [Run -> RunState] /\ run'[r].read # Empty
      BY <1>1, <2>3, <3>1
    <3>3. \A s \in Run : s # r => run'[s] = run[s]
      BY <1>1, <2>3
    <3>4. MergesNodes'
      BY <3>2, <3>3 DEF StoreInv, MergesNodes, RunAt
    <3> QED BY <1>2, <3>2, <3>4
        DEF StoreInv, StoreTyped, RecordInTree, Holds, TreeStaysWhole, Remembers
  <2> QED BY <2>1, <2>2, <2>3
<1> QED BY <1>5, <1>6, <1>7

\* A merge makes its plan the record, and the tree holds it.
LEMMA MergeStep ==
  ASSUME StoreInv, NEW r \in Run, MergesPlan(r)
  PROVE  StoreInv' /\ Remembers
<1>1. /\ run \in [Run -> RunState] /\ run[r] \in RunState /\ tree \in Tree
  BY DEF StoreInv, StoreTyped
<1>2. PICK plan \in Plan : plan = run[r].read
  BY <1>1 DEF RunState
<1>3. plan # Empty /\ plan # NoRecord
  BY <1>2, PlanAssumption DEF StoreInv, MergesNodes, MergesPlan
<1>4. /\ tree' = Merged(tree, plan, task) /\ record' = plan
      /\ UNCHANGED <<source, task, up, events>>
  BY <1>2 DEF MergesPlan
<1>5. /\ task \in SUBSET DOMAIN tree
      /\ \A node \in DOMAIN tree : tree[node] \in DOMAIN tree \cup {Root}
  BY DEF StoreInv, TreeStaysWhole
<1>6. tree' \in Tree /\ Holds(tree', plan) /\ TreeStaysWhole'
  BY <1>1, <1>4, <1>5, MergeIsSound DEF TreeStaysWhole
<1>7. RecordInTree'
  BY <1>3, <1>4, <1>6 DEF RecordInTree, Holds
<1>8. /\ [IdleRun EXCEPT !.phase = "finish"] \in RunState
      /\ [IdleRun EXCEPT !.phase = "finish"].phase = "finish"
  BY IdleRunIs DEF RunState, RunPhase
<1>9. run' = [run EXCEPT ![r] = [IdleRun EXCEPT !.phase = "finish"]]
  BY DEF MergesPlan
<1>10. run' \in [Run -> RunState]
  BY <1>1, <1>8, <1>9
<1>11. \A s \in Run : RunAt(s, "merge")' => RunAt(s, "merge") /\ run'[s] = run[s]
  BY <1>1, <1>8, <1>9 DEF RunAt
<1>12. MergesNodes'
  BY <1>11 DEF StoreInv, MergesNodes
<1> QED BY <1>3, <1>4, <1>6, <1>7, <1>10, <1>12 DEF StoreInv, StoreTyped, Remembers

\* What happens around the runs takes no node of the tree.
LEMMA AroundStep ==
  ASSUME StoreInv, StoreChanges
  PROVE  StoreInv' /\ Remembers
<1>1. UNCHANGED <<tree, record, run>> /\ events' \in 0..MaxEvents
  BY PlanAssumption DEF StoreInv, StoreTyped, StoreChanges, SourceChanges, TaskChanges, ReachabilityChanges, Event
<1>2. source' \in Plan /\ up' \in BOOLEAN
  BY DEF StoreInv, StoreTyped, StoreChanges, SourceChanges, TaskChanges, ReachabilityChanges
<1>3. task' \subseteq DOMAIN tree
  BY DEF StoreInv, TreeStaysWhole, StoreChanges, SourceChanges, TaskChanges, ReachabilityChanges
<1>4. task' \subseteq Node
  BY <1>3, TreeHas DEF StoreInv, StoreTyped
<1> QED BY <1>1, <1>2, <1>3, <1>4
    DEF StoreInv, StoreTyped, RecordInTree, Holds, TreeStaysWhole, MergesNodes, RunAt, Remembers

\* An empty store is sound.
LEMMA StoreStarts == StoreInit => StoreInv
<1> SUFFICES ASSUME StoreInit PROVE StoreInv
  OBVIOUS
<1>1. source \in Plan /\ up \in BOOLEAN /\ run = [r \in Run |-> IdleRun] /\ events = 0
  BY DEF StoreInit
<1>2. tree \in Plan /\ tree \in Tree
  BY PlanAssumption DEF StoreInit
<1>3. \A node \in DOMAIN tree : tree[node] \in DOMAIN tree \cup {Root}
  BY <1>2, PlanAssumption
<1>4. task \subseteq DOMAIN tree /\ task \subseteq Node
  BY <1>2, TreeHas DEF StoreInit
<1>5. record \in Plan \cup {NoRecord} /\ RecordInTree
  BY <1>2 DEF StoreInit, RecordInTree, Holds
<1>6. run \in [Run -> RunState] /\ MergesNodes
  BY <1>1, IdleRunIs DEF MergesNodes, RunAt
<1> QED BY <1>1, <1>2, <1>3, <1>4, <1>5, <1>6, PlanAssumption DEF StoreInv, StoreTyped, TreeStaysWhole

(***************************************************************************)
(* The schedule and its requests                                           *)
(***************************************************************************)
Asked ==
  [phase : {"probes", "probed", "decides", "waiting", "answered", "skipped"},
   hot : BOOLEAN, value : BOOLEAN, flight : Scheduled \cup {NoRun}]

ScheduleTyped ==
  /\ fresh \in BOOLEAN /\ backoff \in BOOLEAN /\ succeeded \in BOOLEAN
  /\ warm \in BOOLEAN /\ probed \in BOOLEAN
  /\ inFlight \in Scheduled \cup {NoRun}
  /\ request \in [Request -> Asked]

ScheduleInv == ScheduleTyped /\ SingleFlight /\ WaitsForFlight /\ Beliefs

\* The invariant falls into a part about the store and a part about the schedule.
LEMMA InvIs == CatalogInv <=> StoreInv /\ ScheduleInv
<1>1. CatalogTypeOK <=> StoreTyped /\ ScheduleTyped
  BY DEF CatalogTypeOK, StoreTyped, ScheduleTyped, RunState, Asked
<1> QED BY <1>1 DEF CatalogInv, StoreInv, ScheduleInv

\* What a request has in hand has its type.
LEMMA AskingIs ==
  ASSUME NEW phase \in {"probes", "probed", "decides", "waiting", "answered", "skipped"},
         NEW hot \in BOOLEAN
  PROVE  /\ Asking(phase, hot) \in Asked
         /\ Asking(phase, hot).phase = phase /\ Asking(phase, hot).flight = NoRun
BY DEF Asking, Asked

\* An answered request and one that was sent away wait for nothing.
LEMMA AnswersAre ==
  /\ SentAway \in Asked /\ SentAway.phase = "skipped"
  /\ Answered \in Asked /\ Answered.phase = "answered"
BY AskingIs DEF SentAway, Answered

\* A step of a run that leaves the schedule alone.
LEMMA ScheduleRests ==
  ASSUME ScheduleInv, UNCHANGED <<schedule, request>>, Remembers,
         \A r \in Scheduled : RunAt(r, "idle")' <=> RunAt(r, "idle")
  PROVE  ScheduleInv'
<1>1. ScheduleTyped' /\ WaitsForFlight'
  BY DEF schedule, ScheduleInv, ScheduleTyped, WaitsForFlight
<1>2. SingleFlight'
  BY DEF schedule, ScheduleInv, SingleFlight
<1>3. Beliefs'
  BY DEF schedule, ScheduleInv, Beliefs, Seen, Remembers
<1> QED BY <1>1, <1>2, <1>3 DEF ScheduleInv

\* A request goes on while nothing happens to the runs.
LEMMA RequestMoves ==
  ASSUME ScheduleInv, UNCHANGED <<storeVars, fresh, backoff, succeeded, inFlight>>,
         warm' \in BOOLEAN, probed' \in BOOLEAN, warm' => Seen,
         NEW q \in Request, NEW s \in Asked, request' = [request EXCEPT ![q] = s],
         s.phase = "waiting" => s.flight = inFlight /\ inFlight # NoRun,
         s.phase = "probed" /\ s.value => Seen,
         s.phase = "skipped" => Seen
  PROVE  ScheduleInv'
<1>1. UNCHANGED <<run, record>>
  BY DEF storeVars
<1>2. ScheduleTyped'
  BY DEF ScheduleInv, ScheduleTyped
<1>3. request \in [Request -> Asked]
  BY DEF ScheduleInv, ScheduleTyped
<1>4. \A p \in Request : request'[p] = IF p = q THEN s ELSE request[p]
  BY <1>3
<1>5. SingleFlight'
  BY <1>1, <1>4 DEF ScheduleInv, SingleFlight, RunAt
<1>6. WaitsForFlight'
  BY <1>4 DEF ScheduleInv, WaitsForFlight
<1>7. Seen' <=> Seen
  BY <1>1 DEF Seen
<1>8. Beliefs'
  BY <1>4, <1>7 DEF ScheduleInv, Beliefs
<1> QED BY <1>2, <1>5, <1>6, <1>8 DEF ScheduleInv

\* The steps of a request that start no flight.
LEMMA AnswerStep ==
  ASSUME StoreInv, ScheduleInv, NEW q \in Request,
         \/ Asks(q) \/ ProbeReads(q) \/ ProbeReturns(q) \/ ProbeFails(q)
         \/ HeldBack(q) \/ JoinsFlight(q)
  PROVE  ScheduleInv'
<1>1. /\ request \in [Request -> Asked] /\ request[q] \in Asked
      /\ backoff \in BOOLEAN /\ fresh \in BOOLEAN /\ warm \in BOOLEAN /\ probed \in BOOLEAN
  BY DEF ScheduleInv, ScheduleTyped
<1>2. /\ warm \/ fresh => Seen
      /\ request[q].phase = "probed" /\ request[q].value => Seen
  BY DEF ScheduleInv, Beliefs
<1>3. PICK hot \in BOOLEAN, value \in BOOLEAN : hot = request[q].hot /\ value = request[q].value
  BY <1>1 DEF Asked
<1>4. CASE Asks(q)
  <2>1. PICK s \in {SentAway, Asking("decides", backoff), Asking("probes", backoff)} :
          /\ request' = [request EXCEPT ![q] = s]
          /\ s = SentAway => fresh
    BY <1>4, AskingIs, AnswersAre, <1>1 DEF Asks
  <2>2. s \in Asked /\ (s = SentAway \/ s.phase \in {"decides", "probes"})
    BY <1>1, <2>1, AskingIs, AnswersAre
  <2>3. s.phase = "skipped" => Seen
    BY <1>2, <2>1, <2>2
  <2>4. warm' = warm /\ probed' \in BOOLEAN /\ UNCHANGED <<storeVars, fresh, backoff, succeeded, inFlight>>
    BY <1>1, <1>4 DEF Asks
  <2>5. s.phase \notin {"waiting", "probed"}
    BY <2>2, AnswersAre
  <2> QED BY <1>1, <1>2, <2>1, <2>2, <2>3, <2>4, <2>5, RequestMoves
<1>5. CASE ProbeReads(q)
  <2>1. PICK found \in BOOLEAN : found = (record # NoRecord)
    OBVIOUS
  <2>2. request' = [request EXCEPT ![q] = [request[q] EXCEPT !.phase = "probed", !.value = found]]
    BY <1>1, <1>5, <2>1 DEF ProbeReads
  <2>3. /\ [request[q] EXCEPT !.phase = "probed", !.value = found] \in Asked
        /\ [request[q] EXCEPT !.phase = "probed", !.value = found].phase = "probed"
        /\ [request[q] EXCEPT !.phase = "probed", !.value = found].value = found
    BY <1>1 DEF Asked
  <2>4. found => Seen
    BY <2>1 DEF Seen
  <2>5. UNCHANGED <<storeVars, fresh, backoff, succeeded, inFlight, warm, probed>>
    BY <1>5 DEF ProbeReads, schedule
  <2> QED BY <1>1, <1>2, <2>2, <2>3, <2>4, <2>5, RequestMoves
<1>6. CASE ProbeReturns(q)
  <2>1. request' = [request EXCEPT ![q] = Asking("decides", hot)] /\ warm' = value
    BY <1>3, <1>6 DEF ProbeReturns
  <2>2. Asking("decides", hot) \in Asked /\ Asking("decides", hot).phase = "decides"
    BY AskingIs
  <2>3. value => Seen
    BY <1>2, <1>3, <1>6 DEF ProbeReturns
  <2>4. probed' = probed /\ UNCHANGED <<storeVars, fresh, backoff, succeeded, inFlight>>
    BY <1>6 DEF ProbeReturns
  <2> QED BY <1>1, <2>1, <2>2, <2>3, <2>4, RequestMoves
<1>7. CASE ProbeFails(q)
  <2>1. request' = [request EXCEPT ![q] = [request[q] EXCEPT !.phase = "decides"]]
    BY <1>1, <1>7 DEF ProbeFails
  <2>2. /\ [request[q] EXCEPT !.phase = "decides"] \in Asked
        /\ [request[q] EXCEPT !.phase = "decides"].phase = "decides"
    BY <1>1 DEF Asked
  <2>3. warm' = warm /\ probed' = FALSE /\ UNCHANGED <<storeVars, fresh, backoff, succeeded, inFlight>>
    BY <1>7 DEF ProbeFails
  <2> QED BY <1>1, <1>2, <2>1, <2>2, <2>3, RequestMoves
<1>8. CASE HeldBack(q)
  <2>1. request' = [request EXCEPT ![q] = SentAway] /\ warm
    BY <1>8 DEF HeldBack, BackedOff
  <2>2. UNCHANGED <<storeVars, fresh, backoff, succeeded, inFlight, warm, probed>>
    BY <1>8 DEF HeldBack, schedule
  <2> QED BY <1>1, <1>2, <2>1, <2>2, AnswersAre, RequestMoves
<1>9. CASE JoinsFlight(q)
  <2>1. request' = [request EXCEPT ![q] = Meets(q, inFlight)] /\ inFlight # NoRun
    BY <1>9 DEF JoinsFlight
  <2>2. inFlight \in Scheduled
    BY <2>1 DEF ScheduleInv, ScheduleTyped
  <2>3. /\ Meets(q, inFlight) \in Asked
        /\ Meets(q, inFlight).phase = "waiting" => Meets(q, inFlight).flight = inFlight
        /\ Meets(q, inFlight).phase # "probed"
        /\ Meets(q, inFlight).phase = "skipped" => Seen
    <3>1. CanRevalidate => Seen
      BY <1>2 DEF CanRevalidate, Seen
    <3> QED BY <2>2, <3>1, AnswersAre DEF Meets, Asking, Asked
  <2>4. UNCHANGED <<storeVars, fresh, backoff, succeeded, inFlight, warm, probed>>
    BY <1>9 DEF JoinsFlight, schedule
  <2> QED BY <1>1, <1>2, <2>1, <2>3, <2>4, RequestMoves
<1> QED BY <1>4, <1>5, <1>6, <1>7, <1>8, <1>9

(***************************************************************************)
(* Flights                                                                 *)
(***************************************************************************)
\* With no flight remembered every run of the schedule is free, and one is chosen.
LEMMA FreeRunIs ==
  ASSUME ScheduleInv, inFlight = NoRun
  PROVE  FreeRun \in Scheduled /\ \A r \in Scheduled : RunAt(r, "idle")
<1>1. \A r \in Scheduled : RunAt(r, "idle")
  BY DEF ScheduleInv, SingleFlight
<1>2. \E r \in Scheduled : RunAt(r, "idle")
  BY <1>1, ScheduleAssumption
<1> QED BY <1>1, <1>2 DEF FreeRun

\* A flight begins, and with it perhaps a request to wait for it.
LEMMA FlightStarts ==
  ASSUME StoreInv, ScheduleInv, NEW phase \in {"probe", "record"}, inFlight = NoRun,
         StartsFlight(FreeRun, phase),
         UNCHANGED <<source, tree, record, task, up, events, fresh, backoff, succeeded, warm, probed>>,
         request' = request \/ \E q \in Request : request' = [request EXCEPT ![q] = Meets(q, FreeRun)]
  PROVE  StoreInv' /\ ScheduleInv'
<1>1. PICK f \in Scheduled : f = FreeRun
  BY FreeRunIs
<1>2. f \in Run /\ f # NoRun /\ Scheduled \subseteq Run
  BY ScheduleAssumption
<1>3. inFlight' = f /\ RunMoves(f, phase)
  BY <1>1 DEF StartsFlight
<1>4. StoreInv'
  <2>1. phase \in RunPhase \ {"merge"} /\ events' \in 0..MaxEvents
    BY DEF RunPhase, StoreInv, StoreTyped
  <2> QED BY <1>2, <1>3, <2>1, RunMovesTo
<1>5. /\ run \in [Run -> RunState] /\ request \in [Request -> Asked]
      /\ Seen' <=> Seen
  BY DEF StoreInv, StoreTyped, ScheduleInv, ScheduleTyped, Seen
<1>6. \A r \in Scheduled : ~RunAt(r, "idle")' <=> r = f
  <2>1. \A r \in Run : run'[r].phase = IF r = f THEN phase ELSE run[r].phase
    BY <1>2, <1>3, <1>5 DEF RunMoves, RunState
  <2> QED BY <1>2, <2>1, FreeRunIs DEF RunAt
<1>7. \A p \in Request : request[p].phase # "waiting"
  BY DEF ScheduleInv, SingleFlight, WaitsForFlight
<1>8. CanRevalidate => Seen
  BY DEF ScheduleInv, Beliefs, CanRevalidate, Seen
<1>9. \A p \in Request : request'[p] = request[p] \/ request'[p] = Meets(p, f)
  BY <1>1, <1>5
<1>10. \A p \in Request :
         /\ Meets(p, f) \in Asked
         /\ Meets(p, f).phase = "waiting" => Meets(p, f).flight = f
         /\ Meets(p, f).phase # "probed"
         /\ Meets(p, f).phase = "skipped" => Seen
  BY <1>8, AnswersAre DEF Meets, Asking, Asked
<1>11. request' \in [Request -> Asked]
  BY <1>1, <1>5, <1>10
<1>12. ScheduleTyped'
  BY <1>3, <1>11 DEF ScheduleInv, ScheduleTyped
<1>13. \A p \in Request : request'[p].phase = "waiting" => request'[p].flight = f
  BY <1>7, <1>9, <1>10
<1>14. SingleFlight' /\ WaitsForFlight'
  BY <1>2, <1>3, <1>6, <1>13 DEF SingleFlight, WaitsForFlight
<1>15. Beliefs'
  BY <1>5, <1>9, <1>10 DEF ScheduleInv, Beliefs
<1> QED BY <1>4, <1>12, <1>14, <1>15 DEF ScheduleInv

\* The run that ends is the flight; nobody waits for another one.
LEMMA FlightEnding ==
  ASSUME StoreInv, ScheduleInv, NEW r \in Scheduled, ~RunAt(r, "idle"), NEW ok \in BOOLEAN,
         run' = [run EXCEPT ![r] = IdleRun], FlightEnds(r, ok),
         UNCHANGED <<source, tree, record, task, up, events, probed>>,
         fresh' \in BOOLEAN, backoff' \in BOOLEAN, succeeded' \in BOOLEAN, warm' \in BOOLEAN,
         succeeded => succeeded', warm' \/ fresh' => Seen'
  PROVE  StoreInv' /\ ScheduleInv'
<1>1. r \in Run /\ Scheduled \subseteq Run /\ NoRun \notin Scheduled
  BY ScheduleAssumption
<1>2. StoreInv' /\ Remembers
  BY <1>1, RunEnds
<1>3. /\ run \in [Run -> RunState] /\ request \in [Request -> Asked]
  BY DEF StoreInv, StoreTyped, ScheduleInv, ScheduleTyped
<1>4. inFlight = r /\ \A s \in Scheduled : s # r => RunAt(s, "idle")
  BY DEF ScheduleInv, SingleFlight
<1>5. \A s \in Scheduled : RunAt(s, "idle")'
  BY <1>1, <1>3, <1>4, IdleRunIs DEF RunAt
<1>6. inFlight' = NoRun /\ DOMAIN request' = Request
  BY DEF FlightEnds
<1>7. \A q \in Request :
        \/ request'[q] = Answered
        \/ request'[q] = request[q] /\ request[q].phase \in {"answered", "skipped"}
        \/ /\ request'[q] = [request[q] EXCEPT !.hot = ~ok]
           /\ request[q].phase # "waiting" \/ request[q].flight # r
  BY DEF FlightEnds, Open
<1>8. \A q \in Request : request[q].phase = "waiting" => request[q].flight = r
  BY <1>4 DEF ScheduleInv, SingleFlight
<1>9. \A q \in Request :
        /\ request'[q] \in Asked
        /\ request'[q].phase # "waiting"
        /\ \/ request'[q].phase = request[q].phase /\ request'[q].value = request[q].value
           \/ request'[q].phase = "answered"
  <2> SUFFICES ASSUME NEW q \in Request
               PROVE  /\ request'[q] \in Asked
                      /\ request'[q].phase # "waiting"
                      /\ \/ request'[q].phase = request[q].phase /\ request'[q].value = request[q].value
                         \/ request'[q].phase = "answered"
    OBVIOUS
  <2>1. request[q] \in Asked
    BY <1>3
  <2>2. /\ [request[q] EXCEPT !.hot = ~ok] \in Asked
        /\ [request[q] EXCEPT !.hot = ~ok].phase = request[q].phase
        /\ [request[q] EXCEPT !.hot = ~ok].value = request[q].value
    BY <2>1 DEF Asked
  <2> QED BY <1>7, <1>8, <2>1, <2>2, AnswersAre
<1>10. request' \in [Request -> Asked]
  <2>1. request' = [q \in Request |-> request'[q]]
    BY DEF FlightEnds
  <2> QED BY <1>9, <2>1
<1>11. ScheduleTyped'
  BY <1>6, <1>10 DEF ScheduleInv, ScheduleTyped
<1>12. SingleFlight' /\ WaitsForFlight'
  BY <1>5, <1>6, <1>9 DEF SingleFlight, WaitsForFlight
<1>13. Seen => Seen'
  BY <1>2 DEF Seen, Remembers
<1>14. Beliefs'
  BY <1>9, <1>13 DEF ScheduleInv, Beliefs
<1> QED BY <1>2, <1>11, <1>12, <1>14 DEF ScheduleInv

\* The steps of the scheduled run that is the flight.
LEMMA FlightStep ==
  ASSUME StoreInv, ScheduleInv, NEW r \in Run, Flies(r)
  PROVE  StoreInv' /\ ScheduleInv'
<1>1. run \in [Run -> RunState] /\ run[r] \in RunState /\ Scheduled \subseteq Run
  BY ScheduleAssumption DEF StoreInv, StoreTyped
<1>2. CASE FlightProbes(r)
  <2>1. /\ RunMoves(r, "record") /\ r \in Scheduled /\ RunAt(r, "probe")
        /\ UNCHANGED <<source, tree, record, task, up, events, fresh, backoff, succeeded, inFlight, request>>
    BY <1>2 DEF FlightProbes
  <2>2. StoreInv' /\ Remembers
    <3>1. "record" \in RunPhase \ {"merge"} /\ events' \in 0..MaxEvents
      BY <2>1 DEF RunPhase, StoreInv, StoreTyped
    <3> QED BY <2>1, <3>1, RunMovesTo
  <2>3. \A s \in Scheduled : RunAt(s, "idle")' <=> RunAt(s, "idle")
    BY <1>1, <2>1 DEF RunMoves, RunAt, RunState
  <2>4. warm' \in BOOLEAN /\ probed' \in BOOLEAN
    BY <1>2 DEF FlightProbes, ScheduleInv, ScheduleTyped
  <2>5. warm' => Seen
    BY <1>2 DEF FlightProbes, ScheduleInv, Beliefs, Seen
  <2>6. Seen' <=> Seen
    BY <2>1 DEF Seen
  <2>7. ScheduleTyped' /\ SingleFlight' /\ WaitsForFlight' /\ Beliefs'
    BY <2>1, <2>3, <2>4, <2>5, <2>6 DEF ScheduleInv, ScheduleTyped, SingleFlight, WaitsForFlight, Beliefs
  <2> QED BY <2>2, <2>7 DEF ScheduleInv
<1>3. CASE FlightSteps(r)
  <2>1. StoreInv' /\ Remembers
    BY <1>3, ReadingStep, MergeStep DEF FlightSteps, RunSteps
  <2>2. ~RunAt(r, "idle") /\ ~RunAt(r, "idle")' /\ \A s \in Run : s # r => run'[s] = run[s]
    <3>1. CASE ReadsRecord(r)
      BY <1>1, <3>1 DEF ReadsRecord, RunAt, RunState
    <3>2. CASE CountsNodes(r)
      BY <1>1, <3>2 DEF CountsNodes, RunAt, RunState
    <3>3. CASE ReadsSource(r)
      BY <1>1, <3>3 DEF ReadsSource, RunAt, IdleRun
    <3>4. CASE MergesPlan(r)
      BY <1>1, <3>4 DEF MergesPlan, RunAt, IdleRun
    <3> QED BY <1>3, <3>1, <3>2, <3>3, <3>4 DEF FlightSteps, RunSteps
  <2>3. \A s \in Scheduled : RunAt(s, "idle")' <=> RunAt(s, "idle")
    BY <1>1, <2>2 DEF RunAt
  <2> QED BY <1>3, <2>1, <2>3, ScheduleRests DEF FlightSteps
<1>4. CASE FlightSucceeds(r)
  BY <1>4, ScheduleAssumption, FlightEnding DEF FlightSucceeds, Succeeds, RunAt, ScheduleInv, ScheduleTyped, Seen
<1>5. CASE FlightFails(r)
  <2>1. /\ r \in Scheduled /\ ~RunAt(r, "idle") /\ run' = [run EXCEPT ![r] = IdleRun]
        /\ FlightEnds(r, FALSE) /\ backoff' = TRUE
        /\ UNCHANGED <<source, tree, record, task, up, events, probed, fresh, succeeded, warm>>
    BY <1>5 DEF FlightFails, Fails
  <2>2. /\ fresh' \in BOOLEAN /\ succeeded' \in BOOLEAN /\ warm' \in BOOLEAN
        /\ warm' \/ fresh' => Seen'
    BY <2>1 DEF ScheduleInv, ScheduleTyped, Beliefs, Seen
  <2> QED BY <2>1, <2>2, FlightEnding
<1> QED BY <1>2, <1>3, <1>4, <1>5 DEF Flies

(***************************************************************************)
(* Every step                                                              *)
(***************************************************************************)
LEMMA AdminStep ==
  ASSUME StoreInv, ScheduleInv, NEW r \in Run, AdminStarts(r) \/ AdminEnds(r)
  PROVE  StoreInv' /\ ScheduleInv'
<1>1. run \in [Run -> RunState] /\ r \notin Scheduled /\ UNCHANGED <<schedule, request>>
  BY DEF StoreInv, StoreTyped, AdminStarts, AdminEnds
<1>2. CASE AdminStarts(r)
  <2>1. /\ RunMoves(r, "record") /\ UNCHANGED <<source, tree, record, task, up>>
        /\ "record" \in RunPhase \ {"merge"} /\ events' \in 0..MaxEvents
    BY <1>2, PlanAssumption DEF AdminStarts, Event, RunPhase, StoreInv, StoreTyped
  <2>2. StoreInv' /\ Remembers
    BY <2>1, RunMovesTo
  <2>3. \A s \in Scheduled : RunAt(s, "idle")' <=> RunAt(s, "idle")
    BY <1>1, <2>1, ScheduleAssumption DEF RunMoves, RunAt
  <2> QED BY <1>1, <2>2, <2>3, ScheduleRests
<1>3. CASE AdminEnds(r)
  <2>1. /\ run' = [run EXCEPT ![r] = IdleRun]
        /\ UNCHANGED <<source, tree, record, task, up, events>>
    BY <1>3 DEF AdminEnds, Succeeds, Fails
  <2>2. StoreInv' /\ Remembers
    BY <2>1, RunEnds
  <2>3. \A s \in Scheduled : RunAt(s, "idle")' <=> RunAt(s, "idle")
    BY <1>1, <2>1, ScheduleAssumption DEF RunAt
  <2> QED BY <1>1, <2>2, <2>3, ScheduleRests
<1> QED BY <1>2, <1>3

\* A restart drops the flight and whatever the process believed.
LEMMA RestartStep ==
  ASSUME StoreInv, ScheduleInv, Restarts
  PROVE  StoreInv' /\ ScheduleInv'
<1>1. /\ run \in [Run -> RunState]
      /\ run' = [r \in Run |-> IF r \in Scheduled THEN IdleRun ELSE run[r]]
      /\ UNCHANGED <<source, tree, record, task, up>> /\ events' \in 0..MaxEvents
  BY PlanAssumption DEF Restarts, Event, StoreInv, StoreTyped
<1>2. run' \in [Run -> RunState]
  BY <1>1, IdleRunIs
<1>3. ASSUME NEW s \in Run, RunAt(s, "merge")'
      PROVE  RunAt(s, "merge") /\ run'[s].read = run[s].read
  BY <1>1, <1>3, IdleRunIs DEF RunAt
<1>4. StoreInv'
  BY <1>1, <1>2, <1>3, RunsOnly
<1>5. \A r \in Scheduled : RunAt(r, "idle")'
  BY <1>1, IdleRunIs, ScheduleAssumption DEF RunAt
<1>6. /\ fresh' = FALSE /\ backoff' = FALSE /\ succeeded' = FALSE /\ warm' = FALSE /\ probed' = FALSE
      /\ inFlight' = NoRun /\ request' = [q \in Request |-> Answered]
  BY DEF Restarts
<1>7. ScheduleTyped'
  BY <1>6, AnswersAre DEF ScheduleTyped
<1>8. SingleFlight' /\ WaitsForFlight'
  BY <1>5, <1>6, AnswersAre DEF SingleFlight, WaitsForFlight
<1>9. Beliefs'
  BY <1>6, AnswersAre DEF Beliefs
<1> QED BY <1>4, <1>7, <1>8, <1>9 DEF ScheduleInv

\* The end of a window, and a stuttering step: nothing becomes known.
LEMMA TimeStep ==
  ASSUME StoreInv, ScheduleInv, UNCHANGED <<storeVars, succeeded, warm, probed, inFlight, request>>,
         fresh' \in {fresh, FALSE}, backoff' \in {backoff, FALSE}
  PROVE  StoreInv' /\ ScheduleInv'
<1>1. StoreInv'
  BY DEF storeVars, StoreInv, StoreTyped, RecordInTree, Holds, TreeStaysWhole, MergesNodes, RunAt
<1>2. ScheduleTyped'
  BY DEF ScheduleInv, ScheduleTyped
<1>3. SingleFlight' /\ WaitsForFlight'
  BY DEF storeVars, ScheduleInv, SingleFlight, WaitsForFlight, RunAt
<1>4. Seen' <=> Seen
  BY DEF storeVars, Seen
<1>5. fresh' => fresh
  OBVIOUS
<1>6. Beliefs'
  BY <1>4, <1>5 DEF ScheduleInv, Beliefs
<1> QED BY <1>1, <1>2, <1>3, <1>6 DEF ScheduleInv

\* Nothing becomes of a store nobody touches.
LEMMA StoreRests ==
  ASSUME StoreInv, UNCHANGED storeVars
  PROVE  StoreInv'
BY DEF storeVars, StoreInv, StoreTyped, RecordInTree, Holds, TreeStaysWhole, MergesNodes, RunAt

\* Every step keeps the invariant.
LEMMA CatalogStep == CatalogInv /\ [CatalogNext]_catalogVars => CatalogInv'
<1> SUFFICES ASSUME StoreInv, ScheduleInv, [CatalogNext]_catalogVars PROVE StoreInv' /\ ScheduleInv'
  <2>1. CatalogInv' <=> StoreInv' /\ ScheduleInv'
    BY InvIs, PTL
  <2> QED BY <2>1, InvIs
<1>1. ASSUME NEW r \in Run, Flies(r) \/ AdminStarts(r) \/ AdminEnds(r)
      PROVE  StoreInv' /\ ScheduleInv'
  BY <1>1, FlightStep, AdminStep
<1>2. ASSUME NEW q \in Request,
             \/ Asks(q) \/ ProbeReads(q) \/ ProbeReturns(q) \/ ProbeFails(q)
             \/ HeldBack(q) \/ JoinsFlight(q)
      PROVE  StoreInv' /\ ScheduleInv'
  <2>1. UNCHANGED storeVars
    BY <1>2 DEF Asks, ProbeReads, ProbeReturns, ProbeFails, HeldBack, JoinsFlight
  <2> QED BY <1>2, <2>1, StoreRests, AnswerStep
<1>3. ASSUME NEW q \in Request, OpensFlight(q)
      PROVE  StoreInv' /\ ScheduleInv'
  BY <1>3, FlightStarts DEF OpensFlight
<1>4. CASE RefreshesManually
  BY <1>4, FlightStarts DEF RefreshesManually
<1>5. CASE WindowCloses \/ BackoffEnds \/ UNCHANGED catalogVars
  BY <1>5, TimeStep DEF WindowCloses, BackoffEnds, catalogVars, schedule
<1>6. CASE Restarts
  BY <1>6, RestartStep
<1>7. CASE Around
  <2>1. StoreInv' /\ Remembers /\ UNCHANGED <<schedule, request>>
    BY <1>7, AroundStep DEF Around
  <2>2. UNCHANGED run
    BY <1>7 DEF Around, StoreChanges, SourceChanges, TaskChanges, ReachabilityChanges
  <2> QED BY <2>1, <2>2, ScheduleRests DEF RunAt
<1> QED BY <1>1, <1>2, <1>3, <1>4, <1>5, <1>6, <1>7 DEF CatalogNext, Answers

\* The invariant holds initially.
LEMMA CatalogStarts == CatalogInit => CatalogInv
<1> SUFFICES ASSUME CatalogInit PROVE StoreInv /\ ScheduleInv
  BY InvIs
<1>1. StoreInv
  BY StoreStarts DEF CatalogInit
<1>2. \A r \in Scheduled : RunAt(r, "idle")
  BY IdleRunIs, ScheduleAssumption DEF CatalogInit, StoreInit, RunAt
<1>3. ScheduleTyped
  BY AnswersAre DEF CatalogInit, ScheduleTyped
<1>4. SingleFlight /\ WaitsForFlight /\ Beliefs
  BY <1>2, AnswersAre DEF CatalogInit, SingleFlight, WaitsForFlight, Beliefs
<1> QED BY <1>1, <1>3, <1>4 DEF ScheduleInv

\* The strengthened invariant of the tree, the runs and the schedule holds throughout.
THEOREM CatalogInvHolds == CatalogSpec => []CatalogInv
BY CatalogStarts, CatalogStep, PTL DEF CatalogSpec

\* However requests overlap at the probe, the process has one flight and everybody who
\* waits waits for it (corporateWbsSyncSchedule.js:138-206).
THEOREM FlightIsSingle == CatalogSpec => []SingleFlight
<1>1. CatalogInv => SingleFlight
  BY DEF CatalogInv
<1> QED BY <1>1, CatalogInvHolds, PTL

\* Between any two statements of any runs the tree is whole and has the nodes of all tasks,
\* and a merge is passed over only where it would change nothing (CORPORATE_WBS_MERGE_SQL).
THEOREM TreeStaysSound == CatalogSpec => []TreeIsSound
<1>1. CatalogInv => TreeIsSound
  <2> SUFFICES ASSUME CatalogInv PROVE TreeIsSound
    OBVIOUS
  <2>1. CatalogTypeOK /\ TreeStaysWhole
    BY DEF CatalogInv
  <2>2. SkipIsSound
    <3> SUFFICES ASSUME record # NoRecord, Cardinality(DOMAIN tree) = Cardinality(DOMAIN record)
                 PROVE  tree = record
      BY DEF SkipIsSound
    <3>1. tree \in Tree /\ record \in Tree /\ Holds(tree, record)
      BY PlanAssumption DEF CatalogInv, CatalogTypeOK, RecordInTree
    <3> QED BY <3>1, HeldOfOneSize
  <2> QED BY <2>1, <2>2 DEF TreeIsSound
<1> QED BY <1>1, CatalogInvHolds, PTL

\* A request is sent away at once only over a tree, or when a run of this process has found
\* that there is none to build (isCorporateWbsSyncBackedOff, canRevalidate).
THEOREM SentAwayOverTree == CatalogSpec => []AnsweredOverTree
<1>1. CatalogInv => AnsweredOverTree
  <2> SUFFICES ASSUME CatalogInv, NEW q \in Request, request[q].phase = "skipped", ~succeeded
               PROVE  tree # Empty
    BY DEF AnsweredOverTree
  <2>1. record # NoRecord
    BY DEF CatalogInv, Beliefs, Seen
  <2>2. record \in Tree /\ record # Empty /\ Holds(tree, record)
    BY <2>1, PlanAssumption DEF CatalogInv, CatalogTypeOK, RecordInTree
  <2>3. DOMAIN record # {}
    BY <2>2, TreeHas DEF Empty
  <2> QED BY <2>2, <2>3 DEF Holds, Empty
<1> QED BY <1>1, CatalogInvHolds, PTL
===============================================================================
