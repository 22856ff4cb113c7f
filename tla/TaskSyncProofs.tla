--------------------------- MODULE TaskSyncProofs ---------------------------
(***************************************************************************)
(* Proofs about TaskPatches and TaskSync for every set of tasks, fields,   *)
(* values and derived fields, and every bound.                             *)
(*                                                                         *)
(* The first part is about TaskPatches alone: its invariants, and that it  *)
(* implements EditLedger.  The second is about TaskSync, which plays out   *)
(* the jobs TaskPatches queues.                                            *)
(*                                                                         *)
(* The invariant of the second part compares every copy of a row with the  *)
(* row: the tab's, the one a request or a late request was built on, the   *)
(* answer of a stored request, and the rows a reload has read.  A copy is  *)
(* never newer than the row; when it is of the row's version it has the    *)
(* row's values, but in the fields that the oldest patch of the task       *)
(* settles, which are laid over the copy before they are stored.  So a     *)
(* write that finds its own version has every other field from the row it  *)
(* replaces.                                                               *)
(***************************************************************************)
EXTENDS TaskSync, FiniteSetTheorems, TLAPS

\* Patches stay patches under the operators the coalescer applies to them.
LEMMA PatchTypes ==
  /\ EmptyPatch \in Patch
  /\ \A e \in Patch \cup {NoEntry} : OrEmpty(e) \in Patch
  /\ \A fields : \A p \in Patch : Without(p, fields) \in Patch
  /\ \A p \in Patch : EntryOf(p) \in Patch \cup {NoEntry}
  /\ \A p, q \in Patch : MergeTaskPatches(p, q) \in Patch
  /\ \A p, q \in Patch : Overlay(p, q) \in Patch
<1>1. EmptyPatch \in Patch
  BY DEF EmptyPatch, Patch
<1>2. \A e \in Patch \cup {NoEntry} : OrEmpty(e) \in Patch
  BY <1>1 DEF OrEmpty
<1>3. \A fields : \A p \in Patch : Without(p, fields) \in Patch
  BY DEF Without, Patch
<1>4. \A p \in Patch : EntryOf(p) \in Patch \cup {NoEntry}
  BY DEF EntryOf
<1>5. \A p, q \in Patch : MergeTaskPatches(p, q) \in Patch
  BY DEF MergeTaskPatches, Without, Patch
<1>6. \A p, q \in Patch : Overlay(p, q) \in Patch
  BY DEF Overlay, Patch
<1>7. QED
  BY <1>1, <1>2, <1>3, <1>4, <1>5, <1>6

\* Every enumeration of the ready tasks is a sequence that lists each once.
LEMMA OrderLists ==
  ASSUME NEW S \in SUBSET Task, NEW order \in SetToSeqs(S)
  PROVE  /\ order \in Seq(S)
         /\ \A i, j \in 1 .. Len(order) : order[i] = order[j] => i = j
         /\ \A t \in S : \E i \in 1 .. Len(order) : order[i] = t
<1>1. IsFiniteSet(S) /\ Cardinality(S) \in Nat
  BY TaskAssumption, FS_Subset, FS_CardinalityType
<1>2. order \in [1 .. Cardinality(S) -> S]
  BY DEF SetToSeqs
<1>3. order \in Seq(S) /\ Len(order) = Cardinality(S)
  BY <1>1, <1>2
<1>4. \A i, j \in 1 .. Len(order) : order[i] = order[j] => i = j
  BY <1>3 DEF SetToSeqs
<1>5. \A t \in S : \E i \in 1 .. Len(order) : order[i] = t
  <2> DEFINE D == 1 .. Cardinality(S)
  <2>1. IsFiniteSet(D) /\ Cardinality(D) = Cardinality(S)
    BY <1>1, FS_Interval
  <2>2. order \in Injection(D, S)
    BY <1>2, <1>3, <1>4 DEF Injection, IsInjective
  <2>3. order \in Surjection(D, S)
    BY <1>1, <2>1, <2>2, FS_Injection
  <2>4. QED
    BY <1>3, <2>3 DEF Surjection
<1>6. QED
  BY <1>3, <1>4, <1>5

-----------------------------------------------------------------------------
\* Type correctness.
LEMMA TypeInit == Init => TypeOK
<1> SUFFICES ASSUME Init
             PROVE  TypeOK
  OBVIOUS
<1>1. queue \in Seq(Job)
  BY DEF Init
<1>3. /\ pending \in [Task -> Patch \cup {NoEntry}]
      /\ inFlight \in [Task -> Patch \cup {NoEntry}]
      /\ failed \in [Task -> Patch \cup {NoEntry}]
  BY DEF Init
<1>4. cancelledInFlight \in [Task -> SUBSET Field]
  BY DEF Init
<1>5. timer \in [Task -> BOOLEAN] /\ waiting \in [Task -> BOOLEAN]
  BY DEF Init
<1>6. QED
  BY <1>1, <1>3, <1>4, <1>5 DEF Init, TypeOK

\* While a task's job executes, its patch is in flight.
LEMMA ExecutingFlight ==
  ASSUME TypeOK, OneFlightPerTask, NEW t \in Task, Executing(t)
  PROVE  inFlight[t] \in Patch
<1>1. 1 \in 1 .. Len(queue) /\ queue[1] = t
  BY DEF Executing, TypeOK
<1>2. inFlight[t] # NoEntry
  BY <1>1 DEF OneFlightPerTask
<1>3. QED
  BY <1>2 DEF TypeOK

LEMMA TakeOutType ==
  ASSUME TypeOK, NEW t \in Task, TakeOut(t)
  PROVE  /\ pending' \in [Task -> Patch \cup {NoEntry}]
         /\ inFlight' \in [Task -> Patch \cup {NoEntry}]
         /\ queue' \in Seq(Job)
  BY DEF TypeOK, TakeOut, Job

LEMMA TypeStep == TypeOK /\ OneFlightPerTask /\ [Next]_vars => TypeOK'
<1> SUFFICES ASSUME TypeOK, OneFlightPerTask, [Next]_vars
             PROVE  TypeOK'
  OBVIOUS
<1>1. ASSUME NEW t \in Task, NEW patch \in Patch, Schedule(t, patch)
      PROVE  TypeOK'
  <2>1. MergeTaskPatches(MergeTaskPatches(OrEmpty(failed[t]), OrEmpty(pending[t])), patch) \in Patch
    BY PatchTypes DEF TypeOK
  <2>2. QED
    BY <1>1, <2>1 DEF TypeOK, Schedule
<1>2. ASSUME NEW t \in Task, NEW fields \in SUBSET Field, CancelFields(t, fields)
      PROVE  TypeOK'
  <2> DEFINE cut(entry) == IF entry = NoEntry THEN NoEntry ELSE EntryOf(Without(entry, fields))
  <2>1. \A e \in Patch \cup {NoEntry} : cut(e) \in Patch \cup {NoEntry}
    BY PatchTypes
  <2>2. /\ cut(pending[t]) \in Patch \cup {NoEntry}
        /\ cut(failed[t]) \in Patch \cup {NoEntry}
    BY <2>1 DEF TypeOK
  <2>3. /\ pending' = [pending EXCEPT ![t] = cut(@)]
        /\ timer' = [timer EXCEPT ![t] = @ /\ cut(pending[t]) # NoEntry]
        /\ failed' = [failed EXCEPT ![t] = cut(@)]
    BY <1>2 DEF CancelFields
  <2>4. timer' \in [Task -> BOOLEAN]
    BY <2>3 DEF TypeOK
  <2> HIDE DEF cut
  <2>5. pending' \in [Task -> Patch \cup {NoEntry}] /\ failed' \in [Task -> Patch \cup {NoEntry}]
    BY <2>2, <2>3 DEF TypeOK
  <2>6. cancelledInFlight' \in [Task -> SUBSET Field]
    BY <1>2 DEF CancelFields, TypeOK
  <2>7. QED
    BY <1>2, <2>4, <2>5, <2>6 DEF CancelFields, TypeOK
<1>3. ASSUME NEW t \in Task, ExplicitFlush(t)
      PROVE  TypeOK'
  <2>1. CASE AwaitFlight(t) /\ UNCHANGED timer
    BY <1>3, <2>1 DEF ExplicitFlush, AwaitFlight, TypeOK
  <2>2. CASE TakeOut(t) /\ timer' = [timer EXCEPT ![t] = FALSE] /\ UNCHANGED waiting
    BY <1>3, <2>2, TakeOutType DEF ExplicitFlush, TypeOK
  <2>3. QED
    BY <1>3, <2>1, <2>2 DEF ExplicitFlush
<1>4. ASSUME NEW order \in SetToSeqs(Ready), RetryFailed(order)
      PROVE  TypeOK'
  <2>1. \A t \in Task : Retried(t) \in Patch \cup {NoEntry}
    BY PatchTypes DEF Retried, TypeOK
  <2>2. order \in Seq(Ready)
    BY OrderLists DEF Ready
  <2>3. queue' \in Seq(Job)
    BY <1>4, <2>2 DEF RetryFailed, TypeOK, Job, Ready
  <2>4. /\ pending' \in [Task -> Patch \cup {NoEntry}]
        /\ inFlight' \in [Task -> Patch \cup {NoEntry}]
    BY <1>4, <2>1 DEF RetryFailed, TypeOK
  <2>5. timer' \in [Task -> BOOLEAN] /\ waiting' \in [Task -> BOOLEAN]
    BY <1>4 DEF RetryFailed, TypeOK
  <2>6. QED
    BY <1>4, <2>3, <2>4, <2>5 DEF RetryFailed, TypeOK
<1>5. ASSUME EnqueueSerial
      PROVE  TypeOK'
  BY <1>5 DEF EnqueueSerial, TypeOK, Job, coalescerVars
<1>6. ASSUME Dispose
      PROVE  TypeOK'
  BY <1>6 DEF Dispose, TypeOK
<1>7. ASSUME Revive
      PROVE  TypeOK'
  BY <1>7 DEF Revive, TypeOK
<1>8. ASSUME NEW t \in Task, TimerFires(t)
      PROVE  TypeOK'
  <2>1. CASE AwaitFlight(t)
    BY <1>8, <2>1 DEF TimerFires, AwaitFlight, TypeOK
  <2>2. CASE TakeOut(t) /\ UNCHANGED waiting
    BY <1>8, <2>2, TakeOutType DEF TimerFires, TypeOK
  <2>3. QED
    BY <1>8, <2>1, <2>2 DEF TimerFires
<1>9. ASSUME NEW t \in Task, FlushResumes(t)
      PROVE  TypeOK'
  <2>1. CASE TakeOut(t) /\ timer' = [timer EXCEPT ![t] = FALSE]
    BY <1>9, <2>1, TakeOutType DEF FlushResumes, TypeOK
  <2>2. CASE UNCHANGED <<pending, timer, inFlight, queue>>
    BY <1>9, <2>2 DEF FlushResumes, TypeOK
  <2>3. QED
    BY <1>9, <2>1, <2>2 DEF FlushResumes
<1>10. ASSUME NEW t \in Task, CommitSucceeds(t)
       PROVE  TypeOK'
  <2>1. queue' \in Seq(Job)
    BY <1>10 DEF CommitSucceeds, Executing, JobEnds, TypeOK
  <2>2. QED
    BY <1>10, <2>1 DEF CommitSucceeds, JobEnds, TypeOK
<1>11. ASSUME NEW t \in Task, CommitFails(t)
       PROVE  TypeOK'
  <2>1. queue' \in Seq(Job)
    BY <1>11 DEF CommitFails, Executing, JobEnds, TypeOK
  <2>2. Retained(t) \in Patch
    BY <1>11, ExecutingFlight, PatchTypes DEF CommitFails, Retained, TypeOK
  <2>3. EntryOf(Retained(t)) \in Patch \cup {NoEntry}
    BY <2>2, PatchTypes
  <2>4. pending[t] # NoEntry => MergeTaskPatches(Retained(t), pending[t]) \in Patch
    BY <2>2, PatchTypes DEF TypeOK
  <2>5. /\ pending' \in [Task -> Patch \cup {NoEntry}]
        /\ failed' \in [Task -> Patch \cup {NoEntry}]
    BY <1>11, <2>3, <2>4 DEF CommitFails, TypeOK
  <2>6. QED
    BY <1>11, <2>1, <2>5 DEF CommitFails, JobEnds, TypeOK
<1>12. ASSUME StartJob
       PROVE  TypeOK'
  BY <1>12 DEF StartJob, TypeOK, coalescerVars
<1>13. ASSUME NEW discard \in BOOLEAN, SerialEnds(discard)
       PROVE  TypeOK'
  <2>1. queue' \in Seq(Job)
    BY <1>13 DEF SerialEnds, Executing, JobEnds, TypeOK
  <2>2. failed' \in [Task -> Patch \cup {NoEntry}]
    BY <1>13 DEF SerialEnds, TypeOK
  <2>3. QED
    BY <1>13, <2>1, <2>2 DEF SerialEnds, JobEnds, TypeOK
<1>14. CASE UNCHANGED vars
  BY <1>14 DEF TypeOK, vars, coalescerVars
<1>15. QED
  BY <1>1, <1>2, <1>3, <1>4, <1>5, <1>6, <1>7, <1>8, <1>9, <1>10, <1>11, <1>12, <1>13, <1>14,
     UserPatchAssumption DEF Next, User, System

-----------------------------------------------------------------------------
\* How a job entering or leaving the queue changes what the queue lists.
Distinct(q) == \A i, j \in 1 .. Len(q) : q[i] \in Task /\ q[i] = q[j] => i = j
Lists(q, t) == \E i \in 1 .. Len(q) : q[i] = t

LEMMA AppendJob ==
  ASSUME NEW q \in Seq(Job), NEW job \in Job, Distinct(q),
         job \in Task => ~Lists(q, job)
  PROVE  /\ Distinct(Append(q, job))
         /\ \A t \in Task : Lists(Append(q, job), t) <=> Lists(q, t) \/ t = job
<1>1. /\ Len(Append(q, job)) = Len(q) + 1
      /\ Append(q, job)[Len(q) + 1] = job
      /\ \A i \in 1 .. Len(q) : Append(q, job)[i] = q[i]
  OBVIOUS
<1>2. Distinct(Append(q, job))
  BY <1>1 DEF Distinct, Lists
<1>3. ASSUME NEW t \in Task
      PROVE  Lists(Append(q, job), t) <=> Lists(q, t) \/ t = job
  BY <1>1 DEF Lists
<1>4. QED
  BY <1>2, <1>3

LEMMA ConcatJobs ==
  ASSUME NEW q \in Seq(Job), Distinct(q), NEW S \in SUBSET Task, NEW order \in SetToSeqs(S),
         \A t \in S : ~Lists(q, t)
  PROVE  /\ Distinct(q \o order)
         /\ \A t \in Task : Lists(q \o order, t) <=> Lists(q, t) \/ t \in S
<1>1. /\ order \in Seq(S)
      /\ \A i, j \in 1 .. Len(order) : order[i] = order[j] => i = j
      /\ \A t \in S : \E i \in 1 .. Len(order) : order[i] = t
  BY OrderLists
<1>2. /\ Len(q \o order) = Len(q) + Len(order)
      /\ \A i \in 1 .. Len(q) : (q \o order)[i] = q[i]
      /\ \A i \in 1 .. Len(order) : (q \o order)[Len(q) + i] = order[i]
  BY <1>1
<1>3. \A i \in 1 .. Len(q \o order) :
        \/ i \in 1 .. Len(q) /\ (q \o order)[i] = q[i]
        \/ /\ i - Len(q) \in 1 .. Len(order)
           /\ (q \o order)[i] = order[i - Len(q)]
           /\ order[i - Len(q)] \in S
  BY <1>1, <1>2
<1>4. Distinct(q \o order)
  <2> SUFFICES ASSUME NEW i \in 1 .. Len(q \o order), NEW j \in 1 .. Len(q \o order),
                      (q \o order)[i] \in Task, (q \o order)[i] = (q \o order)[j]
               PROVE  i = j
    BY DEF Distinct
  <2>1. CASE i \in 1 .. Len(q) /\ j \in 1 .. Len(q)
    BY <1>2, <2>1 DEF Distinct
  <2>2. CASE i \notin 1 .. Len(q) /\ j \notin 1 .. Len(q)
    <3>1. /\ i - Len(q) \in 1 .. Len(order) /\ j - Len(q) \in 1 .. Len(order)
          /\ order[i - Len(q)] = order[j - Len(q)]
      BY <1>3, <2>2
    <3>2. i - Len(q) = j - Len(q)
      BY <1>1, <3>1
    <3>3. QED
      BY <3>2
  <2>3. CASE i \in 1 .. Len(q) /\ j \notin 1 .. Len(q)
    BY <1>2, <1>3, <2>3 DEF Lists
  <2>4. CASE i \notin 1 .. Len(q) /\ j \in 1 .. Len(q)
    BY <1>2, <1>3, <2>4 DEF Lists
  <2>5. QED
    BY <2>1, <2>2, <2>3, <2>4
<1>5. ASSUME NEW t \in Task
      PROVE  Lists(q \o order, t) <=> Lists(q, t) \/ t \in S
  <2>1. ASSUME Lists(q, t)
        PROVE  Lists(q \o order, t)
    BY <1>1, <1>2, <2>1 DEF Lists
  <2>2. ASSUME t \in S
        PROVE  Lists(q \o order, t)
    <3>1. PICK i \in 1 .. Len(order) : order[i] = t
      BY <1>1, <2>2
    <3>2. Len(q) + i \in 1 .. Len(q \o order) /\ (q \o order)[Len(q) + i] = t
      <4>1. Len(q) \in Nat /\ Len(order) \in Nat
        BY <1>1
      <4>2. Len(q) + i \in 1 .. Len(q \o order)
        BY <1>2, <4>1
      <4> QED BY <1>2, <3>1, <4>2
    <3>3. QED
      BY <3>2 DEF Lists
  <2>3. ASSUME Lists(q \o order, t)
        PROVE  Lists(q, t) \/ t \in S
    BY <1>3, <2>3 DEF Lists
  <2>4. QED
    BY <2>1, <2>2, <2>3
<1>6. QED
  BY <1>4, <1>5

LEMMA TailJob ==
  ASSUME NEW q \in Seq(Job), Distinct(q), q # <<>>
  PROVE  /\ Distinct(Tail(q))
         /\ \A t \in Task : Lists(Tail(q), t) <=> Lists(q, t) /\ t # Head(q)
<1>1. /\ Len(Tail(q)) = Len(q) - 1
      /\ \A i \in 1 .. Len(Tail(q)) : Tail(q)[i] = q[i + 1]
      /\ Head(q) = q[1]
      /\ Len(q) \in Nat /\ Len(q) >= 1
  OBVIOUS
<1>2. Distinct(Tail(q))
  BY <1>1 DEF Distinct
<1>3. ASSUME NEW t \in Task
      PROVE  Lists(Tail(q), t) <=> Lists(q, t) /\ t # Head(q)
  <2>1. ASSUME Lists(Tail(q), t)
        PROVE  Lists(q, t) /\ t # Head(q)
    BY <1>1, <2>1 DEF Lists, Distinct
  <2>2. ASSUME Lists(q, t), t # Head(q)
        PROVE  Lists(Tail(q), t)
    <3>1. PICK i \in 1 .. Len(q) : q[i] = t
      BY <2>2 DEF Lists
    <3>2. i - 1 \in 1 .. Len(Tail(q)) /\ Tail(q)[i - 1] = t
      BY <1>1, <2>2, <3>1
    <3>3. QED
      BY <3>2 DEF Lists
  <2>3. QED
    BY <2>1, <2>2
<1>4. QED
  BY <1>2, <1>3

-----------------------------------------------------------------------------
\* One job per flight, in the words of the queue lemmas.
LEMMA OneFlightWords ==
  OneFlightPerTask <=> /\ Distinct(queue)
                       /\ \A t \in Task : inFlight[t] # NoEntry <=> Lists(queue, t)
  BY DEF OneFlightPerTask, Distinct, Lists

LEMMA OneFlightWordsPrimed ==
  OneFlightPerTask' <=> /\ Distinct(queue')
                        /\ \A t \in Task : inFlight'[t] # NoEntry <=> Lists(queue', t)
  BY DEF OneFlightPerTask, Distinct, Lists

\* A patch taken out gets the only job of its task.
LEMMA TakeOutQueue ==
  ASSUME TypeOK, OneFlightPerTask, NEW t \in Task, TakeOut(t)
  PROVE  OneFlightPerTask'
<1>1. queue \in Seq(Job) /\ t \in Job /\ Distinct(queue) /\ ~Lists(queue, t)
  BY OneFlightWords DEF TypeOK, TakeOut, Job
<1>2. /\ Distinct(Append(queue, t))
      /\ \A u \in Task : Lists(Append(queue, t), u) <=> Lists(queue, u) \/ u = t
  BY <1>1, AppendJob
<1>3. \A u \in Task : inFlight'[u] # NoEntry <=> inFlight[u] # NoEntry \/ u = t
  BY DEF TypeOK, TakeOut
<1>4. QED
  BY <1>2, <1>3, OneFlightWords, OneFlightWordsPrimed DEF TakeOut

\* Settling the head job ends the flight of its task.
LEMMA SettleQueue ==
  ASSUME TypeOK, OneFlightPerTask, NEW job \in Job, Executing(job), JobEnds,
         inFlight' = [t \in Task |-> IF t = job THEN NoEntry ELSE inFlight[t]]
  PROVE  OneFlightPerTask'
<1>1. queue \in Seq(Job) /\ Distinct(queue) /\ queue # <<>> /\ Head(queue) = job
  BY OneFlightWords DEF TypeOK, Executing
<1>2. /\ Distinct(Tail(queue))
      /\ \A t \in Task : Lists(Tail(queue), t) <=> Lists(queue, t) /\ t # job
  BY <1>1, TailJob
<1>3. QED
  BY <1>2, OneFlightWords, OneFlightWordsPrimed DEF JobEnds

LEMMA QueueStep == TypeOK /\ OneFlightPerTask /\ [Next]_vars => OneFlightPerTask'
<1> SUFFICES ASSUME TypeOK, OneFlightPerTask, [Next]_vars
             PROVE  OneFlightPerTask'
  OBVIOUS
<1>1. ASSUME UNCHANGED <<queue, inFlight>>
      PROVE  OneFlightPerTask'
  BY <1>1 DEF OneFlightPerTask
<1>2. ASSUME NEW t \in Task, TimerFires(t) \/ ExplicitFlush(t) \/ FlushResumes(t)
      PROVE  OneFlightPerTask'
  <2>1. CASE TakeOut(t)
    BY <2>1, TakeOutQueue
  <2>2. CASE UNCHANGED <<queue, inFlight>>
    BY <1>1, <2>2
  <2>3. QED
    BY <1>2, <2>1, <2>2 DEF TimerFires, ExplicitFlush, FlushResumes, AwaitFlight
<1>3. ASSUME NEW order \in SetToSeqs(Ready), RetryFailed(order)
      PROVE  OneFlightPerTask'
  <2>1. /\ queue \in Seq(Job) /\ Distinct(queue)
        /\ Ready \in SUBSET Task /\ \A t \in Ready : ~Lists(queue, t)
    BY OneFlightWords DEF TypeOK, Ready
  <2>2. /\ Distinct(queue \o order)
        /\ \A t \in Task : Lists(queue \o order, t) <=> Lists(queue, t) \/ t \in Ready
    BY <2>1, ConcatJobs
  <2>3. \A t \in Task : inFlight'[t] # NoEntry <=> inFlight[t] # NoEntry \/ t \in Ready
    BY <1>3 DEF RetryFailed, Ready
  <2>4. QED
    BY <1>3, <2>2, <2>3, OneFlightWords, OneFlightWordsPrimed DEF RetryFailed
<1>4. ASSUME EnqueueSerial
      PROVE  OneFlightPerTask'
  <2>1. queue \in Seq(Job) /\ Serial \in Job /\ Distinct(queue)
    BY OneFlightWords DEF TypeOK, Job
  <2>2. /\ Distinct(Append(queue, Serial))
        /\ \A t \in Task : Lists(Append(queue, Serial), t) <=> Lists(queue, t)
    BY <2>1, AppendJob, TaskAssumption
  <2>3. QED
    BY <1>4, <2>2, OneFlightWords, OneFlightWordsPrimed DEF EnqueueSerial, coalescerVars
<1>5. ASSUME NEW t \in Task, CommitSucceeds(t) \/ CommitFails(t)
      PROVE  OneFlightPerTask'
  <2>1. Executing(t) /\ JobEnds /\ t \in Job
    BY <1>5 DEF CommitSucceeds, CommitFails, Job
  <2>2. inFlight' = [u \in Task |-> IF u = t THEN NoEntry ELSE inFlight[u]]
    BY <1>5 DEF CommitSucceeds, CommitFails, TypeOK
  <2>3. QED
    BY <2>1, <2>2, SettleQueue
<1>6. ASSUME NEW discard \in BOOLEAN, SerialEnds(discard)
      PROVE  OneFlightPerTask'
  <2>1. Executing(Serial) /\ JobEnds /\ Serial \in Job
    BY <1>6 DEF SerialEnds, Job
  <2>2. inFlight' = [u \in Task |-> IF u = Serial THEN NoEntry ELSE inFlight[u]]
    BY <1>6, TaskAssumption DEF SerialEnds, TypeOK
  <2>3. QED
    BY <2>1, <2>2, SettleQueue
<1>7. QED
  <2>1. ASSUME NEW t \in Task, NEW patch \in Patch, Schedule(t, patch)
        PROVE  UNCHANGED <<queue, inFlight>>
    BY <2>1 DEF Schedule
  <2>2. ASSUME NEW t \in Task, NEW fields \in SUBSET Field, CancelFields(t, fields)
        PROVE  UNCHANGED <<queue, inFlight>>
    BY <2>2 DEF CancelFields
  <2>3. StartJob \/ Dispose \/ Revive \/ UNCHANGED vars => UNCHANGED <<queue, inFlight>>
    BY DEF StartJob, Dispose, Revive, vars, coalescerVars
  <2>4. QED
    BY <1>1, <1>2, <1>3, <1>4, <1>5, <1>6, <2>1, <2>2, <2>3,
       UserPatchAssumption DEF Next, User, System

-----------------------------------------------------------------------------
\* The four maps together.
Maps == PendingWillBeSent /\ RetainedAlone /\ CancelsFollowFlights /\ DisposedIsEmpty

\* EntryOf never yields an empty patch.
LEMMA EntryOfFacts ==
  \A p \in Patch : EntryOf(p) # NoEntry => EntryOf(p) = p /\ p # EmptyPatch
  BY DEF EntryOf

LEMMA MapsStep == IInv /\ [Next]_vars => Maps'
<1> SUFFICES ASSUME IInv, [Next]_vars
             PROVE  Maps'
  OBVIOUS
<1> USE DEF IInv, Maps, PendingWillBeSent, RetainedAlone, CancelsFollowFlights, DisposedIsEmpty
<1>1. ASSUME NEW t \in Task, NEW patch \in Patch, Schedule(t, patch)
      PROVE  Maps'
  BY <1>1 DEF Schedule, TypeOK
<1>2. ASSUME NEW t \in Task, NEW fields \in SUBSET Field, CancelFields(t, fields)
      PROVE  Maps'
  <2> DEFINE cut(entry) == IF entry = NoEntry THEN NoEntry ELSE EntryOf(Without(entry, fields))
  <2>1. \A e \in Patch \cup {NoEntry} : cut(e) # NoEntry => e # NoEntry /\ cut(e) # EmptyPatch
    BY PatchTypes, EntryOfFacts
  <2>2. /\ pending' = [pending EXCEPT ![t] = cut(@)]
        /\ timer' = [timer EXCEPT ![t] = @ /\ cut(pending[t]) # NoEntry]
        /\ failed' = [failed EXCEPT ![t] = cut(@)]
        /\ cancelledInFlight' = [cancelledInFlight EXCEPT ![t] =
              IF inFlight[t] = NoEntry THEN @ ELSE @ \cup fields]
        /\ UNCHANGED <<waiting, inFlight, disposed>>
    BY <1>2 DEF CancelFields
  <2> HIDE DEF cut
  <2>3. PendingWillBeSent'
    BY <2>1, <2>2 DEF TypeOK
  <2>4. RetainedAlone'
    BY <2>1, <2>2 DEF TypeOK
  <2>5. CancelsFollowFlights'
    BY <2>2 DEF TypeOK
  <2>6. DisposedIsEmpty'
    BY <2>1, <2>2 DEF TypeOK
  <2>7. QED
    BY <2>3, <2>4, <2>5, <2>6
<1>3. ASSUME NEW t \in Task, ExplicitFlush(t)
      PROVE  Maps'
  BY <1>3 DEF ExplicitFlush, AwaitFlight, TakeOut, TypeOK
<1>4. ASSUME NEW order \in SetToSeqs(Ready), RetryFailed(order)
      PROVE  Maps'
  BY <1>4 DEF RetryFailed, Ready, Retried, TypeOK
<1>5. ASSUME Dispose
      PROVE  Maps'
  BY <1>5 DEF Dispose
<1>6. ASSUME NEW t \in Task, TimerFires(t)
      PROVE  Maps'
  BY <1>6 DEF TimerFires, AwaitFlight, TakeOut, TypeOK
<1>7. ASSUME NEW t \in Task, FlushResumes(t)
      PROVE  Maps'
  BY <1>7 DEF FlushResumes, TakeOut, TypeOK
<1>8. ASSUME NEW t \in Task, CommitSucceeds(t)
      PROVE  Maps'
  BY <1>8 DEF CommitSucceeds, TypeOK
<1>9. ASSUME NEW t \in Task, CommitFails(t)
      PROVE  Maps'
  <2>1. Retained(t) \in Patch
    BY <1>9, ExecutingFlight, PatchTypes DEF CommitFails, Retained, TypeOK
  <2>2. EntryOf(Retained(t)) # NoEntry => EntryOf(Retained(t)) # EmptyPatch
    BY <2>1, EntryOfFacts
  <2>3. QED
    BY <1>9, <2>2 DEF CommitFails, TypeOK
<1>10. ASSUME NEW discard \in BOOLEAN, SerialEnds(discard)
       PROVE  Maps'
  BY <1>10 DEF SerialEnds, TypeOK
<1>11. ASSUME EnqueueSerial \/ Revive \/ StartJob \/ UNCHANGED vars
       PROVE  Maps'
  BY <1>11 DEF EnqueueSerial, Revive, StartJob, vars, coalescerVars
<1>12. QED
  BY <1>1, <1>2, <1>3, <1>4, <1>5, <1>6, <1>7, <1>8, <1>9, <1>10, <1>11,
     UserPatchAssumption DEF Next, User, System

LEMMA IInvInit == Init => IInv
<1> SUFFICES ASSUME Init
             PROVE  IInv
  OBVIOUS
<1>1. TypeOK
  BY TypeInit
<1>2. OneFlightPerTask
  BY DEF Init, OneFlightPerTask
<1>3. Maps
  BY DEF Init, Maps, PendingWillBeSent, RetainedAlone, CancelsFollowFlights, DisposedIsEmpty
<1>4. QED
  BY <1>1, <1>2, <1>3 DEF IInv, Maps

LEMMA IInvStep == IInv /\ [Next]_vars => IInv'
<1> SUFFICES ASSUME IInv, [Next]_vars
             PROVE  IInv'
  OBVIOUS
<1>1. TypeOK' /\ OneFlightPerTask'
  BY TypeStep, QueueStep DEF IInv
<1>2. Maps'
  BY MapsStep
<1>3. QED
  BY <1>1, <1>2 DEF IInv, Maps

\* Every reachable state satisfies the inductive invariant.
THEOREM Inductive == Spec => []IInv
  BY IInvInit, IInvStep, PTL DEF Spec

\* The maps of the coalescer always hold patches and the queue holds jobs.
THEOREM TypeCorrect == Spec => []TypeOK
<1>1. IInv => TypeOK
  BY DEF IInv
<1>2. QED
  BY <1>1, Inductive, PTL

\* Requests of one task never overlap, whatever flushes, retries and timers
\* the user and the browser interleave.
THEOREM SerialFlights == Spec => []OneFlightPerTask
<1>1. IInv => OneFlightPerTask
  BY DEF IInv
<1>2. QED
  BY <1>1, Inductive, PTL

\* A pending edit is never stranded without a timer or a caller to send it.
THEOREM NothingStranded == Spec => []PendingWillBeSent
<1>1. IInv => PendingWillBeSent
  BY DEF IInv
<1>2. QED
  BY <1>1, Inductive, PTL

\* A retained patch is never empty and never coexists with a newer copy.
THEOREM RetainedIsAlone == Spec => []RetainedAlone
<1>1. IInv => RetainedAlone
  BY DEF IInv
<1>2. QED
  BY <1>1, Inductive, PTL

-----------------------------------------------------------------------------
\* The refinement: TaskPatches implements EditLedger.
\* NoEntry marks the absence of a patch.
LEMMA NoEntryIsNoPatch == NoEntry \notin Patch
  BY NoEntryAssumption DEF Patch

USE FieldAssumption, ValueAssumption, NoEntryIsNoPatch

\* The ledger's view of the state.
UnsavedView == [t \in Task |-> UnsavedEdits(t)]
SentView    == [t \in Task |-> SentEdits(t)]

PlainOf(patch) == [f \in Plain |-> patch[f]]

\* For the fields that do not depend on the status, a merge is an overlay.
LEMMA MergeIsOverlay ==
  ASSUME NEW p \in Patch, NEW q \in Patch, NEW f \in Plain
  PROVE  MergeTaskPatches(p, q)[f] = IF q[f] # Absent THEN q[f] ELSE p[f]
  BY DEF MergeTaskPatches, Without, Patch, Plain

\* Where the newest copy of an edit is.
LEMMA UnsavedIs ==
  ASSUME NEW t \in Task, NEW f \in Plain
  PROVE  UnsavedEdits(t)[f] =
           IF disposed THEN Absent
           ELSE IF OrEmpty(pending[t])[f] # Absent THEN OrEmpty(pending[t])[f]
           ELSE IF f \notin cancelledInFlight[t] /\ OrEmpty(inFlight[t])[f] # Absent
                THEN OrEmpty(inFlight[t])[f]
                ELSE OrEmpty(failed[t])[f]
  BY DEF UnsavedEdits, Overlay, Without, Plain

LEMMA InitRefines == Init => Ledger!Init
<1> SUFFICES ASSUME Init
             PROVE  Ledger!Init
  OBVIOUS
<1>1. ASSUME NEW t \in Task
      PROVE  UnsavedEdits(t) = [f \in Plain |-> Absent]
  BY DEF Init, UnsavedEdits, Overlay, Without, OrEmpty, EmptyPatch, Plain
<1>2. ASSUME NEW t \in Task
      PROVE  SentEdits(t) = NoEntry
  BY DEF Init, SentEdits
<1>3. QED
  BY <1>1, <1>2 DEF Ledger!Init, Ledger!NoEdits

LEMMA UnsavedIsPrimed ==
  ASSUME NEW t \in Task, NEW f \in Plain
  PROVE  UnsavedEdits(t)'[f] =
           IF disposed' THEN Absent
           ELSE IF OrEmpty(pending'[t])[f] # Absent THEN OrEmpty(pending'[t])[f]
           ELSE IF f \notin cancelledInFlight'[t] /\ OrEmpty(inFlight'[t])[f] # Absent
                THEN OrEmpty(inFlight'[t])[f]
                ELSE OrEmpty(failed'[t])[f]
  BY DEF UnsavedEdits, Overlay, Without, Plain

\* The view of a task follows the maps at that task only.
LEMMA UnsavedLocal ==
  ASSUME NEW t \in Task, disposed' = disposed, pending'[t] = pending[t], failed'[t] = failed[t],
         inFlight'[t] = inFlight[t], cancelledInFlight'[t] = cancelledInFlight[t]
  PROVE  UnsavedEdits(t)' = UnsavedEdits(t)
  BY DEF UnsavedEdits

LEMMA SentLocal ==
  ASSUME NEW t \in Task, inFlight'[t] = inFlight[t]
  PROVE  SentEdits(t)' = SentEdits(t)
  BY DEF SentEdits

\* Extensionality: the new view of a task is known field by field.
LEMMA UnsavedByField ==
  ASSUME NEW t \in Task, NEW edits, edits = [f \in Plain |-> edits[f]],
         \A f \in Plain : UnsavedEdits(t)'[f] = edits[f]
  PROVE  UnsavedEdits(t)' = edits
  BY DEF UnsavedEdits

LEMMA EmptyFields ==
  /\ \A f \in Field : OrEmpty(NoEntry)[f] = Absent
  /\ \A p \in Patch : OrEmpty(p) = p
  BY DEF OrEmpty, EmptyPatch

-----------------------------------------------------------------------------
\* Scheduling an edit is an edit of the ledger.
LEMMA ScheduleRefines ==
  ASSUME IInv, NEW t \in Task, NEW patch \in Patch, Schedule(t, patch)
  PROVE  Ledger!Edit(t, PlainOf(patch)) /\ PlainOf(patch) \in Ledger!Edits
<1>1. PlainOf(patch) \in Ledger!Edits
  BY DEF PlainOf, Ledger!Edits, Patch, Plain
<1>2. /\ OrEmpty(failed[t]) \in Patch /\ OrEmpty(pending[t]) \in Patch
      /\ MergeTaskPatches(OrEmpty(failed[t]), OrEmpty(pending[t])) \in Patch
  BY PatchTypes DEF IInv, TypeOK
<1>3. /\ pending'[t] = MergeTaskPatches(MergeTaskPatches(OrEmpty(failed[t]), OrEmpty(pending[t])), patch)
      /\ pending'[t] \in Patch
      /\ failed'[t] = NoEntry
      /\ ~disposed /\ ~disposed'
      /\ UNCHANGED <<inFlight, cancelledInFlight>>
  BY <1>2, PatchTypes DEF Schedule, IInv, TypeOK
<1>4. \A f \in Plain :
        UnsavedEdits(t)'[f] = IF patch[f] # Absent THEN patch[f] ELSE UnsavedEdits(t)[f]
  <2> SUFFICES ASSUME NEW f \in Plain
               PROVE  UnsavedEdits(t)'[f] =
                        IF patch[f] # Absent THEN patch[f] ELSE UnsavedEdits(t)[f]
    OBVIOUS
  <2>1. OrEmpty(pending'[t])[f] = IF patch[f] # Absent THEN patch[f]
                                  ELSE IF OrEmpty(pending[t])[f] # Absent THEN OrEmpty(pending[t])[f]
                                  ELSE OrEmpty(failed[t])[f]
    BY <1>2, <1>3, MergeIsOverlay, EmptyFields
  <2>2. failed[t] # NoEntry => inFlight[t] = NoEntry
    BY DEF IInv, RetainedAlone
  <2>3. f \in Field
    BY DEF Plain
  <2>4. OrEmpty(inFlight[t])[f] # Absent => OrEmpty(failed[t])[f] = Absent
    BY <2>2, <2>3, EmptyFields
  <2>5. OrEmpty(failed'[t])[f] = Absent
    BY <1>3, <2>3, EmptyFields
  <2>6. QED
    BY <1>3, <2>1, <2>4, <2>5, UnsavedIs, UnsavedIsPrimed
<1>5. UnsavedEdits(t)' = Ledger!Onto(UnsavedEdits(t), PlainOf(patch))
  <2> DEFINE edits == Ledger!Onto(UnsavedEdits(t), PlainOf(patch))
  <2>1. edits = [f \in Plain |-> edits[f]]
    BY DEF Ledger!Onto
  <2>2. \A f \in Plain : UnsavedEdits(t)'[f] = edits[f]
    BY <1>4 DEF Ledger!Onto, PlainOf
  <2>3. QED
    BY <2>1, <2>2, UnsavedByField
<1>6. ASSUME NEW u \in Task, u # t
      PROVE  UnsavedEdits(u)' = UnsavedEdits(u)
  BY <1>6, UnsavedLocal DEF Schedule, IInv, TypeOK
<1>7. \A u \in Task : SentEdits(u)' = SentEdits(u)
  BY <1>3, SentLocal
<1>8. QED
  BY <1>1, <1>3, <1>5, <1>6, <1>7 DEF Ledger!Edit

\* Cancelling fields is a cancel of the ledger.
LEMMA CancelRefines ==
  ASSUME IInv, NEW t \in Task, NEW fields \in SUBSET Field, CancelFields(t, fields)
  PROVE  Ledger!Cancel(t, fields \cap Plain)
<1> DEFINE cut(entry) == IF entry = NoEntry THEN NoEntry ELSE EntryOf(Without(entry, fields))
<1>1. \A e \in Patch \cup {NoEntry} : \A f \in Field :
        OrEmpty(cut(e))[f] = IF f \in fields THEN Absent ELSE OrEmpty(e)[f]
  BY PatchTypes DEF OrEmpty, EmptyPatch, EntryOf, Without, Patch
<1>2. /\ pending'[t] = cut(pending[t])
      /\ failed'[t] = cut(failed[t])
      /\ cancelledInFlight'[t] =
           IF inFlight[t] = NoEntry THEN cancelledInFlight[t] ELSE cancelledInFlight[t] \cup fields
      /\ UNCHANGED <<inFlight, disposed>>
  BY DEF CancelFields, IInv, TypeOK
<1> HIDE DEF cut
<1>3. \A f \in Plain :
        UnsavedEdits(t)'[f] = IF f \in fields \cap Plain THEN Absent ELSE UnsavedEdits(t)[f]
  <2> SUFFICES ASSUME NEW f \in Plain
               PROVE  UnsavedEdits(t)'[f] = IF f \in fields THEN Absent ELSE UnsavedEdits(t)[f]
    OBVIOUS
  <2>1. f \in Field
    BY DEF Plain
  <2>2. /\ OrEmpty(pending'[t])[f] = IF f \in fields THEN Absent ELSE OrEmpty(pending[t])[f]
        /\ OrEmpty(failed'[t])[f] = IF f \in fields THEN Absent ELSE OrEmpty(failed[t])[f]
    BY <1>1, <1>2, <2>1 DEF IInv, TypeOK
  <2>3. inFlight[t] = NoEntry => OrEmpty(inFlight[t])[f] = Absent
    BY <2>1, EmptyFields
  <2>4. QED
    BY <1>2, <2>2, <2>3, UnsavedIs, UnsavedIsPrimed
<1>4. UnsavedEdits(t)' = [f \in Plain |-> IF f \in fields \cap Plain THEN Absent ELSE UnsavedEdits(t)[f]]
  BY <1>3 DEF UnsavedEdits
<1>5. ASSUME NEW u \in Task, u # t
      PROVE  UnsavedEdits(u)' = UnsavedEdits(u)
  BY <1>5, UnsavedLocal DEF CancelFields, IInv, TypeOK
<1>6. \A u \in Task : SentEdits(u)' = SentEdits(u)
  BY <1>2, SentLocal
<1>7. QED
  BY <1>2, <1>4, <1>5, <1>6, ZenonT(30) DEF Ledger!Cancel

\* Sending tasks whose flights are over and whose copies are all in one patch.
LEMMA SendRefines ==
  ASSUME IInv, NEW tasks \in SUBSET Task,
         \A t \in tasks : /\ inFlight[t] = NoEntry
                          /\ inFlight'[t] \in Patch
                          /\ pending'[t] = NoEntry /\ failed'[t] = NoEntry
                          /\ PlainOf(inFlight'[t]) = UnsavedEdits(t),
         \A t \in Task \ tasks : UNCHANGED <<inFlight[t], pending[t], failed[t]>>,
         ~disposed, UNCHANGED <<disposed, cancelledInFlight>>
  PROVE  Ledger!Send(tasks)
<1>1. ASSUME NEW t \in tasks
      PROVE  /\ SentEdits(t) = NoEntry
             /\ SentEdits(t)' = UnsavedEdits(t)
             /\ UnsavedEdits(t)' = UnsavedEdits(t)
  <2>1. SentEdits(t) = NoEntry
    BY DEF SentEdits
  <2>2. inFlight'[t] # NoEntry
    OBVIOUS
  <2>3. SentEdits(t)' = UnsavedEdits(t)
    BY <2>2 DEF SentEdits, PlainOf
  <2>4. cancelledInFlight'[t] = {}
    BY DEF IInv, CancelsFollowFlights
  <2>5. ASSUME NEW f \in Plain
        PROVE  UnsavedEdits(t)'[f] = UnsavedEdits(t)[f]
    <3>1. f \in Field
      BY DEF Plain
    <3>2. OrEmpty(pending'[t])[f] = Absent /\ OrEmpty(failed'[t])[f] = Absent
      BY <3>1, EmptyFields
    <3>3. OrEmpty(inFlight'[t])[f] = UnsavedEdits(t)[f]
      BY EmptyFields DEF PlainOf
    <3>4. QED
      BY <2>4, <3>2, <3>3, UnsavedIsPrimed
  <2>6. UnsavedEdits(t) = [f \in Plain |-> UnsavedEdits(t)[f]]
    BY DEF UnsavedEdits
  <2>7. QED
    BY <2>1, <2>3, <2>5, <2>6, UnsavedByField
<1>2. ASSUME NEW t \in Task \ tasks
      PROVE  SentEdits(t)' = SentEdits(t) /\ UnsavedEdits(t)' = UnsavedEdits(t)
  BY SentLocal, UnsavedLocal
<1>3. QED
  BY <1>1, <1>2 DEF Ledger!Send

\* A task in flight shows the ledger a snapshot.
LEMMA FlightIsSent ==
  ASSUME NEW t \in Task, inFlight[t] \in Patch
  PROVE  SentEdits(t) = PlainOf(inFlight[t]) /\ SentEdits(t) # NoEntry
<1>1. inFlight[t] # NoEntry
  BY DEF Patch
<1>2. SentEdits(t) = PlainOf(inFlight[t])
  BY <1>1 DEF SentEdits, PlainOf
<1>3. PlainOf(inFlight[t]) \in [Plain -> Value \cup {Absent}] /\ Plain \in SUBSET Field
  BY DEF PlainOf, Patch, Plain
<1>4. QED
  BY <1>2, <1>3, NoEntryAssumption

\* What a retried or pending patch shows the ledger when nothing else is held.
LEMMA RetriedIsUnsaved ==
  ASSUME IInv, NEW t \in Task, inFlight[t] = NoEntry, Retried(t) # NoEntry
  PROVE  /\ Retried(t) \in Patch
         /\ PlainOf(Retried(t)) = UnsavedEdits(t)
         /\ ~disposed
<1>1. Retried(t) \in Patch /\ ~disposed
  BY PatchTypes DEF IInv, TypeOK, Retried, DisposedIsEmpty
<1>2. ASSUME NEW f \in Plain
      PROVE  Retried(t)[f] = UnsavedEdits(t)[f]
  <2>1. f \in Field
    BY DEF Plain
  <2>2. OrEmpty(inFlight[t])[f] = Absent
    BY <2>1, EmptyFields
  <2>3. CASE failed[t] = NoEntry
    <3>1. Retried(t) = OrEmpty(pending[t]) /\ OrEmpty(failed[t])[f] = Absent
      BY <2>1, <2>3, EmptyFields DEF Retried, OrEmpty
    <3>2. QED
      BY <1>1, <2>2, <3>1, UnsavedIs
  <2>4. CASE failed[t] # NoEntry
    <3>1. OrEmpty(failed[t]) = failed[t] /\ failed[t] \in Patch /\ OrEmpty(pending[t]) \in Patch
      BY <2>4, PatchTypes DEF IInv, TypeOK, OrEmpty
    <3>2. Retried(t)[f] = IF OrEmpty(pending[t])[f] # Absent
                          THEN OrEmpty(pending[t])[f] ELSE OrEmpty(failed[t])[f]
      BY <2>4, <3>1, MergeIsOverlay DEF Retried
    <3>3. QED
      BY <1>1, <2>2, <3>2, UnsavedIs
  <2>5. QED
    BY <2>3, <2>4
<1>3. PlainOf(Retried(t)) = UnsavedEdits(t)
  BY <1>2 DEF PlainOf, UnsavedEdits
<1>4. QED
  BY <1>1, <1>3

\* Taking one entry out sends its task.
LEMMA TakeOutRefines ==
  ASSUME IInv, NEW t \in Task, TakeOut(t), UNCHANGED <<cancelledInFlight, failed, disposed>>
  PROVE  Ledger!Send({t})
<1>1. failed[t] = NoEntry /\ Retried(t) = pending[t]
  BY DEF TakeOut, IInv, RetainedAlone, Retried
<1>2. /\ inFlight[t] = NoEntry /\ inFlight'[t] \in Patch
      /\ pending'[t] = NoEntry /\ failed'[t] = NoEntry
      /\ PlainOf(inFlight'[t]) = UnsavedEdits(t) /\ ~disposed
  BY <1>1, RetriedIsUnsaved DEF TakeOut, IInv, TypeOK
<1>3. \A u \in Task \ {t} : UNCHANGED <<inFlight[u], pending[u], failed[u]>>
  BY DEF TakeOut, IInv, TypeOK
<1>4. QED
  BY <1>2, <1>3, SendRefines

\* retryFailed sends every ready task at once.
LEMMA RetryRefines ==
  ASSUME IInv, NEW order, RetryFailed(order)
  PROVE  Ledger!Send(Ready)
<1>1. ASSUME NEW t \in Ready
      PROVE  /\ inFlight[t] = NoEntry /\ inFlight'[t] \in Patch
             /\ pending'[t] = NoEntry /\ failed'[t] = NoEntry
             /\ PlainOf(inFlight'[t]) = UnsavedEdits(t)
  BY RetriedIsUnsaved DEF Ready, RetryFailed
<1>2. ASSUME NEW t \in Task \ Ready
      PROVE  UNCHANGED <<inFlight[t], pending[t], failed[t]>>
  <2>1. failed[t] = NoEntry
    BY PatchTypes DEF Ready, Retried, IInv, TypeOK, RetainedAlone
  <2>2. QED
    BY <2>1 DEF RetryFailed, Retried
<1>3. ~disposed
  BY DEF RetryFailed, IInv, DisposedIsEmpty
<1>4. Ready \in SUBSET Task /\ UNCHANGED <<disposed, cancelledInFlight>>
  BY DEF Ready, RetryFailed
<1>5. QED
  BY <1>1, <1>2, <1>3, <1>4, SendRefines

\* An acknowledgement stores what was sent.
LEMMA CommitSucceedsRefines ==
  ASSUME IInv, NEW t \in Task, CommitSucceeds(t)
  PROVE  Ledger!Acknowledge(t)
<1> DEFINE settled == {f \in Plain : /\ UnsavedEdits(t)[f] = SentEdits(t)[f]
                                     /\ UnsavedEdits(t)'[f] = Absent}
<1>1. inFlight[t] \in Patch /\ inFlight[t] # NoEntry /\ failed[t] = NoEntry
  BY ExecutingFlight DEF CommitSucceeds, IInv, RetainedAlone
<1>2. SentEdits(t) = PlainOf(inFlight[t]) /\ SentEdits(t) # NoEntry
  BY <1>1, FlightIsSent
<1>3. /\ inFlight'[t] = NoEntry /\ pending'[t] = pending[t] /\ failed'[t] = failed[t]
      /\ disposed' = disposed
  BY DEF CommitSucceeds, IInv, TypeOK
<1>4. ASSUME NEW f \in Plain
      PROVE  UnsavedEdits(t)'[f] = IF f \in settled THEN Absent ELSE UnsavedEdits(t)[f]
  <2>1. f \in Field
    BY DEF Plain
  <2>2. OrEmpty(inFlight'[t])[f] = Absent /\ OrEmpty(failed'[t])[f] = Absent /\ OrEmpty(failed[t])[f] = Absent
    BY <1>1, <1>3, <2>1, EmptyFields
  <2>3. OrEmpty(inFlight[t])[f] = SentEdits(t)[f]
    BY <1>1, <1>2, EmptyFields DEF PlainOf
  <2>4. QED
    BY <1>3, <2>2, <2>3, UnsavedIs, UnsavedIsPrimed
<1>5. UnsavedEdits(t)' = [f \in Plain |-> IF f \in settled THEN Absent ELSE UnsavedEdits(t)[f]]
  BY <1>4 DEF UnsavedEdits
<1>6. ASSUME NEW u \in Task, u # t
      PROVE  UnsavedEdits(u)' = UnsavedEdits(u) /\ SentEdits(u)' = SentEdits(u)
  BY <1>6, UnsavedLocal, SentLocal DEF CommitSucceeds, IInv, TypeOK
<1>7. SentEdits(t)' = NoEntry
  BY <1>3 DEF SentEdits
<1>10. settled \in SUBSET {f \in Plain : UnsavedEdits(t)[f] = SentEdits(t)[f]}
  OBVIOUS
<1> HIDE DEF settled
<1>12. SentView' = [SentView EXCEPT ![t] = NoEntry]
  BY <1>6, <1>7 DEF SentView
<1>13. UnsavedView' = [UnsavedView EXCEPT ![t] = [f \in Plain |-> IF f \in settled THEN Absent ELSE @[f]]]
  BY <1>5, <1>6 DEF UnsavedView
<1>14. UnsavedView[t] = UnsavedEdits(t) /\ SentView[t] = SentEdits(t)
  BY DEF UnsavedView, SentView
<1>15. \E s \in SUBSET {f \in Plain : UnsavedView[t][f] = SentView[t][f]} :
         UnsavedView' = [UnsavedView EXCEPT ![t] = [f \in Plain |-> IF f \in s THEN Absent ELSE @[f]]]
  <2>1. settled \in SUBSET {f \in Plain : UnsavedView[t][f] = SentView[t][f]}
    BY <1>10, <1>14
  <2>2. QED
    BY <1>13, <2>1
<1>16. SentView[t] # NoEntry
  BY <1>2, <1>14
<1>17. QED
  BY <1>12, <1>15, <1>16 DEF Ledger!Acknowledge, UnsavedView, SentView

\* A failure gives every uncancelled edit back: the ledger sees a refusal.
LEMMA CommitFailsRefines ==
  ASSUME IInv, NEW t \in Task, CommitFails(t)
  PROVE  Ledger!Refuse(t)
<1>1. inFlight[t] \in Patch /\ inFlight[t] # NoEntry /\ failed[t] = NoEntry
  BY ExecutingFlight DEF CommitFails, IInv, RetainedAlone
<1>2. SentEdits(t) # NoEntry
  BY <1>1, FlightIsSent
<1>3. inFlight'[t] = NoEntry /\ disposed' = disposed /\ SentEdits(t)' = NoEntry
  BY DEF CommitFails, IInv, TypeOK, SentEdits
<1>4. Retained(t) \in Patch
  BY <1>1, PatchTypes DEF Retained, IInv, TypeOK
<1>5. ASSUME NEW f \in Plain
      PROVE  Retained(t)[f] = IF f \in cancelledInFlight[t] THEN Absent ELSE inFlight[t][f]
  <2>1. f \in Field /\ OrEmpty(failed[t])[f] = Absent
    BY <1>1, EmptyFields DEF Plain
  <2>2. /\ OrEmpty(failed[t]) \in Patch
        /\ Without(inFlight[t], cancelledInFlight[t]) \in Patch
    BY <1>1, PatchTypes DEF IInv, TypeOK
  <2>3. MergeTaskPatches(OrEmpty(failed[t]), Without(inFlight[t], cancelledInFlight[t]))[f] =
          Without(inFlight[t], cancelledInFlight[t])[f]
    BY <2>1, <2>2, MergeIsOverlay
  <2>4. QED
    BY <2>1, <2>3 DEF Retained, Without
<1>6. ASSUME NEW f \in Plain
      PROVE  UnsavedEdits(t)'[f] = UnsavedEdits(t)[f]
  <2>1. f \in Field
    BY DEF Plain
  <2>2. /\ OrEmpty(inFlight'[t])[f] = Absent /\ OrEmpty(failed[t])[f] = Absent
        /\ OrEmpty(inFlight[t])[f] = inFlight[t][f]
    BY <1>1, <1>3, <2>1, EmptyFields
  <2>3. CASE disposed
    BY <1>3, <2>3, UnsavedIs, UnsavedIsPrimed
  <2>4. CASE ~disposed /\ pending[t] # NoEntry
    <3>1. /\ pending'[t] = MergeTaskPatches(Retained(t), pending[t])
          /\ failed'[t] = NoEntry
          /\ pending[t] \in Patch /\ pending'[t] \in Patch
      BY <1>4, <2>4, PatchTypes DEF CommitFails, IInv, TypeOK
    <3>2. OrEmpty(pending'[t])[f] =
            IF pending[t][f] # Absent THEN pending[t][f] ELSE Retained(t)[f]
      BY <1>4, <3>1, MergeIsOverlay, EmptyFields
    <3>3. OrEmpty(failed'[t])[f] = Absent /\ OrEmpty(pending[t])[f] = pending[t][f]
      BY <2>1, <3>1, EmptyFields
    <3>4. QED
      BY <1>3, <1>5, <2>2, <2>4, <3>2, <3>3, UnsavedIs, UnsavedIsPrimed
  <2>5. CASE ~disposed /\ pending[t] = NoEntry
    <3>1. /\ pending'[t] = NoEntry
          /\ failed'[t] = EntryOf(Retained(t))
      BY <2>5 DEF CommitFails, IInv, TypeOK
    <3>2. OrEmpty(failed'[t]) = Retained(t)
      BY <1>4, <3>1 DEF EntryOf, OrEmpty
    <3>3. OrEmpty(pending'[t])[f] = Absent /\ OrEmpty(pending[t])[f] = Absent
      BY <2>1, <2>5, <3>1, EmptyFields
    <3>4. QED
      BY <1>3, <1>5, <2>2, <2>5, <3>2, <3>3, UnsavedIs, UnsavedIsPrimed
  <2>6. QED
    BY <2>3, <2>4, <2>5
<1>7. UnsavedEdits(t)' = UnsavedEdits(t)
  <2>1. UnsavedEdits(t) = [f \in Plain |-> UnsavedEdits(t)[f]]
    BY DEF UnsavedEdits
  <2>2. QED
    BY <1>6, <2>1, UnsavedByField
<1>8. ASSUME NEW u \in Task, u # t
      PROVE  UnsavedEdits(u)' = UnsavedEdits(u) /\ SentEdits(u)' = SentEdits(u)
  BY <1>8, UnsavedLocal, SentLocal DEF CommitFails, IInv, TypeOK
<1>9. QED
  BY <1>2, <1>3, <1>7, <1>8 DEF Ledger!Refuse

\* Giving retained patches up discards edits no request carries.
LEMMA SerialEndsRefines ==
  ASSUME IInv, SerialEnds(TRUE)
  PROVE  Ledger!Discard({t \in Task : failed[t] # NoEntry})
<1> DEFINE dropped == {t \in Task : failed[t] # NoEntry}
<1>1. UNCHANGED <<pending, inFlight, cancelledInFlight, disposed>> /\ failed' = [t \in Task |-> NoEntry]
  BY DEF SerialEnds
<1>2. ASSUME NEW t \in dropped
      PROVE  UnsavedEdits(t)' = [f \in Plain |-> Absent] /\ SentEdits(t) = NoEntry
  <2>1. pending'[t] = NoEntry /\ inFlight'[t] = NoEntry /\ failed'[t] = NoEntry
    BY <1>1 DEF IInv, RetainedAlone
  <2>2. \A f \in Plain : UnsavedEdits(t)'[f] = Absent
    BY <2>1, EmptyFields, UnsavedIsPrimed DEF Plain
  <2>3. QED
    BY <1>1, <2>1, <2>2 DEF UnsavedEdits, SentEdits
<1>3. ASSUME NEW t \in Task \ dropped
      PROVE  UnsavedEdits(t)' = UnsavedEdits(t)
  BY <1>1, UnsavedLocal
<1>4. \A t \in Task : SentEdits(t)' = SentEdits(t)
  BY <1>1, SentLocal
<1>5. QED
  BY <1>1, <1>2, <1>3, <1>4 DEF Ledger!Discard, Ledger!NoEdits

\* Unmounting closes the ledger.
LEMMA DisposeRefines ==
  ASSUME Dispose
  PROVE  Ledger!Close
<1>1. disposed' /\ inFlight' = inFlight
  BY DEF Dispose
<1>2. ASSUME NEW t \in Task
      PROVE  UnsavedEdits(t)' = [f \in Plain |-> Absent] /\ SentEdits(t)' = SentEdits(t)
  BY <1>1, SentLocal DEF UnsavedEdits
<1>3. QED
  BY <1>1, <1>2 DEF Ledger!Close, Ledger!NoEdits

\* Reviving an empty buffer, waiting, queueing and starting jobs are stutters.
LEMMA QuietStep ==
  ASSUME \A t \in Task : UnsavedEdits(t)' = UnsavedEdits(t), inFlight' = inFlight
  PROVE  UNCHANGED Ledger!vars
<1>1. \A t \in Task : SentEdits(t)' = SentEdits(t)
  BY SentLocal
<1>2. QED
  BY <1>1 DEF Ledger!vars

LEMMA QuietMaps ==
  ASSUME UNCHANGED <<pending, inFlight, cancelledInFlight, failed, disposed>>
  PROVE  UNCHANGED Ledger!vars
  BY QuietStep, UnsavedLocal

LEMMA ReviveRefines ==
  ASSUME IInv, Revive
  PROVE  UNCHANGED Ledger!vars
<1>1. ASSUME NEW t \in Task
      PROVE  UnsavedEdits(t)' = UnsavedEdits(t)
  <2>1. pending'[t] = NoEntry /\ inFlight'[t] = NoEntry /\ failed'[t] = NoEntry
    BY DEF Revive, IInv, DisposedIsEmpty
  <2>2. \A f \in Plain : UnsavedEdits(t)'[f] = Absent
    BY <2>1, EmptyFields, UnsavedIsPrimed DEF Plain
  <2>3. UnsavedEdits(t) = [f \in Plain |-> Absent]
    BY DEF Revive, UnsavedEdits
  <2>4. QED
    BY <2>2, <2>3, UnsavedByField
<1>2. QED
  BY <1>1, QuietStep DEF Revive

-----------------------------------------------------------------------------
\* Timers and flushes at most send; the lemma the three have in common.
LEMMA FlushRefines ==
  ASSUME IInv, NEW t \in Task, TimerFires(t) \/ ExplicitFlush(t) \/ FlushResumes(t)
  PROVE  Ledger!Send({t}) \/ UNCHANGED Ledger!vars
<1>1. UNCHANGED <<cancelledInFlight, failed, disposed>>
  BY DEF TimerFires, ExplicitFlush, FlushResumes
<1>2. CASE TakeOut(t)
  BY <1>1, <1>2, TakeOutRefines
<1>3. CASE UNCHANGED <<pending, inFlight>>
  BY <1>1, <1>3, QuietMaps
<1>4. QED
  BY <1>2, <1>3 DEF TimerFires, ExplicitFlush, FlushResumes, AwaitFlight

\* Queueing and starting jobs, a reload that keeps what was refused, a re-mount.
LEMMA RestRefines ==
  ASSUME IInv, StartJob \/ EnqueueSerial \/ SerialEnds(FALSE) \/ Revive
  PROVE  UNCHANGED Ledger!vars
<1>1. CASE Revive
  BY <1>1, ReviveRefines
<1>2. CASE StartJob \/ EnqueueSerial \/ SerialEnds(FALSE)
  BY <1>2, QuietMaps DEF EnqueueSerial, StartJob, SerialEnds, coalescerVars
<1>3. QED
  BY <1>1, <1>2

\* Every step is the step of the ledger its name stands for.
LEMMA StepIsNamed == IInv => EachStepInTheLedger
<1> SUFFICES ASSUME IInv
             PROVE  EachStepInTheLedger
  OBVIOUS
<1>1. ASSUME NEW t \in Task, NEW patch \in UserPatch, Schedule(t, patch)
      PROVE  Ledger!Edit(t, [f \in Plain |-> patch[f]])
  BY <1>1, ScheduleRefines, UserPatchAssumption DEF PlainOf
<1>2. ASSUME NEW t \in Task, NEW fields \in SUBSET Field, CancelFields(t, fields)
      PROVE  Ledger!Cancel(t, fields \cap Plain)
  BY <1>2, CancelRefines
<1>3. ASSUME NEW t \in Task, TimerFires(t) \/ ExplicitFlush(t) \/ FlushResumes(t)
      PROVE  Ledger!Send({t}) \/ UNCHANGED Ledger!vars
  BY <1>3, FlushRefines
<1>4. ASSUME NEW t \in Task, CommitSucceeds(t)
      PROVE  Ledger!Acknowledge(t)
  BY <1>4, CommitSucceedsRefines
<1>5. ASSUME NEW t \in Task, CommitFails(t)
      PROVE  Ledger!Refuse(t)
  BY <1>5, CommitFailsRefines
<1>6. ASSUME NEW order, RetryFailed(order)
      PROVE  Ledger!Send(Ready)
  BY <1>6, RetryRefines
<1>7. SerialEnds(TRUE) => Ledger!Discard({t \in Task : failed[t] # NoEntry})
  BY SerialEndsRefines
<1>8. Dispose => Ledger!Close
  BY DisposeRefines
<1>9. StartJob \/ EnqueueSerial \/ SerialEnds(FALSE) \/ Revive => UNCHANGED Ledger!vars
  BY RestRefines
<1>10. QED
  BY <1>1, <1>2, <1>3, <1>4, <1>5, <1>6, <1>7, <1>8, <1>9 DEF EachStepInTheLedger

\* Every step is one of the ledger's, or changes nothing in it.
LEMMA StepRefines == IInv /\ [Next]_vars => [Ledger!Next]_(Ledger!vars)
<1> SUFFICES ASSUME IInv, [Next]_vars
             PROVE  Ledger!Next \/ UNCHANGED Ledger!vars
  OBVIOUS
<1>1. ASSUME NEW t \in Task, NEW patch \in Patch, Schedule(t, patch)
      PROVE  Ledger!Next
  BY <1>1, ScheduleRefines DEF Ledger!Next
<1>2. ASSUME NEW t \in Task, NEW fields \in SUBSET Field, CancelFields(t, fields)
      PROVE  Ledger!Next
  <2>1. fields \cap Plain \in SUBSET Plain
    OBVIOUS
  <2>2. QED
    BY <1>2, <2>1, CancelRefines DEF Ledger!Next
<1>3. ASSUME NEW t \in Task, TimerFires(t) \/ ExplicitFlush(t) \/ FlushResumes(t)
      PROVE  Ledger!Next \/ UNCHANGED Ledger!vars
  <2>1. {t} \in SUBSET Task
    OBVIOUS
  <2>2. QED
    BY <1>3, <2>1, FlushRefines DEF Ledger!Next
<1>4. ASSUME NEW order \in SetToSeqs(Ready), RetryFailed(order)
      PROVE  Ledger!Next
  <2>1. Ready \in SUBSET Task
    BY DEF Ready
  <2>2. QED
    BY <1>4, <2>1, RetryRefines DEF Ledger!Next
<1>5. ASSUME NEW t \in Task, CommitSucceeds(t) \/ CommitFails(t)
      PROVE  Ledger!Next
  BY <1>5, CommitSucceedsRefines, CommitFailsRefines DEF Ledger!Next
<1>6. CASE SerialEnds(TRUE)
  <2>1. {t \in Task : failed[t] # NoEntry} \in SUBSET Task
    OBVIOUS
  <2>2. QED
    BY <1>6, <2>1, SerialEndsRefines DEF Ledger!Next
<1>7. CASE Dispose
  BY <1>7, DisposeRefines DEF Ledger!Next
<1>8. CASE StartJob \/ EnqueueSerial \/ SerialEnds(FALSE) \/ Revive
  BY <1>8, RestRefines
<1>9. CASE UNCHANGED vars
  BY <1>9, QuietMaps DEF vars, coalescerVars
<1>10. ASSUME NEW discard \in BOOLEAN, SerialEnds(discard)
       PROVE  SerialEnds(TRUE) \/ SerialEnds(FALSE)
  BY <1>10
<1>11. QED
  BY <1>1, <1>2, <1>3, <1>4, <1>5, <1>6, <1>7, <1>8, <1>9, <1>10,
     UserPatchAssumption DEF Next, User, System

\* For every set of tasks, fields and values, every behaviour of the buffer is
\* a behaviour of the ledger, and each step the one it stands for: an edit stays
\* unsaved until a commit with its value succeeds or the user gives it up.
THEOREM BufferImplementsLedger == Spec => ImplementsLedger
<1>1. Spec => []IInv
  BY Inductive
<1>2. Spec => Ledger!Spec
  BY <1>1, InitRefines, StepRefines, PTL DEF Spec, Ledger!Spec
<1>3. IInv => [EachStepInTheLedger]_vars
  BY StepIsNamed
<1>4. QED
  BY <1>1, <1>2, <1>3, PTL DEF ImplementsLedger

-----------------------------------------------------------------------------
\* The copies of a row: the second part, about TaskSync.

\* Copy and content agree on the fields outside of a set, where both have one version.
Agree(copy, row, fields) ==
  /\ copy.version <= row.version
  /\ copy.version = row.version => \A f \in Field \ fields : copy.values[f] = row.values[f]

\* The edits that are laid over the tab's copy are those of its oldest patch.
Oldest(t) ==
  IF inFlight[t] # NoEntry THEN Settled(inFlight[t])
  ELSE Settled(OrEmpty(pending[t])) \cup Settled(OrEmpty(failed[t]))

\* The interface neither cancels fields nor unmounts the buffer.
Undisturbed == ~disposed /\ \A t \in Task : cancelledInFlight[t] = {}

ClientAgrees ==
  \A t \in Task : client[t] # NoEntry /\ store[t] # NoEntry => Agree(client[t], store[t], Oldest(t))

\* A request knows the version it was built on.
KnowsVersion(r) == store[r.task] # NoEntry => Agree(r, store[r.task], r.edited)

\* The request the tab waits for is the head job's, and of the version the tab has.
RequestHeads ==
  request # NoEntry =>
    /\ Executing(request.sent.task)
    /\ client[request.sent.task] # NoEntry
    /\ client[request.sent.task].version = request.sent.version

\* A stored request is the row, or an older version of it.
RequestAgrees ==
  request # NoEntry =>
    IF request.status = "stored"
    THEN /\ request.sent.version < MaxVersion
         /\ store[request.sent.task] # NoEntry => Agree(Authoritative(request.sent.task), store[request.sent.task], {})
    ELSE KnowsVersion(request.sent)

LateAgrees == \A r \in late : KnowsVersion(r)

\* What a reload has read was the row, and is no older than the tab's copy.
SnapshotAgrees ==
  snapshot # NoEntry =>
    /\ Executing(Serial)
    /\ \A t \in Task : snapshot[t] # NoEntry =>
         /\ store[t] # NoEntry => Agree(snapshot[t], store[t], {})
         /\ client[t] # NoEntry => client[t].version <= snapshot[t].version

NothingMissed == missed = [t \in Task |-> 0]

SyncInv ==
  /\ IInv /\ SyncTypeOK /\ Undisturbed
  /\ ClientAgrees /\ RequestHeads /\ RequestAgrees /\ LateAgrees /\ SnapshotAgrees
  /\ NothingMissed

-----------------------------------------------------------------------------
\* Every step of the tab and the world is one of the buffer, or leaves it alone.
LEMMA SyncStepsBuffer == [SyncNext]_allVars => [Next]_vars
<1> SUFFICES ASSUME [SyncNext]_allVars PROVE [Next]_vars
  OBVIOUS
<1>1. CASE Buffering
  <2>1. ASSUME NEW t \in Task, NEW f \in Field, NEW v \in Value, Edit(t, f, v)
        PROVE  Next
    <3>1. [EmptyPatch EXCEPT ![f] = v] \in UserPatch
      BY EditAssumption
    <3> QED BY <2>1, <3>1 DEF Edit, Next, User
  <2>2. ASSUME NEW t \in Task, ExplicitFlush(t) \/ TimerFires(t) \/ FlushResumes(t)
        PROVE  Next
    BY <2>2 DEF Next, User, System
  <2>3. ASSUME NEW order \in SetToSeqs(Ready), RetryFailed(order)
        PROVE  Next
    BY <2>3 DEF Next, User
  <2> QED BY <1>1, <2>1, <2>2, <2>3 DEF Buffering
<1>2. ASSUME NEW t \in Task,
             \/ StartPatch(t) \/ FailsLocally(t) \/ LearnsStored(t) \/ LearnsRefused(t)
             \/ GivesUp(t) \/ OtherUserDeletes(t)
             \/ \E f \in Field, v \in Value : OtherUserEdits(t, f, v)
      PROVE  Next \/ UNCHANGED vars
  BY <1>2 DEF StartPatch, FailsLocally, LearnsStored, LearnsRefused, GivesUp, OtherUserDeletes,
     OtherUserEdits, Next, System
<1>3. CASE ServerStores \/ ServerRefuses \/ \E r \in late : LateArrives(r)
  BY <1>3 DEF ServerStores, ServerRefuses, LateArrives
<1>4. CASE StartReload \/ ReadSnapshot \/ \E mode \in Mode : RequestReload(mode)
  BY <1>4 DEF StartReload, ReadSnapshot, RequestReload, Next, System, User
<1>5. CASE ReloadApplies
  <2>1. SerialEnds(reload = "discard") /\ (reload = "discard") \in BOOLEAN
    BY <1>5 DEF ReloadApplies
  <2> QED BY <2>1 DEF Next, System
<1>6. CASE ReloadFails
  BY <1>6 DEF ReloadFails, Next, System
<1>7. CASE UNCHANGED allVars
  BY <1>7 DEF allVars, vars
<1> QED BY <1>1, <1>2, <1>3, <1>4, <1>5, <1>6, <1>7 DEF SyncNext

\* Merging loses no field that a patch settles: a new status settles again what it drops.
LEMMA SettledMerge ==
  ASSUME NEW p \in Patch, NEW q \in Patch
  PROVE  Settled(p) \cup Settled(q) \subseteq Settled(MergeTaskPatches(p, q))
<1> DEFINE m == MergeTaskPatches(p, q)
<1>1. Carried(q) \subseteq Carried(m)
  BY DEF Carried, MergeTaskPatches
<1>2. CASE StatusChanges(p, q)
  <2>1. Status \in Carried(m)
    BY <1>1, <1>2, FieldAssumption DEF StatusChanges, Carried
  <2>2. Carried(p) \subseteq Carried(m) \cup Derived
    BY <1>2, FieldAssumption DEF Carried, MergeTaskPatches, Without
  <2> HIDE DEF m
  <2>3. Lifecycle \subseteq Settled(m) /\ Carried(m) \subseteq Settled(m)
    BY <2>1 DEF Settled, Lifecycle
  <2> QED BY <1>1, <2>2, <2>3 DEF Settled, Lifecycle, m
<1>3. CASE ~StatusChanges(p, q)
  <2>1. Carried(p) \subseteq Carried(m)
    BY <1>3 DEF Carried, MergeTaskPatches
  <2> HIDE DEF m
  <2> QED BY <1>1, <2>1 DEF Settled, m
<1> QED BY <1>2, <1>3

\* A patch without fields settles nothing.
LEMMA SettledNothing == Settled(EmptyPatch) = {}
BY DEF Settled, Carried, EmptyPatch

\* A patch settles fields, among them those it carries.
LEMMA SettledFields == \A p : Settled(p) \subseteq Field /\ Carried(p) \subseteq Settled(p)
BY FieldAssumption DEF Settled, Carried, Lifecycle

\* The edits under way in the buffer are never fewer than those laid over the copy.
LEMMA BufferingKeeps ==
  ASSUME IInv, Undisturbed, Buffering
  PROVE  /\ Undisturbed'
         /\ \A t \in Task : Oldest(t) \subseteq Oldest(t)'
         /\ \A job \in Job : Executing(job) => Executing(job)'
<1> USE DEF IInv
<1>1. ASSUME NEW t \in Task, NEW f \in Field, NEW v \in Value, Edit(t, f, v)
      PROVE  /\ Undisturbed' /\ UNCHANGED <<queue, running>>
             /\ \A u \in Task : Oldest(u) \subseteq Oldest(u)'
  <2> DEFINE patch == [EmptyPatch EXCEPT ![f] = v]
             merged == MergeTaskPatches(OrEmpty(failed[t]), OrEmpty(pending[t]))
  <2>1. patch \in Patch
    BY DEF EmptyPatch, Patch
  <2>2. OrEmpty(failed[t]) \in Patch /\ OrEmpty(pending[t]) \in Patch /\ merged \in Patch
    BY PatchTypes DEF TypeOK
  <2>3. Settled(OrEmpty(failed[t])) \cup Settled(OrEmpty(pending[t])) \subseteq Settled(MergeTaskPatches(merged, patch))
    BY <2>1, <2>2, SettledMerge
  <2>4. /\ failed' = [failed EXCEPT ![t] = NoEntry]
        /\ pending' = [pending EXCEPT ![t] = MergeTaskPatches(merged, patch)]
        /\ UNCHANGED <<inFlight, cancelledInFlight, disposed, queue, running>>
    BY <1>1 DEF Edit, Schedule
  <2>5. MergeTaskPatches(merged, patch) \in Patch
    BY <2>1, <2>2, PatchTypes
  <2>6. /\ pending'[t] = MergeTaskPatches(merged, patch) /\ OrEmpty(pending'[t]) = MergeTaskPatches(merged, patch)
        /\ \A u \in Task \ {t} : pending'[u] = pending[u] /\ failed'[u] = failed[u]
    BY <2>4, <2>5, NoEntryIsNoPatch DEF TypeOK, OrEmpty
  <2> HIDE DEF patch, merged
  <2>7. \A u \in Task : Oldest(u) \subseteq Oldest(u)'
    <3> SUFFICES ASSUME NEW u \in Task PROVE Oldest(u) \subseteq Oldest(u)'
      OBVIOUS
    <3>1. CASE u = t
      <4>1. CASE inFlight[t] # NoEntry
        BY <2>4, <3>1, <4>1 DEF Oldest, Settled, Carried
      <4>2. CASE inFlight[t] = NoEntry
        <5>1. Oldest(t)' = Settled(OrEmpty(pending'[t])) \cup Settled(OrEmpty(failed'[t]))
          BY <2>4, <4>2 DEF Oldest, Settled, Carried, OrEmpty
        <5> QED BY <2>3, <2>6, <3>1, <4>2, <5>1 DEF Oldest
      <4> QED BY <4>1, <4>2
    <3>2. CASE u # t
      BY <2>4, <2>6, <3>2 DEF Oldest
    <3> QED BY <3>1, <3>2
  <2> QED BY <2>4, <2>7 DEF Undisturbed
<1>2. ASSUME NEW t \in Task, TakeOut(t), UNCHANGED failed
      PROVE  \A u \in Task : Oldest(u) \subseteq Oldest(u)'
  <2>1. /\ inFlight' = [inFlight EXCEPT ![t] = pending[t]]
        /\ pending' = [pending EXCEPT ![t] = NoEntry]
        /\ inFlight[t] = NoEntry /\ pending[t] # NoEntry /\ failed[t] = NoEntry
    BY <1>2 DEF TakeOut, RetainedAlone
  <2>2. inFlight'[t] = pending[t] /\ \A u \in Task \ {t} : inFlight'[u] = inFlight[u] /\ pending'[u] = pending[u]
    BY <2>1 DEF TypeOK
  <2>3. Oldest(t) \subseteq Oldest(t)'
    BY <2>1, <2>2, SettledNothing DEF Oldest, OrEmpty
  <2>4. \A u \in Task \ {t} : Oldest(u)' = Oldest(u)
    BY <1>2, <2>2 DEF Oldest
  <2> QED BY <2>3, <2>4
<1>3. ASSUME UNCHANGED <<pending, inFlight, failed>>
      PROVE  \A u \in Task : Oldest(u) \subseteq Oldest(u)'
  BY <1>3 DEF Oldest
<1>4. ASSUME NEW t \in Task, ExplicitFlush(t) \/ TimerFires(t) \/ FlushResumes(t)
      PROVE  /\ Undisturbed' /\ running' = running /\ \E q : q \in {queue, Append(queue, t)} /\ queue' = q
             /\ \A u \in Task : Oldest(u) \subseteq Oldest(u)'
  <2>1. /\ UNCHANGED <<cancelledInFlight, failed, disposed, running>>
        /\ TakeOut(t) \/ UNCHANGED <<pending, inFlight, queue>>
    BY <1>4 DEF ExplicitFlush, TimerFires, FlushResumes, AwaitFlight
  <2> QED BY <1>2, <1>3, <2>1 DEF Undisturbed, TakeOut
<1>5. ASSUME NEW order \in SetToSeqs(Ready), RetryFailed(order)
      PROVE  /\ Undisturbed' /\ running' = running /\ queue' = queue \o order
             /\ \A u \in Task : Oldest(u) \subseteq Oldest(u)'
  <2> SUFFICES ASSUME NEW u \in Task PROVE Oldest(u) \subseteq Oldest(u)'
    BY <1>5 DEF RetryFailed, Undisturbed
  <2>1. /\ failed'[u] = NoEntry
        /\ inFlight'[u] = IF u \in Ready THEN Retried(u) ELSE inFlight[u]
        /\ pending'[u] = IF u \in Ready THEN NoEntry ELSE Retried(u)
    BY <1>5 DEF RetryFailed
  <2>2. CASE inFlight[u] # NoEntry
    BY <2>1, <2>2 DEF Ready, Oldest
  <2>3. CASE inFlight[u] = NoEntry
    <3>1. OrEmpty(pending[u]) \in Patch /\ OrEmpty(failed[u]) \in Patch
      BY PatchTypes DEF TypeOK
    <3>2. CASE failed[u] = NoEntry
      BY <2>1, <2>3, <3>2, SettledNothing DEF Ready, Retried, Oldest, OrEmpty
    <3>3. CASE failed[u] # NoEntry
      <4>1. Retried(u) = MergeTaskPatches(failed[u], OrEmpty(pending[u])) /\ failed[u] \in Patch
        BY <3>3 DEF Retried, TypeOK
      <4>2. Retried(u) \in Patch /\ Retried(u) # NoEntry
        BY <3>1, <4>1, PatchTypes, NoEntryIsNoPatch
      <4>3. Settled(failed[u]) \cup Settled(OrEmpty(pending[u])) \subseteq Settled(Retried(u))
        BY <3>1, <4>1, SettledMerge
      <4> QED BY <2>1, <2>3, <3>3, <4>2, <4>3 DEF Ready, Oldest, OrEmpty
    <3> QED BY <3>2, <3>3
  <2> QED BY <2>2, <2>3
<1>6. ASSUME NEW s \in Seq(Job), queue' = queue \o s \/ queue' = queue, running' = running, NEW job \in Job, Executing(job)
      PROVE  Executing(job)'
  <2>1. queue \in Seq(Job) /\ queue # <<>> /\ Head(queue) = job /\ running
    BY <1>6 DEF Executing, TypeOK
  <2>2. queue' # <<>> /\ Head(queue') = job
    BY <1>6, <2>1
  <2> QED BY <1>6, <2>1, <2>2 DEF Executing
<1>7. ASSUME NEW t \in Task, queue' = Append(queue, t), running' = running, NEW job \in Job, Executing(job)
      PROVE  Executing(job)'
  <2>1. queue \in Seq(Job) /\ queue # <<>> /\ Head(queue) = job /\ running /\ t \in Job
    BY <1>7 DEF Executing, TypeOK, Job
  <2>2. queue' # <<>> /\ Head(queue') = job
    BY <1>7, <2>1
  <2> QED BY <1>7, <2>1, <2>2 DEF Executing
<1>8. CASE \E t \in Task, f \in Field, v \in Value : Edit(t, f, v)
  BY <1>1, <1>8 DEF Executing
<1>9. CASE \E t \in Task : ExplicitFlush(t) \/ TimerFires(t) \/ FlushResumes(t)
  BY <1>4, <1>7, <1>9 DEF Executing
<1>10. CASE \E order \in SetToSeqs(Ready) : RetryFailed(order)
  <2>1. PICK order \in SetToSeqs(Ready) : RetryFailed(order)
    BY <1>10
  <2>2. order \in Seq(Job)
    BY <2>1, OrderLists DEF Job, Ready
  <2> QED BY <1>5, <1>6, <2>1, <2>2
<1> QED BY <1>8, <1>9, <1>10 DEF Buffering

\* A failed flight goes back under the newer edits, whole.
LEMMA FailureKeeps ==
  ASSUME IInv, Undisturbed, NEW t \in Task, CommitFails(t)
  PROVE  /\ Undisturbed'
         /\ \A u \in Task : Oldest(u) \subseteq Oldest(u)'
<1>1. /\ inFlight[t] \in Patch /\ inFlight[t] # NoEntry /\ failed[t] = NoEntry
      /\ cancelledInFlight[t] = {} /\ ~disposed
  <2>1. TypeOK /\ OneFlightPerTask /\ Executing(t)
    BY DEF IInv, CommitFails
  <2>2. inFlight[t] \in Patch /\ inFlight[t] # NoEntry
    BY <2>1, ExecutingFlight, NoEntryIsNoPatch
  <2> QED BY <2>2 DEF IInv, RetainedAlone, Undisturbed
<1>2. Without(inFlight[t], {}) = inFlight[t] /\ MergeTaskPatches(EmptyPatch, inFlight[t]) \in Patch
  BY <1>1, PatchTypes DEF Without, Patch
<1>3. Without(MergeTaskPatches(EmptyPatch, inFlight[t]), {}) = MergeTaskPatches(EmptyPatch, inFlight[t])
  BY <1>2 DEF Without, Patch
<1>4. Retained(t) = MergeTaskPatches(EmptyPatch, inFlight[t])
  BY <1>1, <1>2, <1>3 DEF Retained, OrEmpty
<1>5. Retained(t) \in Patch /\ Settled(inFlight[t]) \subseteq Settled(Retained(t))
  BY <1>1, <1>2, <1>4, PatchTypes, SettledMerge
<1>6. /\ inFlight' = [inFlight EXCEPT ![t] = NoEntry]
      /\ cancelledInFlight' = [cancelledInFlight EXCEPT ![t] = {}]
      /\ disposed' = disposed
      /\ \/ /\ pending[t] # NoEntry
            /\ pending' = [pending EXCEPT ![t] = MergeTaskPatches(Retained(t), pending[t])]
            /\ failed' = [failed EXCEPT ![t] = NoEntry]
         \/ failed' = [failed EXCEPT ![t] = EntryOf(Retained(t))] /\ pending' = pending
  BY <1>1 DEF CommitFails
<1>7. Undisturbed'
  BY <1>6 DEF Undisturbed, IInv, TypeOK
<1>8. \A u \in Task \ {t} : Oldest(u)' = Oldest(u)
  <2>1. \A u \in Task \ {t} : inFlight'[u] = inFlight[u] /\ pending'[u] = pending[u] /\ failed'[u] = failed[u]
    BY <1>6 DEF IInv, TypeOK
  <2> QED BY <2>1 DEF Oldest
<1>9. inFlight'[t] = NoEntry
  BY <1>6 DEF IInv, TypeOK
<1>10. CASE pending[t] # NoEntry /\ pending' = [pending EXCEPT ![t] = MergeTaskPatches(Retained(t), pending[t])]
  <2>1. pending[t] \in Patch /\ MergeTaskPatches(Retained(t), pending[t]) \in Patch
    BY <1>5, <1>10, PatchTypes DEF IInv, TypeOK
  <2>2. OrEmpty(pending'[t]) = MergeTaskPatches(Retained(t), pending[t])
    BY <1>10, <2>1, NoEntryIsNoPatch DEF OrEmpty, IInv, TypeOK
  <2>3. Settled(Retained(t)) \subseteq Settled(MergeTaskPatches(Retained(t), pending[t]))
    BY <1>5, <2>1, SettledMerge
  <2>4. Oldest(t)' = Settled(OrEmpty(pending'[t])) \cup Settled(OrEmpty(failed'[t]))
    BY <1>9 DEF Oldest, Settled, Carried, OrEmpty
  <2> QED BY <1>1, <1>5, <1>7, <1>8, <2>2, <2>3, <2>4 DEF Oldest
<1>11. CASE failed' = [failed EXCEPT ![t] = EntryOf(Retained(t))] /\ pending' = pending
  <2>1. OrEmpty(failed'[t]) = Retained(t)
    BY <1>5, <1>11, NoEntryIsNoPatch DEF OrEmpty, EntryOf, IInv, TypeOK
  <2>2. Oldest(t)' = Settled(OrEmpty(pending'[t])) \cup Settled(OrEmpty(failed'[t]))
    BY <1>9 DEF Oldest, Settled, Carried, OrEmpty
  <2> QED BY <1>1, <1>5, <1>7, <1>8, <2>1, <2>2 DEF Oldest
<1> QED BY <1>6, <1>10, <1>11

-----------------------------------------------------------------------------
\* What a step may do to a row: leave it, delete it, or write its next version.
Moves(t) ==
  \/ store'[t] = store[t]
  \/ store'[t] = NoEntry
  \/ store[t] # NoEntry /\ store'[t].version = store[t].version + 1

\* A copy that agreed with a row goes on agreeing with what the row becomes.
LEMMA AgreeKept ==
  ASSUME SyncTypeOK, NEW t \in Task, Moves(t), NEW copy, copy.version \in Nat, NEW fields,
         store[t] # NoEntry => Agree(copy, store[t], fields),
         store'[t] # NoEntry
  PROVE  Agree(copy, store'[t], fields)
<1>1. store[t] # NoEntry => store[t].version \in Nat
  BY DEF SyncTypeOK, Row
<1>2. CASE store'[t] = store[t]
  BY <1>2
<1>3. CASE store[t] # NoEntry /\ store'[t].version = store[t].version + 1
  BY <1>1, <1>3 DEF Agree
<1> QED BY <1>2, <1>3 DEF Moves

\* The types of versions and requests, as the later steps use them.
LEMMA Versions ==
  ASSUME SyncTypeOK
  PROVE  /\ \A t \in Task : client[t] # NoEntry => client[t].version \in Nat
         /\ \A r \in late : r.task \in Task /\ r.version \in Nat
         /\ request # NoEntry => /\ request.sent \in Wire /\ request.sent.task \in Task
                                 /\ request.sent.version \in Nat
                                 /\ request.status \in {"sent", "stored", "refused"}
         /\ snapshot # NoEntry => \A t \in Task : snapshot[t] # NoEntry => snapshot[t].version \in Nat
BY BoundAssumption DEF SyncTypeOK, Wire, Row

\* The rest of the world changes rows only.
LEMMA WorldStep ==
  ASSUME SyncInv, UNCHANGED <<vars, client, snapshot, reload, missed>>,
         store' \in [Task -> Row \cup {NoEntry}], \A t \in Task : Moves(t), late' \subseteq late
  PROVE  /\ IInv' /\ Undisturbed' /\ ClientAgrees' /\ LateAgrees' /\ SnapshotAgrees' /\ NothingMissed'
         /\ request' = request => RequestHeads' /\ RequestAgrees' /\ SyncTypeOK'
<1>1. IInv'
  BY IInvStep DEF SyncInv
<1>2. Undisturbed' /\ NothingMissed'
  BY DEF SyncInv, Undisturbed, NothingMissed, vars, coalescerVars
<1>3. ClientAgrees'
  <2> SUFFICES ASSUME NEW t \in Task, client[t] # NoEntry, store'[t] # NoEntry
               PROVE  Agree(client[t], store'[t], Oldest(t))
    BY DEF ClientAgrees, Agree, Oldest, vars, coalescerVars, Settled, Carried, OrEmpty
  <2> QED BY AgreeKept, Versions DEF SyncInv, ClientAgrees
<1>4. LateAgrees'
  <2> SUFFICES ASSUME NEW r \in late, store'[r.task] # NoEntry
               PROVE  Agree(r, store'[r.task], r.edited)
    BY DEF LateAgrees, KnowsVersion, Agree
  <2> QED BY AgreeKept, Versions DEF SyncInv, LateAgrees, KnowsVersion
<1>5. SnapshotAgrees'
  <2>1. ASSUME NEW t \in Task, snapshot # NoEntry, snapshot[t] # NoEntry, store'[t] # NoEntry
        PROVE  Agree(snapshot[t], store'[t], {})
    BY <2>1, AgreeKept, Versions DEF SyncInv, SnapshotAgrees
  <2> QED BY <2>1 DEF SyncInv, SnapshotAgrees, Executing, Agree, vars
<1>6. ASSUME request' = request PROVE RequestHeads' /\ RequestAgrees' /\ SyncTypeOK'
  <2>1. RequestHeads'
    BY <1>6 DEF SyncInv, RequestHeads, Executing, vars
  <2>2. SyncTypeOK'
    BY <1>1, <1>6 DEF SyncInv, SyncTypeOK, IInv
  <2>3. RequestAgrees'
    <3> SUFFICES ASSUME request # NoEntry PROVE RequestAgrees'
      BY <1>6 DEF RequestAgrees
    <3> DEFINE r == request.sent
    <3>1. r.task \in Task /\ r.version \in Nat /\ Authoritative(r.task).version \in Nat
      BY Versions DEF SyncInv, Authoritative
    <3>2. CASE request.status = "stored"
      <4>1. store'[r.task] # NoEntry => Agree(Authoritative(r.task), store'[r.task], {})
        BY <3>1, <3>2, AgreeKept DEF SyncInv, RequestAgrees
      <4> QED BY <1>6, <3>2, <4>1 DEF SyncInv, RequestAgrees, Authoritative, Agree
    <3>3. CASE request.status # "stored"
      <4>1. store'[r.task] # NoEntry => Agree(r, store'[r.task], r.edited)
        BY <3>1, <3>3, AgreeKept DEF SyncInv, RequestAgrees, KnowsVersion
      <4> QED BY <1>6, <3>3, <4>1 DEF RequestAgrees, KnowsVersion, Agree
    <3> QED BY <3>2, <3>3
  <2> QED BY <2>1, <2>2, <2>3
<1> QED BY <1>1, <1>2, <1>3, <1>4, <1>5, <1>6

\* A conditional write makes the next version of the row, with the values it carries.
LEMMA WritesNext ==
  ASSUME SyncTypeOK, NEW r \in Wire, Writes(r)
  PROVE  /\ store' \in [Task -> Row \cup {NoEntry}] /\ \A t \in Task : Moves(t)
         /\ r.task \in Task /\ r.version < MaxVersion
         /\ store[r.task] # NoEntry /\ store[r.task].version = r.version
         /\ store'[r.task] = [version |-> r.version + 1, values |-> r.values]
<1>1. /\ r.task \in Task /\ store[r.task] # NoEntry /\ store[r.task].version = r.version
      /\ r.version \in 1 .. MaxVersion /\ r.version < MaxVersion /\ r.values \in Content
      /\ store' = [store EXCEPT ![r.task] = [version |-> store[r.task].version + 1, values |-> r.values]]
  BY DEF Writes, Wire
<1>2. /\ store'[r.task] = [version |-> r.version + 1, values |-> r.values]
      /\ \A t \in Task \ {r.task} : store'[t] = store[t]
  BY <1>1 DEF SyncTypeOK
<1>3. [version |-> r.version + 1, values |-> r.values] \in Row
  BY <1>1, BoundAssumption DEF Row
<1> QED BY <1>1, <1>2, <1>3 DEF SyncTypeOK, Moves

\* Other users and late requests change rows, never the copies of the tab.
LEMMA OthersStep ==
  ASSUME SyncInv,
         \/ \E t \in Task : \/ OtherUserDeletes(t)
                            \/ \E f \in Field, v \in Value : OtherUserEdits(t, f, v)
         \/ \E r \in late : LateArrives(r)
  PROVE  SyncInv'
<1>1. ASSUME NEW t \in Task, OtherUserDeletes(t)
      PROVE  store' \in [Task -> Row \cup {NoEntry}] /\ \A u \in Task : Moves(u)
  BY <1>1 DEF OtherUserDeletes, Moves, SyncInv, SyncTypeOK
<1>2. ASSUME NEW t \in Task, NEW f \in Field, NEW v \in Value, OtherUserEdits(t, f, v)
      PROVE  store' \in [Task -> Row \cup {NoEntry}] /\ \A u \in Task : Moves(u)
  <2> DEFINE row == [version |-> store[t].version + 1, values |-> [store[t].values EXCEPT ![f] = v]]
  <2>1. /\ store[t] # NoEntry /\ store[t].version < MaxVersion /\ store' = [store EXCEPT ![t] = row]
    BY <1>2 DEF OtherUserEdits
  <2>2. row \in Row /\ row.version = store[t].version + 1
    BY <2>1, BoundAssumption DEF SyncInv, SyncTypeOK, Row, Content
  <2> HIDE DEF row
  <2>3. store'[t] = row /\ \A u \in Task \ {t} : store'[u] = store[u]
    BY <2>1 DEF SyncInv, SyncTypeOK
  <2> QED BY <2>1, <2>2, <2>3 DEF Moves, SyncInv, SyncTypeOK
<1>3. ASSUME NEW r \in late, LateArrives(r)
      PROVE  store' \in [Task -> Row \cup {NoEntry}] /\ \A u \in Task : Moves(u)
  <2>1. r \in Wire /\ SyncTypeOK
    BY DEF SyncInv, SyncTypeOK
  <2>2. CASE Writes(r)
    BY <2>1, <2>2, WritesNext
  <2>3. CASE UNCHANGED store
    BY <2>1, <2>3 DEF Moves, SyncTypeOK
  <2> QED BY <1>3, <2>2, <2>3 DEF LateArrives
<1>4. UNCHANGED <<vars, client, request, snapshot, reload, missed>> /\ late' \subseteq late
  BY DEF OtherUserDeletes, OtherUserEdits, LateArrives
<1> QED BY <1>1, <1>2, <1>3, <1>4, WorldStep DEF SyncInv

\* The server stores the request or refuses it; the tab does not know yet.
LEMMA ServerStep ==
  ASSUME SyncInv, ServerStores \/ ServerRefuses
  PROVE  SyncInv'
<1> DEFINE r == request.sent
<1>1. /\ request # NoEntry /\ request.status = "sent" /\ r \in Wire
      /\ UNCHANGED <<vars, client, late, snapshot, reload, missed>>
      /\ request \in [sent : Wire, status : {"sent", "stored", "refused"}]
  BY DEF ServerStores, ServerRefuses, SyncInv, SyncTypeOK
<1>2. KnowsVersion(r) /\ Executing(r.task) /\ client[r.task] # NoEntry /\ client[r.task].version = r.version
  BY <1>1 DEF SyncInv, RequestAgrees, RequestHeads
<1>3. CASE ServerStores
  <2>1. Writes(r) /\ request' = [request EXCEPT !.status = "stored"]
    BY <1>3 DEF ServerStores
  <2>2. /\ store' \in [Task -> Row \cup {NoEntry}] /\ \A t \in Task : Moves(t)
        /\ r.task \in Task /\ r.version < MaxVersion
        /\ store'[r.task] = [version |-> r.version + 1, values |-> r.values]
    BY <1>1, <2>1, WritesNext DEF SyncInv
  <2>3. request' \in [sent : Wire, status : {"sent", "stored", "refused"}] /\ request'.sent = r /\ request'.status = "stored"
    BY <1>1, <2>1
  <2> HIDE DEF r
  <2>4. /\ IInv' /\ Undisturbed' /\ ClientAgrees' /\ LateAgrees' /\ SnapshotAgrees' /\ NothingMissed'
    BY <1>1, <2>2, WorldStep
  <2>5. RequestHeads'
    BY <1>1, <1>2, <2>3 DEF RequestHeads, Executing, vars
  <2>6. RequestAgrees'
    <3>1. r.version + 1 \in Nat
      BY <1>1, BoundAssumption DEF Wire
    <3> QED BY <2>2, <2>3, <3>1 DEF RequestAgrees, Authoritative, Agree
  <2>7. SyncTypeOK'
    BY <1>1, <2>2, <2>3, <2>4 DEF SyncInv, SyncTypeOK, IInv
  <2> QED BY <2>4, <2>5, <2>6, <2>7 DEF SyncInv
<1>4. CASE ServerRefuses
  <2>1. store' = store /\ request' = [request EXCEPT !.status = "refused"]
    BY <1>4 DEF ServerRefuses
  <2>2. request' \in [sent : Wire, status : {"sent", "stored", "refused"}] /\ request'.sent = r /\ request'.status = "refused"
    BY <1>1, <2>1
  <2>3. store' \in [Task -> Row \cup {NoEntry}] /\ \A t \in Task : Moves(t)
    BY <2>1 DEF Moves, SyncInv, SyncTypeOK
  <2> HIDE DEF r
  <2>4. /\ IInv' /\ Undisturbed' /\ ClientAgrees' /\ LateAgrees' /\ SnapshotAgrees' /\ NothingMissed'
    BY <1>1, <2>3, WorldStep
  <2>5. RequestHeads'
    BY <1>1, <1>2, <2>2 DEF RequestHeads, Executing, vars
  <2>6. RequestAgrees'
    BY <1>2, <2>1, <2>2 DEF RequestAgrees, KnowsVersion, Agree
  <2>7. SyncTypeOK'
    BY <1>1, <2>2, <2>3, <2>4 DEF SyncInv, SyncTypeOK, IInv
  <2> QED BY <2>4, <2>5, <2>6, <2>7 DEF SyncInv
<1> QED BY <1>3, <1>4

-----------------------------------------------------------------------------
Answerable == [sent : Wire, status : {"sent", "stored", "refused"}]

\* A step that leaves rows and copies alone, and loses no edit.
LEMMA TabKeeps ==
  ASSUME SyncInv, [SyncNext]_allVars, UNCHANGED <<store, client, missed>>,
         Undisturbed', \A t \in Task : Oldest(t) \subseteq Oldest(t)',
         reload' \in Mode \cup {NoEntry}, request' \in Answerable \cup {NoEntry},
         snapshot' \in {snapshot, NoEntry, store},
         \A r \in late' : r \in late \/ (request # NoEntry /\ request.status = "sent" /\ r = request.sent),
         RequestHeads', RequestAgrees', SnapshotAgrees'
  PROVE  SyncInv'
<1>1. IInv'
  BY IInvStep, SyncStepsBuffer DEF SyncInv
<1>2. ClientAgrees'
  BY DEF SyncInv, ClientAgrees, Agree
<1>3. \A r \in late' : r \in Wire /\ KnowsVersion(r)
  BY DEF SyncInv, LateAgrees, RequestAgrees, SyncTypeOK
<1>4. LateAgrees' /\ NothingMissed'
  BY <1>3 DEF SyncInv, LateAgrees, KnowsVersion, Agree, NothingMissed
<1>5. SyncTypeOK'
  BY <1>1, <1>3 DEF SyncInv, SyncTypeOK, IInv, Answerable
<1> QED BY <1>1, <1>2, <1>4, <1>5 DEF SyncInv

\* Edits that are only collected.
LEMMA BufferingStep ==
  ASSUME SyncInv, Buffering
  PROVE  SyncInv'
<1>1. UNCHANGED <<store, client, request, late, snapshot, reload, missed>>
  BY DEF Buffering, syncVars
<1>2. /\ Undisturbed' /\ \A t \in Task : Oldest(t) \subseteq Oldest(t)'
      /\ \A job \in Job : Executing(job) => Executing(job)'
  BY BufferingKeeps DEF SyncInv
<1>3. RequestHeads'
  <2> SUFFICES ASSUME request # NoEntry
               PROVE  \E t : t = request.sent.task /\ Executing(t)'
    BY <1>1 DEF SyncInv, RequestHeads, Executing
  <2>1. PICK t \in Job : t = request.sent.task /\ Executing(t)
    BY Versions DEF SyncInv, RequestHeads, Job
  <2> QED BY <1>2, <2>1
<1>4. RequestAgrees'
  BY <1>1 DEF SyncInv, RequestAgrees, KnowsVersion, Authoritative, Agree
<1>5. SnapshotAgrees'
  <2>1. snapshot # NoEntry => Executing(Serial)'
    BY <1>2 DEF SyncInv, SnapshotAgrees, Job
  <2> QED BY <1>1, <2>1 DEF SyncInv, SnapshotAgrees, Agree, Executing
<1>6. reload' \in Mode \cup {NoEntry} /\ request' \in Answerable \cup {NoEntry}
  BY <1>1 DEF SyncInv, SyncTypeOK, Answerable
<1>7. [SyncNext]_allVars
  BY DEF SyncNext
<1> QED BY <1>1, <1>2, <1>3, <1>4, <1>5, <1>6, <1>7, TabKeeps

\* Where no job runs, no request is waited for and no snapshot is held.
LEMMA IdleTab ==
  ASSUME SyncInv
  PROVE  /\ ~running => request = NoEntry /\ snapshot = NoEntry
         /\ queue = <<>> => request = NoEntry /\ snapshot = NoEntry
         /\ \A t \in Task : Executing(t) => snapshot = NoEntry
         /\ Executing(Serial) => request = NoEntry
<1>1. request # NoEntry => request.sent.task \in Task /\ Executing(request.sent.task)
  BY Versions DEF SyncInv, RequestHeads
<1> QED BY <1>1, TaskAssumption DEF SyncInv, SnapshotAgrees, Executing

\* The request builds on the tab's copy: what it may change is what its patch settles.
LEMMA StartPatchStep ==
  ASSUME SyncInv, NEW t \in Task, StartPatch(t)
  PROVE  SyncInv'
<1>1. /\ queue # <<>> /\ Head(queue) = t /\ ~running /\ running' = TRUE
      /\ UNCHANGED <<coalescerVars, queue, store, client, late, snapshot, reload, missed>>
  BY DEF StartPatch, StartJob
<1>2. snapshot = NoEntry /\ TypeOK /\ IInv /\ queue \in Seq(Job)
  BY <1>1, IdleTab DEF SyncInv, IInv, TypeOK
<1>3. inFlight[t] \in Patch /\ inFlight[t] # NoEntry
  <2>1. queue # <<>> /\ Head(queue) = t
    BY <1>1
  <2>2. 1 \in 1 .. Len(queue) /\ queue[1] = t
    BY <1>2, <2>1
  <2>3. inFlight[t] # NoEntry
    BY <1>2, <2>2 DEF IInv, OneFlightPerTask
  <2> QED BY <1>2, <2>3 DEF TypeOK
<1>4. /\ Undisturbed' /\ \A u \in Task : Oldest(u) \subseteq Oldest(u)'
      /\ SnapshotAgrees' /\ reload' \in Mode \cup {NoEntry}
  BY <1>1, <1>2 DEF coalescerVars, Undisturbed, Oldest, SyncInv, SyncTypeOK, SnapshotAgrees
<1>5. [SyncNext]_allVars
  BY DEF SyncNext
<1>6. CASE request' = NoEntry
  <2>1. RequestHeads' /\ RequestAgrees'
    BY <1>6 DEF RequestHeads, RequestAgrees
  <2> QED BY <1>1, <1>4, <1>5, <1>6, <2>1, TabKeeps
<1>7. CASE request' # NoEntry
  <2>1. PICK settled \in [Settled(inFlight[t]) \ Carried(inFlight[t]) -> Value] :
          client[t] # NoEntry /\ request' = [sent |-> Sent(t, settled), status |-> "sent"]
    BY <1>7 DEF StartPatch
  <2> DEFINE r == Sent(t, settled)
  <2>2. /\ r.task = t /\ r.version = client[t].version /\ r.edited = Settled(inFlight[t])
        /\ \A f \in Field : r.values[f] = IF f \in DOMAIN settled THEN settled[f]
                                          ELSE Overlay(client[t].values, inFlight[t])[f]
        /\ r = [task |-> t, version |-> client[t].version, edited |-> Settled(inFlight[t]), values |-> r.values]
        /\ r.values = [f \in Field |-> r.values[f]]
    BY DEF Sent
  <2>3. client[t] \in Row /\ client[t].version \in 1 .. MaxVersion /\ client[t].values \in Content
    BY <2>1 DEF SyncInv, SyncTypeOK, Row
  <2>4. \A f \in Field : /\ r.values[f] \in Value
                         /\ f \notin Settled(inFlight[t]) => r.values[f] = client[t].values[f]
    <3> SUFFICES ASSUME NEW f \in Field
                 PROVE  /\ r.values[f] \in Value
                        /\ f \notin Settled(inFlight[t]) => r.values[f] = client[t].values[f]
      OBVIOUS
    <3>1. CASE f \in DOMAIN settled
      BY <2>1, <2>2, <3>1
    <3>2. CASE f \notin DOMAIN settled
      <4>1. r.values[f] = Overlay(client[t].values, inFlight[t])[f]
        BY <2>2, <3>2
      <4>2. r.values[f] = IF inFlight[t][f] # Absent THEN inFlight[t][f] ELSE client[t].values[f]
        BY <4>1 DEF Overlay
      <4>3. inFlight[t][f] # Absent => f \in Settled(inFlight[t])
        BY SettledFields DEF Carried
      <4> QED BY <1>3, <2>3, <4>2, <4>3 DEF Patch, Content
    <3> QED BY <3>1, <3>2
  <2> HIDE DEF r
  <2>5. r \in Wire
    <3>1. r.values \in Content
      BY <2>2, <2>4 DEF Content
    <3> QED BY <2>2, <2>3, <3>1, SettledFields DEF Wire
  <2>6. request' = [sent |-> r, status |-> "sent"] /\ request'.sent = r /\ request'.status = "sent"
    BY <2>1 DEF r
  <2>7. request' \in Answerable
    BY <2>5, <2>6 DEF Answerable
  <2>8. RequestHeads'
    BY <1>1, <2>1, <2>2, <2>6 DEF RequestHeads, Executing
  <2>9. RequestAgrees'
    <3> SUFFICES ASSUME store[t] # NoEntry PROVE Agree(r, store[t], r.edited)
      BY <1>1, <2>2, <2>6 DEF RequestAgrees, KnowsVersion, Agree
    <3>1. Agree(client[t], store[t], Settled(inFlight[t]))
      BY <1>3, <2>1 DEF SyncInv, ClientAgrees, Oldest
    <3> QED BY <2>2, <2>4, <3>1 DEF Agree
  <2> QED BY <1>1, <1>4, <1>5, <2>7, <2>8, <2>9, TabKeeps
<1> QED BY <1>6, <1>7

\* A failed request leaves the copy as it was.
LEMMA FailureStep ==
  ASSUME SyncInv, NEW t \in Task, FailsLocally(t) \/ LearnsRefused(t) \/ GivesUp(t)
  PROVE  SyncInv'
<1>1. /\ CommitFails(t) /\ request' = NoEntry
      /\ UNCHANGED <<store, client, snapshot, reload, missed>>
      /\ \A r \in late' : r \in late \/ (request # NoEntry /\ request.status = "sent" /\ r = request.sent)
  BY DEF FailsLocally, LearnsRefused, GivesUp
<1>2. snapshot = NoEntry
  BY <1>1, IdleTab DEF CommitFails
<1>3. Undisturbed' /\ \A u \in Task : Oldest(u) \subseteq Oldest(u)'
  BY <1>1, FailureKeeps DEF SyncInv
<1>4. /\ RequestHeads' /\ RequestAgrees' /\ SnapshotAgrees'
      /\ reload' \in Mode \cup {NoEntry}
  BY <1>1, <1>2 DEF RequestHeads, RequestAgrees, SnapshotAgrees, SyncInv, SyncTypeOK
<1>5. [SyncNext]_allVars
  BY DEF SyncNext
<1> QED BY <1>1, <1>3, <1>4, <1>5, TabKeeps

\* The answer of a stored request is the row, unless the row has moved on.
LEMMA LearnsStep ==
  ASSUME SyncInv, NEW t \in Task, LearnsStored(t)
  PROVE  /\ SyncInv'
         /\ client[t] # NoEntry /\ client'[t].version = client[t].version + 1
         /\ \A u \in Task \ {t} : client'[u] = client[u]
<1> DEFINE r == request.sent
           row == [version |-> r.version + 1, values |-> r.values]
<1>1. /\ request # NoEntry /\ r.task = t /\ request.status = "stored" /\ CommitSucceeds(t)
      /\ client' = [client EXCEPT ![t] = row] /\ request' = NoEntry
      /\ missed' = [missed EXCEPT ![t] = IF client'[t].version >= r.version + 1 THEN 0 ELSE r.version + 1]
      /\ UNCHANGED <<store, late, snapshot, reload>>
  BY DEF LearnsStored, Answered, Authoritative
<1>2. /\ r \in Wire /\ r.version \in Nat /\ r.version < MaxVersion
      /\ client[t] # NoEntry /\ client[t].version = r.version
      /\ store[t] # NoEntry => Agree(row, store[t], {})
  BY <1>1, Versions DEF SyncInv, RequestAgrees, RequestHeads, Authoritative
<1>3. row \in Row /\ row.version = r.version + 1
  BY <1>2, BoundAssumption DEF Wire, Row
<1> HIDE DEF row
<1>4. client'[t] = row /\ \A u \in Task \ {t} : client'[u] = client[u]
  BY <1>1 DEF SyncInv, SyncTypeOK
<1>5. client' \in [Task -> Row \cup {NoEntry}]
  BY <1>1, <1>3 DEF SyncInv, SyncTypeOK
<1>6. missed' = missed
  BY <1>1, <1>2, <1>3, <1>4 DEF SyncInv, NothingMissed
<1>7. snapshot = NoEntry
  BY <1>1, IdleTab DEF CommitSucceeds
<1>8. /\ UNCHANGED <<pending, failed, disposed>>
      /\ inFlight' = [inFlight EXCEPT ![t] = NoEntry]
      /\ cancelledInFlight' = [cancelledInFlight EXCEPT ![t] = {}]
  BY <1>1 DEF CommitSucceeds
<1>9. Undisturbed'
  BY <1>8 DEF SyncInv, IInv, TypeOK, Undisturbed
<1>10. ClientAgrees'
  <2> SUFFICES ASSUME NEW u \in Task, client'[u] # NoEntry, store[u] # NoEntry
               PROVE  Agree(client'[u], store[u], Oldest(u)')
    BY <1>1 DEF ClientAgrees, Agree
  <2>1. CASE u = t
    BY <1>2, <1>4, <2>1 DEF Agree
  <2>2. CASE u # t
    <3>1. inFlight'[u] = inFlight[u]
      BY <1>8, <2>2 DEF SyncInv, IInv, TypeOK
    <3>2. Oldest(u)' = Oldest(u)
      BY <1>8, <3>1 DEF Oldest
    <3> QED BY <1>4, <2>2, <3>2 DEF SyncInv, ClientAgrees
  <2> QED BY <2>1, <2>2
<1>11. IInv'
  BY SyncStepsBuffer, IInvStep DEF SyncInv, SyncNext
<1>12. /\ RequestHeads' /\ RequestAgrees' /\ SnapshotAgrees' /\ LateAgrees' /\ NothingMissed'
  BY <1>1, <1>6, <1>7 DEF RequestHeads, RequestAgrees, SnapshotAgrees, SyncInv, LateAgrees, KnowsVersion,
     Agree, NothingMissed
<1>13. SyncTypeOK'
  BY <1>1, <1>5, <1>6, <1>11 DEF SyncInv, SyncTypeOK, IInv
<1> QED BY <1>2, <1>3, <1>4, <1>9, <1>10, <1>11, <1>12, <1>13 DEF SyncInv

\* A reload is asked for, takes its turn and reads the rows.
LEMMA ReloadBeginStep ==
  ASSUME SyncInv, StartReload \/ ReadSnapshot \/ \E mode \in Mode : RequestReload(mode)
  PROVE  SyncInv'
<1>1. UNCHANGED <<store, client, missed, late, request, coalescerVars>>
  BY DEF StartReload, ReadSnapshot, RequestReload, StartJob, EnqueueSerial, syncVars, vars
<1>2. Undisturbed' /\ \A u \in Task : Oldest(u) \subseteq Oldest(u)'
  BY <1>1 DEF SyncInv, Undisturbed, Oldest, coalescerVars
<1>3. RequestAgrees'
  BY <1>1 DEF SyncInv, RequestAgrees, KnowsVersion, Authoritative, Agree
<1>4. [SyncNext]_allVars /\ request' \in Answerable \cup {NoEntry} /\ reload' \in Mode \cup {NoEntry}
  BY <1>1 DEF SyncNext, SyncInv, SyncTypeOK, Answerable, StartReload, ReadSnapshot, RequestReload, syncVars
<1>5. CASE ReadSnapshot
  <2>1. snapshot' = store /\ Executing(Serial) /\ UNCHANGED <<queue, running>> /\ request = NoEntry
    BY <1>5, IdleTab DEF ReadSnapshot, vars
  <2>2. SnapshotAgrees'
    <3> SUFFICES ASSUME NEW t \in Task, store[t] # NoEntry
                 PROVE  Agree(store[t], store[t], {}) /\ (client[t] # NoEntry => client[t].version <= store[t].version)
      BY <1>1, <2>1 DEF SnapshotAgrees, Agree, Executing
    <3>1. store[t].version \in Nat
      BY BoundAssumption DEF SyncInv, SyncTypeOK, Row
    <3> QED BY <3>1 DEF Agree, SyncInv, ClientAgrees
  <2>3. RequestHeads'
    BY <1>1, <2>1 DEF RequestHeads
  <2> QED BY <1>1, <1>2, <1>3, <1>4, <2>1, <2>2, <2>3, TabKeeps
<1>6. CASE StartReload \/ \E mode \in Mode : RequestReload(mode)
  <2>1. (~running \/ queue = <<>>) /\ snapshot' = snapshot
    BY <1>6 DEF StartReload, StartJob, RequestReload, syncVars
  <2>2. request = NoEntry /\ snapshot = NoEntry
    BY <2>1, IdleTab
  <2>3. RequestHeads' /\ SnapshotAgrees'
    BY <1>1, <2>1, <2>2 DEF RequestHeads, SnapshotAgrees
  <2> QED BY <1>1, <1>2, <1>3, <1>4, <2>1, <2>3, TabKeeps
<1> QED BY <1>5, <1>6

\* A failed reload leaves the copies as they were.
LEMMA ReloadFailsStep ==
  ASSUME SyncInv, ReloadFails
  PROVE  SyncInv'
<1>1. /\ Executing(Serial) /\ snapshot' = NoEntry /\ reload' = NoEntry
      /\ UNCHANGED <<store, client, request, late, missed, pending, inFlight, cancelledInFlight, disposed, failed>>
  BY DEF ReloadFails, SerialEnds
<1>2. request = NoEntry
  BY <1>1, IdleTab
<1>3. Undisturbed' /\ \A u \in Task : Oldest(u) \subseteq Oldest(u)'
  BY <1>1 DEF SyncInv, Undisturbed, Oldest
<1>4. RequestHeads' /\ RequestAgrees' /\ SnapshotAgrees' /\ [SyncNext]_allVars
  BY <1>1, <1>2 DEF RequestHeads, RequestAgrees, SnapshotAgrees, SyncNext
<1> QED BY <1>1, <1>2, <1>3, <1>4, TabKeeps

\* The rows a reload puts in place are those it read, under the retained patches.
LEMMA ReloadAppliesStep ==
  ASSUME SyncInv, ReloadApplies
  PROVE  /\ SyncInv'
         /\ \A t \in Task : client[t] # NoEntry /\ client'[t] # NoEntry => client[t].version <= client'[t].version
<1>1. /\ snapshot # NoEntry /\ Executing(Serial) /\ snapshot' = NoEntry /\ reload' = NoEntry
      /\ failed' = IF reload = "discard" THEN [t \in Task |-> NoEntry] ELSE failed
      /\ client' = IF reload = "preserve" THEN [t \in Task |-> Rebased(t)] ELSE snapshot
      /\ UNCHANGED <<store, request, late, missed, pending, inFlight, cancelledInFlight, disposed>>
  BY DEF ReloadApplies, SerialEnds
<1>2. request = NoEntry
  BY <1>1, IdleTab
<1>3. /\ snapshot \in [Task -> Row \cup {NoEntry}]
      /\ \A t \in Task : snapshot[t] # NoEntry =>
           /\ store[t] # NoEntry => Agree(snapshot[t], store[t], {})
           /\ client[t] # NoEntry => client[t].version <= snapshot[t].version
  BY <1>1 DEF SyncInv, SyncTypeOK, SnapshotAgrees
<1>4. ASSUME NEW t \in Task
      PROVE  /\ client'[t] \in Row \cup {NoEntry}
             /\ client'[t] # NoEntry =>
                  /\ snapshot[t] # NoEntry /\ client'[t].version = snapshot[t].version
                  /\ \A f \in Field \ Oldest(t)' : client'[t].values[f] = snapshot[t].values[f]
  <2>1. CASE client'[t] = snapshot[t]
    BY <1>3, <2>1
  <2>2. CASE client'[t] # snapshot[t]
    <3>1. reload = "preserve" /\ client'[t] = Rebased(t)
      BY <1>1, <2>2
    <3>2. /\ snapshot[t] # NoEntry /\ failed[t] # NoEntry /\ failed' = failed
          /\ client'[t] = [version |-> snapshot[t].version, values |-> Overlay(snapshot[t].values, failed[t])]
      BY <1>1, <2>2, <3>1 DEF Rebased
    <3>3. snapshot[t] \in Row /\ failed[t] \in Patch /\ inFlight[t] = NoEntry
      BY <1>3, <3>2 DEF SyncInv, IInv, TypeOK, RetainedAlone
    <3>4. Overlay(snapshot[t].values, failed[t]) \in Content
      BY <3>3 DEF Overlay, Row, Content, Patch
    <3>5. Carried(failed[t]) \subseteq Oldest(t)'
      BY <1>1, <3>2, <3>3, SettledFields DEF Oldest, OrEmpty
    <3>6. \A f \in Field \ Oldest(t)' : Overlay(snapshot[t].values, failed[t])[f] = snapshot[t].values[f]
      BY <3>5 DEF Overlay, Carried
    <3> QED BY <3>2, <3>3, <3>4, <3>6 DEF Row
  <2> QED BY <2>1, <2>2
<1>5. client' \in [Task -> Row \cup {NoEntry}]
  <2>1. client' = [t \in Task |-> client'[t]]
    BY <1>1, <1>3
  <2> QED BY <1>4, <2>1
<1>6. ClientAgrees'
  BY <1>1, <1>3, <1>4 DEF ClientAgrees, Agree
<1>7. IInv'
  BY SyncStepsBuffer, IInvStep DEF SyncInv, SyncNext
<1>8. /\ RequestHeads' /\ RequestAgrees' /\ SnapshotAgrees' /\ LateAgrees' /\ NothingMissed' /\ Undisturbed'
  BY <1>1, <1>2 DEF RequestHeads, RequestAgrees, SnapshotAgrees, SyncInv, LateAgrees, KnowsVersion,
     Agree, NothingMissed, Undisturbed
<1>9. SyncTypeOK'
  BY <1>1, <1>2, <1>5, <1>7 DEF SyncInv, SyncTypeOK, IInv
<1> QED BY <1>3, <1>4, <1>6, <1>7, <1>8, <1>9 DEF SyncInv

-----------------------------------------------------------------------------
\* The tab starts with the rows as they are.
LEMMA SyncStarts == SyncInit => SyncInv
<1> SUFFICES ASSUME SyncInit PROVE SyncInv
  OBVIOUS
<1>1. IInv
  BY IInvInit DEF SyncInit
<1>2. PICK v \in Value : store = [t \in Task |-> [version |-> 1, values |-> [f \in Field |-> v]]]
  BY DEF SyncInit
<1>3. store \in [Task -> Row] /\ client = store
  BY <1>2, BoundAssumption DEF SyncInit, Row, Content
<1>4. SyncTypeOK
  BY <1>1, <1>3, BoundAssumption DEF SyncInit, SyncTypeOK, IInv
<1>5. Undisturbed /\ RequestHeads /\ RequestAgrees /\ LateAgrees /\ SnapshotAgrees /\ NothingMissed
  BY DEF SyncInit, Init, Undisturbed, RequestHeads, RequestAgrees, LateAgrees, SnapshotAgrees, NothingMissed
<1>6. ClientAgrees
  BY <1>3, BoundAssumption DEF ClientAgrees, Agree, Row
<1> QED BY <1>1, <1>4, <1>5, <1>6 DEF SyncInv

\* A stuttering step.
LEMMA SyncRests ==
  ASSUME SyncInv, UNCHANGED allVars
  PROVE  SyncInv'
<1>1. UNCHANGED <<vars, store, client, request, late, snapshot, reload, missed>>
  BY DEF allVars, syncVars
<1>2. \A t \in Task : Moves(t)
  BY <1>1 DEF Moves
<1> QED BY <1>1, <1>2, WorldStep DEF SyncInv, SyncTypeOK

\* Every step, one case for each group of actions.
LEMMA SyncStep == SyncInv /\ [SyncNext]_allVars => SyncInv'
<1> SUFFICES ASSUME SyncInv, [SyncNext]_allVars PROVE SyncInv'
  OBVIOUS
<1>1. ASSUME NEW t \in Task,
             \/ StartPatch(t) \/ FailsLocally(t) \/ LearnsStored(t) \/ LearnsRefused(t)
             \/ GivesUp(t)
      PROVE  SyncInv'
  BY <1>1, StartPatchStep, FailureStep, LearnsStep
<1>2. ASSUME \/ \E t \in Task : \/ OtherUserDeletes(t)
                                \/ \E f \in Field, v \in Value : OtherUserEdits(t, f, v)
             \/ \E r \in late : LateArrives(r)
      PROVE  SyncInv'
  BY <1>2, OthersStep
<1>3. CASE Buffering
  BY <1>3, BufferingStep
<1>4. CASE ServerStores \/ ServerRefuses
  BY <1>4, ServerStep
<1>5. CASE StartReload \/ ReadSnapshot \/ \E mode \in Mode : RequestReload(mode)
  BY <1>5, ReloadBeginStep
<1>6. CASE ReloadApplies
  BY <1>6, ReloadAppliesStep
<1>7. CASE ReloadFails
  BY <1>7, ReloadFailsStep
<1>8. CASE UNCHANGED allVars
  BY <1>8, SyncRests
<1> QED BY <1>1, <1>2, <1>3, <1>4, <1>5, <1>6, <1>7, <1>8 DEF SyncNext

\* The strengthened invariant of the tab and the rows holds throughout.
THEOREM SyncInvHolds == SyncSpec => []SyncInv
BY SyncStarts, SyncStep, PTL DEF SyncSpec

\* A tab that knows the version of a row has its content, but for the edits it holds, and
\* what it sends is never older than what it was told (persistence.js, sqlAppRepository.js).
THEOREM VersionsStaySound == SyncSpec => []VersionsSound
<1>1. SyncInv => VersionNamesContent
  <2> SUFFICES ASSUME SyncInv, NEW t \in Task, client[t] # NoEntry, store[t] # NoEntry,
                      client[t].version = store[t].version, NEW f \in Field \ Held(t)
               PROVE  client[t].values[f] = store[t].values[f]
    BY DEF VersionNamesContent
  <2>1. Oldest(t) \subseteq Held(t)
    <3>1. inFlight[t] # NoEntry => OrEmpty(inFlight[t]) = inFlight[t]
      BY DEF OrEmpty
    <3> QED BY <3>1 DEF Oldest, Held
  <2> QED BY <2>1 DEF SyncInv, ClientAgrees, Agree
<1>2. SyncInv => NeverConflictsWithItself
  BY Versions DEF SyncInv, NothingMissed, NeverConflictsWithItself
<1>3. SyncInv => VersionsSound
  BY <1>1, <1>2 DEF VersionsSound
<1> QED BY <1>3, SyncInvHolds, PTL

\* A stored request, on time or late, leaves every field its patch does not settle as
\* the row had it: what others stored is not undone (UPDATE ... WHERE RowVersion).
THEOREM OthersEditsStay == SyncSpec => UneditedFieldsUntouched
<1>1. SyncInv /\ [SyncNext]_allVars =>
        \A r \in late \cup (IF request = NoEntry THEN {} ELSE {request.sent}) :
          Stored(r) =>
            \A f \in Field \ r.edited : store'[r.task].values[f] = store[r.task].values[f]
  <2> SUFFICES ASSUME SyncInv, [SyncNext]_allVars,
                      NEW r \in late \cup (IF request = NoEntry THEN {} ELSE {request.sent}),
                      Stored(r), NEW f \in Field \ r.edited
               PROVE  store'[r.task].values[f] = store[r.task].values[f]
    OBVIOUS
  <2>1. ASSUME r \in Wire, KnowsVersion(r), Writes(r)
        PROVE  store'[r.task].values[f] = store[r.task].values[f]
    <3>1. /\ store[r.task] # NoEntry /\ store[r.task].version = r.version
          /\ store'[r.task] = [version |-> r.version + 1, values |-> r.values]
      BY <2>1, WritesNext DEF SyncInv
    <3> QED BY <2>1, <3>1 DEF KnowsVersion, Agree
  <2>2. store' # store
    BY DEF Stored
  <2>3. \/ ServerStores
        \/ \E q \in late : LateArrives(q)
        \/ \E t \in Task : OtherUserDeletes(t) \/ \E g \in Field, v \in Value : OtherUserEdits(t, g, v)
    BY <2>2 DEF SyncNext, allVars, syncVars, Buffering, StartPatch, FailsLocally, LearnsStored, LearnsRefused,
       GivesUp, ServerRefuses, RequestReload, StartReload, ReadSnapshot, ReloadApplies, ReloadFails
  <2>4. CASE ServerStores
    <3>1. late' = late /\ request # NoEntry /\ request.status = "sent" /\ Writes(request.sent)
      BY <2>4 DEF ServerStores
    <3>2. r = request.sent /\ r \in Wire /\ KnowsVersion(r)
      BY <3>1, Versions DEF Stored, SyncInv, RequestAgrees
    <3> QED BY <2>1, <3>1, <3>2
  <2>5. ASSUME NEW q \in late, LateArrives(q)
        PROVE  store'[r.task].values[f] = store[r.task].values[f]
    <3>1. late' = late \ {q} /\ request' = request /\ Writes(q)
      BY <2>2, <2>5 DEF LateArrives
    <3>2. r = q
      BY <3>1 DEF Stored
    <3>3. r \in Wire /\ KnowsVersion(r)
      BY <3>2 DEF SyncInv, SyncTypeOK, LateAgrees
    <3> QED BY <2>1, <3>1, <3>2, <3>3
  <2>6. CASE \E t \in Task : OtherUserDeletes(t) \/ \E g \in Field, v \in Value : OtherUserEdits(t, g, v)
    <3>1. late' = late /\ request' = request
      BY <2>6 DEF OtherUserDeletes, OtherUserEdits
    <3> QED BY <3>1 DEF Stored
  <2> QED BY <2>3, <2>4, <2>5, <2>6
<1> QED BY <1>1, SyncInvHolds, PTL DEF SyncSpec, UneditedFieldsUntouched

\* Whatever answers and reloads overlap, the tab never goes back to an older version of
\* a task (dataReloadLifecycle.js, the ordered queue of persistence.js).
THEOREM VersionsGrow == SyncSpec => VersionsOnlyGrow
<1>1. SyncInv /\ [SyncNext]_allVars =>
        \A t \in Task : client[t] # NoEntry /\ client'[t] # NoEntry =>
          client'[t].version >= client[t].version
  <2> SUFFICES ASSUME SyncInv, [SyncNext]_allVars, NEW t \in Task,
                      client[t] # NoEntry, client'[t] # NoEntry
               PROVE  client'[t].version >= client[t].version
    OBVIOUS
  <2>1. SyncInv' /\ client[t].version \in Nat /\ client'[t].version \in Nat
    BY SyncStep, BoundAssumption DEF SyncInv, SyncTypeOK, Row
  <2>2. ASSUME NEW u \in Task, LearnsStored(u)
        PROVE  client'[t].version >= client[t].version
    <3>1. /\ client'[u].version = client[u].version + 1
          /\ t # u => client'[t] = client[t]
      BY <2>2, LearnsStep
    <3> QED BY <2>1, <3>1
  <2>3. CASE ReloadApplies
    BY <2>1, <2>3, ReloadAppliesStep
  <2>4. (\E u \in Task : LearnsStored(u)) \/ ReloadApplies \/ client' = client
    BY DEF SyncNext, allVars, syncVars, Buffering, StartPatch, FailsLocally, LearnsRefused, GivesUp,
       OtherUserDeletes, OtherUserEdits, LateArrives, ServerStores, ServerRefuses, RequestReload, StartReload,
       ReadSnapshot, ReloadFails
  <2> QED BY <2>1, <2>2, <2>3, <2>4
<1> QED BY <1>1, SyncInvHolds, PTL DEF SyncSpec, VersionsOnlyGrow

=============================================================================
