---------------------------- MODULE DataReloadViewProofs ----------------------------
(***************************************************************************)
(* Proof that the view of DataReload goes on, for every number of calls    *)
(* and edits: it never says that it loads for nothing, and the automatic   *)
(* refresh, which shows no loading state, overtakes nobody who set it.     *)
(*                                                                         *)
(* Three orders make it so.  Entries take turns: at most one task brings on*)
(* the next turn (Chain).  So at most two operations are on their way to   *)
(* the queue of jobs, and the one that started later stays behind (InStep).*)
(* So the automatic refresh, which starts when nobody is active, begins    *)
(* with an empty queue of jobs, and whatever follows it is the user's.     *)
(***************************************************************************)
EXTENDS DataReloadProofs

(***************************************************************************)
(* Where an operation is                                                   *)
(***************************************************************************)
\* Between its start and the queue of jobs.
Early(x) ==
  \/ \E i \in 1 .. Len(micro) : micro[i].name \in EarlyName /\ micro[i].call = x
  \/ \E i \in 1 .. Len(flushers) : flushers[i] = x
  \/ \E i \in 1 .. Len(idlers) : idlers[i].call = x

\* Done, whether or not the promise knows.
Over(x) == x \in settled \/ \E i \in 1 .. Len(micro) : micro[i].name \in LateName /\ micro[i].call = x

TailComes == \E i \in 1 .. Len(micro) : micro[i].name = "tail"

\* No operation is in two places at a time, and none comes back.
OperationsOnce ==
  /\ \A x \in runs : Early(x) => ~Over(x) /\ \A i \in 1 .. Len(jobs) : jobs[i] # x
  /\ \A i \in 1 .. Len(micro) : micro[i].name \in LateName => micro[i].call \notin settled
  /\ \A i, j \in 1 .. Len(micro) :
       micro[i].name \in LateName /\ micro[j].name \in LateName /\ micro[i].call = micro[j].call => i = j
  /\ \A i, j \in 1 .. Len(jobs) : jobs[i] = jobs[j] => i = j \/ jobs[i] = None
  /\ \A i \in 1 .. Len(jobs) : jobs[i] # None /\ Over(jobs[i]) => i = 1 /\ TailComes

\* whenIdle() saw the tail of a queue that is empty now, if it is still the tail.
IdleLooks ==
  /\ \A i \in 1 .. Len(micro) : micro[i].name = "idle" =>
        micro[i].arg.from <= enqueued /\ (micro[i].arg.from = enqueued => jobs = <<>>)
  /\ \A i \in 1 .. Len(idlers) : idlers[i].arg.from <= enqueued

\* An operation that is over makes way for the next: its clear is the first to be told.
ClearsComing ==
  /\ \A x \in runs \ settled : \E k \in 1 .. Len(reactions[Run(x)]) : reactions[Run(x)][k].name = "clear"
  /\ \A i \in 1 .. Len(micro) : micro[i].name = "clear" => micro[i].call \in settled
  /\ active \in settled => \E i \in 1 .. Len(micro) : micro[i].name = "clear" /\ micro[i].call = active

(***************************************************************************)
(* What a step does to the queue of tasks                                  *)
(***************************************************************************)
\* It takes the first n tasks away and adds those of s.
Grows(n, s) ==
  /\ n \in {0, 1} /\ n <= Len(micro) /\ Len(micro) \in Nat /\ Len(s) \in Nat /\ Len(micro') = Len(micro) - n + Len(s)
  /\ \A i \in 1 .. Len(micro') :
       \/ i <= Len(micro) - n /\ i + n \in 1 .. Len(micro) /\ micro'[i] = micro[i + n]
       \/ \E k \in 1 .. Len(s) : i = Len(micro) - n + k /\ micro'[i] = s[k]
  /\ \A i \in 1 .. Len(micro) : i > n => i - n \in 1 .. Len(micro') /\ micro'[i - n] = micro[i]
  /\ \A k \in 1 .. Len(s) : Len(micro) - n + k \in 1 .. Len(micro') /\ micro'[Len(micro) - n + k] = s[k]

LEMMA HeadGone ==
  ASSUME micro \in Seq(TaskSet), micro # <<>>, NEW s \in Seq(TaskSet), micro' = Tail(micro) \o s
  PROVE  Grows(1, s)
<1>1. /\ Len(micro) \in Nat \ {0} /\ Len(s) \in Nat /\ Len(micro') = Len(micro) - 1 + Len(s)
      /\ \A i \in 1 .. Len(micro) - 1 : micro'[i] = micro[i + 1]
      /\ \A i \in 1 .. Len(s) : micro'[Len(micro) - 1 + i] = s[i]
  BY Added
<1>2. ASSUME NEW i \in 1 .. Len(micro')
      PROVE  \/ i <= Len(micro) - 1 /\ i + 1 \in 1 .. Len(micro) /\ micro'[i] = micro[i + 1]
             \/ \E k \in 1 .. Len(s) : i = Len(micro) - 1 + k /\ micro'[i] = s[k]
  <2>1. CASE i <= Len(micro) - 1
    BY <1>1, <2>1
  <2>2. CASE ~(i <= Len(micro) - 1)
    <3> DEFINE k == i - (Len(micro) - 1)
    <3>1. k \in 1 .. Len(s) /\ i = Len(micro) - 1 + k
      BY <1>1, <2>2
    <3> QED BY <1>1, <3>1
  <2> QED BY <2>1, <2>2
<1>3. \A i \in 1 .. Len(micro) : i > 1 => i - 1 \in 1 .. Len(micro') /\ micro'[i - 1] = micro[i]
  <2>1. ASSUME NEW i \in 1 .. Len(micro), i > 1 PROVE i - 1 \in 1 .. Len(micro') /\ micro'[i - 1] = micro[i]
    <3>1. i - 1 \in 1 .. Len(micro) - 1 /\ (i - 1) + 1 = i /\ i - 1 \in 1 .. Len(micro')
      BY <1>1, <2>1
    <3> QED BY <1>1, <3>1
  <2> QED BY <2>1
<1>4. \A k \in 1 .. Len(s) : Len(micro) - 1 + k \in 1 .. Len(micro')
  BY <1>1
<1>5. 1 \in {0, 1} /\ 1 <= Len(micro) /\ Len(micro) \in Nat
  BY <1>1
<1> QED BY <1>1, <1>2, <1>3, <1>4, <1>5, ZenonT(30) DEF Grows

LEMMA Grown ==
  ASSUME micro \in Seq(TaskSet), NEW s \in Seq(TaskSet), micro' = micro \o s
  PROVE  Grows(0, s)
<1>1. Len(micro) \in Nat /\ Len(s) \in Nat
  BY LenProperties
<1>2. /\ Len(micro') = Len(micro) + Len(s)
      /\ \A i \in 1 .. Len(micro) + Len(s) : micro'[i] = IF i <= Len(micro) THEN micro[i] ELSE s[i - Len(micro)]
  BY ConcatProperties
<1>3. ASSUME NEW i \in 1 .. Len(micro')
      PROVE  \/ i <= Len(micro) - 0 /\ i + 0 \in 1 .. Len(micro) /\ micro'[i] = micro[i + 0]
             \/ \E k \in 1 .. Len(s) : i = Len(micro) - 0 + k /\ micro'[i] = s[k]
  <2>1. CASE i <= Len(micro)
    BY <1>1, <1>2, <2>1
  <2>2. CASE ~(i <= Len(micro))
    <3> DEFINE k == i - Len(micro)
    <3>1. k \in 1 .. Len(s) /\ i = Len(micro) + k /\ i \in 1 .. Len(micro) + Len(s)
      BY <1>1, <1>2, <2>2
    <3> QED BY <1>1, <1>2, <2>2, <3>1
  <2> QED BY <2>1, <2>2
<1>4. \A i \in 1 .. Len(micro) : i - 0 \in 1 .. Len(micro') /\ micro'[i - 0] = micro[i]
  BY <1>1, <1>2
<1>5. \A k \in 1 .. Len(s) : Len(micro) - 0 + k \in 1 .. Len(micro') /\ micro'[Len(micro) - 0 + k] = s[k]
  <2>1. ASSUME NEW k \in 1 .. Len(s) PROVE Len(micro) - 0 + k \in 1 .. Len(micro')
                 /\ micro'[Len(micro) - 0 + k] = s[k]
    <3>1. Len(micro) + k \in 1 .. Len(micro) + Len(s) /\ ~(Len(micro) + k <= Len(micro))
            /\ Len(micro) - 0 + k = Len(micro) + k
          /\ (Len(micro) + k) - Len(micro) = k
      BY <1>1
    <3> QED BY <1>2, <3>1
  <2> QED BY <2>1
<1> QED BY <1>1, <1>2, <1>3, <1>4, <1>5 DEF Grows

\* From outside, tasks come to an empty queue.
LEMMA Came ==
  ASSUME micro = <<>>, micro' \in Seq(TaskSet)
  PROVE  Grows(0, micro')
<1>1. Len(micro) = 0 /\ Len(micro') \in Nat
  BY LenProperties
<1> QED BY <1>1 DEF Grows

(***************************************************************************)
(* The places of operations                                                *)
(***************************************************************************)
LEMMA OperationsRest ==
  ASSUME CoreInv, CoreInv', OperationsOnce, settled' = settled, NEW n, NEW s, Grows(n, s),
         n = 1 => micro[1].name # "tail",
         \A k \in 1 .. Len(s) : s[k].name \notin LateName
           /\ (s[k].name \in EarlyName => Early(s[k].call) \/ s[k].call \notin runs),
         \A i \in 1 .. Len(flushers') : Early(flushers'[i]),
         \A i \in 1 .. Len(idlers') : Early(idlers'[i].call),
         \A i \in 1 .. Len(jobs') : (i \in 1 .. Len(jobs) /\ jobs'[i] = jobs[i]) \/ jobs'[i] = None
  PROVE  OperationsOnce'
<1>1. n \in {0, 1}
  BY DEF Grows
<1>2. /\ settled \subseteq runs
      /\ \A i \in 1 .. Len(micro) : micro[i].name \in LateName => micro[i].call \in runs
      /\ \A i \in 1 .. Len(jobs) : jobs[i] # None => jobs[i] \in runs
  BY DEF CoreInv, Types, TasksFit, TaskFits, WaitsFit
<1>3. ASSUME NEW i \in 1 .. Len(micro'), micro'[i].name \in LateName
      PROVE  i + n \in 1 .. Len(micro) /\ micro'[i] = micro[i + n]
  BY <1>3 DEF Grows
<1>4. ASSUME NEW x, Over(x)' PROVE Over(x) /\ x \in runs
  BY <1>1, <1>2, <1>3, <1>4 DEF Over
<1>5. ASSUME NEW x, Early(x)' PROVE Early(x) \/ x \notin runs
  <2>1. CASE \E i \in 1 .. Len(micro') : micro'[i].name \in EarlyName /\ micro'[i].call = x
    <3>1. PICK i \in 1 .. Len(micro') : micro'[i].name \in EarlyName /\ micro'[i].call = x
      BY <2>1
    <3>2. CASE i + n \in 1 .. Len(micro) /\ micro'[i] = micro[i + n]
      BY <3>1, <3>2 DEF Early
    <3>3. CASE \E k \in 1 .. Len(s) : micro'[i] = s[k]
      BY <3>1, <3>3
    <3>4. (i + n \in 1 .. Len(micro) /\ micro'[i] = micro[i + n]) \/ \E k \in 1 .. Len(s) : micro'[i] = s[k]
      BY DEF Grows
    <3> QED BY <3>2, <3>3, <3>4
  <2>2. CASE \E i \in 1 .. Len(flushers') : flushers'[i] = x
    BY <2>2
  <2>3. CASE \E i \in 1 .. Len(idlers') : idlers'[i].call = x
    BY <2>3
  <2> QED BY <1>5, <2>1, <2>2, <2>3 DEF Early
<1>6. ASSUME NEW i \in 1 .. Len(jobs'), jobs'[i] # None
      PROVE  i \in 1 .. Len(jobs) /\ jobs'[i] = jobs[i] /\ jobs[i] \in runs
  BY <1>2, <1>6
<1>7. TailComes => TailComes'
  <2> SUFFICES ASSUME NEW i \in 1 .. Len(micro), micro[i].name = "tail" PROVE TailComes'
    BY DEF TailComes
  <2>1. i # 1 \/ n = 0
    BY <1>1
  <2>2. i > n
    BY <1>1, <2>1
  <2> QED BY <2>2 DEF Grows, TailComes
<1>8. \A x \in runs' : Early(x)' => ~Over(x)' /\ \A i \in 1 .. Len(jobs') : jobs'[i] # x
  <2> SUFFICES ASSUME NEW x \in runs', Early(x)'
               PROVE  ~Over(x)' /\ \A i \in 1 .. Len(jobs') : jobs'[i] # x
    OBVIOUS
  <2>1. Early(x) \/ x \notin runs
    BY <1>5
  <2>2. ~Over(x)'
    BY <1>4, <2>1 DEF OperationsOnce
  <2>3. x # None
    BY MadeIsNat DEF CoreInv, Types, None
  <2>4. \A i \in 1 .. Len(jobs') : jobs'[i] # x
    BY <1>6, <2>1, <2>3 DEF OperationsOnce
  <2> QED BY <2>2, <2>4
<1>9. \A i \in 1 .. Len(micro') : micro'[i].name \in LateName => micro'[i].call \notin settled'
  BY <1>3 DEF OperationsOnce
<1>10. \A i, j \in 1 .. Len(micro') :
         micro'[i].name \in LateName /\ micro'[j].name \in LateName /\ micro'[i].call = micro'[j].call => i = j
  <2> SUFFICES ASSUME NEW i \in 1 .. Len(micro'), NEW j \in 1 .. Len(micro'), micro'[i].name \in LateName,
                      micro'[j].name \in LateName, micro'[i].call = micro'[j].call
               PROVE  i = j
    OBVIOUS
  <2>1. i + n = j + n
    BY <1>3 DEF OperationsOnce
  <2> QED BY <1>1, <2>1 DEF Grows
<1>11. \A i, j \in 1 .. Len(jobs') : jobs'[i] = jobs'[j] => i = j \/ jobs'[i] = None
  BY <1>6 DEF OperationsOnce
<1>12. (\A i \in 1 .. Len(jobs) : jobs[i] # None /\ Over(jobs[i]) => i = 1 /\ TailComes)'
  <2>1. ASSUME NEW i \in 1 .. Len(jobs'), jobs'[i] # None, Over(jobs[i])' PROVE i = 1 /\ TailComes'
    <3>1. i \in 1 .. Len(jobs) /\ jobs'[i] = jobs[i]
      BY <1>6, <2>1
    <3>2. Over(jobs[i])
      BY <1>3, <2>1, <3>1 DEF Over
    <3> QED BY <1>7, <2>1, <3>1, <3>2 DEF OperationsOnce
  <2> QED BY <2>1
<1> QED BY <1>8, <1>9, <1>10, <1>11, <1>12 DEF OperationsOnce

LEMMA NoTask ==
  /\ <<>> \in Seq(TaskSet) /\ Len(<<>>) = 0
  /\ \A k \in 1 .. Len(<<>>) : FALSE
OBVIOUS

LEMMA OneTask ==
  ASSUME NEW t \in TaskSet
  PROVE  <<t>> \in Seq(TaskSet) /\ Len(<<t>>) = 1 /\ \A k \in 1 .. Len(<<t>>) : k = 1 /\ <<t>>[k] = t
OBVIOUS

LEMMA TwoTasks ==
  ASSUME NEW t \in TaskSet, NEW u \in TaskSet
  PROVE  /\ <<t, u>> \in Seq(TaskSet) /\ Len(<<t, u>>) = 2
         /\ \A k \in 1 .. Len(<<t, u>>) : (k = 1 /\ <<t, u>>[k] = t) \/ (k = 2 /\ <<t, u>>[k] = u)
OBVIOUS

\* The head of the queue runs and adds one task, or none.
LEMMA HeadAdds ==
  ASSUME CoreInv, micro # <<>>, NEW t \in TaskSet, Adding(<<t>>)
  PROVE  Grows(1, <<t>>)
BY HeadGone, OneTask, MicroType DEF Adding

LEMMA HeadAddsNone ==
  ASSUME CoreInv, micro # <<>>, Adding(<<>>)
  PROVE  Grows(1, <<>>)
BY HeadGone, NoTask, MicroType DEF Adding

LEMMA NothingMoves ==
  ASSUME CoreInv, micro' = micro
  PROVE  Grows(0, <<>>)
<1>1. Len(micro) \in Nat /\ Len(<<>>) = 0
  BY MicroType, LenProperties
<1>2. \A i \in 1 .. Len(micro) : i + 0 = i /\ i - 0 = i /\ i <= Len(micro) - 0
  BY <1>1
<1>3. Len(micro') = Len(micro) - 0 + Len(<<>>) /\ 0 <= Len(micro)
  BY <1>1
<1> QED BY <1>1, <1>2, <1>3 DEF Grows

LEMMA FlushAllShape ==
  ASSUME CoreInv, micro # <<>>, Head(micro).name \in {"operation", "emptied"}, FlushAll
  PROVE  \/ /\ edit = "none" /\ UNCHANGED <<edit, jobs, enqueued, flushers>>
            /\ Grows(1, <<Task("flushed", Current, Result("ok", None))>>)
         \/ /\ edit # "none" /\ edit' = "flying" /\ flushers' = Append(flushers, Current)
            /\ \/ UNCHANGED <<jobs, enqueued>>
               \/ jobs' = Append(jobs, None) /\ enqueued' = enqueued + 1
            /\ \E s \in Seq(TaskSet) : Grows(1, s) /\ \A k \in 1 .. Len(s) : s[k].name = "job"
<1>1. Current \in Nat /\ None \in Nat
  BY HeadTask DEF None
<1>2. CASE edit = "none"
  <2>1. Task("flushed", Current, Result("ok", None)) \in TaskSet
    BY <1>1, GivenTask, Names
  <2>2. Grows(1, <<Task("flushed", Current, Result("ok", None))>>)
    BY <1>2, <2>1, HeadAdds DEF FlushAll
  <2> QED BY <1>2, <2>2 DEF FlushAll
<1>3. CASE edit = "pending"
  <2>1. StartIfIdle \in Seq(TaskSet) /\ \A k \in 1 .. Len(StartIfIdle) : StartIfIdle[k].name = "job"
    <3>1. Task("job", None, Nothing) \in TaskSet /\ Task("job", None, Nothing).name = "job"
      BY <1>1, PlainTask, Names
    <3>2. CASE jobs = <<>>
      <4>1. StartIfIdle = <<Task("job", None, Nothing)>>
        BY <3>2 DEF StartIfIdle
      <4> QED BY <3>1, <4>1, OneTask
    <3>3. CASE jobs # <<>>
      <4>1. StartIfIdle = <<>>
        BY <3>3 DEF StartIfIdle
      <4> QED BY <4>1, NoTask
    <3> QED BY <3>2, <3>3
  <2>2. Adding(StartIfIdle) /\ jobs' = Append(jobs, None) /\ enqueued' = enqueued + 1
    BY <1>3 DEF FlushAll, Enqueue
  <2>3. Grows(1, StartIfIdle)
    BY <2>1, <2>2, HeadGone, MicroType DEF Adding
  <2> QED BY <1>3, <2>1, <2>2, <2>3 DEF FlushAll
<1>4. CASE edit # "none" /\ edit # "pending"
  <2>1. Grows(1, <<>>)
    BY <1>4, HeadAddsNone DEF FlushAll
  <2> QED BY <1>4, <2>1, NoTask DEF FlushAll
<1> QED BY <1>2, <1>3, <1>4

Look(c) == Task("idle", c, Result("none", enqueued))

LEMMA LookType ==
  ASSUME CoreInv, NEW c \in Nat
  PROVE  /\ Look(c) \in TaskSet /\ Look(c).name = "idle" /\ Look(c).call = c /\ Look(c).arg.from = enqueued
         /\ enqueued \in Nat
<1>1. enqueued \in Nat
  BY DEF CoreInv, Types
<1> QED BY <1>1, GivenTask, Names DEF Look

LEMMA AwaitTailShape ==
  ASSUME CoreInv, micro # <<>>, Head(micro).name \in {"flushed", "idle"}, AwaitTail
  PROVE  \/ jobs = <<>> /\ UNCHANGED idlers /\ Grows(1, <<Look(Current)>>)
         \/ jobs # <<>> /\ idlers' = Append(idlers, Look(Current)) /\ Grows(1, <<>>)
<1>1. Current \in Nat
  BY HeadTask
<1>2. Look(Current) \in TaskSet
  BY <1>1, LookType
<1>3. CASE jobs = <<>>
  <2>1. Adding(<<Look(Current)>>) /\ UNCHANGED idlers
    BY <1>3 DEF AwaitTail, Look
  <2> QED BY <1>2, <1>3, <2>1, HeadAdds
<1>4. CASE jobs # <<>>
  <2>1. Adding(<<>>) /\ idlers' = Append(idlers, Look(Current))
    BY <1>4 DEF AwaitTail, Look
  <2> QED BY <1>4, <2>1, HeadAddsNone
<1> QED BY <1>3, <1>4

LEMMA EarlyPlaces ==
  /\ \A i \in 1 .. Len(flushers) : Early(flushers[i])
  /\ \A i \in 1 .. Len(idlers) : Early(idlers[i].call)
  /\ \A i \in 1 .. Len(jobs) : i \in 1 .. Len(jobs) /\ jobs[i] = jobs[i]
BY DEF Early

LEMMA HeadIsEarly ==
  ASSUME CoreInv, micro # <<>>, Head(micro).name \in EarlyName
  PROVE  Early(Current)
BY HeadTask DEF Early

LEMMA FlushersGrow ==
  ASSUME CoreInv, NEW c, flushers' = Append(flushers, c), Early(c), c \in Nat
  PROVE  \A i \in 1 .. Len(flushers') : Early(flushers'[i])
<1>1. flushers \in Seq(Nat)
  BY DEF CoreInv, Types
<1>2. Len(flushers) \in Nat /\ Len(flushers') = Len(flushers) + 1 /\ flushers'[Len(flushers) + 1] = c
      /\ \A i \in 1 .. Len(flushers) : flushers'[i] = flushers[i]
  BY <1>1, Appended
<1> QED BY <1>2 DEF Early

LEMMA IdlersGrow ==
  ASSUME CoreInv, NEW t \in TaskSet, idlers' = Append(idlers, t), Early(t.call)
  PROVE  \A i \in 1 .. Len(idlers') : Early(idlers'[i].call)
<1>1. idlers \in Seq(TaskSet)
  BY DEF CoreInv, Types
<1>2. Len(idlers) \in Nat /\ Len(idlers') = Len(idlers) + 1 /\ idlers'[Len(idlers) + 1] = t
      /\ \A i \in 1 .. Len(idlers) : idlers'[i] = idlers[i]
  BY <1>1, Appended
<1> QED BY <1>2 DEF Early

LEMMA PatchQueued ==
  ASSUME CoreInv, jobs' = Append(jobs, None)
  PROVE  \A i \in 1 .. Len(jobs') : (i \in 1 .. Len(jobs) /\ jobs'[i] = jobs[i]) \/ jobs'[i] = None
<1>1. jobs \in Seq(Nat) /\ None \in Nat
  BY DEF CoreInv, Types, None
<1> QED BY <1>1, JobAppended

LEMMA FlushAllOnce ==
  ASSUME CoreInv, CoreInv', OperationsOnce, micro # <<>>, Head(micro).name \in {"operation", "emptied"}, FlushAll,
         UNCHANGED <<settled, runs, idlers>>
  PROVE  OperationsOnce'
<1>1. /\ micro[1].name \in {"operation", "emptied"} /\ Early(Current) /\ Current \in Nat
  BY HeadTask, HeadIsEarly DEF EarlyName
<1>2. CASE edit = "none"
  <2> DEFINE t == Task("flushed", Current, Result("ok", None))
  <2>1. t \in TaskSet /\ t.name = "flushed" /\ t.call = Current
    BY <1>1, GivenTask, Names DEF None
  <2>2. UNCHANGED <<jobs, enqueued, flushers>> /\ Grows(1, <<t>>)
    BY <1>2, FlushAllShape
  <2> HIDE DEF t
  <2>3. \A k \in 1 .. Len(<<t>>) : <<t>>[k].name \notin LateName
          /\ (<<t>>[k].name \in EarlyName => Early(<<t>>[k].call))
    BY <1>1, <2>1, OneTask DEF LateName
  <2> QED BY <1>1, <2>2, <2>3, EarlyPlaces, OperationsRest
<1>3. CASE edit # "none"
  <2>1. PICK s \in Seq(TaskSet) : Grows(1, s) /\ \A k \in 1 .. Len(s) : s[k].name = "job"
    BY <1>3, FlushAllShape
  <2>2. \A k \in 1 .. Len(s) : s[k].name \notin LateName /\ s[k].name \notin EarlyName
    BY <2>1 DEF LateName, EarlyName
  <2>3. \A i \in 1 .. Len(flushers') : Early(flushers'[i])
    BY <1>1, <1>3, FlushAllShape, FlushersGrow
  <2>4. \A i \in 1 .. Len(jobs') : (i \in 1 .. Len(jobs) /\ jobs'[i] = jobs[i]) \/ jobs'[i] = None
    BY <1>3, FlushAllShape, PatchQueued
  <2> QED BY <1>1, <2>1, <2>2, <2>3, <2>4, EarlyPlaces, OperationsRest
<1> QED BY <1>2, <1>3

LEMMA AwaitTailOnce ==
  ASSUME CoreInv, CoreInv', OperationsOnce, micro # <<>>, Head(micro).name \in {"flushed", "idle"}, AwaitTail,
         UNCHANGED <<settled, runs, jobs, flushers>>
  PROVE  OperationsOnce'
<1>1. micro[1].name \in {"flushed", "idle"} /\ Early(Current) /\ Current \in Nat
  BY HeadTask, HeadIsEarly DEF EarlyName
<1>2. Look(Current) \in TaskSet /\ Look(Current).name = "idle" /\ Look(Current).call = Current
  BY <1>1, LookType
<1>3. CASE jobs = <<>>
  <2>1. UNCHANGED idlers /\ Grows(1, <<Look(Current)>>)
    BY <1>3, AwaitTailShape
  <2>2. \A k \in 1 .. Len(<<Look(Current)>>) :
          /\ <<Look(Current)>>[k].name \notin LateName
          /\ <<Look(Current)>>[k].name \in EarlyName => Early(<<Look(Current)>>[k].call)
    BY <1>1, <1>2, OneTask DEF LateName
  <2> QED BY <1>1, <2>1, <2>2, EarlyPlaces, OperationsRest
<1>4. CASE jobs # <<>>
  <2>1. idlers' = Append(idlers, Look(Current)) /\ Grows(1, <<>>)
    BY <1>4, AwaitTailShape
  <2>2. \A i \in 1 .. Len(idlers') : Early(idlers'[i].call)
    BY <1>1, <1>2, <2>1, IdlersGrow
  <2> QED BY <1>1, <2>1, <2>2, NoTask, EarlyPlaces, OperationsRest
<1> QED BY <1>3, <1>4

\* The head of the queue is followed by one task that is not of an operation, or none.
LEMMA PlainTaskOnce ==
  ASSUME CoreInv, CoreInv', OperationsOnce, micro # <<>>, Head(micro).name # "tail",
         UNCHANGED <<settled, flushers, idlers, jobs>>, NEW t \in TaskSet, Adding(<<t>>), t.name \notin LateName,
         t.name \in EarlyName => Early(t.call)
  PROVE  OperationsOnce'
<1>1. Grows(1, <<t>>) /\ micro[1].name # "tail"
  BY HeadAdds, HeadTask
<1>2. \A k \in 1 .. Len(<<t>>) : <<t>>[k].name \notin LateName
        /\ (<<t>>[k].name \in EarlyName => Early(<<t>>[k].call))
  BY OneTask
<1> QED BY <1>1, <1>2, EarlyPlaces, OperationsRest

LEMMA NoTaskOnce ==
  ASSUME CoreInv, CoreInv', OperationsOnce, micro # <<>>, Head(micro).name # "tail",
         UNCHANGED <<settled, flushers, idlers, jobs>>, Adding(<<>>)
  PROVE  OperationsOnce'
BY HeadAddsNone, HeadTask, NoTask, EarlyPlaces, OperationsRest

LEMMA Placed ==
  ASSUME NEW n, NEW s, Grows(n, s)
  PROVE  /\ n \in {0, 1} /\ Len(micro) \in Nat
         /\ \A i \in 1 .. Len(micro') :
              \/ i <= Len(micro) - n /\ i + n \in 1 .. Len(micro) /\ micro'[i] = micro[i + n]
              \/ \E k \in 1 .. Len(s) : i = Len(micro) - n + k /\ micro'[i] = s[k]
         /\ \A i \in 1 .. Len(micro) : i > n => i - n \in 1 .. Len(micro') /\ micro'[i - n] = micro[i]
         /\ \A k \in 1 .. Len(s) : Len(micro) - n + k \in 1 .. Len(micro') /\ micro'[Len(micro) - n + k] = s[k]
BY DEF Grows

LEMMA RunsAreCalls ==
  ASSUME CoreInv
  PROVE  /\ None \notin runs /\ settled \subseteq runs
         /\ \A i \in 1 .. Len(jobs) : jobs[i] # None => jobs[i] \in runs
         /\ \A i \in 1 .. Len(micro) : micro[i].name \in LateName \cup EarlyName => micro[i].call \in runs
<1>1. runs \subseteq Call /\ settled \subseteq runs
  BY MadeIsNat DEF CoreInv, Types
<1>2. None \notin runs
  BY <1>1 DEF None, Call
<1>3. \A i \in 1 .. Len(jobs) : jobs[i] # None => jobs[i] \in runs
  BY DEF CoreInv, WaitsFit
<1>4. \A i \in 1 .. Len(micro) : micro[i].name \in LateName \cup EarlyName => micro[i].call \in runs
  BY DEF CoreInv, TasksFit, TaskFits
<1> QED BY <1>1, <1>2, <1>3, <1>4

\* An operation is over that was before, unless a late task of its is added.
LEMMA OverOnlyOf ==
  ASSUME NEW n, NEW s, Grows(n, s), NEW x, \A k \in 1 .. Len(s) : s[k].name \in LateName => s[k].call # x,
         x \in settled' => x \in settled, Over(x)'
  PROVE  Over(x)
<1>1. CASE x \in settled'
  BY <1>1 DEF Over
<1>2. CASE \E i \in 1 .. Len(micro') : micro'[i].name \in LateName /\ micro'[i].call = x
  <2>1. PICK i \in 1 .. Len(micro') : micro'[i].name \in LateName /\ micro'[i].call = x
    BY <1>2
  <2>2. CASE i + n \in 1 .. Len(micro) /\ micro'[i] = micro[i + n]
    BY <2>1, <2>2 DEF Over
  <2>3. CASE \E k \in 1 .. Len(s) : micro'[i] = s[k]
    BY <2>1, <2>3
  <2> QED BY <2>2, <2>3, Placed
<1> QED BY <1>1, <1>2 DEF Over

\* No operation becomes early but a new one.
LEMMA EarlyStays ==
  ASSUME NEW n, NEW s, Grows(n, s),
         \A k \in 1 .. Len(s) : s[k].name \in EarlyName => Early(s[k].call) \/ s[k].call \notin runs,
         \A i \in 1 .. Len(flushers') : Early(flushers'[i]),
         \A i \in 1 .. Len(idlers') : Early(idlers'[i].call),
         NEW x \in runs, Early(x)'
  PROVE  Early(x)
<1>1. CASE \E i \in 1 .. Len(micro') : micro'[i].name \in EarlyName /\ micro'[i].call = x
  <2>1. PICK i \in 1 .. Len(micro') : micro'[i].name \in EarlyName /\ micro'[i].call = x
    BY <1>1
  <2>2. CASE i + n \in 1 .. Len(micro) /\ micro'[i] = micro[i + n]
    BY <2>1, <2>2 DEF Early
  <2>3. CASE \E k \in 1 .. Len(s) : micro'[i] = s[k]
    BY <2>1, <2>3
  <2> QED BY <2>2, <2>3, Placed
<1>2. CASE \E i \in 1 .. Len(flushers') : flushers'[i] = x
  BY <1>2
<1>3. CASE \E i \in 1 .. Len(idlers') : idlers'[i].call = x
  BY <1>3
<1> QED BY <1>1, <1>2, <1>3 DEF Early

LEMMA TailStays ==
  ASSUME NEW n, NEW s, Grows(n, s), n = 1 => micro[1].name # "tail", TailComes
  PROVE  TailComes'
<1>1. PICK i \in 1 .. Len(micro) : micro[i].name = "tail"
  BY DEF TailComes
<1>2. n \in {0, 1} /\ i > n
  BY <1>1, Placed
<1>3. i - n \in 1 .. Len(micro') /\ micro'[i - n] = micro[i]
  BY <1>2, Placed
<1> QED BY <1>1, <1>3 DEF TailComes

\* An operation c takes the step to be done: it is neither early any more nor was over.
LEMMA OperationEnds ==
  ASSUME CoreInv, CoreInv', OperationsOnce, UNCHANGED <<settled, runs>>, NEW n, NEW s, Grows(n, s),
         n = 1 => micro[1].name # "tail", NEW c \in runs, ~Over(c), ~Early(c)', jobs' = jobs,
         \A k \in 1 .. Len(s) : s[k].name \notin EarlyName /\ (s[k].name \in LateName => s[k].call = c),
         \A k, m \in 1 .. Len(s) : s[k].name \in LateName /\ s[m].name \in LateName => k = m,
         \A i \in 1 .. Len(flushers') : Early(flushers'[i]),
         \A i \in 1 .. Len(idlers') : Early(idlers'[i].call),
         \A i \in 1 .. Len(jobs) : jobs[i] = c => i = 1 /\ TailComes'
  PROVE  OperationsOnce'
<1>1. ASSUME NEW x, x # c, Over(x)' PROVE Over(x)
  BY <1>1, OverOnlyOf
<1>2. ASSUME NEW x \in runs, Early(x)' PROVE Early(x)
  BY <1>2, EarlyStays
<1>3. n \in {0, 1}
  BY DEF Grows
<1>4. ASSUME NEW i \in 1 .. Len(micro'), micro'[i].name \in LateName
      PROVE  \/ i + n \in 1 .. Len(micro) /\ micro'[i] = micro[i + n] /\ micro'[i].call # c
             \/ \E k \in 1 .. Len(s) : i = Len(micro) - n + k /\ micro'[i] = s[k] /\ micro'[i].call = c
  <2>1. CASE i + n \in 1 .. Len(micro) /\ micro'[i] = micro[i + n]
    BY <1>4, <2>1 DEF Over
  <2>2. CASE \E k \in 1 .. Len(s) : i = Len(micro) - n + k /\ micro'[i] = s[k]
    BY <1>4, <2>2
  <2> QED BY <2>1, <2>2, Placed
<1>5. \A x \in runs' : Early(x)' => ~Over(x)' /\ \A i \in 1 .. Len(jobs') : jobs'[i] # x
  BY <1>1, <1>2 DEF OperationsOnce
<1>6. \A i \in 1 .. Len(micro') : micro'[i].name \in LateName => micro'[i].call \notin settled'
  BY <1>4 DEF OperationsOnce, Over
<1>7. \A i, j \in 1 .. Len(micro') :
        micro'[i].name \in LateName /\ micro'[j].name \in LateName /\ micro'[i].call = micro'[j].call => i = j
  <2> SUFFICES ASSUME NEW i \in 1 .. Len(micro'), NEW j \in 1 .. Len(micro'), micro'[i].name \in LateName,
                      micro'[j].name \in LateName, micro'[i].call = micro'[j].call
               PROVE  i = j
    OBVIOUS
  <2>1. CASE micro'[i].call # c
    <3>1. /\ i + n \in 1 .. Len(micro) /\ micro'[i] = micro[i + n]
          /\ j + n \in 1 .. Len(micro) /\ micro'[j] = micro[j + n]
      BY <1>4, <2>1
    <3>2. i + n = j + n
      BY <3>1 DEF OperationsOnce
    <3> QED BY <1>3, <3>2
  <2>2. CASE micro'[i].call = c
    <3>1. PICK k \in 1 .. Len(s) : i = Len(micro) - n + k /\ micro'[i] = s[k]
      BY <1>4, <2>2
    <3>2. PICK m \in 1 .. Len(s) : j = Len(micro) - n + m /\ micro'[j] = s[m]
      BY <1>4, <2>2
    <3> QED BY <3>1, <3>2
  <2> QED BY <2>1, <2>2
<1>8. \A i, j \in 1 .. Len(jobs') : jobs'[i] = jobs'[j] => i = j \/ jobs'[i] = None
  BY DEF OperationsOnce
<1>9. (\A i \in 1 .. Len(jobs) : jobs[i] # None /\ Over(jobs[i]) => i = 1 /\ TailComes)'
  <2>1. ASSUME NEW i \in 1 .. Len(jobs), jobs[i] # None, Over(jobs[i])' PROVE i = 1 /\ TailComes'
    <3>1. CASE jobs[i] = c
      BY <3>1
    <3>2. CASE jobs[i] # c
      BY <1>1, <2>1, <3>2, TailStays DEF OperationsOnce
    <3> QED BY <3>1, <3>2
  <2> QED BY <2>1
<1> QED BY <1>5, <1>6, <1>7, <1>8, <1>9 DEF OperationsOnce

\* An operation that fails or is refused before it has a job.
LEMMA EarlyEndsOnce ==
  ASSUME CoreInv, CoreInv', OperationsOnce, UNCHANGED <<settled, runs, flushers, idlers, jobs>>, micro # <<>>,
         Head(micro).name \in EarlyName, NEW c, c = Current, NEW t \in TaskSet, Adding(<<t>>), t.name = "run",
         t.call = c,
         ~Early(c)'
  PROVE  OperationsOnce'
<1>1. Grows(1, <<t>>) /\ micro[1].name \in EarlyName /\ Early(c) /\ c = micro[1].call /\ 1 \in 1 .. Len(micro)
  BY HeadAdds, HeadTask, HeadIsEarly
<1>2. c \in runs
  BY <1>1, RunsAreCalls
<1>3. ~Over(c) /\ \A i \in 1 .. Len(jobs) : jobs[i] # c
  BY <1>1, <1>2 DEF OperationsOnce
<1>4. micro[1].name # "tail"
  BY <1>1 DEF EarlyName
<1>5. \A k \in 1 .. Len(<<t>>) : k = 1 /\ <<t>>[k].name \notin EarlyName /\ <<t>>[k].call = c
  BY OneTask DEF EarlyName
<1>6. \A k, m \in 1 .. Len(<<t>>) : k = m
  BY <1>5
<1>7. /\ UNCHANGED <<settled, runs>> /\ jobs' = jobs
      /\ \A i \in 1 .. Len(jobs) : jobs[i] = c => i = 1 /\ TailComes'
      /\ \A i \in 1 .. Len(flushers') : Early(flushers'[i])
      /\ \A i \in 1 .. Len(idlers') : Early(idlers'[i].call)
  BY <1>3, EarlyPlaces
<1>8. /\ \A k \in 1 .. Len(<<t>>) : <<t>>[k].name \notin EarlyName
           /\ (<<t>>[k].name \in LateName => <<t>>[k].call = c)
      /\ \A k, m \in 1 .. Len(<<t>>) : <<t>>[k].name \in LateName /\ <<t>>[m].name \in LateName => k = m
  BY <1>5, <1>6
<1> QED BY <1>1, <1>2, <1>3, <1>4, <1>7, <1>8, OperationEnds

\* An operation gets its job.
LEMMA BeginsOnce ==
  ASSUME CoreInv, CoreInv', OperationsOnce, UNCHANGED <<settled, runs, flushers, idlers>>, micro # <<>>,
         Head(micro).name \in EarlyName, NEW c, c = Current, NEW s, Grows(1, s),
         \A k \in 1 .. Len(s) : s[k].name = "job",
         jobs' = Append(jobs, c), ~Early(c)'
  PROVE  OperationsOnce'
<1>1. micro[1].name \in EarlyName /\ Early(c) /\ c = micro[1].call /\ 1 \in 1 .. Len(micro) /\ c \in Nat
  BY HeadTask, HeadIsEarly
<1>2. c \in runs /\ micro[1].name # "tail"
  BY <1>1, RunsAreCalls DEF EarlyName
<1>3. ~Over(c) /\ \A i \in 1 .. Len(jobs) : jobs[i] # c
  BY <1>1, <1>2 DEF OperationsOnce
<1>4. \A k \in 1 .. Len(s) : s[k].name \notin EarlyName /\ s[k].name \notin LateName
  BY DEF EarlyName, LateName
<1>5. ASSUME NEW x, Over(x)' PROVE Over(x)
  <2> QED BY <1>4, <1>5, OverOnlyOf
<1>6. ASSUME NEW x \in runs, Early(x)' PROVE Early(x)
  BY <1>4, <1>6, EarlyPlaces, EarlyStays
<1>7. \A i \in 1 .. Len(jobs') : (i \in 1 .. Len(jobs) /\ jobs'[i] = jobs[i]) \/ (i = Len(jobs') /\ jobs'[i] = c)
  BY <1>1, JobAppended DEF CoreInv, Types
<1>8. \A x \in runs' : Early(x)' => ~Over(x)' /\ \A i \in 1 .. Len(jobs') : jobs'[i] # x
  BY <1>5, <1>6, <1>7 DEF OperationsOnce
<1>9. ASSUME NEW i \in 1 .. Len(micro'), micro'[i].name \in LateName
      PROVE  i + 1 \in 1 .. Len(micro) /\ micro'[i] = micro[i + 1]
  BY <1>4, <1>9 DEF Grows
<1>10. \A i \in 1 .. Len(micro') : micro'[i].name \in LateName => micro'[i].call \notin settled'
  BY <1>9 DEF OperationsOnce
<1>11. \A i, j \in 1 .. Len(micro') :
         micro'[i].name \in LateName /\ micro'[j].name \in LateName /\ micro'[i].call = micro'[j].call => i = j
  <2> SUFFICES ASSUME NEW i \in 1 .. Len(micro'), NEW j \in 1 .. Len(micro'), micro'[i].name \in LateName,
                      micro'[j].name \in LateName, micro'[i].call = micro'[j].call
               PROVE  i = j
    OBVIOUS
  <2>1. /\ i + 1 \in 1 .. Len(micro) /\ micro[i + 1].name \in LateName /\ micro'[i] = micro[i + 1]
        /\ j + 1 \in 1 .. Len(micro) /\ micro[j + 1].name \in LateName /\ micro'[j] = micro[j + 1]
    BY <1>9
  <2>2. i + 1 = j + 1
    BY <2>1 DEF OperationsOnce
  <2> QED BY <2>2
<1>12. \A i, j \in 1 .. Len(jobs') : jobs'[i] = jobs'[j] => i = j \/ jobs'[i] = None
  BY <1>3, <1>7 DEF OperationsOnce
<1>13. (\A i \in 1 .. Len(jobs) : jobs[i] # None /\ Over(jobs[i]) => i = 1 /\ TailComes)'
  <2>1. ASSUME NEW i \in 1 .. Len(jobs'), jobs'[i] # None, Over(jobs[i])' PROVE i = 1 /\ TailComes'
    <3>1. Over(jobs'[i])
      BY <1>5, <2>1 DEF Over
    <3>2. i \in 1 .. Len(jobs) /\ jobs'[i] = jobs[i]
      BY <1>3, <1>7, <3>1
    <3>3. i = 1 /\ TailComes
      BY <2>1, <3>1, <3>2 DEF OperationsOnce
    <3> QED BY <1>2, <3>3, TailStays
  <2> QED BY <2>1
<1> QED BY <1>8, <1>10, <1>11, <1>12, <1>13 DEF OperationsOnce

\* A job ends: its tail settles in the next task, its operation is on the way back.
LEMMA JobLeavesOnce ==
  ASSUME CoreInv, CoreInv', OperationsOnce, UNCHANGED <<settled, runs, flushers, idlers, jobs>>, jobs # <<>>,
         NEW n, ~TailComes, NEW t \in TaskSet, t.name = "tail",
         NEW u \in TaskSet, u.name = "return", NEW c, c = Head(jobs), c # None,
         u.call = c, Grows(n, <<t, u>>)
  PROVE  OperationsOnce'
<1>1. c \in runs /\ 1 \in 1 .. Len(jobs) /\ jobs[1] = c
  BY HeadJob
<1>2. ~Over(c) /\ \A i \in 1 .. Len(jobs) : jobs[i] = c => i = 1
  BY <1>1 DEF OperationsOnce
<1>3. ~Early(c)
  BY <1>1 DEF OperationsOnce
<1>4. /\ \A k \in 1 .. Len(<<t, u>>) :
           <<t, u>>[k].name \notin EarlyName /\ (<<t, u>>[k].name \in LateName => k = 2 /\ <<t, u>>[k].call = c)
      /\ 1 \in 1 .. Len(<<t, u>>) /\ <<t, u>>[1] = t
  <2>1. t.name \notin EarlyName \cup LateName /\ u.name \notin EarlyName
    BY DEF EarlyName, LateName
  <2> QED BY <2>1, TwoTasks
<1>5. ~Early(c)'
  <2>1. /\ \A k \in 1 .. Len(<<t, u>>) : <<t, u>>[k].name \in EarlyName => Early(<<t, u>>[k].call)
             \/ <<t, u>>[k].call \notin runs
        /\ \A i \in 1 .. Len(flushers') : Early(flushers'[i])
        /\ \A i \in 1 .. Len(idlers') : Early(idlers'[i].call)
    BY <1>4, EarlyPlaces
  <2> QED BY <1>1, <1>3, <2>1, EarlyStays
<1>6. TailComes'
  BY <1>4 DEF Grows, TailComes
<1>7. n = 1 => micro[1].name # "tail"
  BY DEF Grows, TailComes
<1>8. /\ UNCHANGED <<settled, runs>> /\ jobs' = jobs
      /\ \A i \in 1 .. Len(jobs) : jobs[i] = c => i = 1 /\ TailComes'
      /\ \A i \in 1 .. Len(flushers') : Early(flushers'[i])
      /\ \A i \in 1 .. Len(idlers') : Early(idlers'[i].call)
  BY <1>2, <1>6, EarlyPlaces
<1>9. /\ \A k \in 1 .. Len(<<t, u>>) :
           <<t, u>>[k].name \notin EarlyName /\ (<<t, u>>[k].name \in LateName => <<t, u>>[k].call = c)
      /\ \A k, m \in 1 .. Len(<<t, u>>) : <<t, u>>[k].name \in LateName /\ <<t, u>>[m].name \in LateName => k = m
  BY <1>4
<1> QED BY <1>1, <1>2, <1>5, <1>7, <1>8, <1>9, OperationEnds

\* The tail settles: its job is gone, and who waited for it looks again.
LEMMA TailGone ==
  ASSUME CoreInv, jobs # <<>>, jobs' = Tail(jobs)
  PROVE  /\ Len(jobs) \in Nat \ {0} /\ Len(jobs') = Len(jobs) - 1
         /\ \A i \in 1 .. Len(jobs') : i + 1 \in 1 .. Len(jobs) /\ jobs'[i] = jobs[i + 1]
<1>1. jobs \in Seq(Nat)
  BY DEF CoreInv, Types
<1> QED BY <1>1

LEMMA OperationReturnsOnce ==
  ASSUME CoreInv, CoreInv', OperationsOnce, UNCHANGED <<runs, flushers, idlers, jobs>>, micro # <<>>,
         Head(micro).name \in LateName, NEW s, Grows(1, s), 
         \/ settled' = settled /\ \A k \in 1 .. Len(s) : s[k].name \notin EarlyName /\ k = 1 /\ s[k].call = Current
         \/ settled' = settled \cup {Current} /\ \A k \in 1 .. Len(s) : s[k].name \notin EarlyName \cup LateName
  PROVE  OperationsOnce'
<1>1. micro[1].name \in LateName /\ Current = micro[1].call /\ 1 \in 1 .. Len(micro) /\ Current \in runs
  BY HeadTask, RunsAreCalls
<1>2. Over(Current)
  BY <1>1 DEF Over
<1>3. ASSUME NEW x, Over(x)' PROVE Over(x)
  BY <1>2, <1>3, OverOnlyOf
<1>4. ASSUME NEW x \in runs, Early(x)' PROVE Early(x)
  BY <1>4, EarlyPlaces, EarlyStays
<1>5. micro[1].name # "tail"
  BY <1>1 DEF LateName
<1>6. \A x \in runs' : Early(x)' => ~Over(x)' /\ \A i \in 1 .. Len(jobs') : jobs'[i] # x
  BY <1>3, <1>4 DEF OperationsOnce
<1>7. ASSUME NEW i \in 1 .. Len(micro'), micro'[i].name \in LateName
      PROVE  \/ i + 1 \in 1 .. Len(micro) /\ micro'[i] = micro[i + 1] /\ micro'[i].call # Current
             \/ settled' = settled /\ i = Len(micro) /\ micro'[i].call = Current
  <2>1. CASE i + 1 \in 1 .. Len(micro) /\ micro'[i] = micro[i + 1]
    <3>1. micro[i + 1].call # Current
      BY <1>1, <1>7, <2>1 DEF OperationsOnce
    <3> QED BY <2>1, <3>1
  <2>2. CASE \E k \in 1 .. Len(s) : i = Len(micro) - 1 + k /\ micro'[i] = s[k]
    BY <1>1, <1>7, <2>2
  <2> QED BY <2>1, <2>2 DEF Grows
<1>8. \A i \in 1 .. Len(micro') : micro'[i].name \in LateName => micro'[i].call \notin settled'
  BY <1>1, <1>7 DEF OperationsOnce
<1>9. \A i, j \in 1 .. Len(micro') :
        micro'[i].name \in LateName /\ micro'[j].name \in LateName /\ micro'[i].call = micro'[j].call => i = j
  <2> SUFFICES ASSUME NEW i \in 1 .. Len(micro'), NEW j \in 1 .. Len(micro'), micro'[i].name \in LateName,
                      micro'[j].name \in LateName, micro'[i].call = micro'[j].call
               PROVE  i = j
    OBVIOUS
  <2>1. CASE micro'[i].call = Current
    BY <1>7, <2>1
  <2>2. CASE micro'[i].call # Current
    <3>1. i + 1 = j + 1
      BY <1>7, <2>2 DEF OperationsOnce
    <3> QED BY <3>1
  <2> QED BY <2>1, <2>2
<1>10. \A i, j \in 1 .. Len(jobs') : jobs'[i] = jobs'[j] => i = j \/ jobs'[i] = None
  BY DEF OperationsOnce
<1>11. (\A i \in 1 .. Len(jobs) : jobs[i] # None /\ Over(jobs[i]) => i = 1 /\ TailComes)'
  BY <1>3, <1>5, TailStays DEF OperationsOnce
<1> QED BY <1>6, <1>8, <1>9, <1>10, <1>11 DEF OperationsOnce

(***************************************************************************)
(* What each step does                                                     *)
(***************************************************************************)
\* Nothing an operation waits for on its way to the queue of jobs.
PlacesRest == UNCHANGED <<jobs, enqueued, idlers, flushers, edit>>

\* The tasks of s are the reactions r, told of a result.
Tells(s, r) ==
  /\ Len(s) = Len(r)
  /\ \A k \in 1 .. Len(s) : s[k].name = r[k].name /\ s[k].call = r[k].call

LEMMA ReturnsShape ==
  ASSUME CoreInv, Returns
  PROVE  /\ micro # <<>> /\ Head(micro).name = "return" /\ PlacesRest
         /\ UNCHANGED <<flightVars, promiseVars, newest, viewVars, retained>>
         /\ \E t \in TaskSet : t.name = "run" /\ t.call = Current /\ Adding(<<t>>)
<1>1. micro # <<>> /\ Head(micro).name = "return" /\ Adding(<<Task("run", Current, Given)>>)
  BY DEF Returns, Runs
<1>2. Current \in Nat /\ Given \in ResultSet
  BY <1>1, HeadTask
<1>3. Task("run", Current, Given) \in TaskSet /\ Task("run", Current, Given).name = "run"
        /\ Task("run", Current, Given).call = Current
  BY <1>2, TaskType, Names
<1> QED BY <1>1, <1>3 DEF Returns, PlacesRest, queueVars, editVars

LEMMA RunSettlesShape ==
  ASSUME CoreInv, RunSettles
  PROVE  /\ micro # <<>> /\ Head(micro).name = "run" /\ PlacesRest /\ UNCHANGED <<flightVars, newest, viewVars, retained>>
         /\ Current \in runs /\ Current \in Call /\ settled' = settled \cup {Current}
         /\ \A x \in Call : reactions'[Run(x)] = IF x = Current THEN <<>> ELSE reactions[Run(x)]
         /\ \A x \in Call : reactions'[Entry(x)] = reactions[Entry(x)]
         /\ \E s \in Seq(TaskSet) : Grows(1, s) /\ Tells(s, reactions[Run(Current)])
<1>1. /\ micro # <<>> /\ Head(micro).name = "run" /\ reactions' = [reactions EXCEPT ![Run(Current)] = <<>>]
      /\ Adding(Told(Run(Current), Given)) /\ settled' = settled \cup {Current}
  BY DEF RunSettles, Runs, Settle
<1>2. Current \in Nat /\ Given \in ResultSet /\ micro[1].name = "run" /\ Current = micro[1].call
        /\ 1 \in 1 .. Len(micro)
  BY <1>1, HeadTask
<1>3. Current \in runs /\ Current \in Call
  BY <1>2, RunsAreCalls, MadeIsNat DEF LateName
<1>4. reactions \in [Promise -> Seq(TaskSet)]
  BY DEF CoreInv, Types
<1>5. /\ \A x \in Call : reactions'[Run(x)] = (IF x = Current THEN <<>> ELSE reactions[Run(x)])
      /\ \A x \in Call : reactions'[Entry(x)] = reactions[Entry(x)]
  BY <1>1, <1>3, <1>4, RunCleared
<1>6. Told(Run(Current), Given) \in Seq(TaskSet) /\ Tells(Told(Run(Current), Given), reactions[Run(Current)])
  BY <1>2, <1>3, <1>4, ToldOfRun DEF Tells
<1>7. Grows(1, Told(Run(Current), Given))
  BY <1>1, <1>6, HeadGone, MicroType DEF Adding
<1> QED BY <1>1, <1>3, <1>5, <1>6, <1>7 DEF RunSettles, PlacesRest, queueVars, editVars

LEMMA EntrySettlesShape ==
  ASSUME CoreInv, EntrySettles
  PROVE  /\ micro # <<>> /\ Head(micro).name = "entry" /\ PlacesRest
         /\ UNCHANGED <<flightVars, settled, newest, viewVars, retained>>
         /\ Current \in Call
         /\ \A x \in Call : reactions'[Entry(x)] = IF x = Current THEN <<>> ELSE reactions[Entry(x)]
         /\ \A x \in Call : reactions'[Run(x)] = reactions[Run(x)]
         /\ \E s \in Seq(TaskSet) : Grows(1, s) /\ Tells(s, reactions[Entry(Current)])
<1>1. /\ micro # <<>> /\ Head(micro).name = "entry" /\ reactions' = [reactions EXCEPT ![Entry(Current)] = <<>>]
      /\ Adding(Told(Entry(Current), Given))
  BY DEF EntrySettles, Runs, Settle
<1>2. Current \in Nat /\ Given \in ResultSet /\ micro[1].name = "entry" /\ Current = micro[1].call
        /\ TaskFits(micro[1])
  BY <1>1, HeadTask
<1>3. Current \in Call
  BY <1>2, MadeIsNat DEF TaskFits
<1>4. reactions \in [Promise -> Seq(TaskSet)]
  BY DEF CoreInv, Types
<1>5. /\ \A x \in Call : reactions'[Entry(x)] = (IF x = Current THEN <<>> ELSE reactions[Entry(x)])
      /\ \A x \in Call : reactions'[Run(x)] = reactions[Run(x)]
  BY <1>1, <1>3, <1>4, EntryCleared
<1>6. Told(Entry(Current), Given) \in Seq(TaskSet) /\ Tells(Told(Entry(Current), Given), reactions[Entry(Current)])
  BY <1>2, <1>3, <1>4, ToldOfEntry DEF Tells
<1>7. Grows(1, Told(Entry(Current), Given))
  BY <1>1, <1>6, HeadGone, MicroType DEF Adding
<1> QED BY <1>1, <1>3, <1>5, <1>6, <1>7 DEF EntrySettles, PlacesRest, queueVars, editVars

LEMMA TurnShape ==
  ASSUME CoreInv, Turn
  PROVE  /\ micro # <<>> /\ Head(micro).name = "turn" /\ PlacesRest
         /\ UNCHANGED <<want, settled, newest, viewVars, retained>>
         /\ Current \in 1 .. Made /\ Current \in Call /\ queued' = (IF queued = Current THEN None ELSE queued)
         /\ \/ /\ active \in runs /\ want[active] = want[Current] /\ UNCHANGED <<active, runs, reactions>>
               /\ \E t \in TaskSet : t.name = "follow" /\ t.call = Current /\ t.arg.from = active /\ Adding(<<t>>)
            \/ /\ active' = Current /\ runs' = runs \cup {Current}
               /\ \A x \in Call : reactions'[Run(x)] = (IF x = Current THEN <<Task("clear", Current, Nothing)>> ELSE reactions[Run(x)])
               /\ \A x \in Call : reactions'[Entry(x)] = reactions[Entry(x)]
               /\ \E t, u \in TaskSet : /\ t.name = "operation" /\ t.call = Current
                                        /\ u.name = "follow" /\ u.call = Current /\ u.arg.from = Current
                                        /\ Grows(1, <<t, u>>)
<1>1. /\ micro # <<>> /\ Head(micro).name = "turn" /\ queued' = (IF queued = Current THEN None ELSE queued)
  BY DEF Turn, Runs
<1>2. Current \in Nat /\ micro[1].name = "turn" /\ Current = micro[1].call /\ TaskFits(micro[1])
  BY <1>1, HeadTask
<1>3. Current \in 1 .. Made /\ Current \in Call
  BY <1>2, MadeIsNat DEF TaskFits
<1>4. PlacesRest /\ UNCHANGED <<want, settled, newest, viewVars, retained>>
  BY DEF Turn, PlacesRest, queueVars, editVars
<1>5. CASE active # None /\ want[active] = want[Current]
  <2> DEFINE t == Task("follow", Current, Result("none", active))
  <2>1. active \in runs /\ active \in Nat
    BY <1>5, MadeIsNat DEF CoreInv, Types, Call
  <2>2. t \in TaskSet /\ t.name = "follow" /\ t.call = Current /\ t.arg.from = active
    BY <1>2, <2>1, Names DEF Task, Result, TaskSet, ResultSet
  <2>3. Adding(<<t>>) /\ UNCHANGED <<active, runs, reactions>>
    BY <1>5 DEF Turn
  <2> HIDE DEF t
  <2>4. \E w \in TaskSet : w.name = "follow" /\ w.call = Current /\ w.arg.from = active /\ Adding(<<w>>)
    BY <2>2, <2>3
  <2> QED BY <1>1, <1>3, <1>4, <1>5, <2>1, <2>3, <2>4
<1>6. CASE ~(active # None /\ want[active] = want[Current])
  <2> DEFINE t == Task("operation", Current, Nothing)
             u == Task("follow", Current, Result("none", Current))
             v == Task("clear", Current, Nothing)
  <2>1. /\ Adding(<<t, u>>) /\ active' = Current /\ runs' = runs \cup {Current}
        /\ reactions' = [reactions EXCEPT ![Run(Current)] = <<v>>]
    BY <1>6 DEF Turn
  <2>2. /\ t \in TaskSet /\ t.name = "operation" /\ t.call = Current
        /\ u \in TaskSet /\ u.name = "follow" /\ u.call = Current /\ u.arg.from = Current
        /\ v \in TaskSet
    BY <1>2, Names DEF Task, Result, Nothing, None, TaskSet, ResultSet
  <2> HIDE DEF t, u
  <2>3. Grows(1, <<t, u>>)
    <3>1. micro \in Seq(TaskSet) /\ <<t, u>> \in Seq(TaskSet) /\ micro' = Tail(micro) \o <<t, u>>
      BY <2>1, <2>2, TwoTasks, MicroType DEF Adding
    <3> QED BY <1>1, <3>1, HeadGone
  <2>4. reactions \in [Promise -> Seq(TaskSet)] /\ <<v>> \in Seq(TaskSet)
    BY <2>2 DEF CoreInv, Types
  <2>5. /\ \A x \in Call : reactions'[Run(x)] = (IF x = Current THEN <<v>> ELSE reactions[Run(x)])
        /\ \A x \in Call : reactions'[Entry(x)] = reactions[Entry(x)]
    BY <1>3, <2>1, <2>4, RunChanged
  <2>6. \E t1, t2 \in TaskSet : /\ t1.name = "operation" /\ t1.call = Current
                               /\ t2.name = "follow" /\ t2.call = Current /\ t2.arg.from = Current
                               /\ Grows(1, <<t1, t2>>)
    BY <2>2, <2>3
  <2> QED BY <1>1, <1>3, <1>4, <2>1, <2>5, <2>6 DEF v
<1> QED BY <1>5, <1>6

\* The promise p got one more reaction, t.
Gets(p, t) ==
  /\ Len(reactions[p]) \in Nat /\ Len(reactions'[p]) = Len(reactions[p]) + 1
  /\ \A i \in 1 .. Len(reactions[p]) : reactions'[p][i] = reactions[p][i]
  /\ reactions'[p][Len(reactions[p]) + 1] = t

LEMMA FollowShape ==
  ASSUME CoreInv, Follow
  PROVE  /\ micro # <<>> /\ Head(micro).name = "follow" /\ PlacesRest /\ Adding(<<>>)
         /\ UNCHANGED <<flightVars, settled, newest, viewVars, retained>>
         /\ Given.from \in runs /\ Given.from \in Call /\ Current \in 1 .. Made
         /\ \A x \in Call : x # Given.from => reactions'[Run(x)] = reactions[Run(x)]
         /\ \A x \in Call : reactions'[Entry(x)] = reactions[Entry(x)]
         /\ \E t \in TaskSet : t.name = "entry" /\ t.call = Current /\ Gets(Run(Given.from), t)
<1>1. micro # <<>> /\ Head(micro).name = "follow" /\ Adding(<<>>)
      /\ reactions' = Then(Run(Given.from), Task("entry", Current, Nothing))
  BY DEF Follow, Runs
<1>2. Current \in Nat /\ micro[1].name = "follow" /\ Current = micro[1].call /\ Given = micro[1].arg
        /\ TaskFits(micro[1])
  BY <1>1, HeadTask
<1>3. Current \in 1 .. Made /\ Given.from \in runs /\ Given.from \in Call
  BY <1>2, MadeIsNat DEF TaskFits
<1> DEFINE t == Task("entry", Current, Nothing)
<1>4. t \in TaskSet /\ t.name = "entry" /\ t.call = Current
  BY <1>2, PlainTask, Names
<1>5. reactions \in [Promise -> Seq(TaskSet)]
  BY DEF CoreInv, Types
<1>6. /\ \A x \in Call : x # Given.from => reactions'[Run(x)] = reactions[Run(x)]
      /\ \A x \in Call : reactions'[Entry(x)] = reactions[Entry(x)]
      /\ Gets(Run(Given.from), t)
  BY <1>1, <1>3, <1>4, <1>5, RunAppended DEF Gets
<1> QED BY <1>1, <1>3, <1>4, <1>6 DEF Follow, PlacesRest, queueVars, editVars

LEMMA PromisesApart ==
  /\ \A x, y \in Call : Run(x) # Entry(y)
  /\ \A x, y \in Call : x # y => Run(x) # Run(y) /\ Entry(x) # Entry(y)
  /\ \A x \in Call : Run(x) \in Promise /\ Entry(x) \in Promise
BY DEF Run, Entry, Promise

LEMMA ThenGets ==
  ASSUME reactions \in [Promise -> Seq(TaskSet)], NEW p \in Promise, NEW t \in TaskSet,
         reactions' = [reactions EXCEPT ![p] = Append(@, t)]
  PROVE  Gets(p, t) /\ \A q \in Promise : q # p => reactions'[q] = reactions[q]
<1>1. reactions[p] \in Seq(TaskSet)
  OBVIOUS
<1>2. reactions'[p] = Append(reactions[p], t)
  OBVIOUS
<1>3. Gets(p, t)
  BY <1>1, <1>2, Appended DEF Gets
<1> QED BY <1>3

\* The five things a new call may do.
Starts(c) ==
  /\ active = None /\ active' = c /\ runs' = runs \cup {c} /\ queued' = queued
  /\ \E t \in TaskSet : t.name = "operation" /\ t.call = c /\ Grows(0, <<t>>)
  /\ Len(reactions'[Run(c)]) = 2 /\ reactions'[Run(c)][1].name = "clear" /\ reactions'[Run(c)][2].name = "caller"
  /\ \A p \in Promise : p # Run(c) => reactions'[p] = reactions[p]

Skipped(c) ==
  /\ active # None /\ UNCHANGED <<active, runs, queued, reactions>>
  /\ want'[c] = "automatic"
  /\ \E t \in TaskSet : t.name = "caller" /\ t.call = c /\ Grows(0, <<t>>)

Joined(c) ==
  /\ active # None /\ UNCHANGED <<active, runs, queued, micro>>
  /\ \E p \in Promise, t \in TaskSet :
       /\ p = Run(active) \/ (queued # None /\ p = Entry(queued))
       /\ t.name = "caller" /\ t.call = c /\ Gets(p, t)
       /\ \A q \in Promise : q # p => reactions'[q] = reactions[q]

Queued(c) ==
  /\ active # None /\ UNCHANGED <<active, runs, micro>> /\ queued' = c /\ want'[c] # "automatic"
  /\ \E p \in Promise, t, u \in TaskSet :
       /\ p = IF queued = None THEN Run(active) ELSE Entry(queued)
       /\ t.name = "after" /\ t.call = c /\ Gets(p, t)
       /\ u.name = "caller" /\ u.call = c /\ Gets(Entry(c), u)
       /\ \A q \in Promise : q # p /\ q # Entry(c) => reactions'[q] = reactions[q]

LEMMA AskShape ==
  ASSUME CoreInv, NEW kind \in Kind, Ask(kind), NEW c, c = Made + 1
  PROVE  /\ PlacesRest /\ UNCHANGED <<settled, newest, viewVars, retained>>
         /\ c \in Call /\ c \notin 1 .. Made /\ c # None /\ want'[c] = kind /\ Made' = Made + 1
         /\ \A x \in 1 .. Made : x \in 1 .. Made' /\ want'[x] = want[x]
         /\ Starts(c) \/ Skipped(c) \/ Joined(c) \/ Queued(c)
<1>1. /\ Made < MaxCalls /\ want' = Append(want, kind)
           /\ (StartAtOnce(c) \/ Skip(c, kind) \/ Join(c, kind) \/ Queue(c, kind))
      /\ UNCHANGED <<settled, newest, queueVars, editVars, viewVars, answered>>
  BY DEF Ask
<1>2. runs \subseteq runs'
  BY <1>1 DEF StartAtOnce, Skip, Join, Queue
<1>3. /\ want' \in Seq(Kind) /\ Made \in Nat /\ Made' = Made + 1 /\ c \in Call /\ c \in Nat /\ want'[c] = kind
      /\ \A x \in 1 .. Made : x \in 1 .. Made' /\ want'[x] = want[x]
  BY <1>1, <1>2, NewCall
<1>4. c \notin 1 .. Made /\ c # None
  BY <1>3 DEF None
<1>5. /\ reactions \in [Promise -> Seq(TaskSet)] /\ micro \in Seq(TaskSet) /\ active \in runs \cup {None}
      /\ queued \in 0 .. Made /\ runs \subseteq Call
  BY MadeIsNat DEF CoreInv, Types
<1>6. /\ active # None => active \in Call /\ Run(active) \in Promise
      /\ queued # None => queued \in Call /\ Entry(queued) \in Promise /\ queued # c
  <2>1. queued # None => queued \in 1 .. Made
    BY <1>3, <1>5 DEF None
  <2> QED BY <1>4, <1>5, <2>1, PromisesApart, MadeIsNat
<1>7. CASE StartAtOnce(c)
  <2> DEFINE t == Task("operation", c, Nothing)
             v == Task("clear", c, Nothing)
             u == Awaits(c)
  <2>1. /\ active = None /\ active' = c /\ runs' = runs \cup {c} /\ queued' = queued
        /\ micro' = Append(micro, t) /\ reactions' = [reactions EXCEPT ![Run(c)] = <<v, u>>]
    BY <1>7 DEF StartAtOnce
  <2>2. /\ t \in TaskSet /\ t.name = "operation" /\ t.call = c
        /\ v \in TaskSet /\ v.name = "clear" /\ u \in TaskSet /\ u.name = "caller"
    BY <1>3, Names, PlainTask, AwaitsType
  <2> HIDE DEF t, u, v
  <2>3. Grows(0, <<t>>)
    <3>1. <<t>> \in Seq(TaskSet) /\ micro' = micro \o <<t>>
      BY <1>5, <2>1, <2>2
    <3> QED BY <1>5, <3>1, Grown
  <2>4. reactions'[Run(c)] = <<v, u>> /\ \A p \in Promise : p # Run(c) => reactions'[p] = reactions[p]
    BY <1>3, <1>5, <2>1, PromisesApart
  <2>5. Len(<<v, u>>) = 2 /\ <<v, u>>[1] = v /\ <<v, u>>[2] = u
    BY <2>2
  <2>6. \E w \in TaskSet : w.name = "operation" /\ w.call = c /\ Grows(0, <<w>>)
    BY <2>2, <2>3
  <2>7. Starts(c)
    BY <2>1, <2>2, <2>4, <2>5, <2>6 DEF Starts
  <2> QED BY <1>1, <1>3, <1>4, <2>7 DEF PlacesRest, queueVars, editVars
<1>8. CASE Skip(c, kind)
  <2> DEFINE t == Task("caller", c, Result("skipped", c))
  <2>1. active # None /\ kind = "automatic" /\ micro' = Append(micro, t)
          /\ UNCHANGED <<runs, active, queued, reactions>>
    BY <1>8 DEF Skip, Skips
  <2>2. t \in TaskSet /\ t.name = "caller" /\ t.call = c
    BY <1>3, Names DEF Task, Result, TaskSet, ResultSet
  <2> HIDE DEF t
  <2>3. Grows(0, <<t>>)
    <3>1. <<t>> \in Seq(TaskSet) /\ micro' = micro \o <<t>>
      BY <1>5, <2>1, <2>2
    <3> QED BY <1>5, <3>1, Grown
  <2>4. \E w \in TaskSet : w.name = "caller" /\ w.call = c /\ Grows(0, <<w>>)
    BY <2>2, <2>3
  <2>5. Skipped(c)
    BY <1>3, <2>1, <2>4 DEF Skipped
  <2> QED BY <1>1, <1>3, <1>4, <2>5 DEF PlacesRest, queueVars, editVars
<1>9. Awaits(c) \in TaskSet /\ Awaits(c).name = "caller" /\ Awaits(c).call = c
  BY <1>3, AwaitsType
<1>10. ASSUME active # None, UNCHANGED <<active, runs, queued, micro>>, NEW p \in Promise,
              p = Run(active) \/ (queued # None /\ p = Entry(queued)), reactions' = Then(p, Awaits(c))
       PROVE  Joined(c)
  <2>1. Gets(p, Awaits(c)) /\ \A q \in Promise : q # p => reactions'[q] = reactions[q]
    BY <1>5, <1>9, <1>10, ThenGets DEF Then
  <2> QED BY <1>9, <1>10, <2>1 DEF Joined
<1>11. CASE Join(c, kind)
  <2>1. Joined(c)
    BY <1>6, <1>10, <1>11 DEF Join, Joins
  <2> QED BY <1>1, <1>3, <1>4, <2>1 DEF PlacesRest, queueVars, editVars
<1>12. CASE Queue(c, kind) /\ queued # None /\ want[queued] = kind
  <2>1. Joined(c)
    BY <1>6, <1>10, <1>12 DEF Queue
  <2> QED BY <1>1, <1>3, <1>4, <2>1 DEF PlacesRest, queueVars, editVars
<1>13. CASE Queue(c, kind) /\ ~(queued # None /\ want[queued] = kind)
  <2> DEFINE p == IF queued = None THEN Run(active) ELSE Entry(queued)
             t == Task("after", c, Nothing)
             u == Awaits(c)
             first == reactions[p]
             second == reactions[Entry(c)]
  <2>1. /\ active # None /\ kind # "automatic" /\ queued' = c /\ UNCHANGED <<active, runs, micro>>
        /\ reactions' = [Then(p, t) EXCEPT ![Entry(c)] = Append(@, u)]
    BY <1>13 DEF Queue, Skips
  <2>2. p \in Promise /\ Entry(c) \in Promise /\ p # Entry(c)
    BY <1>3, <1>6, <2>1, PromisesApart
  <2>3. t \in TaskSet /\ t.name = "after" /\ t.call = c /\ u \in TaskSet /\ u.name = "caller" /\ u.call = c
    BY <1>3, <1>9, Names, PlainTask
  <2> HIDE DEF t, u, p
  <2>4. first \in Seq(TaskSet) /\ second \in Seq(TaskSet)
    BY <1>5, <2>2
  <2>5. /\ reactions'[p] = Append(first, t) /\ reactions'[Entry(c)] = Append(second, u)
        /\ \A q \in Promise : q # p /\ q # Entry(c) => reactions'[q] = reactions[q]
    BY <1>5, <2>1, <2>2 DEF Then
  <2>6. Gets(p, t) /\ Gets(Entry(c), u)
    BY <2>3, <2>4, <2>5, Appended DEF Gets
  <2>7. \E q \in Promise, w1, w2 \in TaskSet :
          /\ q = IF queued = None THEN Run(active) ELSE Entry(queued)
          /\ w1.name = "after" /\ w1.call = c /\ Gets(q, w1)
          /\ w2.name = "caller" /\ w2.call = c /\ Gets(Entry(c), w2)
          /\ \A r \in Promise : r # q /\ r # Entry(c) => reactions'[r] = reactions[r]
    <3>1. p = IF queued = None THEN Run(active) ELSE Entry(queued)
      BY DEF p
    <3> QED BY <2>2, <2>3, <2>5, <2>6, <3>1
  <2>8. Queued(c)
    BY <1>3, <2>1, <2>7 DEF Queued
  <2> QED BY <1>1, <1>3, <1>4, <2>8 DEF PlacesRest, queueVars, editVars
<1> QED BY <1>1, <1>7, <1>8, <1>11, <1>12, <1>13

\* The jobs of the ordered queue that start when it was idle.
LEMMA StartIfIdleType ==
  /\ StartIfIdle \in Seq(TaskSet)
  /\ \A k \in 1 .. Len(StartIfIdle) : StartIfIdle[k].name = "job"
<1>1. Task("job", None, Nothing) \in TaskSet /\ Task("job", None, Nothing).name = "job"
  BY PlainTask, Names DEF None
<1>2. CASE jobs = <<>>
  <2>1. StartIfIdle = <<Task("job", None, Nothing)>>
    BY <1>2 DEF StartIfIdle
  <2> QED BY <1>1, <2>1, OneTask
<1>3. CASE jobs # <<>>
  <2>1. StartIfIdle = <<>>
    BY <1>3 DEF StartIfIdle
  <2> QED BY <2>1, NoTask
<1> QED BY <1>2, <1>3

LEMMA BeginShape ==
  ASSUME CoreInv, Begin
  PROVE  /\ micro # <<>> /\ Head(micro).name = "begin" /\ Current \in runs
         /\ UNCHANGED <<flightVars, promiseVars, idlers, flushers, edit, retained, loaded>>
         /\ status' = Announced(Current)
         /\ \/ /\ Safe(Current) /\ newest' = Current /\ jobs' = Append(jobs, Current) /\ enqueued' = enqueued + 1
               /\ \E s \in Seq(TaskSet) : Grows(1, s) /\ \A k \in 1 .. Len(s) : s[k].name = "job"
            \/ /\ ~Safe(Current) /\ UNCHANGED <<newest, jobs, enqueued>>
               /\ \E t \in TaskSet : t.name = "run" /\ t.call = Current /\ Adding(<<t>>)
<1>1. /\ micro # <<>> /\ Head(micro).name = "begin" /\ status' = Announced(Current)
      /\ UNCHANGED <<flightVars, promiseVars, idlers, flushers, edit, retained, loaded>>
  BY DEF Begin, Runs, editVars
<1>2. Current \in Nat /\ Current \in runs
  BY <1>1, HeadTask DEF TaskFits, EarlyName
<1>3. CASE Safe(Current)
  <2>1. newest' = Current /\ jobs' = Append(jobs, Current) /\ enqueued' = enqueued + 1 /\ Adding(StartIfIdle)
    BY <1>3 DEF Begin, Enqueue
  <2>2. Grows(1, StartIfIdle)
    BY <1>1, <2>1, StartIfIdleType, HeadGone, MicroType DEF Adding
  <2> QED BY <1>1, <1>2, <1>3, <2>1, <2>2, StartIfIdleType
<1>4. CASE ~Safe(Current)
  <2> DEFINE t == Task("run", Current, Result("refused", Current))
  <2>1. Adding(<<t>>) /\ UNCHANGED <<newest, jobs, enqueued>>
    BY <1>4 DEF Begin
  <2>2. t \in TaskSet /\ t.name = "run" /\ t.call = Current
    BY <1>2, Names DEF Task, Result, TaskSet, ResultSet
  <2> HIDE DEF t
  <2>3. \E w \in TaskSet : w.name = "run" /\ w.call = Current /\ Adding(<<w>>)
    BY <2>1, <2>2
  <2> QED BY <1>1, <1>2, <1>4, <2>1, <2>3
<1> QED BY <1>3, <1>4

LEMMA JobStartsShape ==
  ASSUME CoreInv, JobStarts
  PROVE  /\ micro # <<>> /\ Head(micro).name = "job" /\ PlacesRest /\ ~TailComes
         /\ UNCHANGED <<flightVars, promiseVars, newest, viewVars, retained>>
         /\ jobs # <<>>
         /\ \/ Adding(<<>>)
            \/ /\ Head(jobs) # None /\ Head(jobs) # newest
               /\ \E t, u \in TaskSet : t.name = "tail" /\ u.name = "return" /\ u.call = Head(jobs)
                    /\ Grows(1, <<t, u>>)
<1>1. micro # <<>> /\ Head(micro).name = "job"
  BY DEF JobStarts, Runs
<1>2. PlacesRest /\ UNCHANGED <<flightVars, promiseVars, newest, viewVars, retained>>
  BY DEF JobStarts, PlacesRest, editVars
<1>3. micro[1].name = "job" /\ 1 \in 1 .. Len(micro)
  BY <1>1, HeadTask
<1>4. jobs # <<>> /\ ~TailComes
  <2>1. jobs # <<>> /\ \A j \in 1 .. Len(micro) : micro[j].name \in {"job", "tail"} => 1 = j
    BY <1>3 DEF CoreInv, JobsGoOn
  <2> QED BY <1>3, <2>1 DEF TailComes
<1>5. CASE Head(jobs) = None \/ Head(jobs) = newest
  BY <1>1, <1>2, <1>4, <1>5 DEF JobStarts, IsCurrent
<1>6. CASE ~(Head(jobs) = None \/ Head(jobs) = newest)
  <2> DEFINE c == Head(jobs)
             t == Task("tail", None, Nothing)
             u == Task("return", c, Result("superseded", c))
  <2>1. Adding(<<t>> \o <<u>>)
    BY <1>6 DEF JobStarts, IsCurrent, Leave
  <2>2. c \in Nat
    BY <1>4, HeadJob
  <2>3. t \in TaskSet /\ t.name = "tail" /\ u \in TaskSet /\ u.name = "return" /\ u.call = c
    BY <2>2, Names DEF Task, Result, Nothing, None, TaskSet, ResultSet
  <2> HIDE DEF t, u
  <2>4. /\ <<t, u>> \in Seq(TaskSet) /\ micro' = Tail(micro) \o <<t, u>>
    BY <2>1, <2>3, Pair, TwoTasks DEF Adding
  <2>5. Grows(1, <<t, u>>)
    BY <1>1, <2>4, HeadGone, MicroType
  <2>6. \E w1, w2 \in TaskSet : w1.name = "tail" /\ w2.name = "return" /\ w2.call = Head(jobs) /\ Grows(1, <<w1, w2>>)
    BY <2>3, <2>5
  <2> QED BY <1>1, <1>2, <1>4, <1>6, <2>6
<1> QED BY <1>5, <1>6

LEMMA LoadShape ==
  ASSUME CoreInv, LoadSucceeds \/ LoadFails
  PROVE  /\ micro = <<>> /\ PlacesRest /\ UNCHANGED <<flightVars, promiseVars, newest>>
         /\ jobs # <<>> /\ Head(jobs) # None
         /\ \E t, u \in TaskSet : t.name = "tail" /\ u.name = "return" /\ u.call = Head(jobs) /\ Grows(0, <<t, u>>)
<1> DEFINE c == Head(jobs)
<1>1. micro = <<>> /\ working /\ c # None /\ PlacesRest /\ UNCHANGED <<flightVars, promiseVars, newest>>
  BY DEF LoadSucceeds, LoadFails, Quiet, PlacesRest, editVars
<1>2. jobs # <<>> /\ c \in Nat
  BY <1>1, HeadJob DEF CoreInv, JobsGoOn
<1>3. \E code \in {"ok", "failed", "superseded"} : Answered(Result(code, c))
  <2>1. CASE LoadSucceeds
    BY <2>1 DEF LoadSucceeds
  <2>2. CASE LoadFails
    BY <2>2 DEF LoadFails
  <2> QED BY <2>1, <2>2
<1>4. PICK code \in {"ok", "failed", "superseded"} : Answered(Result(code, c))
  BY <1>3
<1> DEFINE t == Task("tail", None, Nothing)
           u == Task("return", c, Result(code, c))
<1>5. micro' = <<t, u>>
  BY <1>4 DEF Answered
<1>6. t \in TaskSet /\ t.name = "tail" /\ u \in TaskSet /\ u.name = "return" /\ u.call = c
  BY <1>2, Names DEF Task, Result, Nothing, None, TaskSet, ResultSet
<1> HIDE DEF t, u
<1>7. Grows(0, <<t, u>>)
  <2>1. micro' \in Seq(TaskSet)
    BY <1>5, <1>6, TwoTasks
  <2> QED BY <1>1, <1>5, <2>1, Came
<1>8. \E w1, w2 \in TaskSet : w1.name = "tail" /\ w2.name = "return" /\ w2.call = Head(jobs) /\ Grows(0, <<w1, w2>>)
  BY <1>6, <1>7
<1> QED BY <1>1, <1>2, <1>8

LEMMA FliesShape ==
  ASSUME CoreInv, EditTimer \/ Retry
  PROVE  /\ micro = <<>> /\ jobs' = Append(jobs, None) /\ enqueued' = enqueued + 1 /\ edit # "flying" /\ edit' = "flying"
         /\ UNCHANGED <<flightVars, promiseVars, newest, idlers, flushers, viewVars>>
         /\ \E s \in Seq(TaskSet) : Grows(0, s) /\ \A k \in 1 .. Len(s) : s[k].name = "job"
<1>1. Quiet /\ Flies /\ edit # "flying"
  BY DEF EditTimer, Retry
<1>2. micro = <<>> /\ micro' = StartIfIdle /\ jobs' = Append(jobs, None) /\ enqueued' = enqueued + 1
        /\ edit' = "flying"
      /\ UNCHANGED <<flightVars, promiseVars, newest, idlers, flushers, viewVars>>
  BY <1>1 DEF Quiet, Flies, Enqueue
<1>3. Grows(0, StartIfIdle)
  BY <1>2, StartIfIdleType, Came
<1> QED BY <1>1, <1>2, <1>3, StartIfIdleType

LEMMA EditSettlesShape ==
  ASSUME CoreInv, EditSettles
  PROVE  /\ micro = <<>> /\ jobs # <<>> /\ edit' = "none" /\ flushers' = <<>>
         /\ UNCHANGED <<flightVars, promiseVars, newest, jobs, enqueued, idlers, viewVars>>
         /\ \E s \in Seq(TaskSet) : \E code \in {"ok", "failed"} :
              /\ Grows(0, s) /\ Len(flushers) \in Nat /\ Len(s) = 1 + Len(flushers)
              /\ 1 \in 1 .. Len(s) /\ s[1].name = "tail"
              /\ \A k \in 1 .. Len(flushers) :
                   s[1 + k].name = "flushed" /\ s[1 + k].call = flushers[k] /\ s[1 + k].arg.code = code
<1> DEFINE t == Task("tail", None, Nothing)
<1>1. /\ micro = <<>> /\ working /\ edit' = "none" /\ flushers' = <<>>
      /\ UNCHANGED <<flightVars, promiseVars, newest, jobs, enqueued, idlers, viewVars>>
  BY DEF EditSettles, Quiet
<1>2. PICK refused \in BOOLEAN : micro' = <<t>> \o FlushersTold(refused)
  BY DEF EditSettles
<1>3. jobs # <<>>
  BY <1>1 DEF CoreInv, JobsGoOn
<1> DEFINE code == IF refused THEN "failed" ELSE "ok"
           F(i) == Task("flushed", flushers[i], Result(code, None))
           told == FlushersTold(refused)
<1>4. t \in TaskSet /\ t.name = "tail"
  BY Names, PlainTask DEF None
<1>5. flushers \in Seq(Nat) /\ Len(flushers) \in Nat
  BY LenProperties DEF CoreInv, Types
<1>6. ASSUME NEW i \in 1 .. Len(flushers)
      PROVE  F(i) \in TaskSet /\ F(i).name = "flushed" /\ F(i).call = flushers[i] /\ F(i).arg.code = code
  <2>1. flushers[i] \in Nat
    BY <1>5, ElementOfSeq
  <2> QED BY <2>1, Names DEF Task, Result, None, TaskSet, ResultSet
<1>7. told = [i \in 1 .. Len(flushers) |-> F(i)]
  BY DEF FlushersTold
<1> HIDE DEF F, told, t
<1>8. told \in [1 .. Len(flushers) -> TaskSet] /\ \A i \in 1 .. Len(flushers) : told[i] = F(i)
  BY <1>6, <1>7
<1>9. told \in Seq(TaskSet) /\ Len(told) = Len(flushers)
  <2>1. told \in Seq(TaskSet)
    BY <1>5, <1>8, SeqDef
  <2> QED BY <1>5, <1>8, <2>1, LenProperties
<1> DEFINE s == <<t>> \o told
<1>10. <<t>> \in Seq(TaskSet) /\ Len(<<t>>) = 1 /\ <<t>>[1] = t
  BY <1>4
<1>11. /\ s \in Seq(TaskSet) /\ Len(s) = 1 + Len(told)
       /\ \A i \in 1 .. 1 + Len(told) : s[i] = IF i <= 1 THEN <<t>>[i] ELSE told[i - 1]
  BY <1>9, <1>10, ConcatProperties
<1>12. micro' = s
  BY <1>2 DEF told
<1> HIDE DEF s
<1>13. Grows(0, s)
  BY <1>1, <1>11, <1>12, Came
<1>14. Len(s) = 1 + Len(flushers) /\ 1 \in 1 .. Len(s) /\ s[1].name = "tail"
  BY <1>4, <1>5, <1>9, <1>10, <1>11
<1>15. ASSUME NEW k \in 1 .. Len(flushers)
       PROVE  s[1 + k].name = "flushed" /\ s[1 + k].call = flushers[k] /\ s[1 + k].arg.code = code
  <2>1. 1 + k \in 1 .. 1 + Len(told) /\ ~(1 + k <= 1) /\ (1 + k) - 1 = k
    BY <1>5, <1>9
  <2>2. s[1 + k] = told[k]
    BY <1>11, <2>1
  <2> QED BY <1>6, <1>8, <2>2
<1>16. code \in {"ok", "failed"}
  OBVIOUS
<1> HIDE DEF code
<1> QED BY <1>1, <1>3, <1>5, <1>11, <1>13, <1>14, <1>15, <1>16

LEMMA TailShape ==
  ASSUME CoreInv, TailSettles
  PROVE  /\ micro # <<>> /\ Head(micro).name = "tail" /\ jobs # <<>> /\ jobs' = Tail(jobs)
         /\ UNCHANGED <<flightVars, promiseVars, newest, enqueued, flushers, edit, viewVars, retained>>
         /\ \E m \in Nat : \E s \in Seq(TaskSet) :
              /\ Grows(1, s) /\ Len(idlers) \in Nat /\ m <= Len(idlers) /\ m <= Len(s)
              /\ \A k \in 1 .. m : s[k] = idlers[k]
              /\ \A k \in 1 .. Len(s) : k > m => s[k].name = "job"
              /\ Len(idlers') = Len(idlers) - m
              /\ \A k \in 1 .. Len(idlers') : m + k \in 1 .. Len(idlers) /\ idlers'[k] = idlers[m + k]
              /\ \A i \in 1 .. Len(idlers) : i <= m <=> idlers[i].arg.from = Finished + 1
<1> DEFINE job == Task("job", None, Nothing)
           more == IF Len(jobs) > 1 THEN <<job>> ELSE <<>>
<1>1. /\ micro # <<>> /\ Head(micro).name = "tail" /\ jobs' = Tail(jobs)
      /\ UNCHANGED <<flightVars, promiseVars, newest, enqueued, flushers, edit, viewVars, retained>>
  BY DEF TailSettles, Runs, editVars
<1>2. PICK n \in 0 .. Len(idlers) :
        /\ \A i \in 1 .. Len(idlers) : i <= n <=> idlers[i].arg.from = Finished + 1
        /\ micro' = Tail(micro) \o (SubSeq(idlers, 1, n) \o more) /\ idlers' = SubSeq(idlers, n + 1, Len(idlers))
  BY DEF TailSettles, Adding
<1>3. micro \in Seq(TaskSet) /\ idlers \in Seq(TaskSet) /\ Len(idlers) \in Nat /\ n \in Nat
  BY LenProperties DEF CoreInv, Types
<1>4. jobs # <<>>
  <2>1. micro[1].name = "tail" /\ 1 \in 1 .. Len(micro)
    BY <1>1, HeadTask
  <2> QED BY <2>1 DEF CoreInv, JobsGoOn
<1>5. job \in TaskSet /\ job.name = "job"
  BY Names, PlainTask DEF None
<1> HIDE DEF job
<1>6. more \in Seq(TaskSet) /\ Len(more) \in Nat /\ \A i \in 1 .. Len(more) : more[i].name = "job"
  BY <1>5
<1> HIDE DEF more
<1>7. /\ SubSeq(idlers, 1, n) \in Seq(TaskSet) /\ Len(SubSeq(idlers, 1, n)) = n
      /\ \A i \in 1 .. n : SubSeq(idlers, 1, n)[i] = idlers[i]
  <2>1. 1 \in 1 .. Len(idlers) + 1 /\ n \in 1 - 1 .. Len(idlers) /\ 1 - 1 = 0 /\ n - 1 + 1 = n
    BY <1>2, <1>3
  <2> QED BY <1>3, <2>1, SubSeqProperties
<1>8. /\ Len(idlers') = Len(idlers) - n
      /\ \A i \in 1 .. Len(idlers') : n + i \in 1 .. Len(idlers) /\ idlers'[i] = idlers[n + i]
  <2> DEFINE m == n + 1
  <2>1. m \in 1 .. Len(idlers) + 1 /\ Len(idlers) \in m - 1 .. Len(idlers)
        /\ (IF m <= Len(idlers) THEN Len(idlers) - m + 1 ELSE 0) = Len(idlers) - n
    BY <1>2, <1>3
  <2>2. \A i \in 1 .. Len(idlers) - n : n + i \in 1 .. Len(idlers) /\ m + i - 1 = n + i
    BY <1>2, <1>3
  <2>3. idlers' = SubSeq(idlers, m, Len(idlers))
    BY <1>2
  <2> HIDE DEF m
  <2> QED BY SMTT(30), <1>3, <2>1, <2>2, <2>3, SubSeqProperties
<1> DEFINE s == SubSeq(idlers, 1, n) \o more
<1>9. /\ s \in Seq(TaskSet) /\ Len(s) = n + Len(more)
      /\ \A k \in 1 .. n + Len(more) : s[k] = IF k <= n THEN SubSeq(idlers, 1, n)[k] ELSE more[k - n]
  BY <1>6, <1>7, ConcatProperties
<1>10. micro' = Tail(micro) \o s
  BY <1>2
<1> HIDE DEF s
<1>11. Grows(1, s)
  BY <1>1, <1>3, <1>9, <1>10, HeadGone
<1>12. n <= Len(idlers) /\ n <= Len(s)
  BY <1>2, <1>3, <1>6, <1>9
<1>13. ASSUME NEW k \in 1 .. n PROVE s[k] = idlers[k]
  <2>1. k \in 1 .. n + Len(more) /\ k <= n
    BY <1>3, <1>6
  <2> QED BY <1>7, <1>9, <2>1
<1>14. ASSUME NEW k \in 1 .. Len(s), k > n PROVE s[k].name = "job"
  <2>1. k \in 1 .. n + Len(more) /\ ~(k <= n) /\ k - n \in 1 .. Len(more)
    BY <1>3, <1>6, <1>9, <1>14
  <2> QED BY <1>6, <1>9, <2>1
<1>15. \A i \in 1 .. Len(idlers) : i <= n <=> idlers[i].arg.from = Finished + 1
  BY <1>2
<1> HIDE DEF Finished
<1>16. \A k \in 1 .. n : s[k] = idlers[k]
  BY <1>13
<1>17. \A k \in 1 .. Len(s) : k > n => s[k].name = "job"
  BY <1>14
<1> QED BY <1>1, <1>3, <1>4, <1>8, <1>9, <1>11, <1>12, <1>15, <1>16, <1>17

LEMMA TailSettlesOnce ==
  ASSUME CoreInv, CoreInv', OperationsOnce, TailSettles
  PROVE  OperationsOnce'
<1>1. /\ jobs # <<>> /\ jobs' = Tail(jobs) /\ UNCHANGED <<flightVars, promiseVars, flushers>>
      /\ micro # <<>> /\ Head(micro).name = "tail"
  BY TailShape
<1>2. PICK m \in Nat, s \in Seq(TaskSet) :
        /\ Grows(1, s) /\ Len(idlers) \in Nat /\ m <= Len(idlers)
        /\ \A k \in 1 .. m : s[k] = idlers[k]
        /\ \A k \in 1 .. Len(s) : k > m => s[k].name = "job"
        /\ \A k \in 1 .. Len(idlers') : m + k \in 1 .. Len(idlers) /\ idlers'[k] = idlers[m + k]
  BY TailShape
<1>3. ASSUME NEW k \in 1 .. Len(s)
      PROVE  s[k].name \notin LateName /\ (s[k].name \in EarlyName => Early(s[k].call))
  <2>1. CASE k <= m
    <3>1. k \in 1 .. m /\ k \in 1 .. Len(idlers)
      BY <1>2, <2>1
    <3>2. s[k] = idlers[k] /\ idlers[k].name = "idle"
      BY <1>2, <3>1 DEF CoreInv, WaitsFit
    <3> QED BY <3>1, <3>2 DEF Early, LateName
  <2>2. CASE k > m
    BY <1>2, <2>2 DEF LateName, EarlyName
  <2>3. k \in Nat
    OBVIOUS
  <2> QED BY <1>2, <2>1, <2>2, <2>3
<1>4. ASSUME NEW x, Over(x)' PROVE Over(x)
  <2>1. settled' = settled
    BY <1>1 DEF promiseVars
  <2> QED BY <1>2, <1>3, <1>4, <2>1, OverOnlyOf
<1>5. ASSUME NEW x \in runs, Early(x)' PROVE Early(x)
  <2>1. \A i \in 1 .. Len(flushers') : Early(flushers'[i])
    BY <1>1, EarlyPlaces
  <2>2. \A i \in 1 .. Len(idlers') : Early(idlers'[i].call)
    BY <1>2, EarlyPlaces
  <2> QED BY <1>2, <1>3, <1>5, <2>1, <2>2, EarlyStays
<1>6. /\ Len(jobs) \in Nat \ {0} /\ Len(jobs') = Len(jobs) - 1
      /\ \A i \in 1 .. Len(jobs') : i + 1 \in 1 .. Len(jobs) /\ jobs'[i] = jobs[i + 1]
  BY <1>1, TailGone
<1>7. \A x \in runs' : Early(x)' => ~Over(x)' /\ \A i \in 1 .. Len(jobs') : jobs'[i] # x
  <2>1. runs' = runs
    BY <1>1 DEF flightVars
  <2> QED BY <1>4, <1>5, <1>6, <2>1 DEF OperationsOnce
<1>8. ASSUME NEW i \in 1 .. Len(micro'), micro'[i].name \in LateName
      PROVE  i + 1 \in 1 .. Len(micro) /\ micro'[i] = micro[i + 1]
  <2>1. CASE \E k \in 1 .. Len(s) : micro'[i] = s[k]
    BY <1>3, <1>8, <2>1
  <2> QED BY <1>2, <2>1, Placed
<1>9. \A i \in 1 .. Len(micro') : micro'[i].name \in LateName => micro'[i].call \notin settled'
  BY <1>1, <1>8 DEF OperationsOnce, promiseVars
<1>10. \A i, j \in 1 .. Len(micro') :
         micro'[i].name \in LateName /\ micro'[j].name \in LateName /\ micro'[i].call = micro'[j].call => i = j
  <2> SUFFICES ASSUME NEW i \in 1 .. Len(micro'), NEW j \in 1 .. Len(micro'), micro'[i].name \in LateName,
                      micro'[j].name \in LateName, micro'[i].call = micro'[j].call
               PROVE  i = j
    OBVIOUS
  <2>1. /\ i + 1 \in 1 .. Len(micro) /\ micro[i + 1].name \in LateName /\ micro'[i] = micro[i + 1]
        /\ j + 1 \in 1 .. Len(micro) /\ micro[j + 1].name \in LateName /\ micro'[j] = micro[j + 1]
    BY <1>8
  <2>2. i + 1 = j + 1
    BY <2>1 DEF OperationsOnce
  <2> QED BY <2>2
<1>11. \A i, j \in 1 .. Len(jobs') : jobs'[i] = jobs'[j] => i = j \/ jobs'[i] = None
  <2> SUFFICES ASSUME NEW i \in 1 .. Len(jobs'), NEW j \in 1 .. Len(jobs'), jobs'[i] = jobs'[j], jobs'[i] # None
               PROVE  i = j
    OBVIOUS
  <2>1. i + 1 = j + 1
    BY <1>6 DEF OperationsOnce
  <2> QED BY <2>1
<1>12. (\A i \in 1 .. Len(jobs) : jobs[i] # None /\ Over(jobs[i]) => i = 1 /\ TailComes)'
  <2>1. ASSUME NEW i \in 1 .. Len(jobs'), jobs'[i] # None, Over(jobs[i])' PROVE FALSE
    <3>1. Over(jobs'[i])
      BY <1>4, <2>1 DEF Over
    <3>2. i + 1 \in 1 .. Len(jobs) /\ jobs'[i] = jobs[i + 1] /\ i + 1 # 1
      BY <1>6
    <3> QED BY <2>1, <3>1, <3>2 DEF OperationsOnce
  <2> QED BY <2>1
<1> QED BY <1>7, <1>9, <1>10, <1>11, <1>12 DEF OperationsOnce

\* A step that leaves the places alone and adds no task of an operation.
LEMMA BystanderOnce ==
  ASSUME CoreInv, CoreInv', OperationsOnce, settled' = settled, PlacesRest, NEW n, NEW s, Grows(n, s),
         n = 1 => micro[1].name # "tail", \A k \in 1 .. Len(s) : s[k].name \notin LateName \cup EarlyName
  PROVE  OperationsOnce'
<1>1. jobs' = jobs /\ flushers' = flushers /\ idlers' = idlers
  BY DEF PlacesRest
<1>2. /\ \A i \in 1 .. Len(flushers') : Early(flushers'[i])
      /\ \A i \in 1 .. Len(idlers') : Early(idlers'[i].call)
      /\ \A i \in 1 .. Len(jobs') : i \in 1 .. Len(jobs) /\ jobs'[i] = jobs[i]
  BY <1>1, EarlyPlaces
<1> QED BY <1>2, OperationsRest

LEMMA OperationOnce ==
  ASSUME CoreInv, CoreInv', OperationsOnce, Operation
  PROVE  OperationsOnce'
<1>1. micro # <<>> /\ Head(micro).name \in {"operation", "emptied"} /\ FlushAll /\ UNCHANGED <<settled, runs, idlers>>
  BY DEF Operation, Runs, flightVars, promiseVars
<1> QED BY <1>1, FlushAllOnce

LEMMA EmptiedOnce ==
  ASSUME CoreInv, CoreInv', OperationsOnce, Emptied
  PROVE  OperationsOnce'
<1>1. micro # <<>> /\ Head(micro).name = "emptied" /\ UNCHANGED <<settled, runs, idlers>>
  BY DEF Emptied, Runs, flightVars, promiseVars
<1>2. CASE edit = "none"
  <2> DEFINE t == Task("begin", Current, Nothing)
  <2>1. Adding(<<t>>) /\ UNCHANGED <<settled, flushers, idlers, jobs>>
    BY <1>1, <1>2 DEF Emptied
  <2>2. Early(Current) /\ Current \in Nat
    BY <1>1, HeadIsEarly, HeadTask DEF EarlyName
  <2>3. t \in TaskSet /\ t.name = "begin" /\ t.call = Current
    BY <2>2, PlainTask, Names
  <2> HIDE DEF t
  <2>4. t.name \notin LateName /\ Early(t.call)
    BY <2>2, <2>3 DEF LateName
  <2> QED BY <1>1, <2>1, <2>3, <2>4, PlainTaskOnce
<1>3. CASE edit # "none"
  <2>1. FlushAll /\ Head(micro).name \in {"operation", "emptied"}
    BY <1>1, <1>3 DEF Emptied
  <2> QED BY <1>1, <2>1, FlushAllOnce
<1> QED BY <1>2, <1>3

LEMMA IdleOnce ==
  ASSUME CoreInv, CoreInv', OperationsOnce, Idle
  PROVE  OperationsOnce'
<1>1. micro # <<>> /\ Head(micro).name = "idle" /\ UNCHANGED <<settled, runs, jobs, flushers>>
  BY DEF Idle, Runs, flightVars, promiseVars
<1>2. CASE Given.from = enqueued
  <2> DEFINE t == Task("emptied", Current, Nothing)
  <2>1. Adding(<<t>>) /\ UNCHANGED <<settled, flushers, idlers, jobs>>
    BY <1>1, <1>2 DEF Idle
  <2>2. Early(Current) /\ Current \in Nat
    BY <1>1, HeadIsEarly, HeadTask DEF EarlyName
  <2>3. t \in TaskSet /\ t.name = "emptied" /\ t.call = Current
    BY <2>2, PlainTask, Names
  <2> HIDE DEF t
  <2>4. t.name \notin LateName /\ Early(t.call)
    BY <2>2, <2>3 DEF LateName
  <2> QED BY <1>1, <2>1, <2>3, <2>4, PlainTaskOnce
<1>3. CASE Given.from # enqueued
  <2>1. AwaitTail /\ Head(micro).name \in {"flushed", "idle"}
    BY <1>1, <1>3 DEF Idle
  <2> QED BY <1>1, <2>1, AwaitTailOnce
<1> QED BY <1>2, <1>3

LEMMA FlushedShape ==
  ASSUME CoreInv, Flushed
  PROVE  /\ micro # <<>> /\ Head(micro).name = "flushed" /\ UNCHANGED <<jobs, enqueued, flushers, edit>>
         /\ UNCHANGED <<flightVars, promiseVars, newest, viewVars, retained>>
         /\ Given.code = "ok" => AwaitTail
         /\ Given.code # "ok" => UNCHANGED idlers /\ \E t \in TaskSet : t.name = "run" /\ t.call = Current
              /\ Adding(<<t>>)
<1>1. micro # <<>> /\ Head(micro).name = "flushed" /\ UNCHANGED <<jobs, enqueued, flushers, edit>>
      /\ UNCHANGED <<flightVars, promiseVars, newest, viewVars, retained>>
  BY DEF Flushed, Runs, editVars
<1>2. CASE Given.code = "ok"
  BY <1>1, <1>2 DEF Flushed
<1>3. CASE Given.code # "ok"
  <2> DEFINE t == Task("run", Current, Result("failed", Current))
  <2>1. Adding(<<t>>) /\ UNCHANGED idlers
    BY <1>3 DEF Flushed
  <2>2. Current \in Nat
    BY <1>1, HeadTask
  <2>3. t \in TaskSet /\ t.name = "run" /\ t.call = Current
    BY <2>2, Names DEF Task, Result, TaskSet, ResultSet
  <2> HIDE DEF t
  <2>4. \E w \in TaskSet : w.name = "run" /\ w.call = Current /\ Adding(<<w>>)
    BY <2>1, <2>3
  <2> QED BY <1>1, <1>3, <2>1, <2>4
<1> QED BY <1>2, <1>3

LEMMA FlushedOnce ==
  ASSUME CoreInv, CoreInv', OperationsOnce, Flushed, NEW c, c = Current, Given.code # "ok" => ~Early(c)'
  PROVE  OperationsOnce'
<1>1. /\ micro # <<>> /\ Head(micro).name \in {"flushed", "idle"} /\ Head(micro).name \in EarlyName
      /\ UNCHANGED <<settled, runs, jobs, flushers>>
  BY FlushedShape DEF flightVars, promiseVars, EarlyName
<1>2. CASE Given.code = "ok"
  BY <1>1, <1>2, FlushedShape, AwaitTailOnce
<1>3. CASE Given.code # "ok"
  <2>1. PICK t \in TaskSet : t.name = "run" /\ t.call = c /\ Adding(<<t>>)
    BY <1>3, FlushedShape
  <2>2. UNCHANGED <<settled, runs, flushers, idlers, jobs>>
    BY <1>1, <1>3, FlushedShape
  <2> QED BY <1>1, <1>3, <2>1, <2>2, EarlyEndsOnce
<1> QED BY <1>2, <1>3

LEMMA BeginOnce ==
  ASSUME CoreInv, CoreInv', OperationsOnce, Begin, NEW c, c = Current, ~Early(c)'
  PROVE  OperationsOnce'
<1>1. /\ micro # <<>> /\ Head(micro).name \in EarlyName /\ UNCHANGED <<settled, runs, flushers, idlers>>
  BY BeginShape DEF flightVars, promiseVars, EarlyName
<1>2. CASE Safe(Current)
  <2>1. PICK s \in Seq(TaskSet) : Grows(1, s) /\ \A k \in 1 .. Len(s) : s[k].name = "job"
    BY <1>2, BeginShape
  <2>2. jobs' = Append(jobs, c)
    BY <1>2, BeginShape
  <2> QED BY <1>1, <2>1, <2>2, BeginsOnce
<1>3. CASE ~Safe(Current)
  <2>1. PICK t \in TaskSet : t.name = "run" /\ t.call = c /\ Adding(<<t>>)
    BY <1>3, BeginShape
  <2>2. UNCHANGED <<settled, runs, flushers, idlers, jobs>>
    BY <1>1, <1>3, BeginShape
  <2> QED BY <1>1, <2>1, <2>2, EarlyEndsOnce
<1> QED BY <1>2, <1>3

LEMMA JobsLeaveOnce ==
  ASSUME CoreInv, CoreInv', OperationsOnce, JobStarts \/ LoadSucceeds \/ LoadFails
  PROVE  OperationsOnce'
<1>1. CASE JobStarts
  <2>1. /\ micro # <<>> /\ Head(micro).name = "job" /\ ~TailComes /\ jobs # <<>>
        /\ UNCHANGED <<settled, runs, flushers, idlers, jobs>>
    BY <1>1, JobStartsShape DEF PlacesRest, flightVars, promiseVars
  <2>2. CASE Adding(<<>>)
    BY <2>1, <2>2, NoTaskOnce
  <2>3. CASE ~Adding(<<>>)
    <3>1. PICK t \in TaskSet, u \in TaskSet :
            t.name = "tail" /\ u.name = "return" /\ u.call = Head(jobs) /\ Grows(1, <<t, u>>)
      BY <1>1, <2>3, JobStartsShape
    <3>2. Head(jobs) # None
      BY <1>1, <2>3, JobStartsShape
    <3>3. PICK c : c = Head(jobs)
      OBVIOUS
    <3> QED BY <2>1, <3>1, <3>2, <3>3, JobLeavesOnce
  <2> QED BY <2>2, <2>3
<1>2. CASE LoadSucceeds \/ LoadFails
  <2>1. /\ micro = <<>> /\ jobs # <<>> /\ Head(jobs) # None /\ UNCHANGED <<settled, runs, flushers, idlers, jobs>>
    BY <1>2, LoadShape DEF PlacesRest, flightVars, promiseVars
  <2>2. PICK t \in TaskSet, u \in TaskSet :
          t.name = "tail" /\ u.name = "return" /\ u.call = Head(jobs) /\ Grows(0, <<t, u>>)
    BY <1>2, LoadShape
  <2>3. ~TailComes
    <3>1. Len(micro) = 0
      BY <2>1
    <3> QED BY <3>1 DEF TailComes
  <2>4. PICK c : c = Head(jobs)
    OBVIOUS
  <2> QED BY <2>1, <2>2, <2>3, <2>4, JobLeavesOnce
<1> QED BY <1>1, <1>2

LEMMA BackOnce ==
  ASSUME CoreInv, CoreInv', OperationsOnce, Returns \/ RunSettles
  PROVE  OperationsOnce'
<1>1. CASE Returns
  <2>1. /\ micro # <<>> /\ Head(micro).name \in LateName /\ UNCHANGED <<runs, flushers, idlers, jobs>>
             /\ settled' = settled
    BY <1>1, ReturnsShape DEF PlacesRest, flightVars, promiseVars, LateName
  <2>2. PICK t \in TaskSet : t.name = "run" /\ t.call = Current /\ Adding(<<t>>)
    BY <1>1, ReturnsShape
  <2>3. Grows(1, <<t>>)
    BY <2>1, <2>2, HeadAdds
  <2>4. \A k \in 1 .. Len(<<t>>) : <<t>>[k].name \notin EarlyName /\ k = 1 /\ <<t>>[k].call = Current
    BY <2>2, OneTask DEF EarlyName
  <2> QED BY <2>1, <2>3, <2>4, OperationReturnsOnce
<1>2. CASE RunSettles
  <2>1. /\ micro # <<>> /\ Head(micro).name \in LateName /\ UNCHANGED <<runs, flushers, idlers, jobs>>
        /\ settled' = settled \cup {Current} /\ Current \in Call
    BY <1>2, RunSettlesShape DEF PlacesRest, flightVars, LateName
  <2>2. PICK s \in Seq(TaskSet) : Grows(1, s) /\ Tells(s, reactions[Run(Current)])
    BY <1>2, RunSettlesShape
  <2>3. \A k \in 1 .. Len(s) : s[k].name \in ReactionName
    <3>1. \A k \in 1 .. Len(reactions[Run(Current)]) : reactions[Run(Current)][k].name \in ReactionName
      BY <2>1 DEF CoreInv, ReactionsFit, RunFits
    <3> QED BY <2>2, <3>1 DEF Tells
  <2>4. \A k \in 1 .. Len(s) : s[k].name \notin EarlyName \cup LateName
    BY <2>3 DEF ReactionName, EarlyName, LateName
  <2> QED BY <2>1, <2>2, <2>4, OperationReturnsOnce
<1> QED BY <1>1, <1>2

LEMMA PromisesOnce ==
  ASSUME CoreInv, CoreInv', OperationsOnce, EntrySettles \/ Clear \/ After \/ Follow \/ CallerGoesOn
  PROVE  OperationsOnce'
<1>1. CASE EntrySettles
  <2>1. micro # <<>> /\ Head(micro).name = "entry" /\ PlacesRest /\ settled' = settled /\ Current \in Call
    BY <1>1, EntrySettlesShape
  <2>2. PICK s \in Seq(TaskSet) : Grows(1, s) /\ Tells(s, reactions[Entry(Current)])
    BY <1>1, EntrySettlesShape
  <2>3. \A k \in 1 .. Len(s) : s[k].name \in {"caller", "after"}
    <3>1. \A k \in 1 .. Len(reactions[Entry(Current)]) : reactions[Entry(Current)][k].name \in {"caller", "after"}
      BY <2>1 DEF CoreInv, ReactionsFit, EntryFits
    <3> QED BY <2>2, <3>1 DEF Tells
  <2>4. \A k \in 1 .. Len(s) : s[k].name \notin LateName \cup EarlyName
    BY <2>3 DEF EarlyName, LateName
  <2>5. micro[1].name # "tail"
    BY <2>1, HeadTask
  <2> QED BY <2>1, <2>2, <2>4, <2>5, BystanderOnce
<1>2. CASE Clear \/ CallerGoesOn
  <2>1. /\ micro # <<>> /\ Head(micro).name # "tail" /\ Adding(<<>>) /\ UNCHANGED <<settled, flushers, idlers, jobs>>
    BY <1>2 DEF Clear, CallerGoesOn, Runs, promiseVars, queueVars
  <2> QED BY <2>1, NoTaskOnce
<1>3. CASE After
  <2> DEFINE t == Task("turn", Current, Nothing)
  <2>1. /\ micro # <<>> /\ Head(micro).name = "after" /\ Adding(<<t>>)
             /\ UNCHANGED <<settled, flushers, idlers, jobs>>
    BY <1>3 DEF After, Runs, promiseVars, queueVars
  <2>2. Current \in Nat
    BY <2>1, HeadTask
  <2>3. t \in TaskSet /\ t.name = "turn"
    BY <2>2, PlainTask, Names
  <2> HIDE DEF t
  <2>4. t.name \notin LateName /\ t.name \notin EarlyName
    BY <2>3 DEF LateName, EarlyName
  <2> QED BY <2>1, <2>3, <2>4, PlainTaskOnce
<1>4. CASE Follow
  <2>1. micro # <<>> /\ Head(micro).name # "tail" /\ Adding(<<>>) /\ UNCHANGED <<settled, flushers, idlers, jobs>>
    BY <1>4, FollowShape DEF PlacesRest
  <2> QED BY <2>1, NoTaskOnce
<1> QED BY <1>1, <1>2, <1>3, <1>4

LEMMA TurnOnce ==
  ASSUME CoreInv, CoreInv', OperationsOnce, Turn, Current \notin runs
  PROVE  OperationsOnce'
<1>1. /\ micro # <<>> /\ Head(micro).name = "turn" /\ PlacesRest /\ settled' = settled
      /\ UNCHANGED <<settled, flushers, idlers, jobs>>
  BY TurnShape DEF PlacesRest
<1>2. micro[1].name # "tail"
  BY <1>1, HeadTask
<1>3. CASE \E t \in TaskSet : t.name = "follow" /\ Adding(<<t>>)
  <2>1. PICK t \in TaskSet : t.name = "follow" /\ Adding(<<t>>)
    BY <1>3
  <2>2. t.name \notin LateName /\ t.name \notin EarlyName
    BY <2>1 DEF LateName, EarlyName
  <2> QED BY <1>1, <2>1, <2>2, PlainTaskOnce
<1>4. CASE \E t, u \in TaskSet : t.name = "operation" /\ t.call = Current /\ u.name = "follow" /\ Grows(1, <<t, u>>)
  <2>1. PICK t \in TaskSet, u \in TaskSet :
          t.name = "operation" /\ t.call = Current /\ u.name = "follow" /\ Grows(1, <<t, u>>)
    BY <1>4
  <2>2. t.name \notin LateName /\ u.name \notin LateName /\ u.name \notin EarlyName /\ t.call \notin runs
    BY <2>1 DEF LateName, EarlyName
  <2>3. \A k \in 1 .. Len(<<t, u>>) :
          <<t, u>>[k].name \notin LateName /\ (<<t, u>>[k].name \in EarlyName => <<t, u>>[k].call \notin runs)
    BY <2>2, TwoTasks
  <2> QED BY <1>1, <1>2, <2>1, <2>3, EarlyPlaces, OperationsRest
<1> QED BY <1>3, <1>4, TurnShape

LEMMA AskOnce ==
  ASSUME CoreInv, CoreInv', OperationsOnce, NEW kind \in Kind, Ask(kind)
  PROVE  OperationsOnce'
<1>1. PICK c : c = Made + 1
  OBVIOUS
<1>2. /\ PlacesRest /\ settled' = settled /\ c \notin runs
      /\ Starts(c) \/ Skipped(c) \/ Joined(c) \/ Queued(c)
  <2>1. runs \subseteq 1 .. Made
    BY DEF CoreInv, Types
  <2> QED BY <1>1, <2>1, AskShape
<1>3. CASE Starts(c)
  <2>1. PICK t \in TaskSet : t.name = "operation" /\ t.call = c /\ Grows(0, <<t>>)
    BY <1>3 DEF Starts
  <2>2. \A k \in 1 .. Len(<<t>>) : <<t>>[k].name \notin LateName /\ <<t>>[k].call \notin runs
    BY <1>2, <2>1, OneTask DEF LateName
  <2>3. flushers' = flushers /\ idlers' = idlers /\ jobs' = jobs
    BY <1>2 DEF PlacesRest
  <2> QED BY <1>2, <2>1, <2>2, <2>3, EarlyPlaces, OperationsRest
<1>4. CASE Skipped(c)
  <2>1. PICK t \in TaskSet : t.name = "caller" /\ Grows(0, <<t>>)
    BY <1>4 DEF Skipped
  <2>2. \A k \in 1 .. Len(<<t>>) : <<t>>[k].name \notin LateName \cup EarlyName
    BY <2>1, OneTask DEF LateName, EarlyName
  <2> QED BY <1>2, <2>1, <2>2, BystanderOnce
<1>5. CASE Joined(c) \/ Queued(c)
  <2>1. Grows(0, <<>>)
    BY <1>5, NothingMoves DEF Joined, Queued
  <2> QED BY <1>2, <2>1, NoTask, BystanderOnce
<1> QED BY <1>2, <1>3, <1>4, <1>5

LEMMA EditsOnce ==
  ASSUME CoreInv, CoreInv', OperationsOnce, EditTimer \/ Retry \/ EditSettles \/ Type
  PROVE  OperationsOnce'
<1>1. CASE EditTimer \/ Retry
  <2>1. /\ jobs' = Append(jobs, None) /\ flushers' = flushers /\ idlers' = idlers /\ settled' = settled
    BY <1>1, FliesShape DEF promiseVars
  <2>2. PICK s \in Seq(TaskSet) : Grows(0, s) /\ \A k \in 1 .. Len(s) : s[k].name = "job"
    BY <1>1, FliesShape
  <2>3. \A k \in 1 .. Len(s) : s[k].name \notin LateName /\ s[k].name \notin EarlyName
    BY <2>2 DEF LateName, EarlyName
  <2>4. \A i \in 1 .. Len(jobs') : (i \in 1 .. Len(jobs) /\ jobs'[i] = jobs[i]) \/ jobs'[i] = None
    BY <2>1, PatchQueued
  <2> QED BY <2>1, <2>2, <2>3, <2>4, EarlyPlaces, OperationsRest
<1>2. CASE EditSettles
  <2>1. /\ jobs' = jobs /\ flushers' = <<>> /\ idlers' = idlers /\ settled' = settled
    BY <1>2, EditSettlesShape DEF promiseVars
  <2>2. PICK s \in Seq(TaskSet), code \in {"ok", "failed"} :
          /\ Grows(0, s) /\ Len(flushers) \in Nat /\ Len(s) = 1 + Len(flushers)
          /\ 1 \in 1 .. Len(s) /\ s[1].name = "tail"
          /\ \A k \in 1 .. Len(flushers) : s[1 + k].name = "flushed" /\ s[1 + k].call = flushers[k]
    BY <1>2, EditSettlesShape
  <2>3. ASSUME NEW k \in 1 .. Len(s)
        PROVE  s[k].name \notin LateName /\ (s[k].name \in EarlyName => Early(s[k].call))
    <3>1. CASE k = 1
      BY <2>2, <3>1 DEF LateName, EarlyName
    <3>2. CASE k # 1
      <4> DEFINE m == k - 1
      <4>1. m \in 1 .. Len(flushers) /\ k = 1 + m
        BY <2>2, <3>2
      <4>2. s[k].name = "flushed" /\ s[k].call = flushers[m]
        BY <2>2, <4>1
      <4> QED BY <4>1, <4>2, EarlyPlaces DEF LateName
    <3> QED BY <3>1, <3>2
  <2>4. \A i \in 1 .. Len(flushers') : Early(flushers'[i])
    <3>1. Len(flushers') = 0
      BY <2>1
    <3> QED BY <3>1
  <2> QED BY <2>1, <2>2, <2>3, <2>4, EarlyPlaces, OperationsRest
<1>3. CASE Type
  <2>1. micro' = micro /\ settled' = settled /\ flushers' = flushers /\ idlers' = idlers /\ jobs' = jobs
    BY <1>3 DEF Type, promiseVars, queueVars
  <2>2. Grows(0, <<>>)
    BY <2>1, NothingMoves
  <2> QED BY <2>1, <2>2, NoTask, EarlyPlaces, OperationsRest
<1> QED BY <1>1, <1>2, <1>3

(***************************************************************************)
(* The chain of entries                                                    *)
(***************************************************************************)
Live == runs \ settled

Turns(t)  == t.name \in {"after", "turn"}
Passes(t) == t.name \in {"entry", "follow"}

\* The entries another one waits for.
Chained ==
  {p \in Call : \E k \in 1 .. Len(reactions[Entry(p)]) : reactions[Entry(p)][k].name = "after"}

\* The task brings on the next entry's turn.
Leads(t, chained) == Turns(t) \/ (Passes(t) /\ t.call \in chained)

\* Entries take turns: at any time at most one task, or one reaction of the active
\* operation, brings on the next turn.
OneLeads ==
  /\ \A i, j \in 1 .. Len(micro) : Leads(micro[i], Chained) /\ Leads(micro[j], Chained) => i = j
  /\ \A x \in Live : \A k \in 1 .. Len(reactions[Run(x)]) : Leads(reactions[Run(x)][k], Chained) =>
       /\ x = active /\ queued # None
       /\ \A i \in 1 .. Len(micro) : ~Leads(micro[i], Chained)
       /\ \A m \in 1 .. Len(reactions[Run(x)]) : Leads(reactions[Run(x)][m], Chained) => k = m
  /\ \A p \in Call : \A k, m \in 1 .. Len(reactions[Entry(p)]) :
       Turns(reactions[Entry(p)][k]) /\ Turns(reactions[Entry(p)][m]) => k = m
  /\ \A i \in 1 .. Len(micro) : Leads(micro[i], Chained) =>
       /\ queued # None
       /\ micro[i].name = "follow" => micro[i].arg.from = active \/ micro[i].arg.from \in settled

\* Nobody waits for the entry queued last, and it has not had its turn.
QueuedIsLast ==
  /\ \A i \in 1 .. Len(micro) : Passes(micro[i]) => micro[i].call # queued
  /\ \A x \in Live : \A k \in 1 .. Len(reactions[Run(x)]) :
       Passes(reactions[Run(x)][k]) => reactions[Run(x)][k].call # queued
  /\ queued \notin Chained

\* An entry has its turn once, and the automatic refresh has none.
MayTurn(q) == q \notin runs /\ want[q] # "automatic"

TurnsOnce ==
  /\ \A i \in 1 .. Len(micro) : Turns(micro[i]) => MayTurn(micro[i].call)
  /\ \A x \in Live : \A k \in 1 .. Len(reactions[Run(x)]) :
       Turns(reactions[Run(x)][k]) => MayTurn(reactions[Run(x)][k].call)
  /\ \A p \in Call : \A k \in 1 .. Len(reactions[Entry(p)]) : Turns(reactions[Entry(p)][k]) =>
       /\ MayTurn(reactions[Entry(p)][k].call)
       /\ \A i \in 1 .. Len(micro) : Turns(micro[i]) => micro[i].call # reactions[Entry(p)][k].call
       /\ \A x \in Live : \A m \in 1 .. Len(reactions[Run(x)]) :
            Turns(reactions[Run(x)][m]) => reactions[Run(x)][m].call # reactions[Entry(p)][k].call
       /\ \A r \in Call : \A m \in 1 .. Len(reactions[Entry(r)]) :
            Turns(reactions[Entry(r)][m]) /\ reactions[Entry(r)][m].call = reactions[Entry(p)][k].call => r = p

Chain == OneLeads /\ QueuedIsLast /\ TurnsOnce

\* Where a turn is on its way, its call was made.
LEMMA TurnCalls ==
  ASSUME CoreInv
  PROVE  /\ \A i \in 1 .. Len(micro) : Turns(micro[i]) \/ Passes(micro[i]) => micro[i].call \in 1 .. Made
         /\ \A x \in Call : \A k \in 1 .. Len(reactions[Run(x)]) :
              reactions[Run(x)][k].call \in 1 .. Made /\ x \in runs
         /\ \A x \in Call : \A k \in 1 .. Len(reactions[Entry(x)]) :
              reactions[Entry(x)][k].call \in 1 .. Made /\ x \in 1 .. Made
         /\ \A i \in 1 .. Len(micro) : micro[i].name = "follow" => micro[i].arg.from \in runs
         /\ runs \subseteq 1 .. Made /\ runs \subseteq Call /\ None \notin 1 .. Made
<1>1. \A i \in 1 .. Len(micro) : Turns(micro[i]) \/ Passes(micro[i]) => micro[i].call \in 1 .. Made
  BY DEF CoreInv, TasksFit, TaskFits, Turns, Passes
<1>2. \A x \in Call : \A k \in 1 .. Len(reactions[Run(x)]) : reactions[Run(x)][k].call \in 1 .. Made /\ x \in runs
  BY DEF CoreInv, ReactionsFit, RunFits
<1>3. \A x \in Call : \A k \in 1 .. Len(reactions[Entry(x)]) : reactions[Entry(x)][k].call \in 1 .. Made
        /\ x \in 1 .. Made
  BY DEF CoreInv, ReactionsFit, EntryFits
<1>4. \A i \in 1 .. Len(micro) : micro[i].name = "follow" => micro[i].arg.from \in runs
  BY DEF CoreInv, TasksFit, TaskFits
<1>5. runs \subseteq 1 .. Made /\ runs \subseteq Call /\ None \notin 1 .. Made
  BY MadeIsNat DEF CoreInv, Types, None
<1> QED BY <1>1, <1>2, <1>3, <1>4, <1>5

\* The reaction was there before.
Kept(p, k) == k \in 1 .. Len(reactions[p]) /\ reactions'[p][k] = reactions[p][k]

\* A step that brings on no turn.
LEMMA ChainRests ==
  ASSUME CoreInv, CoreInv', Chain, queued' = queued, settled \subseteq settled',
         \A x \in runs' : x \in runs \/ x \notin 1 .. Made,
         \A x \in 1 .. Made : want'[x] = want[x], active' = active \/ active = None \/ active \in settled',
         NEW n, NEW s, Grows(n, s), \A k \in 1 .. Len(s) : ~Turns(s[k]) /\ ~Passes(s[k]),
         \A x \in Call : \A k \in 1 .. Len(reactions'[Run(x)]) :
           Kept(Run(x), k) \/ (~Turns(reactions'[Run(x)][k]) /\ ~Passes(reactions'[Run(x)][k])),
         \A x \in Call : \A k \in 1 .. Len(reactions'[Entry(x)]) :
           Kept(Entry(x), k) \/ ~Turns(reactions'[Entry(x)][k])
  PROVE  Chain'
<1>1. OneLeads /\ QueuedIsLast /\ TurnsOnce
  BY DEF Chain
<1>2. ASSUME NEW i \in 1 .. Len(micro'), Turns(micro'[i]) \/ Passes(micro'[i])
      PROVE  i + n \in 1 .. Len(micro) /\ micro'[i] = micro[i + n]
  <2>1. CASE \E k \in 1 .. Len(s) : micro'[i] = s[k]
    BY <1>2, <2>1
  <2> QED BY <2>1, Placed
<1>3. ASSUME NEW x \in Call, NEW k \in 1 .. Len(reactions'[Run(x)]), x \in Live',
             Turns(reactions'[Run(x)][k]) \/ Passes(reactions'[Run(x)][k])
      PROVE  x \in Live /\ k \in 1 .. Len(reactions[Run(x)]) /\ reactions'[Run(x)][k] = reactions[Run(x)][k]
  <2>1. Kept(Run(x), k)
    BY <1>3
  <2>2. x \in runs
    BY <2>1, TurnCalls DEF Kept
  <2> QED BY <1>3, <2>1, <2>2 DEF Kept, Live
<1>4. ASSUME NEW x \in Call, NEW k \in 1 .. Len(reactions'[Entry(x)]), Turns(reactions'[Entry(x)][k])
      PROVE  k \in 1 .. Len(reactions[Entry(x)]) /\ reactions'[Entry(x)][k] = reactions[Entry(x)][k]
  BY <1>4 DEF Kept
<1>5. Chained' \subseteq Chained
  <2>1. ASSUME NEW x \in Call, NEW k \in 1 .. Len(reactions'[Entry(x)]), reactions'[Entry(x)][k].name = "after"
        PROVE  x \in Chained
    <3>1. Turns(reactions'[Entry(x)][k])
      BY <2>1 DEF Turns
    <3> QED BY <1>4, <2>1, <3>1 DEF Chained
  <2> QED BY <2>1 DEF Chained
<1>6. ASSUME NEW t, Leads(t, Chained')
      PROVE  Leads(t, Chained) /\ (Turns(t) \/ Passes(t))
  BY <1>5, <1>6 DEF Leads
<1>7. n \in {0, 1} /\ \A i \in 1 .. Len(micro') : i \in Nat
  BY Placed
<1>8. \A q \in 1 .. Made : MayTurn(q) => MayTurn(q)'
  BY DEF MayTurn
<1>10. \A x \in Live' : x \in Call
  <2>1. runs' \subseteq 1 .. Made' /\ Made' <= MaxCalls /\ want' \in Seq(Kind)
    BY DEF CoreInv, Types
  <2>2. Made' \in Nat /\ MaxCalls \in Nat
    BY <2>1, BoundAssumption, LenProperties DEF Made
  <2> QED BY <2>1, <2>2 DEF Live, Call
<1>11. \A i, j \in 1 .. Len(micro') : Leads(micro'[i], Chained') /\ Leads(micro'[j], Chained') => i = j
  <2> SUFFICES ASSUME NEW i \in 1 .. Len(micro'), NEW j \in 1 .. Len(micro'),
                      Leads(micro'[i], Chained'), Leads(micro'[j], Chained')
               PROVE  i = j
    OBVIOUS
  <2>1. i + n = j + n
    BY <1>1, <1>2, <1>6 DEF OneLeads
  <2> QED BY <1>7, <2>1
<1>12. ASSUME NEW x \in Live', NEW k \in 1 .. Len(reactions'[Run(x)]), Leads(reactions'[Run(x)][k], Chained')
       PROVE  /\ x = active' /\ queued' # None
              /\ \A i \in 1 .. Len(micro') : ~Leads(micro'[i], Chained')
              /\ \A m \in 1 .. Len(reactions'[Run(x)]) : Leads(reactions'[Run(x)][m], Chained') => k = m
  <2>1. x \in Live /\ k \in 1 .. Len(reactions[Run(x)]) /\ Leads(reactions[Run(x)][k], Chained)
    BY <1>3, <1>6, <1>10, <1>12
  <2>2. x = active /\ x # None /\ queued # None
    BY <1>1, <2>1, RunsAreCalls DEF OneLeads, Live
  <2>3. active' = active
    BY <2>2 DEF Live
  <2>4. \A i \in 1 .. Len(micro') : ~Leads(micro'[i], Chained')
    BY <1>1, <1>2, <1>6, <2>1 DEF OneLeads
  <2>5. ASSUME NEW m \in 1 .. Len(reactions'[Run(x)]), Leads(reactions'[Run(x)][m], Chained') PROVE k = m
    <3>1. m \in 1 .. Len(reactions[Run(x)]) /\ Leads(reactions[Run(x)][m], Chained)
      BY <1>3, <1>6, <1>10, <2>5
    <3> QED BY <1>1, <2>1, <3>1 DEF OneLeads
  <2> QED BY <2>2, <2>3, <2>4, <2>5
<1>13. \A p \in Call : \A k, m \in 1 .. Len(reactions'[Entry(p)]) :
         Turns(reactions'[Entry(p)][k]) /\ Turns(reactions'[Entry(p)][m]) => k = m
  BY <1>1, <1>4 DEF OneLeads
<1>14. ASSUME NEW i \in 1 .. Len(micro'), Leads(micro'[i], Chained')
       PROVE  /\ queued' # None
              /\ micro'[i].name = "follow" => micro'[i].arg.from = active' \/ micro'[i].arg.from \in settled'
  <2>1. i + n \in 1 .. Len(micro) /\ micro'[i] = micro[i + n] /\ Leads(micro[i + n], Chained)
    BY <1>2, <1>6, <1>14
  <2>2. micro[i + n].name = "follow" => micro[i + n].arg.from \in runs
    BY <2>1, TurnCalls
  <2> QED BY <1>1, <2>1, <2>2, RunsAreCalls DEF OneLeads
<1>15. OneLeads'
  BY <1>11, <1>12, <1>13, <1>14 DEF OneLeads
<1>16. QueuedIsLast'
  <2>1. \A i \in 1 .. Len(micro') : Passes(micro'[i]) => micro'[i].call # queued'
    BY <1>1, <1>2 DEF QueuedIsLast
  <2>2. \A x \in Live' : \A k \in 1 .. Len(reactions'[Run(x)]) :
          Passes(reactions'[Run(x)][k]) => reactions'[Run(x)][k].call # queued'
    BY <1>1, <1>3, <1>10 DEF QueuedIsLast
  <2>3. queued' \notin Chained'
    BY <1>1, <1>5 DEF QueuedIsLast
  <2> QED BY <2>1, <2>2, <2>3 DEF QueuedIsLast
<1>17. \A i \in 1 .. Len(micro') : Turns(micro'[i]) => MayTurn(micro[i].call)'
  <2>1. ASSUME NEW i \in 1 .. Len(micro'), Turns(micro'[i]) PROVE MayTurn(micro[i].call)'
    <3>1. i + n \in 1 .. Len(micro) /\ micro'[i] = micro[i + n]
      BY <1>2, <2>1
    <3>2. MayTurn(micro[i + n].call) /\ micro[i + n].call \in 1 .. Made
      BY <1>1, <2>1, <3>1, TurnCalls DEF TurnsOnce
    <3> QED BY <3>1, <3>2 DEF MayTurn
  <2> QED BY <2>1
<1>18. \A x \in Live' : \A k \in 1 .. Len(reactions'[Run(x)]) :
         Turns(reactions'[Run(x)][k]) => MayTurn(reactions[Run(x)][k].call)'
  <2>1. ASSUME NEW x \in Live', NEW k \in 1 .. Len(reactions'[Run(x)]), Turns(reactions'[Run(x)][k])
        PROVE  MayTurn(reactions[Run(x)][k].call)'
    <3>1. x \in Call /\ x \in Live /\ k \in 1 .. Len(reactions[Run(x)])
            /\ reactions'[Run(x)][k] = reactions[Run(x)][k]
      BY <1>3, <1>10, <2>1
    <3>2. MayTurn(reactions[Run(x)][k].call) /\ reactions[Run(x)][k].call \in 1 .. Made
      BY <1>1, <2>1, <3>1, TurnCalls DEF TurnsOnce
    <3> QED BY <3>1, <3>2 DEF MayTurn
  <2> QED BY <2>1
<1>19. ASSUME NEW p \in Call, NEW k \in 1 .. Len(reactions'[Entry(p)]), Turns(reactions'[Entry(p)][k])
       PROVE  /\ MayTurn(reactions[Entry(p)][k].call)'
              /\ \A i \in 1 .. Len(micro') : Turns(micro'[i]) => micro'[i].call # reactions'[Entry(p)][k].call
              /\ \A x \in Live' : \A m \in 1 .. Len(reactions'[Run(x)]) :
                   Turns(reactions'[Run(x)][m]) => reactions'[Run(x)][m].call # reactions'[Entry(p)][k].call
              /\ \A r \in Call : \A m \in 1 .. Len(reactions'[Entry(r)]) :
                   Turns(reactions'[Entry(r)][m]) /\ reactions'[Entry(r)][m].call = reactions'[Entry(p)][k].call =>
                     r = p
  <2>1. k \in 1 .. Len(reactions[Entry(p)]) /\ reactions'[Entry(p)][k] = reactions[Entry(p)][k]
    BY <1>4, <1>19
  <2>2. MayTurn(reactions[Entry(p)][k].call) /\ reactions[Entry(p)][k].call \in 1 .. Made
    BY <1>1, <1>19, <2>1, TurnCalls DEF TurnsOnce
  <2>3. MayTurn(reactions[Entry(p)][k].call)'
    BY <2>1, <2>2 DEF MayTurn
  <2>4. \A i \in 1 .. Len(micro') : Turns(micro'[i]) => micro'[i].call # reactions'[Entry(p)][k].call
    BY <1>1, <1>2, <1>19, <2>1 DEF TurnsOnce
  <2>5. \A x \in Live' : \A m \in 1 .. Len(reactions'[Run(x)]) :
          Turns(reactions'[Run(x)][m]) => reactions'[Run(x)][m].call # reactions'[Entry(p)][k].call
    BY <1>1, <1>3, <1>10, <1>19, <2>1 DEF TurnsOnce
  <2>6. \A r \in Call : \A m \in 1 .. Len(reactions'[Entry(r)]) :
          Turns(reactions'[Entry(r)][m]) /\ reactions'[Entry(r)][m].call = reactions'[Entry(p)][k].call => r = p
    <3>1. ASSUME NEW r \in Call, NEW m \in 1 .. Len(reactions'[Entry(r)]), Turns(reactions'[Entry(r)][m]),
                 reactions'[Entry(r)][m].call = reactions'[Entry(p)][k].call
          PROVE  r = p
      <4>1. m \in 1 .. Len(reactions[Entry(r)]) /\ reactions'[Entry(r)][m] = reactions[Entry(r)][m]
        BY <1>4, <3>1
      <4>2. Turns(reactions[Entry(r)][m]) /\ Turns(reactions[Entry(p)][k])
        BY <1>19, <2>1, <3>1, <4>1
      <4>3. reactions[Entry(r)][m].call = reactions[Entry(p)][k].call
        BY <2>1, <3>1, <4>1
      <4> QED BY <1>1, <2>1, <4>1, <4>2, <4>3 DEF TurnsOnce
    <3> QED BY <3>1
  <2> QED BY <2>3, <2>4, <2>5, <2>6
<1>20. TurnsOnce'
  BY <1>17, <1>18, <1>19 DEF TurnsOnce
<1> QED BY <1>15, <1>16, <1>20 DEF Chain

\* The head of the queue goes on to other tasks, of which one may bring on a turn if
\* nothing else does.
LEMMA LeadMoves ==
  ASSUME CoreInv, CoreInv', Chain, NEW s, Grows(1, s), \A x \in 1 .. Made : want'[x] = want[x],
         queued' = queued \/ queued' = None, settled \subseteq settled',
         runs' \subseteq runs \cup {micro[1].call}, runs' = runs \/ Turns(micro[1]),
         Leads(micro[1], Chained) \/ (queued' = queued /\ active' = active),
         \A k \in 1 .. Len(s) : Leads(s[k], Chained') =>
           /\ queued' # None
           /\ s[k].name = "follow" => s[k].arg.from = active' \/ s[k].arg.from \in settled'
           /\ \A i \in 1 .. Len(micro) : i > 1 => ~Leads(micro[i], Chained)
           /\ \A x \in Live' : \A m \in 1 .. Len(reactions[Run(x)]) : ~Leads(reactions[Run(x)][m], Chained)
           /\ \A m \in 1 .. Len(s) : Leads(s[m], Chained') => k = m,
         \A k \in 1 .. Len(s) : Passes(s[k]) => s[k].call # queued',
         \A k \in 1 .. Len(s) : Turns(s[k]) =>
           /\ MayTurn(s[k].call)'
           /\ \A p \in Call : \A m \in 1 .. Len(reactions'[Entry(p)]) :
                Turns(reactions'[Entry(p)][m]) => reactions'[Entry(p)][m].call # s[k].call,
         \A x \in Call : \A k \in 1 .. Len(reactions'[Run(x)]) :
           Kept(Run(x), k) \/ (~Turns(reactions'[Run(x)][k]) /\ ~Passes(reactions'[Run(x)][k])),
         \A x \in Call : \A k \in 1 .. Len(reactions'[Entry(x)]) :
           Kept(Entry(x), k) \/ ~Turns(reactions'[Entry(x)][k])
  PROVE  Chain'
<1>1. OneLeads /\ QueuedIsLast /\ TurnsOnce
  BY DEF Chain
<1>2. ASSUME NEW i \in 1 .. Len(micro')
      PROVE  \/ i + 1 \in 1 .. Len(micro) /\ i + 1 > 1 /\ micro'[i] = micro[i + 1]
             \/ \E k \in 1 .. Len(s) : micro'[i] = s[k] /\ i = Len(micro) - 1 + k
  <2>1. i + 1 > 1
    OBVIOUS
  <2>2. \/ i <= Len(micro) - 1 /\ i + 1 \in 1 .. Len(micro) /\ micro'[i] = micro[i + 1]
        \/ \E k \in 1 .. Len(s) : i = Len(micro) - 1 + k /\ micro'[i] = s[k]
    BY DEF Grows
  <2> QED BY <2>1, <2>2
<1>3. ASSUME NEW x \in Call, NEW k \in 1 .. Len(reactions'[Run(x)]), x \in Live',
             Turns(reactions'[Run(x)][k]) \/ Passes(reactions'[Run(x)][k])
      PROVE  x \in Live /\ k \in 1 .. Len(reactions[Run(x)]) /\ reactions'[Run(x)][k] = reactions[Run(x)][k]
  <2>1. Kept(Run(x), k)
    BY <1>3
  <2>2. x \in runs
    BY <2>1, TurnCalls DEF Kept
  <2> QED BY <1>3, <2>1, <2>2 DEF Kept, Live
<1>4. ASSUME NEW x \in Call, NEW k \in 1 .. Len(reactions'[Entry(x)]), Turns(reactions'[Entry(x)][k])
      PROVE  k \in 1 .. Len(reactions[Entry(x)]) /\ reactions'[Entry(x)][k] = reactions[Entry(x)][k]
  BY <1>4 DEF Kept
<1>5. Chained' \subseteq Chained
  <2>1. ASSUME NEW x \in Call, NEW k \in 1 .. Len(reactions'[Entry(x)]), reactions'[Entry(x)][k].name = "after"
        PROVE  x \in Chained
    <3>1. Turns(reactions'[Entry(x)][k])
      BY <2>1 DEF Turns
    <3> QED BY <1>4, <2>1, <3>1 DEF Chained
  <2> QED BY <2>1 DEF Chained
<1>6. ASSUME NEW t, Leads(t, Chained')
      PROVE  Leads(t, Chained) /\ (Turns(t) \/ Passes(t))
  BY <1>5, <1>6 DEF Leads
<1>7. Len(micro) \in Nat /\ \A i \in 1 .. Len(micro') : i \in Nat
  BY Placed
<1>8. \A x \in Live' : x \in Call
  <2>1. runs' \subseteq 1 .. Made' /\ Made' <= MaxCalls /\ want' \in Seq(Kind)
    BY DEF CoreInv, Types
  <2>2. Made' \in Nat /\ MaxCalls \in Nat
    BY <2>1, BoundAssumption, LenProperties DEF Made
  <2> QED BY <2>1, <2>2 DEF Live, Call
<1>9. \A i, j \in 1 .. Len(micro') : Leads(micro'[i], Chained') /\ Leads(micro'[j], Chained') => i = j
  <2> SUFFICES ASSUME NEW i \in 1 .. Len(micro'), NEW j \in 1 .. Len(micro'),
                      Leads(micro'[i], Chained'), Leads(micro'[j], Chained')
               PROVE  i = j
    OBVIOUS
  <2>1. CASE i + 1 \in 1 .. Len(micro) /\ i + 1 > 1 /\ micro'[i] = micro[i + 1]
    <3>1. Leads(micro[i + 1], Chained)
      BY <1>6, <2>1
    <3>2. j + 1 \in 1 .. Len(micro) /\ micro'[j] = micro[j + 1]
      BY <1>2, <2>1, <3>1
    <3>3. i + 1 = j + 1
      BY <1>1, <1>6, <2>1, <3>1, <3>2 DEF OneLeads
    <3> QED BY <1>7, <3>3
  <2>2. CASE \E k \in 1 .. Len(s) : micro'[i] = s[k] /\ i = Len(micro) - 1 + k
    <3>1. PICK k \in 1 .. Len(s) : micro'[i] = s[k] /\ i = Len(micro) - 1 + k
      BY <2>2
    <3>2. PICK m \in 1 .. Len(s) : micro'[j] = s[m] /\ j = Len(micro) - 1 + m
      BY <1>2, <1>6, <3>1
    <3> QED BY <3>1, <3>2
  <2> QED BY <1>2, <2>1, <2>2
<1>10. ASSUME NEW i \in 1 .. Len(micro'), Leads(micro'[i], Chained')
       PROVE  /\ queued' # None
              /\ micro'[i].name = "follow" => micro'[i].arg.from = active' \/ micro'[i].arg.from \in settled'
  <2>1. CASE i + 1 \in 1 .. Len(micro) /\ i + 1 > 1 /\ micro'[i] = micro[i + 1]
    <3>1. Leads(micro[i + 1], Chained)
      BY <1>6, <1>10, <2>1
    <3>2. 1 \in 1 .. Len(micro) /\ 1 # i + 1
      BY <1>7, <2>1
    <3>3. queued' = queued /\ active' = active
      BY <1>1, <2>1, <3>1, <3>2 DEF OneLeads
    <3> QED BY <1>1, <2>1, <3>1, <3>3 DEF OneLeads
  <2>2. CASE \E k \in 1 .. Len(s) : micro'[i] = s[k] /\ i = Len(micro) - 1 + k
    BY <1>10, <2>2
  <2> QED BY <1>2, <2>1, <2>2
<1>11. ASSUME NEW x \in Live', NEW k \in 1 .. Len(reactions'[Run(x)]), Leads(reactions'[Run(x)][k], Chained')
       PROVE  /\ x = active' /\ queued' # None
              /\ \A i \in 1 .. Len(micro') : ~Leads(micro'[i], Chained')
              /\ \A m \in 1 .. Len(reactions'[Run(x)]) : Leads(reactions'[Run(x)][m], Chained') => k = m
  <2>1. x \in Live /\ k \in 1 .. Len(reactions[Run(x)]) /\ Leads(reactions[Run(x)][k], Chained)
    BY <1>3, <1>6, <1>8, <1>11
  <2>2. x = active /\ queued # None /\ \A i \in 1 .. Len(micro) : ~Leads(micro[i], Chained)
    BY <1>1, <2>1 DEF OneLeads
  <2>3. 1 \in 1 .. Len(micro)
    BY DEF Grows
  <2>4. queued' = queued /\ active' = active
    BY <2>2, <2>3
  <2>5. \A i \in 1 .. Len(micro') : ~Leads(micro'[i], Chained')
    BY <1>2, <1>6, <1>11, <2>1, <2>2
  <2>6. ASSUME NEW m \in 1 .. Len(reactions'[Run(x)]), Leads(reactions'[Run(x)][m], Chained') PROVE k = m
    <3>1. m \in 1 .. Len(reactions[Run(x)]) /\ Leads(reactions[Run(x)][m], Chained)
      BY <1>3, <1>6, <1>8, <2>6
    <3> QED BY <1>1, <2>1, <3>1 DEF OneLeads
  <2> QED BY <2>2, <2>4, <2>5, <2>6
<1>12. OneLeads'
  <2>1. \A p \in Call : \A k, m \in 1 .. Len(reactions'[Entry(p)]) :
          Turns(reactions'[Entry(p)][k]) /\ Turns(reactions'[Entry(p)][m]) => k = m
    BY <1>1, <1>4 DEF OneLeads
  <2> QED BY <1>9, <1>10, <1>11, <2>1 DEF OneLeads
<1>13. QueuedIsLast'
  <2>1. \A i \in 1 .. Len(micro') : Passes(micro'[i]) => micro'[i].call # queued'
    <3>1. ASSUME NEW i \in 1 .. Len(micro'), Passes(micro'[i]), i + 1 \in 1 .. Len(micro), micro'[i] = micro[i + 1]
          PROVE  micro'[i].call # queued'
      BY <1>1, <3>1, TurnCalls DEF QueuedIsLast
    <3> QED BY <1>2, <3>1
  <2>2. \A x \in Live' : \A k \in 1 .. Len(reactions'[Run(x)]) :
          Passes(reactions'[Run(x)][k]) => reactions'[Run(x)][k].call # queued'
    BY <1>1, <1>3, <1>8, TurnCalls DEF QueuedIsLast
  <2>3. queued' \notin Chained'
    <3>1. None \notin Chained
      BY DEF Chained, Call, None
    <3> QED BY <1>1, <1>5, <3>1 DEF QueuedIsLast
  <2> QED BY <2>1, <2>2, <2>3 DEF QueuedIsLast
<1>14. 1 \in 1 .. Len(micro) /\ (Turns(micro[1]) => Leads(micro[1], Chained))
  BY DEF Grows, Leads
<1>15. \A q \in 1 .. Made : MayTurn(q) /\ (Turns(micro[1]) => q # micro[1].call) => MayTurn(q)'
  BY DEF MayTurn
<1>16. \A i \in 1 .. Len(micro') : Turns(micro'[i]) => MayTurn(micro[i].call)'
  <2>1. ASSUME NEW i \in 1 .. Len(micro'), Turns(micro'[i]) PROVE MayTurn(micro[i].call)'
    <3>1. CASE i + 1 \in 1 .. Len(micro) /\ i + 1 > 1 /\ micro'[i] = micro[i + 1]
      <4>1. MayTurn(micro[i + 1].call) /\ micro[i + 1].call \in 1 .. Made
        BY <1>1, <2>1, <3>1, TurnCalls DEF TurnsOnce
      <4>2. ~Turns(micro[1])
        <5>1. Leads(micro[i + 1], Chained) /\ 1 # i + 1
          BY <1>7, <2>1, <3>1 DEF Leads
        <5> QED BY <1>1, <1>14, <3>1, <5>1 DEF OneLeads
      <4>3. runs' = runs
        BY <4>2
      <4> QED BY <3>1, <4>1, <4>3 DEF MayTurn
    <3>2. CASE \E k \in 1 .. Len(s) : micro'[i] = s[k]
      <4>1. PICK k \in 1 .. Len(s) : micro'[i] = s[k]
        BY <3>2
      <4>2. MayTurn(s[k].call)'
        BY <2>1, <4>1
      <4> QED BY <4>1, <4>2 DEF MayTurn
    <3> QED BY <1>2, <3>1, <3>2
  <2> QED BY <2>1
<1>17. \A x \in Live' : \A k \in 1 .. Len(reactions'[Run(x)]) :
         Turns(reactions'[Run(x)][k]) => MayTurn(reactions[Run(x)][k].call)'
  <2>1. ASSUME NEW x \in Live', NEW k \in 1 .. Len(reactions'[Run(x)]), Turns(reactions'[Run(x)][k])
        PROVE  MayTurn(reactions[Run(x)][k].call)'
    <3>1. x \in Call /\ x \in Live /\ k \in 1 .. Len(reactions[Run(x)])
            /\ reactions'[Run(x)][k] = reactions[Run(x)][k]
      BY <1>3, <1>8, <2>1
    <3>2. MayTurn(reactions[Run(x)][k].call) /\ reactions[Run(x)][k].call \in 1 .. Made
      BY <1>1, <2>1, <3>1, TurnCalls DEF TurnsOnce
    <3>3. ~Turns(micro[1])
      <4>1. Leads(reactions[Run(x)][k], Chained)
        BY <2>1, <3>1 DEF Leads
      <4> QED BY <1>1, <1>14, <3>1, <4>1 DEF OneLeads
    <3>4. runs' = runs
      BY <3>3
    <3> QED BY <3>1, <3>2, <3>4 DEF MayTurn
  <2> QED BY <2>1
<1>18. ASSUME NEW p \in Call, NEW k \in 1 .. Len(reactions'[Entry(p)]), Turns(reactions'[Entry(p)][k])
       PROVE  /\ MayTurn(reactions[Entry(p)][k].call)'
              /\ \A i \in 1 .. Len(micro') : Turns(micro'[i]) => micro'[i].call # reactions'[Entry(p)][k].call
              /\ \A x \in Live' : \A m \in 1 .. Len(reactions'[Run(x)]) :
                   Turns(reactions'[Run(x)][m]) => reactions'[Run(x)][m].call # reactions'[Entry(p)][k].call
              /\ \A r \in Call : \A m \in 1 .. Len(reactions'[Entry(r)]) :
                   Turns(reactions'[Entry(r)][m]) /\ reactions'[Entry(r)][m].call = reactions'[Entry(p)][k].call =>
                     r = p
  <2>1. k \in 1 .. Len(reactions[Entry(p)]) /\ reactions'[Entry(p)][k] = reactions[Entry(p)][k]
    BY <1>4, <1>18
  <2>2. /\ MayTurn(reactions[Entry(p)][k].call) /\ reactions[Entry(p)][k].call \in 1 .. Made
        /\ Turns(micro[1]) => micro[1].call # reactions[Entry(p)][k].call
    BY <1>1, <1>14, <1>18, <2>1, TurnCalls DEF TurnsOnce
  <2>3. MayTurn(reactions[Entry(p)][k].call)'
    BY <2>1, <2>2 DEF MayTurn
  <2>4. ASSUME NEW i \in 1 .. Len(micro'), Turns(micro'[i]) PROVE micro'[i].call # reactions'[Entry(p)][k].call
    <3>1. CASE i + 1 \in 1 .. Len(micro) /\ micro'[i] = micro[i + 1]
      <4>1. Turns(reactions[Entry(p)][k]) /\ Turns(micro[i + 1])
        BY <1>18, <2>1, <2>4, <3>1
      <4>2. micro[i + 1].call # reactions[Entry(p)][k].call
        BY <1>1, <2>1, <3>1, <4>1 DEF TurnsOnce
      <4> QED BY <2>1, <3>1, <4>2
    <3>2. CASE \E m \in 1 .. Len(s) : micro'[i] = s[m]
      BY <1>18, <2>4, <3>2
    <3> QED BY <1>2, <3>1, <3>2
  <2>5. \A x \in Live' : \A m \in 1 .. Len(reactions'[Run(x)]) :
          Turns(reactions'[Run(x)][m]) => reactions'[Run(x)][m].call # reactions'[Entry(p)][k].call
    <3>1. ASSUME NEW x \in Live', NEW m \in 1 .. Len(reactions'[Run(x)]), Turns(reactions'[Run(x)][m])
          PROVE  reactions'[Run(x)][m].call # reactions[Entry(p)][k].call
      <4>1. x \in Call /\ x \in Live /\ m \in 1 .. Len(reactions[Run(x)])
              /\ reactions'[Run(x)][m] = reactions[Run(x)][m]
        BY <1>3, <1>8, <3>1
      <4>2. Turns(reactions[Entry(p)][k]) /\ Turns(reactions[Run(x)][m])
        BY <1>18, <2>1, <3>1, <4>1
      <4> QED BY <1>1, <2>1, <4>1, <4>2 DEF TurnsOnce
    <3> QED BY <2>1, <3>1
  <2>6. \A r \in Call : \A m \in 1 .. Len(reactions'[Entry(r)]) :
          Turns(reactions'[Entry(r)][m]) /\ reactions'[Entry(r)][m].call = reactions'[Entry(p)][k].call => r = p
    <3>1. ASSUME NEW r \in Call, NEW m \in 1 .. Len(reactions'[Entry(r)]), Turns(reactions'[Entry(r)][m]),
                 reactions'[Entry(r)][m].call = reactions'[Entry(p)][k].call
          PROVE  r = p
      <4>1. m \in 1 .. Len(reactions[Entry(r)]) /\ reactions'[Entry(r)][m] = reactions[Entry(r)][m]
        BY <1>4, <3>1
      <4>2. Turns(reactions[Entry(r)][m]) /\ Turns(reactions[Entry(p)][k])
        BY <1>18, <2>1, <3>1, <4>1
      <4>3. reactions[Entry(r)][m].call = reactions[Entry(p)][k].call
        BY <2>1, <3>1, <4>1
      <4> QED BY <1>1, <2>1, <4>1, <4>2, <4>3 DEF TurnsOnce
    <3> QED BY <3>1
  <2> QED BY <2>3, <2>4, <2>5, <2>6
<1>19. TurnsOnce'
  BY <1>16, <1>17, <1>18 DEF TurnsOnce
<1> QED BY <1>12, <1>13, <1>19 DEF Chain

\* Whether a task leads, its name and call say.
LEMMA LeadsAlike ==
  ASSUME NEW t, NEW u, NEW chained, t.name = u.name, t.call = u.call
  PROVE  /\ Leads(t, chained) <=> Leads(u, chained)
         /\ Turns(t) <=> Turns(u)
         /\ Passes(t) <=> Passes(u)
BY DEF Leads, Turns, Passes

LEMMA ChainedStays ==
  ASSUME \A x \in Call : reactions'[Entry(x)] = reactions[Entry(x)]
  PROVE  Chained' = Chained
BY DEF Chained

LEMMA RunSettlesChain ==
  ASSUME CoreInv, CoreInv', OperationsOnce, Chain, RunSettles
  PROVE  Chain'
<1>1. PICK c : c = Current
  OBVIOUS
<1>2. /\ micro # <<>> /\ Head(micro).name = "run" /\ UNCHANGED flightVars /\ c \in runs /\ c \in Call
      /\ settled' = settled \cup {c}
      /\ \A x \in Call : reactions'[Run(x)] = IF x = c THEN <<>> ELSE reactions[Run(x)]
      /\ \A x \in Call : reactions'[Entry(x)] = reactions[Entry(x)]
  BY <1>1, RunSettlesShape
<1>3. PICK s \in Seq(TaskSet) : Grows(1, s) /\ Tells(s, reactions[Run(c)])
  BY <1>1, RunSettlesShape
<1>4. /\ want' = want /\ runs' = runs /\ active' = active /\ queued' = queued /\ settled \subseteq settled'
  BY <1>2 DEF flightVars
<1>5. OneLeads /\ QueuedIsLast /\ TurnsOnce
  BY DEF Chain
<1>6. Chained' = Chained
  BY <1>2, ChainedStays
<1>7. c \in Live /\ Live' = Live \ {c}
  <2>1. 1 \in 1 .. Len(micro) /\ micro[1].name \in LateName /\ micro[1].call = c
    BY <1>1, <1>2, HeadTask DEF LateName
  <2>2. c \notin settled
    BY <2>1 DEF OperationsOnce
  <2> QED BY <1>2, <1>4, <2>2 DEF Live
<1>8. ASSUME NEW k \in 1 .. Len(s)
      PROVE  /\ k \in 1 .. Len(reactions[Run(c)])
             /\ s[k].name = reactions[Run(c)][k].name /\ s[k].call = reactions[Run(c)][k].call
             /\ s[k].name # "follow"
             /\ Leads(s[k], Chained) <=> Leads(reactions[Run(c)][k], Chained)
             /\ Turns(s[k]) <=> Turns(reactions[Run(c)][k])
             /\ Passes(s[k]) <=> Passes(reactions[Run(c)][k])
  <2>1. /\ k \in 1 .. Len(reactions[Run(c)])
        /\ s[k].name = reactions[Run(c)][k].name /\ s[k].call = reactions[Run(c)][k].call
    BY <1>3 DEF Tells
  <2>2. reactions[Run(c)][k].name \in ReactionName
    BY <1>2, <2>1 DEF CoreInv, ReactionsFit, RunFits
  <2>3. s[k].name # "follow"
    BY <2>1, <2>2 DEF ReactionName
  <2> QED BY <2>1, <2>3, LeadsAlike
<1>9. ASSUME NEW k \in 1 .. Len(s), Leads(s[k], Chained')
      PROVE  /\ queued' # None
             /\ s[k].name = "follow" => s[k].arg.from = active' \/ s[k].arg.from \in settled'
             /\ \A i \in 1 .. Len(micro) : i > 1 => ~Leads(micro[i], Chained)
             /\ \A x \in Live' : \A m \in 1 .. Len(reactions[Run(x)]) : ~Leads(reactions[Run(x)][m], Chained)
             /\ \A m \in 1 .. Len(s) : Leads(s[m], Chained') => k = m
  <2>1. k \in 1 .. Len(reactions[Run(c)]) /\ Leads(reactions[Run(c)][k], Chained)
    BY <1>6, <1>8, <1>9
  <2>2. /\ c = active /\ queued # None /\ \A i \in 1 .. Len(micro) : ~Leads(micro[i], Chained)
        /\ \A m \in 1 .. Len(reactions[Run(c)]) : Leads(reactions[Run(c)][m], Chained) => k = m
    BY <1>5, <1>7, <2>1 DEF OneLeads
  <2>3. \A x \in Live' : \A m \in 1 .. Len(reactions[Run(x)]) : ~Leads(reactions[Run(x)][m], Chained)
    BY <1>5, <1>7, <2>2 DEF OneLeads
  <2>4. \A m \in 1 .. Len(s) : Leads(s[m], Chained') => k = m
    BY <1>6, <1>8, <2>2
  <2> QED BY <1>4, <1>8, <2>2, <2>3, <2>4
<1>10. \A k \in 1 .. Len(s) : Passes(s[k]) => s[k].call # queued'
  BY <1>4, <1>5, <1>7, <1>8 DEF QueuedIsLast
<1>11. ASSUME NEW k \in 1 .. Len(s), Turns(s[k])
       PROVE  /\ MayTurn(s[k].call)'
              /\ \A p \in Call : \A m \in 1 .. Len(reactions'[Entry(p)]) :
                   Turns(reactions'[Entry(p)][m]) => reactions'[Entry(p)][m].call # s[k].call
  <2>1. /\ k \in 1 .. Len(reactions[Run(c)]) /\ Turns(reactions[Run(c)][k])
        /\ s[k].call = reactions[Run(c)][k].call
    BY <1>8, <1>11
  <2>2. MayTurn(s[k].call)
    BY <1>5, <1>7, <2>1 DEF TurnsOnce
  <2>3. MayTurn(s[k].call)'
    BY <1>4, <2>2 DEF MayTurn
  <2>4. \A p \in Call : \A m \in 1 .. Len(reactions[Entry(p)]) :
          Turns(reactions[Entry(p)][m]) => reactions[Entry(p)][m].call # s[k].call
    BY <1>5, <1>7, <2>1 DEF TurnsOnce
  <2> QED BY <1>2, <2>3, <2>4
<1>12. \A x \in Call : \A k \in 1 .. Len(reactions'[Run(x)]) : Kept(Run(x), k)
  BY <1>2 DEF Kept
<1>13. \A x \in Call : \A k \in 1 .. Len(reactions'[Entry(x)]) : Kept(Entry(x), k)
  BY <1>2 DEF Kept
<1> QED BY <1>3, <1>4, <1>9, <1>10, <1>11, <1>12, <1>13, LeadMoves

LEMMA EntrySettlesChain ==
  ASSUME CoreInv, CoreInv', Chain, EntrySettles
  PROVE  Chain'
<1>1. PICK c : c = Current
  OBVIOUS
<1>2. /\ micro # <<>> /\ Head(micro).name = "entry" /\ UNCHANGED flightVars /\ c \in Call /\ settled' = settled
      /\ \A x \in Call : reactions'[Entry(x)] = IF x = c THEN <<>> ELSE reactions[Entry(x)]
      /\ \A x \in Call : reactions'[Run(x)] = reactions[Run(x)]
  BY <1>1, EntrySettlesShape
<1>3. PICK s \in Seq(TaskSet) : Grows(1, s) /\ Tells(s, reactions[Entry(c)])
  BY <1>1, EntrySettlesShape
<1>4. /\ want' = want /\ runs' = runs /\ active' = active /\ queued' = queued /\ settled \subseteq settled'
           /\ Live' = Live
  BY <1>2 DEF flightVars, Live
<1>5. OneLeads /\ QueuedIsLast /\ TurnsOnce
  BY DEF Chain
<1>6. 1 \in 1 .. Len(micro) /\ micro[1].name = "entry" /\ micro[1].call = c
  BY <1>1, <1>2, HeadTask
<1>7. ASSUME NEW k \in 1 .. Len(s)
      PROVE  /\ k \in 1 .. Len(reactions[Entry(c)]) /\ s[k].call = reactions[Entry(c)][k].call
             /\ s[k].name \in {"caller", "after"} /\ ~Passes(s[k])
             /\ Turns(s[k]) <=> Turns(reactions[Entry(c)][k])
             /\ Turns(s[k]) => c \in Chained
  <2>1. /\ k \in 1 .. Len(reactions[Entry(c)])
        /\ s[k].name = reactions[Entry(c)][k].name /\ s[k].call = reactions[Entry(c)][k].call
    BY <1>3 DEF Tells
  <2>2. reactions[Entry(c)][k].name \in {"caller", "after"}
    BY <1>2, <2>1 DEF CoreInv, ReactionsFit, EntryFits
  <2>3. Turns(s[k]) => c \in Chained
    BY <1>2, <2>1, <2>2 DEF Turns, Chained
  <2> QED BY <2>1, <2>2, <2>3, LeadsAlike DEF Passes
<1>8. ASSUME NEW k \in 1 .. Len(s), Leads(s[k], Chained')
      PROVE  /\ queued' # None
             /\ s[k].name = "follow" => s[k].arg.from = active' \/ s[k].arg.from \in settled'
             /\ \A i \in 1 .. Len(micro) : i > 1 => ~Leads(micro[i], Chained)
             /\ \A x \in Live' : \A m \in 1 .. Len(reactions[Run(x)]) : ~Leads(reactions[Run(x)][m], Chained)
             /\ \A m \in 1 .. Len(s) : Leads(s[m], Chained') => k = m
  <2>1. \A m \in 1 .. Len(s) : Leads(s[m], Chained') => Turns(s[m])
    BY <1>7 DEF Leads
  <2>2. Leads(micro[1], Chained)
    BY <1>6, <1>7, <1>8, <2>1 DEF Leads, Passes
  <2>3. queued # None /\ \A i \in 1 .. Len(micro) : i > 1 => ~Leads(micro[i], Chained)
    BY <1>5, <1>6, <2>2 DEF OneLeads
  <2>4. \A x \in Live : \A m \in 1 .. Len(reactions[Run(x)]) : ~Leads(reactions[Run(x)][m], Chained)
    BY <1>5, <1>6, <2>2 DEF OneLeads
  <2>5. \A m \in 1 .. Len(s) : Leads(s[m], Chained') => k = m
    BY <1>2, <1>5, <1>7, <1>8, <2>1 DEF OneLeads
  <2> QED BY <1>4, <1>7, <2>3, <2>4, <2>5
<1>9. ASSUME NEW k \in 1 .. Len(s), Turns(s[k])
       PROVE  /\ MayTurn(s[k].call)'
              /\ \A p \in Call : \A m \in 1 .. Len(reactions'[Entry(p)]) :
                   Turns(reactions'[Entry(p)][m]) => reactions'[Entry(p)][m].call # s[k].call
  <2>1. /\ k \in 1 .. Len(reactions[Entry(c)]) /\ Turns(reactions[Entry(c)][k])
        /\ s[k].call = reactions[Entry(c)][k].call
    BY <1>7, <1>9
  <2>2. MayTurn(s[k].call)
    BY <1>2, <1>5, <2>1 DEF TurnsOnce
  <2>3. MayTurn(s[k].call)'
    BY <1>4, <2>2 DEF MayTurn
  <2>4. \A p \in Call : \A m \in 1 .. Len(reactions[Entry(p)]) :
          Turns(reactions[Entry(p)][m]) /\ reactions[Entry(p)][m].call = s[k].call => p = c
    BY <1>2, <1>5, <2>1 DEF TurnsOnce
  <2> QED BY <1>2, <2>3, <2>4
<1>10. \A x \in Call : \A k \in 1 .. Len(reactions'[Run(x)]) : Kept(Run(x), k)
  BY <1>2 DEF Kept
<1>11. \A x \in Call : \A k \in 1 .. Len(reactions'[Entry(x)]) : Kept(Entry(x), k)
  BY <1>2 DEF Kept
<1>12. /\ \A x \in 1 .. Made : want'[x] = want[x]
       /\ queued' = queued /\ active' = active /\ settled \subseteq settled'
       /\ runs' \subseteq runs \cup {micro[1].call} /\ runs' = runs
       /\ \A k \in 1 .. Len(s) : Passes(s[k]) => s[k].call # queued'
  BY <1>4, <1>7
<1>13. Grows(1, s)
  BY <1>3
<1> QED BY <1>8, <1>9, <1>10, <1>11, <1>12, <1>13, LeadMoves, SMTT(30)

LEMMA AfterChain ==
  ASSUME CoreInv, CoreInv', Chain, After
  PROVE  Chain'
<1>1. /\ micro # <<>> /\ Head(micro).name = "after" /\ UNCHANGED <<flightVars, promiseVars>>
      /\ Adding(<<Task("turn", Current, Nothing)>>)
  BY DEF After, Runs
<1>2. Current \in Nat
  BY <1>1, HeadTask
<1>3. PICK t \in TaskSet : t.name = "turn" /\ t.call = Current /\ Adding(<<t>>)
  BY <1>1, <1>2, PlainTask, Names
<1>4. /\ want' = want /\ runs' = runs /\ active' = active /\ queued' = queued /\ reactions' = reactions
      /\ settled' = settled /\ Live' = Live
  BY <1>1 DEF flightVars, promiseVars, Live
<1>5. OneLeads /\ QueuedIsLast /\ TurnsOnce
  BY DEF Chain
<1>6. 1 \in 1 .. Len(micro) /\ Turns(micro[1]) /\ Leads(micro[1], Chained) /\ micro[1].call = t.call
  BY <1>1, <1>3, HeadTask DEF Turns, Leads
<1>7. Grows(1, <<t>>)
  BY <1>1, <1>3, HeadAdds
<1>8. \A k \in 1 .. Len(<<t>>) : k = 1 /\ <<t>>[k] = t
  BY <1>3, OneTask
<1>9. /\ queued # None /\ \A i \in 1 .. Len(micro) : i > 1 => ~Leads(micro[i], Chained)
      /\ \A x \in Live : \A m \in 1 .. Len(reactions[Run(x)]) : ~Leads(reactions[Run(x)][m], Chained)
  BY <1>5, <1>6 DEF OneLeads
<1>10. \A k \in 1 .. Len(<<t>>) : Leads(<<t>>[k], Chained') =>
         /\ queued' # None
         /\ <<t>>[k].name = "follow" => <<t>>[k].arg.from = active' \/ <<t>>[k].arg.from \in settled'
         /\ \A i \in 1 .. Len(micro) : i > 1 => ~Leads(micro[i], Chained)
         /\ \A x \in Live' : \A m \in 1 .. Len(reactions[Run(x)]) : ~Leads(reactions[Run(x)][m], Chained)
         /\ \A m \in 1 .. Len(<<t>>) : Leads(<<t>>[m], Chained') => k = m
  BY <1>3, <1>4, <1>8, <1>9
<1>11. \A k \in 1 .. Len(<<t>>) : Passes(<<t>>[k]) => <<t>>[k].call # queued'
  BY <1>3, <1>8 DEF Passes
<1>12. ASSUME NEW k \in 1 .. Len(<<t>>), Turns(<<t>>[k])
       PROVE  /\ MayTurn(<<t>>[k].call)'
              /\ \A p \in Call : \A m \in 1 .. Len(reactions'[Entry(p)]) :
                   Turns(reactions'[Entry(p)][m]) => reactions'[Entry(p)][m].call # <<t>>[k].call
  <2>1. <<t>>[k].call = micro[1].call
    BY <1>6, <1>8
  <2>2. MayTurn(micro[1].call)
    BY <1>5, <1>6 DEF TurnsOnce
  <2>3. MayTurn(<<t>>[k].call)'
    BY <1>4, <2>1, <2>2 DEF MayTurn
  <2>4. \A p \in Call : \A m \in 1 .. Len(reactions[Entry(p)]) :
          Turns(reactions[Entry(p)][m]) => reactions[Entry(p)][m].call # micro[1].call
    BY <1>5, <1>6 DEF TurnsOnce
  <2> QED BY <1>4, <2>1, <2>3, <2>4
<1>13. /\ \A x \in Call : \A k \in 1 .. Len(reactions'[Run(x)]) : Kept(Run(x), k)
       /\ \A x \in Call : \A k \in 1 .. Len(reactions'[Entry(x)]) : Kept(Entry(x), k)
  BY <1>4 DEF Kept
<1> QED BY <1>4, <1>7, <1>10, <1>11, <1>12, <1>13, LeadMoves

\* An entry that has its turn has not had it before.
LEMMA TurnIsFirst ==
  ASSUME CoreInv, Chain, micro # <<>>, Head(micro).name \in {"after", "turn"}
  PROVE  /\ MayTurn(Current) /\ 1 \in 1 .. Len(micro) /\ micro[1].call = Current
         /\ Turns(micro[1]) /\ Leads(micro[1], Chained) /\ queued # None
         /\ \A i \in 1 .. Len(micro) : i > 1 => ~Leads(micro[i], Chained)
         /\ \A x \in Live : \A m \in 1 .. Len(reactions[Run(x)]) : ~Leads(reactions[Run(x)][m], Chained)
<1>1. 1 \in 1 .. Len(micro) /\ micro[1].call = Current /\ Turns(micro[1]) /\ Leads(micro[1], Chained)
  BY HeadTask DEF Turns, Leads
<1> QED BY <1>1 DEF Chain, OneLeads, TurnsOnce

\* The entry's promise follows an operation: what comes after it leads, if any does.
LEMMA TurnsFollow ==
  ASSUME CoreInv, CoreInv', Chain, micro # <<>>, Head(micro).name = "turn", NEW c, c = Current, c \in 1 .. Made,
         want' = want, settled' = settled, queued' = (IF queued = c THEN None ELSE queued),
         runs' \subseteq runs \cup {c}, NEW s, Grows(1, s),
         \A k \in 1 .. Len(s) : s[k].name \in {"operation", "follow"},
         \A k \in 1 .. Len(s) : s[k].name = "follow" => s[k].call = c /\ s[k].arg.from = active',
         \A k, m \in 1 .. Len(s) : s[k].name = "follow" /\ s[m].name = "follow" => k = m,
         \A x \in Call : \A k \in 1 .. Len(reactions'[Run(x)]) :
           Kept(Run(x), k) \/ (~Turns(reactions'[Run(x)][k]) /\ ~Passes(reactions'[Run(x)][k])),
         \A x \in Call : reactions'[Entry(x)] = reactions[Entry(x)]
  PROVE  Chain'
<1>1. /\ micro[1].call = c /\ Turns(micro[1]) /\ Leads(micro[1], Chained) /\ queued # None
      /\ \A i \in 1 .. Len(micro) : i > 1 => ~Leads(micro[i], Chained)
      /\ \A x \in Live : \A m \in 1 .. Len(reactions[Run(x)]) : ~Leads(reactions[Run(x)][m], Chained)
  BY TurnIsFirst
<1>2. Chained' = Chained
  BY ChainedStays
<1>3. ASSUME NEW x \in Live', NEW m \in 1 .. Len(reactions[Run(x)]) PROVE ~Leads(reactions[Run(x)][m], Chained)
  <2>1. x \in Call
    <3>1. runs \subseteq Call /\ c \in Call
      BY MadeIsNat
    <3> QED BY <3>1 DEF Live
  <2>2. x \in runs
    BY <2>1, TurnCalls
  <2> QED BY <1>1, <2>2 DEF Live
<1>4. ASSUME NEW k \in 1 .. Len(s), Leads(s[k], Chained')
      PROVE  s[k].name = "follow" /\ queued' # None
  <2>1. ~Turns(s[k])
    BY DEF Turns
  <2>2. Passes(s[k]) /\ s[k].call \in Chained
    BY <1>2, <1>4, <2>1 DEF Leads
  <2>3. s[k].name = "follow"
    BY <2>2 DEF Passes
  <2>4. queued # c
    BY <2>2, <2>3 DEF Chain, QueuedIsLast
  <2> QED BY <1>1, <2>3, <2>4
<1>5. \A k \in 1 .. Len(s) : Leads(s[k], Chained') =>
        /\ queued' # None
        /\ s[k].name = "follow" => s[k].arg.from = active' \/ s[k].arg.from \in settled'
        /\ \A i \in 1 .. Len(micro) : i > 1 => ~Leads(micro[i], Chained)
        /\ \A x \in Live' : \A m \in 1 .. Len(reactions[Run(x)]) : ~Leads(reactions[Run(x)][m], Chained)
        /\ \A m \in 1 .. Len(s) : Leads(s[m], Chained') => k = m
  BY <1>1, <1>3, <1>4
<1>6. \A k \in 1 .. Len(s) : Passes(s[k]) => s[k].call # queued'
  <2>1. c # None
    BY DEF None
  <2> QED BY <2>1 DEF Passes
<1>7. \A k \in 1 .. Len(s) : ~Turns(s[k])
  BY DEF Turns
<1>8. queued' = queued \/ queued' = None
  OBVIOUS
<1>9. \A x \in Call : \A k \in 1 .. Len(reactions'[Entry(x)]) : Kept(Entry(x), k)
  BY DEF Kept
<1> QED BY <1>1, <1>5, <1>6, <1>7, <1>8, <1>9, LeadMoves

LEMMA TurnChain ==
  ASSUME CoreInv, CoreInv', Chain, Turn
  PROVE  Chain'
<1>1. PICK c : c = Current
  OBVIOUS
<1>2. /\ micro # <<>> /\ Head(micro).name = "turn" /\ want' = want /\ settled' = settled
      /\ c \in 1 .. Made /\ c \in Call /\ queued' = (IF queued = c THEN None ELSE queued)
  BY <1>1, TurnShape
<1>3. CASE /\ active' = active /\ runs' = runs /\ reactions' = reactions
           /\ \E t \in TaskSet : t.name = "follow" /\ t.call = c /\ t.arg.from = active /\ Adding(<<t>>)
  <2>1. PICK t \in TaskSet : t.name = "follow" /\ t.call = c /\ t.arg.from = active /\ Adding(<<t>>)
    BY <1>3
  <2>2. PICK s : s = <<t>> /\ Grows(1, s)
    BY <1>2, <2>1, HeadAdds
  <2>3. \A k \in 1 .. Len(s) : k = 1 /\ s[k] = t
    BY <2>2, OneTask
  <2>4. /\ \A k \in 1 .. Len(s) : s[k].name \in {"operation", "follow"}
        /\ \A k \in 1 .. Len(s) : s[k].name = "follow" => s[k].call = c /\ s[k].arg.from = active'
        /\ \A k, m \in 1 .. Len(s) : s[k].name = "follow" /\ s[m].name = "follow" => k = m
    BY <1>3, <2>1, <2>3
  <2>5. \A x \in Call : \A k \in 1 .. Len(reactions'[Run(x)]) : Kept(Run(x), k)
    BY <1>3 DEF Kept
  <2>6. runs' \subseteq runs \cup {c} /\ \A x \in Call : reactions'[Entry(x)] = reactions[Entry(x)]
    BY <1>3
  <2> QED BY <1>1, <1>2, <2>2, <2>4, <2>5, <2>6, TurnsFollow
<1>4. CASE /\ active' = c /\ runs' = runs \cup {c}
           /\ \A x \in Call : reactions'[Run(x)] = (IF x = c THEN <<Task("clear", c, Nothing)>> ELSE reactions[Run(x)])
           /\ \A x \in Call : reactions'[Entry(x)] = reactions[Entry(x)]
           /\ \E t, u \in TaskSet : /\ t.name = "operation" /\ t.call = c
                                    /\ u.name = "follow" /\ u.call = c /\ u.arg.from = c
                                    /\ Grows(1, <<t, u>>)
  <2>1. PICK t \in TaskSet, u \in TaskSet :
          t.name = "operation" /\ t.call = c /\ u.name = "follow" /\ u.call = c /\ u.arg.from = c
            /\ Grows(1, <<t, u>>)
    BY <1>4
  <2>9. PICK s : s = <<t, u>> /\ Grows(1, s)
    BY <2>1
  <2>2. \A k \in 1 .. Len(s) : (k = 1 /\ s[k] = t) \/ (k = 2 /\ s[k] = u)
    BY <2>9, TwoTasks
  <2>3. /\ \A k \in 1 .. Len(s) : s[k].name \in {"operation", "follow"}
        /\ \A k \in 1 .. Len(s) : s[k].name = "follow" => s[k].call = c /\ s[k].arg.from = active'
        /\ \A k, m \in 1 .. Len(s) : s[k].name = "follow" /\ s[m].name = "follow" => k = m
    BY <1>4, <2>1, <2>2
  <2>4. PICK v : v = Task("clear", c, Nothing)
    OBVIOUS
  <2>5. v \in TaskSet /\ v.name = "clear"
    BY <1>2, <2>4, PlainTask, Names
  <2>6. ~Turns(v) /\ ~Passes(v)
    BY <2>5 DEF Turns, Passes
  <2>7. ASSUME NEW x \in Call, NEW k \in 1 .. Len(reactions'[Run(x)])
        PROVE  Kept(Run(x), k) \/ (~Turns(reactions'[Run(x)][k]) /\ ~Passes(reactions'[Run(x)][k]))
    <3>1. CASE x = c
      <4>1. reactions'[Run(x)] = <<v>>
        BY <1>4, <2>4, <3>1
      <4>2. reactions'[Run(x)][k] = v
        BY <2>5, <2>7, <4>1, OneTask
      <4> QED BY <2>6, <4>2
    <3>2. CASE x # c
      <4>1. reactions'[Run(x)] = reactions[Run(x)]
        BY <1>4, <3>2
      <4>2. k \in 1 .. Len(reactions[Run(x)]) /\ reactions'[Run(x)][k] = reactions[Run(x)][k]
        BY <2>7, <4>1
      <4>3. Kept(Run(x), k)
        BY <4>2 DEF Kept
      <4> QED BY <4>3
    <3> QED BY <3>1, <3>2
  <2>8. runs' \subseteq runs \cup {c}
    BY <1>4
  <2>10. \A x \in Call : reactions'[Entry(x)] = reactions[Entry(x)]
    BY <1>4
  <2>11. \A x \in Call : \A k \in 1 .. Len(reactions'[Run(x)]) :
           Kept(Run(x), k) \/ (~Turns(reactions'[Run(x)][k]) /\ ~Passes(reactions'[Run(x)][k]))
    BY <2>7
  <2>12. c = Current /\ Grows(1, s)
    BY <1>1, <2>9
  <2>13. /\ micro # <<>> /\ Head(micro).name = "turn" /\ want' = want /\ settled' = settled
         /\ c \in 1 .. Made /\ queued' = (IF queued = c THEN None ELSE queued)
    BY <1>2
  <2> QED BY <2>3, <2>8, <2>10, <2>11, <2>12, <2>13, TurnsFollow
<1> QED BY <1>1, <1>3, <1>4, TurnShape

LEMMA FollowChain ==
  ASSUME CoreInv, CoreInv', Chain, Follow
  PROVE  Chain'
<1>1. PICK c, f : c = Current /\ f = Given.from
  OBVIOUS
<1>2. /\ micro # <<>> /\ Head(micro).name = "follow" /\ Adding(<<>>) /\ UNCHANGED <<flightVars, settled>>
      /\ f \in runs /\ f \in Call /\ c \in 1 .. Made
      /\ \A x \in Call : x # f => reactions'[Run(x)] = reactions[Run(x)]
      /\ \A x \in Call : reactions'[Entry(x)] = reactions[Entry(x)]
  BY <1>1, FollowShape
<1>3. PICK t \in TaskSet : t.name = "entry" /\ t.call = c /\ Gets(Run(f), t)
  BY <1>1, FollowShape
<1>4. want' = want /\ runs' = runs /\ active' = active /\ queued' = queued /\ settled' = settled /\ Live' = Live
  BY <1>2 DEF flightVars, Live
<1>5. Grows(1, <<>>)
  BY <1>2, HeadAddsNone
<1>6. Len(micro) \in Nat /\ \A i \in 1 .. Len(micro') : i + 1 \in 1 .. Len(micro) /\ i + 1 > 1
        /\ micro'[i] = micro[i + 1]
  <2>1. \A i \in 1 .. Len(micro') : i + 1 \in 1 .. Len(micro) /\ micro'[i] = micro[i + 1]
    BY <1>5, NoTask, Placed
  <2>2. Len(micro) \in Nat
    BY <1>5, Placed
  <2>3. \A i \in 1 .. Len(micro') : i + 1 > 1
    OBVIOUS
  <2> QED BY <2>1, <2>2, <2>3
<1>7. 1 \in 1 .. Len(micro) /\ micro[1].name = "follow" /\ micro[1].call = c /\ micro[1].arg.from = f
  BY <1>1, <1>2, HeadTask
<1>8. OneLeads /\ QueuedIsLast /\ TurnsOnce
  BY DEF Chain
<1>9. Chained' = Chained
  BY <1>2, ChainedStays
<1>10. ASSUME NEW x \in Live, NEW k \in 1 .. Len(reactions'[Run(x)])
       PROVE  \/ k \in 1 .. Len(reactions[Run(x)]) /\ reactions'[Run(x)][k] = reactions[Run(x)][k]
              \/ x = f /\ k = Len(reactions[Run(f)]) + 1 /\ reactions'[Run(x)][k] = t
  <2>1. x \in Call
    BY TurnCalls DEF Live
  <2>2. CASE x = f
    BY <1>3, <1>10, <2>2 DEF Gets
  <2>3. CASE x # f
    BY <1>2, <1>10, <2>1, <2>3
  <2> QED BY <2>2, <2>3
<1>11. Passes(t) /\ ~Turns(t) /\ (Leads(t, Chained) => Leads(micro[1], Chained)) /\ c # queued
  BY <1>3, <1>7, <1>8 DEF Passes, Turns, Leads, QueuedIsLast
<1>12. ASSUME Leads(micro[1], Chained)
       PROVE  /\ queued # None /\ (f = active \/ f \in settled)
              /\ \A i \in 1 .. Len(micro) : i > 1 => ~Leads(micro[i], Chained)
              /\ \A x \in Live : \A k \in 1 .. Len(reactions[Run(x)]) : ~Leads(reactions[Run(x)][k], Chained)
  BY <1>7, <1>8, <1>12 DEF OneLeads
<1>13. ASSUME NEW x \in Live, NEW k \in 1 .. Len(reactions'[Run(x)]), Leads(reactions'[Run(x)][k], Chained)
       PROVE  /\ x = active /\ queued # None /\ \A i \in 1 .. Len(micro') : ~Leads(micro'[i], Chained)
              /\ \A m \in 1 .. Len(reactions'[Run(x)]) : Leads(reactions'[Run(x)][m], Chained) => k = m
  <2>1. CASE k \in 1 .. Len(reactions[Run(x)]) /\ reactions'[Run(x)][k] = reactions[Run(x)][k]
    <3>1. /\ x = active /\ queued # None /\ \A i \in 1 .. Len(micro) : ~Leads(micro[i], Chained)
          /\ \A m \in 1 .. Len(reactions[Run(x)]) : Leads(reactions[Run(x)][m], Chained) => k = m
      BY <1>8, <1>13, <2>1 DEF OneLeads
    <3>2. ~Leads(t, Chained)
      BY <1>7, <1>11, <3>1
    <3> QED BY <1>6, <1>10, <3>1, <3>2
  <2>2. CASE x = f /\ k = Len(reactions[Run(f)]) + 1 /\ reactions'[Run(x)][k] = t
    <3>1. Leads(micro[1], Chained)
      BY <1>11, <1>13, <2>2
    <3>2. x = active
      BY <1>12, <2>2, <3>1 DEF Live
    <3>3. \A m \in 1 .. Len(reactions'[Run(x)]) : Leads(reactions'[Run(x)][m], Chained) => k = m
      BY <1>10, <1>12, <2>2, <3>1
    <3> QED BY <1>6, <1>12, <3>1, <3>2, <3>3
  <2> QED BY <1>10, <2>1, <2>2
<1>14. OneLeads'
  <2>1. \A i, j \in 1 .. Len(micro') : Leads(micro'[i], Chained) /\ Leads(micro'[j], Chained) => i = j
    <3>1. ASSUME NEW i \in 1 .. Len(micro'), NEW j \in 1 .. Len(micro'), Leads(micro'[i], Chained),
                 Leads(micro'[j], Chained)
          PROVE  i = j
      <4>1. i + 1 = j + 1
        BY <1>6, <1>8, <3>1 DEF OneLeads
      <4> QED BY <4>1
    <3> QED BY <3>1
  <2>2. \A i \in 1 .. Len(micro') : Leads(micro'[i], Chained) =>
          /\ queued # None
          /\ micro'[i].name = "follow" => micro'[i].arg.from = active \/ micro'[i].arg.from \in settled
    BY <1>6, <1>8 DEF OneLeads
  <2>3. \A p \in Call : \A k, m \in 1 .. Len(reactions'[Entry(p)]) :
          Turns(reactions'[Entry(p)][k]) /\ Turns(reactions'[Entry(p)][m]) => k = m
    BY <1>2, <1>8 DEF OneLeads
  <2> QED BY <1>4, <1>9, <1>13, <2>1, <2>2, <2>3 DEF OneLeads
<1>15. QueuedIsLast'
  <2>1. \A i \in 1 .. Len(micro') : Passes(micro'[i]) => micro'[i].call # queued
    BY <1>6, <1>8 DEF QueuedIsLast
  <2>2. \A x \in Live : \A k \in 1 .. Len(reactions'[Run(x)]) :
          Passes(reactions'[Run(x)][k]) => reactions'[Run(x)][k].call # queued
    BY <1>3, <1>8, <1>10, <1>11 DEF QueuedIsLast
  <2> QED BY <1>4, <1>8, <1>9, <2>1, <2>2 DEF QueuedIsLast
<1>16. TurnsOnce'
  <2>1. \A i \in 1 .. Len(micro') : Turns(micro'[i]) => MayTurn(micro'[i].call)
    BY <1>6, <1>8 DEF TurnsOnce
  <2>2. \A x \in Live : \A k \in 1 .. Len(reactions'[Run(x)]) :
          Turns(reactions'[Run(x)][k]) => MayTurn(reactions'[Run(x)][k].call)
    BY <1>8, <1>10, <1>11 DEF TurnsOnce
  <2>3. ASSUME NEW p \in Call, NEW k \in 1 .. Len(reactions'[Entry(p)]), Turns(reactions'[Entry(p)][k])
        PROVE  /\ MayTurn(reactions'[Entry(p)][k].call)
               /\ \A i \in 1 .. Len(micro') : Turns(micro'[i]) => micro'[i].call # reactions'[Entry(p)][k].call
               /\ \A x \in Live : \A m \in 1 .. Len(reactions'[Run(x)]) :
                    Turns(reactions'[Run(x)][m]) => reactions'[Run(x)][m].call # reactions'[Entry(p)][k].call
               /\ \A r \in Call : \A m \in 1 .. Len(reactions'[Entry(r)]) :
                    Turns(reactions'[Entry(r)][m]) /\ reactions'[Entry(r)][m].call = reactions'[Entry(p)][k].call => r = p
    <3>1. reactions'[Entry(p)] = reactions[Entry(p)]
      BY <1>2
    <3>2. MayTurn(reactions'[Entry(p)][k].call)
      BY <1>8, <2>3, <3>1 DEF TurnsOnce
    <3>3. \A i \in 1 .. Len(micro') : Turns(micro'[i]) => micro'[i].call # reactions'[Entry(p)][k].call
      BY <1>6, <1>8, <2>3, <3>1 DEF TurnsOnce
    <3>4. \A x \in Live : \A m \in 1 .. Len(reactions'[Run(x)]) :
            Turns(reactions'[Run(x)][m]) => reactions'[Run(x)][m].call # reactions'[Entry(p)][k].call
      BY <1>8, <1>10, <1>11, <2>3, <3>1 DEF TurnsOnce
    <3>5. \A r \in Call : \A m \in 1 .. Len(reactions'[Entry(r)]) :
            Turns(reactions'[Entry(r)][m]) /\ reactions'[Entry(r)][m].call = reactions'[Entry(p)][k].call => r = p
      BY <1>2, <1>8, <2>3, <3>1 DEF TurnsOnce
    <3> QED BY <3>2, <3>3, <3>4, <3>5
  <2> QED BY <1>4, <2>1, <2>2, <2>3 DEF TurnsOnce, MayTurn
<1> QED BY <1>14, <1>15, <1>16 DEF Chain

\* An entry is queued behind the active operation or the entry queued before.
LEMMA QueuedChain ==
  ASSUME CoreInv, CoreInv', Chain, NEW c \in Call, c \notin 1 .. Made, c # None, Queued(c), settled' = settled,
         \A x \in 1 .. Made : want'[x] = want[x]
  PROVE  Chain'
<1>1. /\ active' = active /\ runs' = runs /\ micro' = micro /\ queued' = c /\ want'[c] # "automatic" /\ Live' = Live
  BY DEF Queued, Live
<1>2. PICK p \in Promise, t \in TaskSet, u \in TaskSet :
        /\ p = IF queued = None THEN Run(active) ELSE Entry(queued)
        /\ t.name = "after" /\ t.call = c /\ Gets(p, t)
        /\ u.name = "caller" /\ u.call = c /\ Gets(Entry(c), u)
        /\ \A q \in Promise : q # p /\ q # Entry(c) => reactions'[q] = reactions[q]
  BY DEF Queued
<1>3. OneLeads /\ QueuedIsLast /\ TurnsOnce
  BY DEF Chain
<1>4. /\ Turns(t) /\ ~Passes(t) /\ ~Turns(u) /\ ~Passes(u)
  BY <1>2 DEF Turns, Passes
<1>5. /\ active \in Call /\ queued \in 0 .. Made /\ (queued # None => queued \in Call) /\ queued # c /\ c \notin runs
  <2>1. active \in runs /\ queued \in 0 .. Made /\ runs \subseteq 1 .. Made
    BY DEF CoreInv, Types, Queued
  <2>2. 1 .. Made \subseteq Call /\ Made \in Nat
    BY MadeIsNat
  <2>3. queued # None => queued \in 1 .. Made
    BY <2>1, <2>2 DEF None
  <2> QED BY <2>1, <2>2, <2>3
<1>6. Run(active) # Entry(c) /\ Entry(c) \in Promise /\ Run(active) \in Promise
  BY <1>5, PromisesApart
<1>7. ASSUME NEW x \in Call, NEW k \in 1 .. Len(reactions'[Run(x)])
      PROVE  \/ k \in 1 .. Len(reactions[Run(x)]) /\ reactions'[Run(x)][k] = reactions[Run(x)][k]
             \/ queued = None /\ x = active /\ k = Len(reactions[Run(x)]) + 1 /\ reactions'[Run(x)][k] = t
  <2>1. CASE queued = None /\ x = active
    BY <1>2, <1>7, <2>1 DEF Gets
  <2>2. CASE ~(queued = None /\ x = active)
    <3>1. Run(x) \in Promise /\ Run(x) # Entry(c) /\ Run(x) # p
      BY <1>2, <1>5, <2>2, PromisesApart
    <3> QED BY <1>2, <1>7, <3>1
  <2> QED BY <2>1, <2>2
<1>8. ASSUME NEW x \in Call, NEW k \in 1 .. Len(reactions'[Entry(x)]), Turns(reactions'[Entry(x)][k])
      PROVE  \/ k \in 1 .. Len(reactions[Entry(x)]) /\ reactions'[Entry(x)][k] = reactions[Entry(x)][k] /\ x # c
             \/ queued # None /\ x = queued /\ k = Len(reactions[Entry(x)]) + 1 /\ reactions'[Entry(x)][k] = t
  <2>1. CASE x = c
    <3>1. Len(reactions[Entry(c)]) = 0
      <4>1. \A m \in 1 .. Len(reactions[Entry(c)]) : FALSE
        BY TurnCalls
      <4>2. Len(reactions[Entry(c)]) \in Nat
        BY <1>2 DEF Gets
      <4> QED BY <4>1, <4>2
    <3>2. reactions'[Entry(x)][k] = u
      BY <1>2, <1>8, <2>1, <3>1 DEF Gets
    <3> QED BY <1>4, <1>8, <3>2
  <2>2. CASE x # c /\ queued # None /\ x = queued
    BY <1>2, <1>8, <2>2 DEF Gets
  <2>3. CASE x # c /\ ~(queued # None /\ x = queued)
    <3>1. Entry(x) \in Promise /\ Entry(x) # Entry(c) /\ Entry(x) # p
      BY <1>2, <1>5, <2>3, PromisesApart
    <3> QED BY <1>2, <1>8, <2>3, <3>1
  <2> QED BY <2>1, <2>2, <2>3
<1>9. Chained' \subseteq Chained \cup {queued} /\ c \notin Chained' /\ (queued = None => Chained' \subseteq Chained)
  <2>1. ASSUME NEW x \in Call, NEW k \in 1 .. Len(reactions'[Entry(x)]), reactions'[Entry(x)][k].name = "after"
        PROVE  (x \in Chained \/ (queued # None /\ x = queued)) /\ x # c
    <3>1. Turns(reactions'[Entry(x)][k])
      BY <2>1 DEF Turns
    <3> QED BY <1>5, <1>8, <2>1, <3>1 DEF Chained
  <2> QED BY <2>1 DEF Chained
<1>10. ASSUME NEW v, Leads(v, Chained'), Passes(v) => v.call # queued
       PROVE  Leads(v, Chained)
  BY <1>9, <1>10 DEF Leads
<1>11. \A i \in 1 .. Len(micro) : Leads(micro[i], Chained') => Leads(micro[i], Chained)
  BY <1>3, <1>10 DEF QueuedIsLast
<1>12. \A x \in Live : x \in Call
  BY TurnCalls DEF Live
<1>13. ASSUME NEW x \in Live, NEW k \in 1 .. Len(reactions'[Run(x)]), Leads(reactions'[Run(x)][k], Chained')
       PROVE  \/ k \in 1 .. Len(reactions[Run(x)]) /\ Leads(reactions[Run(x)][k], Chained) /\ queued # None
              \/ queued = None /\ x = active /\ k = Len(reactions[Run(x)]) + 1
  <2>1. CASE k \in 1 .. Len(reactions[Run(x)]) /\ reactions'[Run(x)][k] = reactions[Run(x)][k]
    <3>1. Passes(reactions[Run(x)][k]) => reactions[Run(x)][k].call # queued
      BY <1>3, <2>1 DEF QueuedIsLast
    <3>2. Leads(reactions[Run(x)][k], Chained)
      BY <1>10, <1>13, <2>1, <3>1
    <3> QED BY <1>3, <2>1, <3>2 DEF OneLeads
  <2> QED BY <1>7, <1>12, <2>1
<1>14. OneLeads'
  <2>1. \A i, j \in 1 .. Len(micro) : Leads(micro[i], Chained') /\ Leads(micro[j], Chained') => i = j
    BY <1>3, <1>11 DEF OneLeads
  <2>2. \A i \in 1 .. Len(micro) : Leads(micro[i], Chained') /\ micro[i].name = "follow" =>
          micro[i].arg.from = active \/ micro[i].arg.from \in settled
    BY <1>3, <1>11 DEF OneLeads
  <2>3. ASSUME NEW q \in Call, NEW k \in 1 .. Len(reactions'[Entry(q)]), NEW m \in 1 .. Len(reactions'[Entry(q)]),
               Turns(reactions'[Entry(q)][k]), Turns(reactions'[Entry(q)][m])
        PROVE  k = m
    <3>1. \A l \in 1 .. Len(reactions[Entry(queued)]) : queued # None => ~Turns(reactions[Entry(queued)][l])
      <4>1. ASSUME NEW l \in 1 .. Len(reactions[Entry(queued)]), queued # None, Turns(reactions[Entry(queued)][l])
            PROVE  FALSE
        <5>1. reactions[Entry(queued)][l].name \in {"caller", "after"}
          BY <1>5, <4>1 DEF CoreInv, ReactionsFit, EntryFits
        <5>2. queued \in Chained
          BY <1>5, <4>1, <5>1 DEF Turns, Chained
        <5> QED BY <1>3, <5>2 DEF QueuedIsLast
      <4> QED BY <4>1
    <3>2. CASE queued # None /\ q = queued
      BY <1>8, <2>3, <3>1, <3>2
    <3>3. CASE ~(queued # None /\ q = queued)
      BY <1>3, <1>8, <2>3, <3>3 DEF OneLeads
    <3> QED BY <3>2, <3>3
  <2>4. ASSUME NEW x \in Live, NEW k \in 1 .. Len(reactions'[Run(x)]), Leads(reactions'[Run(x)][k], Chained')
        PROVE  /\ x = active
               /\ \A i \in 1 .. Len(micro) : ~Leads(micro[i], Chained')
               /\ \A m \in 1 .. Len(reactions'[Run(x)]) : Leads(reactions'[Run(x)][m], Chained') => k = m
    <3>1. CASE k \in 1 .. Len(reactions[Run(x)]) /\ Leads(reactions[Run(x)][k], Chained) /\ queued # None
      <4>1. /\ x = active /\ \A i \in 1 .. Len(micro) : ~Leads(micro[i], Chained)
            /\ \A m \in 1 .. Len(reactions[Run(x)]) : Leads(reactions[Run(x)][m], Chained) => k = m
        BY <1>3, <3>1 DEF OneLeads
      <4> QED BY <1>11, <1>13, <3>1, <4>1
    <3>2. CASE queued = None /\ x = active /\ k = Len(reactions[Run(x)]) + 1
      <4>1. \A i \in 1 .. Len(micro) : ~Leads(micro[i], Chained)
        BY <1>3, <3>2 DEF OneLeads
      <4> QED BY <1>11, <1>13, <3>2, <4>1
    <3> QED BY <1>13, <2>4, <3>1, <3>2
  <2> QED BY <1>1, <2>1, <2>2, <2>3, <2>4 DEF OneLeads
<1>15. QueuedIsLast'
  <2>1. \A i \in 1 .. Len(micro) : Passes(micro[i]) => micro[i].call # c
    BY TurnCalls
  <2>2. \A x \in Live : \A k \in 1 .. Len(reactions'[Run(x)]) :
          Passes(reactions'[Run(x)][k]) => reactions'[Run(x)][k].call # c
    BY <1>4, <1>7, <1>12, TurnCalls
  <2> QED BY <1>1, <1>9, <2>1, <2>2 DEF QueuedIsLast
<1>16. MayTurn(c)' /\ \A q \in 1 .. Made : MayTurn(q) => MayTurn(q)'
  BY <1>1, <1>5 DEF MayTurn
<1>17. TurnsOnce'
  <2>1. \A i \in 1 .. Len(micro) : Turns(micro[i]) => MayTurn(micro[i].call) /\ micro[i].call \in 1 .. Made
    BY <1>3, TurnCalls DEF TurnsOnce
  <2>2. \A i \in 1 .. Len(micro') : Turns(micro'[i]) => MayTurn(micro[i].call)'
    BY <1>1, <2>1 DEF MayTurn
  <2>3. ASSUME NEW x \in Live, NEW k \in 1 .. Len(reactions'[Run(x)]), Turns(reactions'[Run(x)][k])
        PROVE  /\ MayTurn(reactions[Run(x)][k].call)'
               /\ \/ k \in 1 .. Len(reactions[Run(x)]) /\ reactions'[Run(x)][k] = reactions[Run(x)][k]
                     /\ reactions[Run(x)][k].call \in 1 .. Made
                  \/ reactions'[Run(x)][k].call = c /\ queued = None
    <3>1. CASE k \in 1 .. Len(reactions[Run(x)]) /\ reactions'[Run(x)][k] = reactions[Run(x)][k]
      <4>1. MayTurn(reactions[Run(x)][k].call) /\ reactions[Run(x)][k].call \in 1 .. Made
        BY <1>3, <1>12, <2>3, <3>1, TurnCalls DEF TurnsOnce
      <4> QED BY <1>1, <3>1, <4>1 DEF MayTurn
    <3>2. CASE queued = None /\ reactions'[Run(x)][k] = t
      BY <1>2, <1>16, <3>2 DEF MayTurn
    <3> QED BY <1>7, <1>12, <3>1, <3>2
  <2>4. ASSUME NEW q \in Call, NEW k \in 1 .. Len(reactions'[Entry(q)]), Turns(reactions'[Entry(q)][k])
        PROVE  /\ MayTurn(reactions[Entry(q)][k].call)'
               /\ \/ k \in 1 .. Len(reactions[Entry(q)]) /\ reactions'[Entry(q)][k] = reactions[Entry(q)][k]
                     /\ reactions[Entry(q)][k].call \in 1 .. Made
                  \/ reactions'[Entry(q)][k].call = c /\ q = queued /\ queued # None
    <3>1. CASE k \in 1 .. Len(reactions[Entry(q)]) /\ reactions'[Entry(q)][k] = reactions[Entry(q)][k]
      <4>1. MayTurn(reactions[Entry(q)][k].call) /\ reactions[Entry(q)][k].call \in 1 .. Made
        BY <1>3, <2>4, <3>1, TurnCalls DEF TurnsOnce
      <4> QED BY <1>1, <3>1, <4>1 DEF MayTurn
    <3>2. CASE queued # None /\ q = queued /\ reactions'[Entry(q)][k] = t
      BY <1>2, <1>16, <3>2 DEF MayTurn
    <3> QED BY <1>8, <2>4, <3>1, <3>2
  <2>5. ASSUME NEW q \in Call, NEW k \in 1 .. Len(reactions'[Entry(q)]), Turns(reactions'[Entry(q)][k])
        PROVE  /\ \A i \in 1 .. Len(micro') : Turns(micro'[i]) => micro'[i].call # reactions'[Entry(q)][k].call
               /\ \A x \in Live : \A m \in 1 .. Len(reactions'[Run(x)]) :
                    Turns(reactions'[Run(x)][m]) => reactions'[Run(x)][m].call # reactions'[Entry(q)][k].call
               /\ \A r \in Call : \A m \in 1 .. Len(reactions'[Entry(r)]) :
                    Turns(reactions'[Entry(r)][m]) /\ reactions'[Entry(r)][m].call = reactions'[Entry(q)][k].call => r = q
    <3>1. CASE k \in 1 .. Len(reactions[Entry(q)]) /\ reactions'[Entry(q)][k] = reactions[Entry(q)][k]
               /\ reactions[Entry(q)][k].call \in 1 .. Made
      <4>1. \A i \in 1 .. Len(micro') : Turns(micro'[i]) => micro'[i].call # reactions'[Entry(q)][k].call
        BY <1>1, <1>3, <2>5, <3>1 DEF TurnsOnce
      <4>2. \A x \in Live : \A m \in 1 .. Len(reactions'[Run(x)]) :
              Turns(reactions'[Run(x)][m]) => reactions'[Run(x)][m].call # reactions'[Entry(q)][k].call
        <5>1. \A x \in Live : \A m \in 1 .. Len(reactions[Run(x)]) :
                Turns(reactions[Run(x)][m]) => reactions[Run(x)][m].call # reactions[Entry(q)][k].call
          BY <1>3, <2>5, <3>1 DEF TurnsOnce
        <5> QED BY <2>3, <3>1, <5>1
      <4>3. \A r \in Call : \A m \in 1 .. Len(reactions'[Entry(r)]) :
              Turns(reactions'[Entry(r)][m]) /\ reactions'[Entry(r)][m].call = reactions'[Entry(q)][k].call => r = q
        BY <1>3, <2>4, <2>5, <3>1 DEF TurnsOnce
      <4> QED BY <4>1, <4>2, <4>3
    <3>2. CASE reactions'[Entry(q)][k].call = c /\ q = queued /\ queued # None
      <4>1. \A i \in 1 .. Len(micro') : Turns(micro'[i]) => micro'[i].call # reactions'[Entry(q)][k].call
        <5>1. ASSUME NEW i \in 1 .. Len(micro'), Turns(micro'[i]) PROVE micro'[i].call # c
          <6>1. i \in 1 .. Len(micro) /\ micro'[i] = micro[i]
            BY <1>1
          <6> QED BY <2>1, <5>1, <6>1
        <5> QED BY <3>2, <5>1
      <4>2. \A x \in Live : \A m \in 1 .. Len(reactions'[Run(x)]) :
              Turns(reactions'[Run(x)][m]) => reactions'[Run(x)][m].call # reactions'[Entry(q)][k].call
        BY <2>3, <3>2
      <4>3. \A r \in Call : \A m \in 1 .. Len(reactions'[Entry(r)]) :
              Turns(reactions'[Entry(r)][m]) /\ reactions'[Entry(r)][m].call = reactions'[Entry(q)][k].call => r = q
        BY <2>4, <3>2
      <4> QED BY <4>1, <4>2, <4>3
    <3> QED BY <2>4, <2>5, <3>1, <3>2
  <2> QED BY <1>1, <2>2, <2>3, <2>4, <2>5 DEF TurnsOnce
<1> QED BY <1>14, <1>15, <1>17 DEF Chain

(***************************************************************************)
(* What the steps of an operation do                                       *)
(***************************************************************************)
LEMMA OperationShape ==
  ASSUME CoreInv, Operation
  PROVE  /\ micro # <<>> /\ Head(micro).name = "operation" /\ FlushAll
         /\ UNCHANGED <<flightVars, promiseVars, newest, idlers, viewVars, retained>>
BY DEF Operation, Runs

LEMMA EmptiedShape ==
  ASSUME CoreInv, Emptied
  PROVE  /\ micro # <<>> /\ Head(micro).name = "emptied"
         /\ UNCHANGED <<flightVars, promiseVars, newest, idlers, viewVars, retained>>
         /\ edit # "none" => FlushAll
         /\ edit = "none" => /\ UNCHANGED <<jobs, enqueued, flushers, edit>>
                             /\ \E t \in TaskSet : t.name = "begin" /\ t.call = Current /\ Grows(1, <<t>>)
<1>1. /\ micro # <<>> /\ Head(micro).name = "emptied"
      /\ UNCHANGED <<flightVars, promiseVars, newest, idlers, viewVars, retained>>
  BY DEF Emptied, Runs
<1>2. ASSUME edit = "none"
      PROVE  /\ UNCHANGED <<jobs, enqueued, flushers, edit>>
             /\ \E t \in TaskSet : t.name = "begin" /\ t.call = Current /\ Grows(1, <<t>>)
  <2> DEFINE t == Task("begin", Current, Nothing)
  <2>1. Adding(<<t>>) /\ UNCHANGED <<jobs, enqueued, flushers, edit>>
    BY <1>2 DEF Emptied
  <2>2. t \in TaskSet /\ t.name = "begin" /\ t.call = Current
    BY <1>1, HeadTask, PlainTask, Names
  <2> HIDE DEF t
  <2>3. Grows(1, <<t>>)
    BY <1>1, <2>1, <2>2, HeadAdds
  <2> QED BY <2>1, <2>2, <2>3
<1>3. edit # "none" => FlushAll
  BY DEF Emptied
<1> QED BY <1>1, <1>2, <1>3

LEMMA IdleShape ==
  ASSUME CoreInv, Idle
  PROVE  /\ micro # <<>> /\ Head(micro).name = "idle"
         /\ UNCHANGED <<flightVars, promiseVars, newest, jobs, enqueued, flushers, edit, viewVars, retained>>
         /\ Given.from # enqueued => AwaitTail
         /\ Given.from = enqueued => /\ UNCHANGED idlers
                                     /\ \E t \in TaskSet : t.name = "emptied" /\ t.call = Current /\ Grows(1, <<t>>)
<1>1. /\ micro # <<>> /\ Head(micro).name = "idle"
      /\ UNCHANGED <<flightVars, promiseVars, newest, jobs, enqueued, flushers, edit, viewVars, retained>>
  BY DEF Idle, Runs, editVars
<1>2. ASSUME Given.from = enqueued
      PROVE  /\ UNCHANGED idlers
             /\ \E t \in TaskSet : t.name = "emptied" /\ t.call = Current /\ Grows(1, <<t>>)
  <2> DEFINE t == Task("emptied", Current, Nothing)
  <2>1. Adding(<<t>>) /\ UNCHANGED idlers
    BY <1>2 DEF Idle
  <2>2. t \in TaskSet /\ t.name = "emptied" /\ t.call = Current
    BY <1>1, HeadTask, PlainTask, Names
  <2> HIDE DEF t
  <2>3. Grows(1, <<t>>)
    BY <1>1, <2>1, <2>2, HeadAdds
  <2> QED BY <2>1, <2>2, <2>3
<1>3. Given.from # enqueued => AwaitTail
  BY DEF Idle
<1> QED BY <1>1, <1>2, <1>3

(***************************************************************************)
(* Most steps bring on no turn                                             *)
(***************************************************************************)
Plain(s) == \A k \in 1 .. Len(s) : ~Turns(s[k]) /\ ~Passes(s[k]) /\ s[k].name # "clear"

LEMMA PlainOnes ==
  /\ Plain(<<>>)
  /\ \A t \in TaskSet : t.name \notin {"after", "turn", "entry", "follow", "clear"} => Plain(<<t>>)
  /\ \A t, u \in TaskSet : 
       t.name \notin {"after", "turn", "entry", "follow", "clear"}
         /\ u.name \notin {"after", "turn", "entry", "follow", "clear"} =>
         Plain(<<t, u>>)
  /\ \A s \in Seq(TaskSet) : (\A k \in 1 .. Len(s) : s[k].name \notin {"after", "turn", "entry", "follow", "clear"}) => Plain(s)
BY NoTask, OneTask, TwoTasks DEF Plain, Turns, Passes

LEMMA FlushAllPlain ==
  ASSUME CoreInv, micro # <<>>, Head(micro).name \in {"operation", "emptied"}, FlushAll
  PROVE  \E s : Grows(1, s) /\ Plain(s)
<1>1. PICK t : t = Task("flushed", Current, Result("ok", None))
  OBVIOUS
<1>2. t \in TaskSet /\ t.name = "flushed"
  <2>1. Current \in Nat
    BY HeadTask
  <2> QED BY <1>1, <2>1, Names DEF Task, Result, None, TaskSet, ResultSet
<1>3. CASE Grows(1, <<t>>)
  BY <1>2, <1>3, PlainOnes
<1>4. CASE \E s \in Seq(TaskSet) : Grows(1, s) /\ \A k \in 1 .. Len(s) : s[k].name = "job"
  BY <1>4, PlainOnes
<1> QED BY <1>1, <1>3, <1>4, FlushAllShape

LEMMA AwaitTailPlain ==
  ASSUME CoreInv, micro # <<>>, Head(micro).name \in {"flushed", "idle"}, AwaitTail
  PROVE  \E s : Grows(1, s) /\ Plain(s)
<1>1. Current \in Nat
  BY HeadTask
<1>2. Plain(<<Look(Current)>>) /\ Plain(<<>>)
  BY <1>1, LookType, PlainOnes
<1> QED BY <1>2, AwaitTailShape

LEMMA OperationPlain ==
  ASSUME CoreInv, Operation \/ Flushed \/ Idle \/ Emptied \/ Begin
  PROVE  UNCHANGED <<flightVars, promiseVars>> /\ \E n, s : Grows(n, s) /\ Plain(s)
<1>1. CASE Operation
  BY <1>1, OperationShape, FlushAllPlain
<1>2. CASE Flushed
  <2>1. CASE Given.code = "ok"
    BY <1>2, <2>1, FlushedShape, AwaitTailPlain
  <2>2. CASE Given.code # "ok"
    <3>1. PICK t \in TaskSet : t.name = "run" /\ Adding(<<t>>)
      BY <1>2, <2>2, FlushedShape
    <3>2. Grows(1, <<t>>) /\ Plain(<<t>>)
      BY <1>2, <3>1, FlushedShape, HeadAdds, PlainOnes
    <3> QED BY <1>2, <3>2, FlushedShape
  <2> QED BY <2>1, <2>2
<1>3. CASE Idle
  <2>1. CASE Given.from # enqueued
    BY <1>3, <2>1, IdleShape, AwaitTailPlain
  <2>2. CASE Given.from = enqueued
    BY <1>3, <2>2, IdleShape, PlainOnes
  <2> QED BY <2>1, <2>2
<1>4. CASE Emptied
  <2>1. CASE edit # "none"
    BY <1>4, <2>1, EmptiedShape, FlushAllPlain
  <2>2. CASE edit = "none"
    BY <1>4, <2>2, EmptiedShape, PlainOnes
  <2> QED BY <2>1, <2>2
<1>5. CASE Begin
  <2>1. CASE Safe(Current)
    <3>1. PICK s \in Seq(TaskSet) : Grows(1, s) /\ \A k \in 1 .. Len(s) : s[k].name = "job"
      BY <1>5, <2>1, BeginShape
    <3>2. Plain(s)
      BY <3>1, PlainOnes
    <3> QED BY <1>5, <3>1, <3>2, BeginShape
  <2>2. CASE ~Safe(Current)
    <3>1. PICK t \in TaskSet : t.name = "run" /\ Adding(<<t>>)
      BY <1>5, <2>2, BeginShape
    <3>2. Grows(1, <<t>>) /\ Plain(<<t>>)
      BY <1>5, <3>1, BeginShape, HeadAdds, PlainOnes
    <3> QED BY <1>5, <3>2, BeginShape
  <2> QED BY <2>1, <2>2
<1> QED BY <1>1, <1>2, <1>3, <1>4, <1>5

LEMMA JobPlain ==
  ASSUME CoreInv, JobStarts \/ TailSettles \/ Returns \/ LoadSucceeds \/ LoadFails
  PROVE  UNCHANGED <<flightVars, promiseVars>> /\ \E n, s : Grows(n, s) /\ Plain(s)
<1>1. CASE JobStarts
  <2>1. CASE Adding(<<>>)
    BY <1>1, <2>1, JobStartsShape, HeadAddsNone, PlainOnes
  <2>2. CASE ~Adding(<<>>)
    <3>1. PICK t \in TaskSet, u \in TaskSet : t.name = "tail" /\ u.name = "return" /\ Grows(1, <<t, u>>)
      BY <1>1, <2>2, JobStartsShape
    <3>2. Plain(<<t, u>>)
      BY <3>1, PlainOnes
    <3> QED BY <1>1, <3>1, <3>2, JobStartsShape
  <2> QED BY <2>1, <2>2
<1>2. CASE TailSettles
  <2>1. PICK m \in Nat, s \in Seq(TaskSet) :
          /\ Grows(1, s) /\ Len(idlers) \in Nat /\ m <= Len(idlers) /\ m <= Len(s)
          /\ \A k \in 1 .. m : s[k] = idlers[k]
          /\ \A k \in 1 .. Len(s) : k > m => s[k].name = "job"
    BY <1>2, TailShape
  <2>2. \A k \in 1 .. Len(s) : s[k].name \notin {"after", "turn", "entry", "follow", "clear"}
    <3>1. ASSUME NEW k \in 1 .. Len(s), ~(k > m) PROVE s[k].name = "idle"
      <4>1. k \in 1 .. m /\ k \in 1 .. Len(idlers)
        BY <2>1, <3>1
      <4> QED BY <2>1, <4>1 DEF CoreInv, WaitsFit
    <3> QED BY <2>1, <3>1
  <2>3. Plain(s)
    BY <2>2, PlainOnes
  <2> QED BY <1>2, <2>1, <2>3, TailShape
<1>3. CASE Returns
  <2>1. PICK t \in TaskSet : t.name = "run" /\ Adding(<<t>>)
    BY <1>3, ReturnsShape
  <2>2. Grows(1, <<t>>) /\ Plain(<<t>>)
    BY <1>3, <2>1, ReturnsShape, HeadAdds, PlainOnes
  <2> QED BY <1>3, <2>2, ReturnsShape
<1>4. CASE LoadSucceeds \/ LoadFails
  <2>1. PICK t \in TaskSet, u \in TaskSet : t.name = "tail" /\ u.name = "return" /\ Grows(0, <<t, u>>)
    BY <1>4, LoadShape
  <2>2. Plain(<<t, u>>)
    BY <2>1, PlainOnes
  <2> QED BY <1>4, <2>1, <2>2, LoadShape
<1> QED BY <1>1, <1>2, <1>3, <1>4

\* What the user does, and what waits for his edits.
LEMMA EditPlain ==
  ASSUME CoreInv, EditTimer \/ Retry \/ EditSettles \/ Type
  PROVE  UNCHANGED <<flightVars, promiseVars>> /\ \E n, s : Grows(n, s) /\ Plain(s)
<1>1. CASE EditTimer \/ Retry
  <2>1. PICK s \in Seq(TaskSet) : Grows(0, s) /\ \A k \in 1 .. Len(s) : s[k].name = "job"
    BY <1>1, FliesShape
  <2>2. Plain(s)
    BY <2>1, PlainOnes
  <2> QED BY <1>1, <2>1, <2>2, FliesShape
<1>2. CASE EditSettles
  <2>1. PICK s \in Seq(TaskSet), code \in {"ok", "failed"} :
          /\ Grows(0, s) /\ Len(flushers) \in Nat /\ Len(s) = 1 + Len(flushers)
          /\ 1 \in 1 .. Len(s) /\ s[1].name = "tail"
          /\ \A k \in 1 .. Len(flushers) : s[1 + k].name = "flushed"
    BY <1>2, EditSettlesShape
  <2>2. ASSUME NEW k \in 1 .. Len(s) PROVE s[k].name \in {"tail", "flushed"}
    <3>1. CASE k = 1
      BY <2>1, <3>1
    <3>2. CASE k # 1
      <4>1. k - 1 \in 1 .. Len(flushers) /\ k = 1 + (k - 1)
        BY <2>1, <3>2
      <4> QED BY <2>1, <4>1
    <3> QED BY <3>1, <3>2
  <2>3. Plain(s)
    BY <2>2, PlainOnes
  <2> QED BY <1>2, <2>1, <2>3, EditSettlesShape
<1>3. CASE Type
  BY <1>3, NothingMoves, PlainOnes DEF Type
<1> QED BY <1>1, <1>2, <1>3

(***************************************************************************)
(* The steps, sorted                                                       *)
(***************************************************************************)
Asks == \E kind \in Kind : /\ Ask(kind) /\ calling' = "none"
                           /\ kind = "automatic" => micro = <<>> /\ calling = "none"
                           /\ kind = "initial" <=> calling = "initial"
                           /\ micro = <<>> \/ calling # "none"

Rests == UNCHANGED <<flightVars, promiseVars, micro, calling, newest, queueVars, editVars, viewVars>>

LEMMA NextCases ==
  ASSUME CoreInv, [Next]_vars
  PROVE  \/ Operation \/ Flushed \/ Idle \/ Emptied \/ Begin
         \/ JobStarts \/ TailSettles \/ Returns \/ LoadSucceeds \/ LoadFails
         \/ RunSettles \/ EntrySettles \/ Clear \/ After \/ Turn \/ Follow \/ CallerGoesOn
         \/ EditTimer \/ Retry \/ EditSettles \/ Type
         \/ Asks \/ Rests
<1>1. CASE GoOn
  <2>1. calling \in {"initial", "discard"}
    BY <1>1 DEF GoOn, CoreInv, Types
  <2>2. PICK kind : kind = calling
    OBVIOUS
  <2>3. kind \in Kind /\ Ask(kind) /\ calling' = "none" /\ kind # "automatic"
          /\ (kind = "initial" <=> calling = "initial")
    BY <1>1, <2>1, <2>2 DEF GoOn, Kind
  <2> QED BY <2>1, <2>3 DEF Asks
<1>2. CASE UserAsks
  <2>1. PICK kind \in {"plain", "preserve"} : Ask(kind)
    BY <1>2 DEF UserAsks
  <2>2. kind \in Kind /\ kind # "automatic" /\ kind # "initial"
    BY <2>1 DEF Kind
  <2> QED BY <1>2, <2>1, <2>2 DEF UserAsks, Quiet, Asks
<1>3. CASE TimerFires \/ (Show /\ Attempt /\ UNCHANGED calling)
  <2>1. Ask("automatic") /\ micro = <<>> /\ calling = "none" /\ calling' = "none"
    BY <1>3 DEF TimerFires, Show, Attempt, Quiet
  <2>2. "automatic" \in Kind
    BY DEF Kind
  <2> QED BY <2>1, <2>2 DEF Asks
<1>4. CASE Hide \/ (Show /\ ~(Attempt /\ UNCHANGED calling)) \/ UNCHANGED vars
  BY <1>4 DEF Hide, Show, Rests, vars
<1> QED BY <1>1, <1>2, <1>3, <1>4 DEF Next, Microtask

LEMMA RestsShape ==
  ASSUME CoreInv, Rests
  PROVE  /\ PlacesRest /\ micro' = micro /\ Grows(0, <<>>)
         /\ UNCHANGED <<want, runs, active, queued, settled, reactions, calling, newest, status, loaded, retained>>
<1>1. /\ UNCHANGED <<jobs, enqueued, idlers, flushers, edit>> /\ micro' = micro
      /\ UNCHANGED <<want, runs, active, queued, settled, reactions, calling, newest, status, loaded, retained>>
  BY DEF Rests, flightVars, promiseVars, queueVars, editVars, viewVars
<1> QED BY <1>1, NothingMoves DEF PlacesRest

\* The caller goes on, or the operation makes way: a task is gone.
LEMMA TaskGone ==
  ASSUME CoreInv, Clear \/ CallerGoesOn
  PROVE  /\ micro # <<>> /\ Head(micro).name \in {"clear", "caller"} /\ PlacesRest /\ Grows(1, <<>>)
         /\ UNCHANGED <<want, runs, queued, settled, reactions, newest, status, loaded, retained>>
<1>1. /\ micro # <<>> /\ Head(micro).name \in {"clear", "caller"} /\ Adding(<<>>)
      /\ UNCHANGED <<jobs, enqueued, idlers, flushers, edit>>
      /\ UNCHANGED <<want, runs, queued, settled, reactions, newest, status, loaded, retained>>
  BY DEF Clear, CallerGoesOn, Runs, flightVars, promiseVars, queueVars, editVars, viewVars
<1> QED BY <1>1, HeadAddsNone DEF PlacesRest

LEMMA AskedShape ==
  ASSUME CoreInv, Asks
  PROVE  \E kind \in Kind : \E c \in Call :
           /\ kind = "automatic" => micro = <<>> /\ calling = "none"
           /\ kind = "initial" <=> calling = "initial"
           /\ micro = <<>> \/ calling # "none"
           /\ calling' = "none" /\ PlacesRest /\ UNCHANGED <<settled, newest, viewVars, retained>>
           /\ c = Made + 1 /\ c \notin 1 .. Made /\ c # None /\ c \notin runs /\ want'[c] = kind /\ Made' = Made + 1
           /\ \A x \in 1 .. Made : x \in 1 .. Made' /\ want'[x] = want[x]
           /\ Starts(c) \/ Skipped(c) \/ Joined(c) \/ Queued(c)
<1>1. PICK kind \in Kind : /\ Ask(kind) /\ calling' = "none"
                           /\ kind = "automatic" => micro = <<>> /\ calling = "none"
                           /\ kind = "initial" <=> calling = "initial"
                           /\ micro = <<>> \/ calling # "none"
  BY DEF Asks
<1>2. PICK c : c = Made + 1
  OBVIOUS
<1>3. /\ PlacesRest /\ UNCHANGED <<settled, newest, viewVars, retained>>
      /\ c \in Call /\ c \notin 1 .. Made /\ c # None /\ want'[c] = kind /\ Made' = Made + 1
      /\ \A x \in 1 .. Made : x \in 1 .. Made' /\ want'[x] = want[x]
      /\ Starts(c) \/ Skipped(c) \/ Joined(c) \/ Queued(c)
  BY <1>1, <1>2, AskShape
<1>4. c \notin runs
  BY <1>3 DEF CoreInv, Types
<1> QED BY <1>1, <1>2, <1>3, <1>4

(***************************************************************************)
(* The chain of entries holds                                              *)
(***************************************************************************)
LEMMA PlainChain ==
  ASSUME CoreInv, CoreInv', Chain, UNCHANGED <<flightVars, promiseVars>>, NEW n, NEW s, Grows(n, s), Plain(s)
  PROVE  Chain'
<1>1. UNCHANGED <<want, runs, active, queued, settled, reactions>>
  BY DEF flightVars, promiseVars
<1>2. /\ \A x \in Call : \A k \in 1 .. Len(reactions'[Run(x)]) : Kept(Run(x), k)
      /\ \A x \in Call : \A k \in 1 .. Len(reactions'[Entry(x)]) : Kept(Entry(x), k)
  BY <1>1 DEF Kept
<1> QED BY <1>1, <1>2, ChainRests DEF Plain

LEMMA GoneChain ==
  ASSUME CoreInv, CoreInv', ClearsComing, Chain, Clear \/ CallerGoesOn
  PROVE  Chain'
<1>1. /\ Grows(1, <<>>) /\ UNCHANGED <<want, runs, queued, settled, reactions>>
      /\ micro # <<>> /\ Head(micro).name \in {"clear", "caller"}
  BY TaskGone
<1>2. active' = active \/ active \in settled
  <2>1. CASE Clear
    <3>1. Head(micro).name = "clear" /\ active' = Cleared
      BY <2>1 DEF Clear, Runs
    <3>2. Current \in settled
      <4>1. 1 \in 1 .. Len(micro) /\ micro[1].name = "clear" /\ micro[1].call = Current
        BY <1>1, <3>1, HeadTask
      <4> QED BY <4>1 DEF ClearsComing
    <3> QED BY <3>1, <3>2 DEF Cleared
  <2>2. CASE CallerGoesOn
    BY <2>2 DEF CallerGoesOn, flightVars
  <2> QED BY <2>1, <2>2
<1>3. /\ \A x \in Call : \A k \in 1 .. Len(reactions'[Run(x)]) : Kept(Run(x), k)
      /\ \A x \in Call : \A k \in 1 .. Len(reactions'[Entry(x)]) : Kept(Entry(x), k)
  BY <1>1 DEF Kept
<1>4. \A k \in 1 .. Len(<<>>) : ~Turns(<<>>[k]) /\ ~Passes(<<>>[k])
  BY NoTask
<1> QED BY <1>1, <1>2, <1>3, <1>4, ChainRests

LEMMA AskedChain ==
  ASSUME CoreInv, CoreInv', Chain, Asks
  PROVE  Chain'
<1>1. PICK kind \in Kind, c \in Call :
        /\ UNCHANGED <<settled, newest, viewVars, retained>>
        /\ c \notin 1 .. Made /\ c # None /\ c \notin runs /\ want'[c] = kind
        /\ \A x \in 1 .. Made : x \in 1 .. Made' /\ want'[x] = want[x]
        /\ Starts(c) \/ Skipped(c) \/ Joined(c) \/ Queued(c)
  BY AskedShape
<1>2. CASE Starts(c)
  <2>1. PICK t \in TaskSet : t.name = "operation" /\ Grows(0, <<t>>)
    BY <1>2 DEF Starts
  <2>2. /\ \A k \in 1 .. Len(<<t>>) : ~Turns(<<t>>[k]) /\ ~Passes(<<t>>[k])
    BY <2>1, PlainOnes DEF Plain
  <2>3. ASSUME NEW x \in Call, NEW k \in 1 .. Len(reactions'[Run(x)])
        PROVE  Kept(Run(x), k) \/ (~Turns(reactions'[Run(x)][k]) /\ ~Passes(reactions'[Run(x)][k]))
    <3>1. CASE x = c
      <4>1. reactions'[Run(x)][k].name \in {"clear", "caller"}
        <5>1. Len(reactions'[Run(c)]) = 2 /\ reactions'[Run(c)][1].name = "clear"
                /\ reactions'[Run(c)][2].name = "caller"
          BY <1>2 DEF Starts
        <5>2. k = 1 \/ k = 2
          BY <2>3, <3>1, <5>1
        <5> QED BY <3>1, <5>1, <5>2
      <4> QED BY <4>1 DEF Turns, Passes
    <3>2. CASE x # c
      <4>1. Run(x) \in Promise /\ Run(x) # Run(c)
        BY <3>2, PromisesApart
      <4> QED BY <1>2, <2>3, <4>1 DEF Starts, Kept
    <3> QED BY <3>1, <3>2
  <2>4. \A x \in Call : \A k \in 1 .. Len(reactions'[Entry(x)]) : Kept(Entry(x), k)
    BY <1>2, PromisesApart DEF Starts, Kept
  <2>5. queued' = queued /\ active = None /\ runs' = runs \cup {c}
    BY <1>2 DEF Starts
  <2> QED BY <1>1, <2>1, <2>2, <2>3, <2>4, <2>5, ChainRests
<1>3. CASE Skipped(c)
  <2>1. PICK t \in TaskSet : t.name = "caller" /\ Grows(0, <<t>>)
    BY <1>3 DEF Skipped
  <2>2. /\ \A k \in 1 .. Len(<<t>>) : ~Turns(<<t>>[k]) /\ ~Passes(<<t>>[k])
    BY <2>1, PlainOnes DEF Plain
  <2>3. UNCHANGED <<active, runs, queued, reactions>>
    BY <1>3 DEF Skipped
  <2>4. /\ \A x \in Call : \A k \in 1 .. Len(reactions'[Run(x)]) : Kept(Run(x), k)
        /\ \A x \in Call : \A k \in 1 .. Len(reactions'[Entry(x)]) : Kept(Entry(x), k)
    BY <2>3 DEF Kept
  <2> QED BY <1>1, <2>1, <2>2, <2>3, <2>4, ChainRests
<1>4. CASE Joined(c)
  <2>1. UNCHANGED <<active, runs, queued, micro>>
    BY <1>4 DEF Joined
  <2>2. PICK p \in Promise, t \in TaskSet :
          t.name = "caller" /\ Gets(p, t) /\ \A q \in Promise : q # p => reactions'[q] = reactions[q]
    BY <1>4 DEF Joined
  <2>3. ~Turns(t) /\ ~Passes(t)
    BY <2>2 DEF Turns, Passes
  <2>4. ASSUME NEW q \in Promise, NEW k \in 1 .. Len(reactions'[q])
        PROVE  Kept(q, k) \/ (~Turns(reactions'[q][k]) /\ ~Passes(reactions'[q][k]))
    <3>1. CASE q = p
      <4>1. k \in 1 .. Len(reactions[p]) \/ k = Len(reactions[p]) + 1
        BY <2>2, <2>4, <3>1 DEF Gets
      <4> QED BY <2>2, <2>3, <3>1, <4>1 DEF Gets, Kept
    <3>2. CASE q # p
      BY <2>2, <2>4, <3>2 DEF Kept
    <3> QED BY <3>1, <3>2
  <2>5. /\ \A x \in Call : \A k \in 1 .. Len(reactions'[Run(x)]) :
             Kept(Run(x), k) \/ (~Turns(reactions'[Run(x)][k]) /\ ~Passes(reactions'[Run(x)][k]))
        /\ \A x \in Call : \A k \in 1 .. Len(reactions'[Entry(x)]) : Kept(Entry(x), k)
             \/ ~Turns(reactions'[Entry(x)][k])
    BY <2>4, PromisesApart
  <2>6. Grows(0, <<>>) /\ \A k \in 1 .. Len(<<>>) : ~Turns(<<>>[k]) /\ ~Passes(<<>>[k])
    BY <2>1, NothingMoves, NoTask
  <2> QED BY <1>1, <2>1, <2>5, <2>6, ChainRests
<1>5. CASE Queued(c)
  BY <1>1, <1>5, QueuedChain
<1> QED BY <1>1, <1>2, <1>3, <1>4, <1>5

LEMMA ChainHolds ==
  ASSUME CoreInv, CoreInv', OperationsOnce, ClearsComing, Chain, [Next]_vars
  PROVE  Chain'
<1>1. CASE Operation \/ Flushed \/ Idle \/ Emptied \/ Begin
  BY <1>1, OperationPlain, PlainChain
<1>2. CASE JobStarts \/ TailSettles \/ Returns \/ LoadSucceeds \/ LoadFails
  BY <1>2, JobPlain, PlainChain
<1>3. CASE EditTimer \/ Retry \/ EditSettles \/ Type
  BY <1>3, EditPlain, PlainChain
<1>4. CASE RunSettles \/ EntrySettles \/ After \/ Turn \/ Follow
  BY <1>4, RunSettlesChain, EntrySettlesChain, AfterChain, TurnChain, FollowChain
<1>5. CASE Clear \/ CallerGoesOn
  BY <1>5, GoneChain
<1>6. CASE Asks
  BY <1>6, AskedChain
<1>7. CASE Rests
  <2>1. Grows(0, <<>>) /\ UNCHANGED <<flightVars, promiseVars>>
    BY <1>7, RestsShape DEF Rests
  <2> QED BY <2>1, PlainOnes, PlainChain
<1> QED BY <1>1, <1>2, <1>3, <1>4, <1>5, <1>6, <1>7, NextCases

\* A task of the queue was there before or is one of those added.
LEMMA OldOrNew ==
  ASSUME NEW n, NEW s, Grows(n, s)
  PROVE  /\ \A i \in 1 .. Len(micro') :
              \/ i + n \in 1 .. Len(micro) /\ micro'[i] = micro[i + n]
              \/ \E k \in 1 .. Len(s) : micro'[i] = s[k]
         /\ \A k \in 1 .. Len(s) : \E i \in 1 .. Len(micro') : micro'[i] = s[k]
<1>1. ASSUME NEW i \in 1 .. Len(micro')
      PROVE  \/ i + n \in 1 .. Len(micro) /\ micro'[i] = micro[i + n]
             \/ \E k \in 1 .. Len(s) : micro'[i] = s[k]
  BY DEF Grows
<1>2. \A k \in 1 .. Len(s) : \E i \in 1 .. Len(micro') : micro'[i] = s[k]
  BY DEF Grows
<1> QED BY <1>1, <1>2

(***************************************************************************)
(* The clear of an operation comes                                         *)
(***************************************************************************)
LEMMA ClearsRest ==
  ASSUME CoreInv, ClearsComing, NEW n, NEW s, Grows(n, s), n = 1 => micro[1].name # "clear",
         \A k \in 1 .. Len(s) : s[k].name # "clear", settled' = settled,
         active' = active \/ active' \notin settled,
         \A x \in runs' \ settled :
           \/ x \in runs /\ \A k \in 1 .. Len(reactions[Run(x)]) :
                k \in 1 .. Len(reactions'[Run(x)]) /\ reactions'[Run(x)][k] = reactions[Run(x)][k]
           \/ \E k \in 1 .. Len(reactions'[Run(x)]) : reactions'[Run(x)][k].name = "clear"
  PROVE  ClearsComing'
<1>1. \A x \in runs' \ settled' : \E k \in 1 .. Len(reactions'[Run(x)]) : reactions'[Run(x)][k].name = "clear"
  BY DEF ClearsComing
<1>2. \A i \in 1 .. Len(micro') : micro'[i].name = "clear" => micro'[i].call \in settled'
  <2>1. ASSUME NEW i \in 1 .. Len(micro'), micro'[i].name = "clear" PROVE micro'[i].call \in settled
    <3>1. i + n \in 1 .. Len(micro) /\ micro'[i] = micro[i + n]
      BY <2>1, OldOrNew
    <3> QED BY <2>1, <3>1 DEF ClearsComing
  <2> QED BY <2>1
<1>3. active' \in settled' => \E i \in 1 .. Len(micro') : micro'[i].name = "clear" /\ micro'[i].call = active'
  <2> SUFFICES ASSUME active' \in settled'
                 PROVE  \E i \in 1 .. Len(micro') : micro'[i].name = "clear" /\ micro'[i].call = active'
    OBVIOUS
  <2>1. PICK i \in 1 .. Len(micro) : micro[i].name = "clear" /\ micro[i].call = active'
    BY DEF ClearsComing
  <2>2. i > n /\ n \in {0, 1}
    <3>1. n = 0 \/ (n = 1 /\ i # 1)
      BY <2>1, Placed
    <3> QED BY <3>1
  <2>3. i - n \in 1 .. Len(micro') /\ micro'[i - n] = micro[i]
    BY <2>2, Placed
  <2> QED BY <2>1, <2>3
<1> QED BY <1>1, <1>2, <1>3 DEF ClearsComing

LEMMA PlainClears ==
  ASSUME CoreInv, ClearsComing, UNCHANGED <<flightVars, promiseVars>>, micro = <<>> \/ micro[1].name # "clear",
         NEW n, NEW s, Grows(n, s), Plain(s)
  PROVE  ClearsComing'
<1>1. UNCHANGED <<want, runs, active, queued, settled, reactions>>
  BY DEF flightVars, promiseVars
<1>2. n = 1 => micro[1].name # "clear"
  <2>1. n = 1 => Len(micro) # 0
    BY DEF Grows
  <2> QED BY <2>1
<1>3. \A k \in 1 .. Len(s) : s[k].name # "clear"
  BY DEF Plain
<1> QED BY <1>1, <1>2, <1>3, ClearsRest

LEMMA HeadsApart ==
  ASSUME CoreInv,
         \/ Operation \/ Flushed \/ Idle \/ Emptied \/ Begin
         \/ JobStarts \/ TailSettles \/ Returns \/ LoadSucceeds \/ LoadFails
         \/ EditTimer \/ Retry \/ EditSettles \/ Type
  PROVE  micro = <<>> \/ micro[1].name # "clear"
<1>1. micro = <<>> \/ (micro # <<>> /\ Head(micro).name # "clear")
  BY DEF Operation, Flushed, Idle, Emptied, Begin, JobStarts, TailSettles, Returns, LoadSucceeds, LoadFails,
         EditTimer, Retry, EditSettles, Type, Runs, Quiet
<1> QED BY <1>1, HeadTask

LEMMA RunSettlesClears ==
  ASSUME CoreInv, ClearsComing, OperationsOnce, RunSettles
  PROVE  ClearsComing'
<1>1. PICK c : c = Current
  OBVIOUS
<1>2. /\ micro # <<>> /\ Head(micro).name = "run" /\ c \in runs /\ c \in Call /\ settled' = settled \cup {c}
      /\ \A x \in Call : reactions'[Run(x)] = IF x = c THEN <<>> ELSE reactions[Run(x)]
      /\ active' = active /\ runs' = runs
  BY <1>1, RunSettlesShape DEF flightVars
<1>3. PICK s \in Seq(TaskSet) : Grows(1, s) /\ Tells(s, reactions[Run(c)])
  BY <1>1, RunSettlesShape
<1>4. micro[1].name = "run" /\ 1 \in 1 .. Len(micro) /\ c \notin settled
  <2>1. 1 \in 1 .. Len(micro) /\ micro[1].name = "run" /\ micro[1].call = c
    BY <1>1, <1>2, HeadTask
  <2> QED BY <2>1 DEF OperationsOnce, LateName
<1>5. \A x \in runs' \ settled' : \E k \in 1 .. Len(reactions'[Run(x)]) : reactions'[Run(x)][k].name = "clear"
  <2>1. ASSUME NEW x \in runs' \ settled'
        PROVE  \E k \in 1 .. Len(reactions'[Run(x)]) : reactions'[Run(x)][k].name = "clear"
    <3>1. x \in runs \ settled /\ x # c /\ x \in Call
      BY <1>2, MadeIsNat
    <3>2. reactions'[Run(x)] = reactions[Run(x)]
      BY <1>2, <3>1
    <3> QED BY <3>1, <3>2 DEF ClearsComing
  <2> QED BY <2>1
<1>6. \A i \in 1 .. Len(micro') : micro'[i].name = "clear" => micro'[i].call \in settled'
  <2>1. \A k \in 1 .. Len(s) : s[k].name = "clear" => s[k].call = c
    BY <1>2, <1>3 DEF Tells, CoreInv, ReactionsFit, RunFits
  <2>2. ASSUME NEW i \in 1 .. Len(micro'), micro'[i].name = "clear" PROVE micro'[i].call \in settled'
    <3>1. CASE i + 1 \in 1 .. Len(micro) /\ micro'[i] = micro[i + 1]
      BY <1>2, <2>2, <3>1 DEF ClearsComing
    <3>2. CASE \E k \in 1 .. Len(s) : micro'[i] = s[k]
      BY <1>2, <2>1, <2>2, <3>2
    <3> QED BY <1>3, <3>1, <3>2, OldOrNew
  <2> QED BY <2>2
<1>7. active' \in settled' => \E i \in 1 .. Len(micro') : micro'[i].name = "clear" /\ micro'[i].call = active'
  <2>1. CASE active = c
    <3>1. PICK k \in 1 .. Len(reactions[Run(c)]) : reactions[Run(c)][k].name = "clear"
      BY <1>2, <1>4 DEF ClearsComing
    <3>2. k \in 1 .. Len(s) /\ s[k].name = "clear" /\ s[k].call = c
      BY <1>2, <1>3, <3>1 DEF Tells, CoreInv, ReactionsFit, RunFits
    <3> QED BY <1>2, <1>3, <2>1, <3>2, OldOrNew
  <2>2. CASE active # c /\ active \in settled
    <3>1. PICK i \in 1 .. Len(micro) : micro[i].name = "clear" /\ micro[i].call = active
      BY <2>2 DEF ClearsComing
    <3>2. i > 1
      BY <1>4, <3>1
    <3>3. i - 1 \in 1 .. Len(micro') /\ micro'[i - 1] = micro[i]
      BY <1>3, <3>2, Placed
    <3> QED BY <1>2, <3>1, <3>3
  <2> QED BY <1>2, <2>1, <2>2
<1> QED BY <1>5, <1>6, <1>7 DEF ClearsComing

LEMMA GoneClears ==
  ASSUME CoreInv, ClearsComing, Clear \/ CallerGoesOn
  PROVE  ClearsComing'
<1>1. /\ Grows(1, <<>>) /\ UNCHANGED <<want, runs, queued, settled, reactions>>
      /\ micro # <<>> /\ Head(micro).name \in {"clear", "caller"}
  BY TaskGone
<1>2. \A k \in 1 .. Len(<<>>) : <<>>[k].name # "clear"
  BY NoTask
<1>3. CASE CallerGoesOn
  <2>1. micro[1].name # "clear" /\ active' = active
    BY <1>1, <1>3, HeadTask DEF CallerGoesOn, Runs, flightVars
  <2> QED BY <1>1, <1>2, <2>1, ClearsRest
<1>4. CASE Clear
  <2>1. micro[1].call = Current /\ active' = (IF active = Current THEN None ELSE active)
    BY <1>1, <1>4, HeadTask DEF Clear, Cleared
  <2>2. None \notin settled
    BY RunsAreCalls
  <2>3. \A i \in 1 .. Len(micro') : micro'[i].name = "clear" => micro'[i].call \in settled'
    <3>1. ASSUME NEW i \in 1 .. Len(micro'), micro'[i].name = "clear" PROVE micro'[i].call \in settled
      <4>1. i + 1 \in 1 .. Len(micro) /\ micro'[i] = micro[i + 1]
        BY <1>1, NoTask, OldOrNew
      <4> QED BY <3>1, <4>1 DEF ClearsComing
    <3> QED BY <1>1, <3>1
  <2>4. ASSUME active' \in settled'
                 PROVE  \E i \in 1 .. Len(micro') : micro'[i].name = "clear" /\ micro'[i].call = active'
    <3>1. active' = active /\ active # Current
      BY <1>1, <2>1, <2>2, <2>4
    <3>2. PICK i \in 1 .. Len(micro) : micro[i].name = "clear" /\ micro[i].call = active
      BY <1>1, <2>4, <3>1 DEF ClearsComing
    <3>3. i > 1
      BY <2>1, <3>1, <3>2
    <3>4. i - 1 \in 1 .. Len(micro') /\ micro'[i - 1] = micro[i]
      BY <1>1, <3>3, Placed
    <3> QED BY <3>1, <3>2, <3>4
  <2> QED BY <1>1, <2>3, <2>4 DEF ClearsComing
<1> QED BY <1>3, <1>4

LEMMA PromisesClears ==
  ASSUME CoreInv, ClearsComing, Chain, EntrySettles \/ After \/ Turn \/ Follow
  PROVE  ClearsComing'
<1>1. CASE EntrySettles
  <2>1. /\ micro # <<>> /\ Head(micro).name = "entry" /\ Current \in Call
        /\ settled' = settled /\ active' = active /\ runs' = runs
        /\ \A x \in Call : reactions'[Run(x)] = reactions[Run(x)]
    BY <1>1, EntrySettlesShape DEF flightVars
  <2>2. PICK s \in Seq(TaskSet) : Grows(1, s) /\ Tells(s, reactions[Entry(Current)])
    BY <1>1, EntrySettlesShape
  <2>3. \A k \in 1 .. Len(s) : s[k].name # "clear"
    BY <2>1, <2>2 DEF Tells, CoreInv, ReactionsFit, EntryFits
  <2>4. micro[1].name # "clear" /\ \A x \in runs : x \in Call
    BY <2>1, HeadTask, MadeIsNat
  <2> QED BY <2>1, <2>2, <2>3, <2>4, ClearsRest
<1>2. CASE After
  <2>1. /\ micro # <<>> /\ Head(micro).name = "after" /\ UNCHANGED <<flightVars, promiseVars>>
        /\ Adding(<<Task("turn", Current, Nothing)>>)
    BY <1>2 DEF After, Runs
  <2>2. PICK t \in TaskSet : t.name = "turn" /\ Adding(<<t>>)
    BY <2>1, HeadTask, PlainTask, Names
  <2>3. Grows(1, <<t>>) /\ \A k \in 1 .. Len(<<t>>) : <<t>>[k].name # "clear"
    BY <2>1, <2>2, HeadAdds, OneTask
  <2>4. micro[1].name # "clear" /\ settled' = settled /\ active' = active /\ runs' = runs /\ reactions' = reactions
    BY <2>1, HeadTask DEF flightVars, promiseVars
  <2> QED BY <2>3, <2>4, ClearsRest
<1>3. CASE Turn
  <2>1. PICK c : c = Current
    OBVIOUS
  <2>2. micro # <<>> /\ Head(micro).name = "turn" /\ settled' = settled /\ c \in Call /\ c \notin runs
          /\ c \notin settled
    BY <1>3, <2>1, TurnShape, TurnIsFirst, RunsAreCalls DEF MayTurn
  <2>3. micro[1].name # "clear" /\ \A x \in runs : x \in Call
    BY <2>2, HeadTask, MadeIsNat
  <2>4. CASE /\ active' = active /\ runs' = runs /\ reactions' = reactions
             /\ \E t \in TaskSet : t.name = "follow" /\ Adding(<<t>>)
    <3>1. PICK t \in TaskSet : t.name = "follow" /\ Adding(<<t>>)
      BY <2>4
    <3>2. Grows(1, <<t>>) /\ \A k \in 1 .. Len(<<t>>) : <<t>>[k].name # "clear"
      BY <2>2, <3>1, HeadAdds, OneTask
    <3> QED BY <2>2, <2>3, <2>4, <3>2, ClearsRest
  <2>5. CASE /\ active' = c /\ runs' = runs \cup {c}
             /\ \A x \in Call : reactions'[Run(x)] = (IF x = c THEN <<Task("clear", c, Nothing)>> ELSE reactions[Run(x)])
             /\ \E t, u \in TaskSet : t.name = "operation" /\ u.name = "follow" /\ Grows(1, <<t, u>>)
    <3>1. PICK t \in TaskSet, u \in TaskSet : t.name = "operation" /\ u.name = "follow" /\ Grows(1, <<t, u>>)
      BY <2>5
    <3>2. \A k \in 1 .. Len(<<t, u>>) : <<t, u>>[k].name # "clear"
      BY <3>1, TwoTasks
    <3>3. \E k \in 1 .. Len(reactions'[Run(c)]) : reactions'[Run(c)][k].name = "clear"
      <4>1. PICK v \in TaskSet : v = Task("clear", c, Nothing) /\ v.name = "clear"
        BY <2>2, PlainTask, Names DEF Call
      <4>2. reactions'[Run(c)] = <<v>> /\ 1 \in 1 .. Len(<<v>>) /\ <<v>>[1] = v
        BY <2>2, <2>5, <4>1
      <4> QED BY <4>1, <4>2
    <3>4. \A x \in runs' : x = c \/ (x \in runs /\ reactions'[Run(x)] = reactions[Run(x)])
      BY <2>3, <2>5
    <3> QED BY <2>2, <2>3, <2>5, <3>1, <3>2, <3>3, <3>4, ClearsRest
  <2> QED BY <1>3, <2>1, <2>4, <2>5, TurnShape
<1>4. CASE Follow
  <2>1. PICK f : f = Given.from
    OBVIOUS
  <2>2. /\ micro # <<>> /\ Head(micro).name = "follow" /\ Adding(<<>>) /\ settled' = settled
        /\ active' = active /\ runs' = runs
        /\ \A x \in Call : x # f => reactions'[Run(x)] = reactions[Run(x)]
        /\ \E t \in TaskSet : Gets(Run(f), t)
    BY <1>4, <2>1, FollowShape DEF flightVars
  <2>3. Grows(1, <<>>) /\ micro[1].name # "clear" /\ \A x \in runs : x \in Call
    BY <2>2, HeadAddsNone, HeadTask, MadeIsNat
  <2>4. ASSUME NEW x \in runs, NEW k \in 1 .. Len(reactions[Run(x)])
        PROVE  k \in 1 .. Len(reactions'[Run(x)]) /\ reactions'[Run(x)][k] = reactions[Run(x)][k]
    BY <2>2, <2>3, <2>4 DEF Gets
  <2> QED BY <2>2, <2>3, <2>4, NoTask, ClearsRest
<1> QED BY <1>1, <1>2, <1>3, <1>4

LEMMA AskedClears ==
  ASSUME CoreInv, ClearsComing, Asks
  PROVE  ClearsComing'
<1>1. PICK kind \in Kind, c \in Call :
        /\ settled' = settled /\ c \notin runs
        /\ Starts(c) \/ Skipped(c) \/ Joined(c) \/ Queued(c)
  BY AskedShape
<1>2. c \notin settled /\ \A x \in runs : x \in Call
  BY <1>1, RunsAreCalls, MadeIsNat
<1>3. CASE Starts(c)
  <2>1. PICK t \in TaskSet : t.name = "operation" /\ Grows(0, <<t>>)
    BY <1>3 DEF Starts
  <2>2. \A k \in 1 .. Len(<<t>>) : <<t>>[k].name # "clear"
    BY <2>1, OneTask
  <2>3. /\ active' = c /\ runs' = runs \cup {c}
        /\ \E k \in 1 .. Len(reactions'[Run(c)]) : reactions'[Run(c)][k].name = "clear"
    BY <1>3 DEF Starts
  <2>4. \A x \in runs : reactions'[Run(x)] = reactions[Run(x)]
    BY <1>1, <1>2, <1>3, PromisesApart DEF Starts
  <2> QED BY <1>1, <1>2, <2>1, <2>2, <2>3, <2>4, ClearsRest
<1>4. CASE Skipped(c)
  <2>1. PICK t \in TaskSet : t.name = "caller" /\ Grows(0, <<t>>)
    BY <1>4 DEF Skipped
  <2>2. \A k \in 1 .. Len(<<t>>) : <<t>>[k].name # "clear"
    BY <2>1, OneTask
  <2>3. UNCHANGED <<active, runs, reactions>>
    BY <1>4 DEF Skipped
  <2> QED BY <1>1, <2>1, <2>2, <2>3, ClearsRest
<1>5. CASE Joined(c)
  <2>1. UNCHANGED <<active, runs, micro>>
    BY <1>5 DEF Joined
  <2>2. PICK p \in Promise, t \in TaskSet : Gets(p, t) /\ \A q \in Promise : q # p => reactions'[q] = reactions[q]
    BY <1>5 DEF Joined
  <2>3. ASSUME NEW x \in runs, NEW k \in 1 .. Len(reactions[Run(x)])
        PROVE  k \in 1 .. Len(reactions'[Run(x)]) /\ reactions'[Run(x)][k] = reactions[Run(x)][k]
    <3>1. Run(x) \in Promise
      BY <1>2, PromisesApart
    <3> QED BY <2>2, <2>3, <3>1 DEF Gets
  <2> QED BY <1>1, <2>1, <2>3, NothingMoves, NoTask, ClearsRest
<1>6. CASE Queued(c)
  <2>1. UNCHANGED <<active, runs, micro>>
    BY <1>6 DEF Queued
  <2>2. PICK p \in Promise, t \in TaskSet, u \in TaskSet :
          Gets(p, t) /\ Gets(Entry(c), u) /\ \A q \in Promise : q # p /\ q # Entry(c) => reactions'[q] = reactions[q]
    BY <1>6 DEF Queued
  <2>3. ASSUME NEW x \in runs, NEW k \in 1 .. Len(reactions[Run(x)])
        PROVE  k \in 1 .. Len(reactions'[Run(x)]) /\ reactions'[Run(x)][k] = reactions[Run(x)][k]
    <3>1. Run(x) \in Promise /\ Run(x) # Entry(c)
      BY <1>2, PromisesApart
    <3> QED BY <2>2, <2>3, <3>1 DEF Gets
  <2> QED BY <1>1, <2>1, <2>3, NothingMoves, NoTask, ClearsRest
<1> QED BY <1>1, <1>3, <1>4, <1>5, <1>6

LEMMA ClearsHold ==
  ASSUME CoreInv, OperationsOnce, Chain, ClearsComing, [Next]_vars
  PROVE  ClearsComing'
<1>1. CASE Operation \/ Flushed \/ Idle \/ Emptied \/ Begin
  BY <1>1, HeadsApart, OperationPlain, PlainClears
<1>2. CASE JobStarts \/ TailSettles \/ Returns \/ LoadSucceeds \/ LoadFails
  BY <1>2, HeadsApart, JobPlain, PlainClears
<1>3. CASE EditTimer \/ Retry \/ EditSettles \/ Type
  BY <1>3, HeadsApart, EditPlain, PlainClears
<1>4. CASE RunSettles \/ EntrySettles \/ After \/ Turn \/ Follow
  BY <1>4, RunSettlesClears, PromisesClears
<1>5. CASE Clear \/ CallerGoesOn
  BY <1>5, GoneClears
<1>6. CASE Asks
  BY <1>6, AskedClears
<1>7. CASE Rests
  <2>1. Grows(0, <<>>) /\ UNCHANGED <<active, runs, reactions, settled>>
    BY <1>7, RestsShape
  <2> QED BY <2>1, NoTask, ClearsRest
<1> QED BY <1>1, <1>2, <1>3, <1>4, <1>5, <1>6, <1>7, NextCases

(***************************************************************************)
(* Steps that leave the operations on their way alone                      *)
(***************************************************************************)
StandsBy == JobStarts \/ Returns \/ LoadSucceeds \/ LoadFails \/ RunSettles \/ EntrySettles \/ Clear \/ After
            \/ Follow \/ CallerGoesOn \/ Rests

\* It takes no early task and adds none.
LateOnly(n, s) ==
  /\ Grows(n, s) /\ \A k \in 1 .. Len(s) : s[k].name \notin EarlyName
  /\ n = 1 => micro # <<>> /\ micro[1].name \notin EarlyName

LEMMA StandsByShape ==
  ASSUME CoreInv, StandsBy
  PROVE  PlacesRest /\ \E n, s : LateOnly(n, s)
<1>1. CASE JobStarts
  <2>1. micro # <<>> /\ micro[1].name \notin EarlyName /\ PlacesRest
    BY <1>1, JobStartsShape, HeadTask DEF EarlyName
  <2>2. CASE Adding(<<>>)
    BY <2>1, <2>2, HeadAddsNone, NoTask DEF LateOnly
  <2>3. CASE ~Adding(<<>>)
    <3>1. PICK t \in TaskSet, u \in TaskSet : t.name = "tail" /\ u.name = "return" /\ Grows(1, <<t, u>>)
      BY <1>1, <2>3, JobStartsShape
    <3>2. \A k \in 1 .. Len(<<t, u>>) : <<t, u>>[k].name \notin EarlyName
      BY <3>1, TwoTasks DEF EarlyName
    <3> QED BY <2>1, <3>1, <3>2 DEF LateOnly
  <2> QED BY <2>2, <2>3
<1>2. CASE Returns
  <2>1. micro # <<>> /\ micro[1].name \notin EarlyName /\ PlacesRest
    BY <1>2, ReturnsShape, HeadTask DEF EarlyName
  <2>2. PICK t \in TaskSet : t.name = "run" /\ Adding(<<t>>)
    BY <1>2, ReturnsShape
  <2>3. Grows(1, <<t>>) /\ \A k \in 1 .. Len(<<t>>) : <<t>>[k].name \notin EarlyName
    BY <2>1, <2>2, HeadAdds, OneTask DEF EarlyName
  <2> QED BY <2>1, <2>3 DEF LateOnly
<1>3. CASE LoadSucceeds \/ LoadFails
  <2>1. PICK t \in TaskSet, u \in TaskSet : t.name = "tail" /\ u.name = "return" /\ Grows(0, <<t, u>>)
    BY <1>3, LoadShape
  <2>2. \A k \in 1 .. Len(<<t, u>>) : <<t, u>>[k].name \notin EarlyName
    BY <2>1, TwoTasks DEF EarlyName
  <2>3. PlacesRest
    BY <1>3, LoadShape
  <2> QED BY <2>1, <2>2, <2>3 DEF LateOnly
<1>4. CASE RunSettles
  <2>1. micro # <<>> /\ micro[1].name \notin EarlyName /\ PlacesRest /\ Current \in Call
    BY <1>4, RunSettlesShape, HeadTask DEF EarlyName
  <2>2. PICK s \in Seq(TaskSet) : Grows(1, s) /\ Tells(s, reactions[Run(Current)])
    BY <1>4, RunSettlesShape
  <2>3. ASSUME NEW k \in 1 .. Len(s) PROVE s[k].name \notin EarlyName
    <3>1. s[k].name \in ReactionName
      BY <2>1, <2>2 DEF Tells, CoreInv, ReactionsFit, RunFits
    <3> QED BY <3>1 DEF ReactionName, EarlyName
  <2> QED BY <2>1, <2>2, <2>3 DEF LateOnly
<1>5. CASE EntrySettles
  <2>1. micro # <<>> /\ micro[1].name \notin EarlyName /\ PlacesRest /\ Current \in Call
    BY <1>5, EntrySettlesShape, HeadTask DEF EarlyName
  <2>2. PICK s \in Seq(TaskSet) : Grows(1, s) /\ Tells(s, reactions[Entry(Current)])
    BY <1>5, EntrySettlesShape
  <2>3. ASSUME NEW k \in 1 .. Len(s) PROVE s[k].name \notin EarlyName
    <3>1. s[k].name \in {"caller", "after"}
      BY <2>1, <2>2 DEF Tells, CoreInv, ReactionsFit, EntryFits
    <3> QED BY <3>1 DEF EarlyName
  <2> QED BY <2>1, <2>2, <2>3 DEF LateOnly
<1>6. CASE Clear \/ CallerGoesOn
  <2>1. micro # <<>> /\ micro[1].name \notin EarlyName /\ PlacesRest /\ Grows(1, <<>>)
    BY <1>6, TaskGone, HeadTask DEF EarlyName
  <2> QED BY <2>1, NoTask DEF LateOnly
<1>7. CASE After
  <2>1. /\ micro # <<>> /\ Head(micro).name = "after" /\ UNCHANGED <<jobs, enqueued, idlers, flushers, edit>>
        /\ Adding(<<Task("turn", Current, Nothing)>>)
    BY <1>7 DEF After, Runs, queueVars, editVars
  <2>2. PICK t \in TaskSet : t.name = "turn" /\ Adding(<<t>>)
    BY <2>1, HeadTask, PlainTask, Names
  <2>3. Grows(1, <<t>>) /\ \A k \in 1 .. Len(<<t>>) : <<t>>[k].name \notin EarlyName
    BY <2>1, <2>2, HeadAdds, OneTask DEF EarlyName
  <2>4. micro[1].name \notin EarlyName
    BY <2>1, HeadTask DEF EarlyName
  <2> QED BY <2>1, <2>3, <2>4 DEF LateOnly, PlacesRest
<1>8. CASE Follow
  <2>1. micro # <<>> /\ micro[1].name \notin EarlyName /\ PlacesRest /\ Grows(1, <<>>)
    BY <1>8, FollowShape, HeadTask, HeadAddsNone DEF EarlyName
  <2> QED BY <2>1, NoTask DEF LateOnly
<1>9. CASE Rests
  BY <1>9, RestsShape, NoTask DEF LateOnly
<1> QED BY <1>1, <1>2, <1>3, <1>4, <1>5, <1>6, <1>7, <1>8, <1>9 DEF StandsBy

(***************************************************************************)
(* whenIdle() looks at the tail                                            *)
(***************************************************************************)
LEMMA LooksRest ==
  ASSUME CoreInv, CoreInv', IdleLooks, NEW n, NEW s, Grows(n, s),
         (jobs' = jobs /\ enqueued' = enqueued) \/ enqueued' = enqueued + 1,
         \A k \in 1 .. Len(s) : s[k].name = "idle" =>
           s[k].arg.from <= enqueued' /\ (s[k].arg.from = enqueued' => jobs' = <<>>),
         \A i \in 1 .. Len(idlers') : idlers'[i].arg.from <= enqueued
  PROVE  IdleLooks'
<1>1. enqueued \in Nat /\ micro \in Seq(TaskSet) /\ idlers' \in Seq(TaskSet)
  BY DEF CoreInv, Types
<1>2. ASSUME NEW i \in 1 .. Len(micro) PROVE micro[i].arg.from \in Nat
  <2>1. micro[i] \in TaskSet
    BY <1>1, ElementOfSeq
  <2> QED BY <2>1 DEF TaskSet, ResultSet
<1>3. ASSUME NEW i \in 1 .. Len(micro'), micro'[i].name = "idle"
      PROVE  micro'[i].arg.from <= enqueued' /\ (micro'[i].arg.from = enqueued' => jobs' = <<>>)
  <2>1. CASE i + n \in 1 .. Len(micro) /\ micro'[i] = micro[i + n]
    BY <1>1, <1>2, <1>3, <2>1 DEF IdleLooks
  <2>2. CASE \E k \in 1 .. Len(s) : micro'[i] = s[k]
    BY <1>3, <2>2
  <2> QED BY <2>1, <2>2, OldOrNew
<1>4. ASSUME NEW i \in 1 .. Len(idlers') PROVE idlers'[i].arg.from <= enqueued'
  <2>1. idlers'[i] \in TaskSet
    BY <1>1, ElementOfSeq
  <2>2. idlers'[i].arg.from \in Nat
    BY <2>1 DEF TaskSet, ResultSet
  <2>3. idlers'[i].arg.from <= enqueued
    OBVIOUS
  <2> QED BY <1>1, <2>2, <2>3
<1> QED BY <1>3, <1>4 DEF IdleLooks

(***************************************************************************)
(* Two operations that start at once keep step                             *)
(***************************************************************************)
\* A task that starts an operation, or lets the next entry have its turn, is on its way.
Arriving == \E i \in 1 .. Len(micro) : Leads(micro[i], Chained) /\ micro[i].name # "follow"

EarlyAt == {i \in 1 .. Len(micro) : micro[i].name \in EarlyName}

\* How far an operation is: a look at a tail that is the tail no longer counts less,
\* a refused patch ends it.
Stage(t, tail) ==
  IF t.name = "operation" THEN 1
  ELSE IF t.name = "flushed" THEN (IF t.arg.code = "ok" THEN 2 ELSE 7)
  ELSE IF t.name = "idle" THEN (IF t.arg.from = tail THEN 4 ELSE 3)
  ELSE IF t.name = "emptied" THEN 5
  ELSE IF t.name = "begin" THEN 6
  ELSE 0

NoneEarly == EarlyAt = {} /\ flushers = <<>> /\ idlers = <<>>

\* The active operation alone is early.  Alone, the automatic refresh finds the queue of
\* jobs empty when it begins; an operation that another one is about to follow sees no
\* edit after its first task, and no job it did not see before.
RunsAlone(i) ==
  /\ EarlyAt = {i} /\ micro[i].call = active /\ flushers = <<>> /\ idlers = <<>>
  /\ (want[active] = "automatic" \/ Arriving) /\ Stage(micro[i], enqueued) \in {5, 6} => jobs = <<>>
  /\ Arriving => Stage(micro[i], enqueued) \notin {3, 7} /\ (edit # "none" => Stage(micro[i], enqueued) = 1)

FlushesAlone == EarlyAt = {} /\ flushers = <<active>> /\ idlers = <<>>

LooksAlone ==
  /\ EarlyAt = {} /\ flushers = <<>> /\ Len(idlers) = 1 /\ idlers[1].call = active
  /\ Arriving => edit = "none" /\ jobs # <<>> /\ idlers[1].arg.from = enqueued

OneEarly ==
  /\ active # None /\ (Arriving => want[active] # "automatic")
  /\ FlushesAlone \/ LooksAlone \/ \E i \in EarlyAt : RunsAlone(i)

\* The operation d was started before the active one.  What d sees, at i, the active
\* one will see after it, at j.
BothRun(d, i, j) ==
  /\ EarlyAt = {i, j} /\ i # j /\ micro[i].call = d /\ micro[j].call = active /\ flushers = <<>> /\ idlers = <<>>
  /\ LET s == Stage(micro[i], enqueued)
         r == Stage(micro[j], enqueued)
     IN  /\ r < s \/ (r = s /\ i < j)
         /\ s \in {5, 6} => jobs = <<>>
         /\ s \in {3, 7} => r = s
         /\ edit # "none" => s = r \/ s = 1 \/ (j < i /\ s = r + 1 /\ r \in {3, 4})

FirstFlushes(d, j) ==
  /\ EarlyAt = {j} /\ micro[j].call = active /\ flushers = <<d>> /\ idlers = <<>>
  /\ Stage(micro[j], enqueued) \in {1, 5}

FirstLooks(d, j) ==
  /\ EarlyAt = {j} /\ micro[j].call = active /\ flushers = <<>>
  /\ Len(idlers) = 1 /\ idlers[1].call = d /\ idlers[1].arg.from = enqueued /\ jobs # <<>>
  /\ Stage(micro[j], enqueued) \in {1, 2, 3} /\ (edit # "none" => Stage(micro[j], enqueued) = 3)

BothFlush(d) == EarlyAt = {} /\ flushers = <<d, active>> /\ idlers = <<>>

BothLook(d) ==
  /\ EarlyAt = {} /\ flushers = <<>> /\ Len(idlers) = 2 /\ idlers[1].call = d /\ idlers[2].call = active
  /\ idlers[1].arg.from = idlers[2].arg.from

Behind(d) ==
  \/ BothFlush(d) \/ BothLook(d)
  \/ \E j \in EarlyAt : FirstFlushes(d, j) \/ FirstLooks(d, j) \/ \E i \in EarlyAt : BothRun(d, i, j)

TwoEarly ==
  /\ active # None /\ ~Arriving /\ want[active] # "automatic"
  /\ \E d \in runs : d # active /\ want[d] # "automatic" /\ Behind(d)

InStep == NoneEarly \/ OneEarly \/ TwoEarly

(***************************************************************************)
(* What the operation at the head of the queue does                        *)
(***************************************************************************)
NoneAdded(n, s) == Grows(n, s) /\ \A k \in 1 .. Len(s) : s[k].name \notin EarlyName

\* It goes on to its next task,
Advances(t) ==
  /\ t \in TaskSet /\ t.name \in EarlyName /\ t.call = Current /\ Grows(1, <<t>>)
  /\ UNCHANGED <<jobs, enqueued, idlers, flushers, edit>>

\* waits for the patch in flight,
Flushing ==
  /\ edit # "none" /\ edit' = "flying" /\ flushers' = Append(flushers, Current) /\ UNCHANGED idlers
  /\ UNCHANGED <<jobs, enqueued>> \/ (jobs' = Append(jobs, None) /\ enqueued' = enqueued + 1)
  /\ \E s : NoneAdded(1, s)

\* waits for the tail of the queue of jobs,
Looking ==
  /\ jobs # <<>> /\ idlers' = Append(idlers, Look(Current)) /\ UNCHANGED <<jobs, enqueued, flushers, edit>>
  /\ \E s : NoneAdded(1, s)

\* or becomes a job, or is over.
Leaving ==
  /\ UNCHANGED <<idlers, flushers, edit>>
  /\ UNCHANGED <<jobs, enqueued>> \/ (jobs' = Append(jobs, Current) /\ enqueued' = enqueued + 1)
  /\ \E s : NoneAdded(1, s)

HeadAdvances(t) ==
  /\ Advances(t)
  /\ LET h == Stage(micro[1], enqueued)
         g == Stage(t, enqueued)
     IN  \/ h = 1 /\ g = 2 /\ edit = "none"
         \/ h = 2 /\ g = 4 /\ jobs = <<>> /\ edit = "none"
         \/ h = 3 /\ g = 4 /\ jobs = <<>>
         \/ h = 4 /\ g = 5 /\ jobs = <<>>
         \/ h = 5 /\ g = 6 /\ edit = "none"

HeadFlushes == Flushing /\ Stage(micro[1], enqueued) \in {1, 5}
HeadLooks   == Looking /\ Stage(micro[1], enqueued) \in {2, 3} /\ (Stage(micro[1], enqueued) = 2 => edit = "none")
HeadLeaves  == Leaving /\ Stage(micro[1], enqueued) \in {6, 7}

LEMMA HeadEarly ==
  ASSUME CoreInv, micro # <<>>, Head(micro).name \in EarlyName
  PROVE  /\ 1 \in EarlyAt /\ micro[1].call = Current /\ micro[1].arg = Given /\ micro[1].name = Head(micro).name
         /\ Current \in Nat
BY HeadTask DEF EarlyAt

LEMMA FlushAllGoes ==
  ASSUME CoreInv, micro # <<>>, Head(micro).name \in {"operation", "emptied"}, FlushAll, UNCHANGED idlers
  PROVE  \/ Flushing
         \/ edit = "none" /\ \E t : Advances(t) /\ Stage(t, enqueued) = 2
<1>1. PICK t : t = Task("flushed", Current, Result("ok", None))
  OBVIOUS
<1>2. t \in TaskSet /\ t.name = "flushed" /\ t.call = Current /\ t.arg.code = "ok"
  <2>1. Current \in Nat
    BY HeadTask
  <2> QED BY <1>1, <2>1, Names DEF Task, Result, None, TaskSet, ResultSet
<1>3. t.name \in EarlyName /\ Stage(t, enqueued) = 2
  BY <1>2 DEF EarlyName, Stage
<1>4. CASE edit = "none" /\ UNCHANGED <<edit, jobs, enqueued, flushers>> /\ Grows(1, <<t>>)
  BY <1>2, <1>3, <1>4 DEF Advances
<1>5. CASE /\ edit # "none" /\ edit' = "flying" /\ flushers' = Append(flushers, Current)
           /\ UNCHANGED <<jobs, enqueued>> \/ (jobs' = Append(jobs, None) /\ enqueued' = enqueued + 1)
           /\ \E s \in Seq(TaskSet) : Grows(1, s) /\ \A k \in 1 .. Len(s) : s[k].name = "job"
  <2>1. PICK s \in Seq(TaskSet) : Grows(1, s) /\ \A k \in 1 .. Len(s) : s[k].name = "job"
    BY <1>5
  <2>2. NoneAdded(1, s)
    BY <2>1 DEF NoneAdded, EarlyName
  <2> QED BY <1>5, <2>2 DEF Flushing
<1> QED BY <1>1, <1>4, <1>5, FlushAllShape

LEMMA AwaitTailGoes ==
  ASSUME CoreInv, micro # <<>>, Head(micro).name \in {"flushed", "idle"}, AwaitTail,
         UNCHANGED <<jobs, enqueued, flushers, edit>>
  PROVE  \/ Looking
         \/ jobs = <<>> /\ \E t : Advances(t) /\ Stage(t, enqueued) = 4
<1>1. PICK t : t = Look(Current)
  OBVIOUS
<1>2. t \in TaskSet /\ t.name = "idle" /\ t.call = Current /\ t.arg.from = enqueued
  <2>1. Current \in Nat
    BY HeadTask
  <2> QED BY <1>1, <2>1, LookType
<1>3. t.name \in EarlyName /\ Stage(t, enqueued) = 4
  BY <1>2 DEF EarlyName, Stage
<1>4. CASE jobs = <<>> /\ UNCHANGED idlers /\ Grows(1, <<t>>)
  BY <1>2, <1>3, <1>4 DEF Advances
<1>5. CASE jobs # <<>> /\ idlers' = Append(idlers, Look(Current)) /\ Grows(1, <<>>)
  <2>1. NoneAdded(1, <<>>)
    BY <1>5, NoTask DEF NoneAdded
  <2> QED BY <1>5, <2>1 DEF Looking
<1> QED BY <1>1, <1>4, <1>5, AwaitTailShape

LEMMA HeadGoes ==
  ASSUME CoreInv, IdleLooks, Operation \/ Flushed \/ Idle \/ Emptied \/ Begin
  PROVE  /\ 1 \in EarlyAt /\ micro[1].call = Current
         /\ (\E t : HeadAdvances(t)) \/ HeadFlushes \/ HeadLooks \/ HeadLeaves
<1> DEFINE h == Stage(micro[1], enqueued)
<1>1. CASE Operation
  <2>1. micro # <<>> /\ Head(micro).name = "operation" /\ FlushAll /\ UNCHANGED idlers
    BY <1>1, OperationShape
  <2>2. 1 \in EarlyAt /\ micro[1].call = Current /\ micro[1].name = "operation"
    BY <2>1, HeadEarly DEF EarlyName
  <2>3. h = 1
    BY <2>2 DEF Stage
  <2> QED BY <2>1, <2>2, <2>3, FlushAllGoes DEF HeadAdvances, HeadFlushes
<1>2. CASE Flushed
  <2>1. /\ micro # <<>> /\ Head(micro).name = "flushed" /\ UNCHANGED <<jobs, enqueued, flushers, edit>>
        /\ Given.code = "ok" => AwaitTail
        /\ Given.code # "ok" => UNCHANGED idlers /\ \E t \in TaskSet : t.name = "run" /\ t.call = Current
             /\ Adding(<<t>>)
    BY <1>2, FlushedShape
  <2>2. 1 \in EarlyAt /\ micro[1].call = Current /\ micro[1].name = "flushed" /\ micro[1].arg = Given
    BY <2>1, HeadEarly DEF EarlyName
  <2>3. edit = "none"
    BY <2>2 DEF EarlyAt, CoreInv, EditsKnown
  <2>4. CASE Given.code = "ok"
    <3>1. h = 2
      BY <2>2, <2>4 DEF Stage
    <3> QED BY <2>1, <2>2, <2>3, <2>4, <3>1, AwaitTailGoes DEF HeadAdvances, HeadLooks
  <2>5. CASE Given.code # "ok"
    <3>1. h = 7
      BY <2>2, <2>5 DEF Stage
    <3>2. PICK t \in TaskSet : t.name = "run" /\ t.call = Current /\ Adding(<<t>>)
      BY <2>1, <2>5
    <3>3. NoneAdded(1, <<t>>)
      BY <2>1, <3>2, HeadAdds, OneTask DEF NoneAdded, EarlyName
    <3>4. Leaving
      BY <2>1, <2>5, <3>3 DEF Leaving
    <3> QED BY <2>2, <3>1, <3>4 DEF HeadLeaves
  <2> QED BY <2>4, <2>5
<1>3. CASE Idle
  <2>1. /\ micro # <<>> /\ Head(micro).name = "idle" /\ UNCHANGED <<jobs, enqueued, flushers, edit>>
        /\ Given.from # enqueued => AwaitTail
        /\ Given.from = enqueued => /\ UNCHANGED idlers
                                    /\ \E t \in TaskSet : t.name = "emptied" /\ t.call = Current /\ Grows(1, <<t>>)
    BY <1>3, IdleShape
  <2>2. 1 \in EarlyAt /\ micro[1].call = Current /\ micro[1].name = "idle" /\ micro[1].arg = Given
    BY <2>1, HeadEarly DEF EarlyName
  <2>3. CASE Given.from = enqueued
    <3>1. h = 4
      BY <2>2, <2>3 DEF Stage
    <3>2. jobs = <<>>
      BY <2>2, <2>3 DEF EarlyAt, IdleLooks
    <3>3. PICK t \in TaskSet : t.name = "emptied" /\ t.call = Current /\ Grows(1, <<t>>)
      BY <2>1, <2>3
    <3>4. Stage(t, enqueued) = 5 /\ Advances(t)
      BY <2>1, <2>3, <3>3 DEF Stage, Advances, EarlyName
    <3> QED BY <2>2, <3>1, <3>2, <3>4 DEF HeadAdvances
  <2>4. CASE Given.from # enqueued
    <3>1. h = 3
      BY <2>2, <2>4 DEF Stage
    <3> QED BY <2>1, <2>2, <2>4, <3>1, AwaitTailGoes DEF HeadAdvances, HeadLooks
  <2> QED BY <2>3, <2>4
<1>4. CASE Emptied
  <2>1. /\ micro # <<>> /\ Head(micro).name = "emptied" /\ UNCHANGED idlers /\ (edit # "none" => FlushAll)
        /\ edit = "none" => /\ UNCHANGED <<jobs, enqueued, flushers, edit>>
                            /\ \E t \in TaskSet : t.name = "begin" /\ t.call = Current /\ Grows(1, <<t>>)
    BY <1>4, EmptiedShape
  <2>2. 1 \in EarlyAt /\ micro[1].call = Current /\ micro[1].name = "emptied"
    BY <2>1, HeadEarly DEF EarlyName
  <2>3. h = 5
    BY <2>2 DEF Stage
  <2>4. CASE edit = "none"
    <3>1. PICK t \in TaskSet : t.name = "begin" /\ t.call = Current /\ Grows(1, <<t>>)
      BY <2>1, <2>4
    <3>2. Stage(t, enqueued) = 6 /\ Advances(t)
      BY <2>1, <2>4, <3>1 DEF Stage, Advances, EarlyName
    <3> QED BY <2>2, <2>3, <2>4, <3>2 DEF HeadAdvances
  <2>5. CASE edit # "none"
    BY <2>1, <2>2, <2>3, <2>5, FlushAllGoes DEF HeadFlushes
  <2> QED BY <2>4, <2>5
<1>5. CASE Begin
  <2>1. /\ micro # <<>> /\ Head(micro).name = "begin" /\ UNCHANGED <<idlers, flushers, edit>>
        /\ \/ /\ jobs' = Append(jobs, Current) /\ enqueued' = enqueued + 1
              /\ \E s \in Seq(TaskSet) : Grows(1, s) /\ \A k \in 1 .. Len(s) : s[k].name = "job"
           \/ /\ UNCHANGED <<jobs, enqueued>>
              /\ \E t \in TaskSet : t.name = "run" /\ t.call = Current /\ Adding(<<t>>)
    BY <1>5, BeginShape
  <2>2. 1 \in EarlyAt /\ micro[1].call = Current /\ micro[1].name = "begin"
    BY <2>1, HeadEarly DEF EarlyName
  <2>3. h = 6
    BY <2>2 DEF Stage
  <2>4. \E s : NoneAdded(1, s)
    <3>1. CASE \E s \in Seq(TaskSet) : Grows(1, s) /\ \A k \in 1 .. Len(s) : s[k].name = "job"
      BY <3>1 DEF NoneAdded, EarlyName
    <3>2. CASE \E t \in TaskSet : t.name = "run" /\ t.call = Current /\ Adding(<<t>>)
      <4>1. PICK t \in TaskSet : t.name = "run" /\ Adding(<<t>>)
        BY <3>2
      <4>2. NoneAdded(1, <<t>>)
        BY <2>1, <4>1, HeadAdds, OneTask DEF NoneAdded, EarlyName
      <4> QED BY <4>2
    <3> QED BY <2>1, <3>1, <3>2
  <2>5. Leaving
    BY <2>1, <2>4 DEF Leaving
  <2> QED BY <2>2, <2>3, <2>5 DEF HeadLeaves
<1> QED BY <1>1, <1>2, <1>3, <1>4, <1>5

\* No look is added.
LEMMA LooksAlike ==
  ASSUME CoreInv, CoreInv', IdleLooks, idlers' = idlers, NEW n, NEW s, NoneAdded(n, s),
         (jobs' = jobs /\ enqueued' = enqueued) \/ enqueued' = enqueued + 1
  PROVE  IdleLooks'
<1>1. Grows(n, s) /\ \A k \in 1 .. Len(s) : s[k].name # "idle"
  BY DEF NoneAdded, EarlyName
<1>2. \A i \in 1 .. Len(idlers') : idlers'[i].arg.from <= enqueued
  BY DEF IdleLooks
<1> QED BY <1>1, <1>2, LooksRest

LEMMA StandsByLooks ==
  ASSUME CoreInv, CoreInv', IdleLooks, StandsBy
  PROVE  IdleLooks'
<1>1. PICK n, s : LateOnly(n, s)
  BY StandsByShape
<1>2. NoneAdded(n, s)
  BY <1>1 DEF LateOnly, NoneAdded
<1>3. idlers' = idlers /\ jobs' = jobs /\ enqueued' = enqueued
  BY StandsByShape DEF PlacesRest
<1> QED BY <1>2, <1>3, LooksAlike

LEMMA TurnLooks ==
  ASSUME CoreInv, CoreInv', IdleLooks, Turn
  PROVE  IdleLooks'
<1>1. idlers' = idlers /\ jobs' = jobs /\ enqueued' = enqueued /\ micro # <<>>
  BY TurnShape DEF PlacesRest
<1>2. \A i \in 1 .. Len(idlers') : idlers'[i].arg.from <= enqueued
  BY <1>1 DEF IdleLooks
<1>3. CASE \E t \in TaskSet : t.name = "follow" /\ Adding(<<t>>)
  <2>1. PICK t \in TaskSet : t.name = "follow" /\ Adding(<<t>>)
    BY <1>3
  <2>2. NoneAdded(1, <<t>>)
    BY <1>1, <2>1, HeadAdds, OneTask DEF NoneAdded, EarlyName
  <2> QED BY <1>1, <2>2, LooksAlike
<1>4. CASE \E t, u \in TaskSet : t.name = "operation" /\ u.name = "follow" /\ Grows(1, <<t, u>>)
  <2>1. PICK t \in TaskSet, u \in TaskSet : t.name = "operation" /\ u.name = "follow" /\ Grows(1, <<t, u>>)
    BY <1>4
  <2>2. \A k \in 1 .. Len(<<t, u>>) : <<t, u>>[k].name # "idle"
    BY <2>1, TwoTasks
  <2> QED BY <1>1, <1>2, <2>1, <2>2, LooksRest
<1> QED BY <1>3, <1>4, TurnShape

LEMMA AskedLooks ==
  ASSUME CoreInv, CoreInv', IdleLooks, Asks
  PROVE  IdleLooks'
<1>1. PICK c \in Call : PlacesRest /\ (Starts(c) \/ Skipped(c) \/ Joined(c) \/ Queued(c))
  BY AskedShape
<1>2. idlers' = idlers /\ jobs' = jobs /\ enqueued' = enqueued
  BY <1>1 DEF PlacesRest
<1>3. \A i \in 1 .. Len(idlers') : idlers'[i].arg.from <= enqueued
  BY <1>2 DEF IdleLooks
<1>4. \E s : Grows(0, s) /\ \A k \in 1 .. Len(s) : s[k].name # "idle"
  <2>1. CASE Starts(c)
    <3>1. PICK t \in TaskSet : t.name = "operation" /\ Grows(0, <<t>>)
      BY <2>1 DEF Starts
    <3> QED BY <3>1, OneTask
  <2>2. CASE Skipped(c)
    <3>1. PICK t \in TaskSet : t.name = "caller" /\ Grows(0, <<t>>)
      BY <2>2 DEF Skipped
    <3> QED BY <3>1, OneTask
  <2>3. CASE Joined(c) \/ Queued(c)
    <3>1. micro' = micro
      BY <2>3 DEF Joined, Queued
    <3> QED BY <3>1, NothingMoves, NoTask
  <2> QED BY <1>1, <2>1, <2>2, <2>3
<1> QED BY <1>2, <1>3, <1>4, LooksRest

LEMMA HeadGoesLooks ==
  ASSUME CoreInv, CoreInv', IdleLooks, (\E t : HeadAdvances(t)) \/ HeadFlushes \/ HeadLooks \/ HeadLeaves
  PROVE  IdleLooks'
<1>1. ASSUME NEW t, HeadAdvances(t) PROVE IdleLooks'
  <2>1. /\ t \in TaskSet /\ Grows(1, <<t>>) /\ idlers' = idlers /\ jobs' = jobs /\ enqueued' = enqueued
        /\ t.name = "idle" => t.arg.from = enqueued /\ jobs = <<>>
    BY <1>1 DEF HeadAdvances, Advances, Stage
  <2>2. \A i \in 1 .. Len(idlers') : idlers'[i].arg.from <= enqueued
    BY <2>1 DEF IdleLooks
  <2>3. enqueued \in Nat /\ \A k \in 1 .. Len(<<t>>) : <<t>>[k] = t
    BY <2>1, OneTask DEF CoreInv, Types
  <2>4. \A k \in 1 .. Len(<<t>>) : <<t>>[k].name = "idle" =>
          <<t>>[k].arg.from <= enqueued' /\ (<<t>>[k].arg.from = enqueued' => jobs' = <<>>)
    BY <2>1, <2>3
  <2> QED BY <2>1, <2>2, <2>4, LooksRest
<1>2. CASE HeadFlushes
  <2>1. PICK s : NoneAdded(1, s)
    BY <1>2 DEF HeadFlushes, Flushing
  <2>2. idlers' = idlers /\ ((jobs' = jobs /\ enqueued' = enqueued) \/ enqueued' = enqueued + 1)
    BY <1>2 DEF HeadFlushes, Flushing
  <2> QED BY <2>1, <2>2, LooksAlike
<1>3. CASE HeadLeaves
  <2>1. PICK s : NoneAdded(1, s)
    BY <1>3 DEF HeadLeaves, Leaving
  <2>2. idlers' = idlers /\ ((jobs' = jobs /\ enqueued' = enqueued) \/ enqueued' = enqueued + 1)
    BY <1>3 DEF HeadLeaves, Leaving
  <2> QED BY <2>1, <2>2, LooksAlike
<1>4. CASE HeadLooks
  <2>1. PICK s : NoneAdded(1, s)
    BY <1>4 DEF HeadLooks, Looking
  <2>2. Grows(1, s) /\ \A k \in 1 .. Len(s) : s[k].name # "idle"
    BY <2>1 DEF NoneAdded, EarlyName
  <2>3. jobs' = jobs /\ enqueued' = enqueued /\ idlers' = Append(idlers, Look(Current))
    BY <1>4 DEF HeadLooks, Looking
  <2>4. Look(Current).arg.from = enqueued
    BY DEF Look, Task, Result
  <2>5. PICK t : t = Look(Current) /\ idlers' = Append(idlers, t)
    BY <2>3
  <2>6. idlers \in Seq(TaskSet) /\ enqueued \in Nat
    BY DEF CoreInv, Types
  <2>7. \A i \in 1 .. Len(idlers') : (i \in 1 .. Len(idlers) /\ idlers'[i] = idlers[i]) \/ idlers'[i] = t
    BY <2>5, <2>6
  <2>8. \A i \in 1 .. Len(idlers') : idlers'[i].arg.from <= enqueued
    BY <2>4, <2>5, <2>6, <2>7 DEF IdleLooks
  <2> QED BY <2>2, <2>3, <2>8, LooksRest
<1> QED BY <1>1, <1>2, <1>3, <1>4

\* Only the tail a look saw lets it go, when it is the last one.
LEMMA TailLooks ==
  ASSUME CoreInv, CoreInv', IdleLooks, TailSettles
  PROVE  IdleLooks'
<1>1. PICK m \in Nat, s \in Seq(TaskSet) :
        /\ Grows(1, s) /\ Len(idlers) \in Nat /\ m <= Len(idlers) /\ m <= Len(s)
        /\ \A k \in 1 .. m : s[k] = idlers[k]
        /\ \A k \in 1 .. Len(s) : k > m => s[k].name = "job"
        /\ \A k \in 1 .. Len(idlers') : m + k \in 1 .. Len(idlers) /\ idlers'[k] = idlers[m + k]
        /\ \A i \in 1 .. Len(idlers) : i <= m <=> idlers[i].arg.from = Finished + 1
  BY TailShape
<1>2. jobs # <<>> /\ jobs' = Tail(jobs) /\ enqueued' = enqueued
  BY TailShape
<1>3. enqueued \in Nat /\ Len(jobs) \in Nat \ {0} /\ Len(jobs) <= enqueued /\ jobs' \in Seq(Nat)
        /\ Len(jobs') = Len(jobs) - 1
  BY <1>2, TailGone DEF CoreInv, Types
<1>4. ASSUME NEW k \in 1 .. Len(s), s[k].name = "idle"
      PROVE  s[k].arg.from <= enqueued' /\ (s[k].arg.from = enqueued' => jobs' = <<>>)
  <2>1. k <= m /\ k \in 1 .. m /\ k \in 1 .. Len(idlers)
    BY <1>1, <1>4
  <2>2. s[k].arg.from = Finished + 1
    BY <1>1, <2>1
  <2>3. Finished + 1 = enqueued - Len(jobs) + 1
    BY DEF Finished
  <2>4. s[k].arg.from = enqueued => Len(jobs') = 0
    BY <1>3, <2>2, <2>3
  <2>5. Len(jobs') = 0 => jobs' = <<>>
    BY <1>3, EmptySeq
  <2> QED BY <1>2, <1>3, <2>2, <2>3, <2>4, <2>5
<1>5. \A i \in 1 .. Len(idlers') : idlers'[i].arg.from <= enqueued
  BY <1>1 DEF IdleLooks
<1>6. IdleLooks'
  <2>1. ASSUME NEW i \in 1 .. Len(micro'), micro'[i].name = "idle"
        PROVE  micro'[i].arg.from <= enqueued' /\ (micro'[i].arg.from = enqueued' => jobs' = <<>>)
    <3>1. CASE i + 1 \in 1 .. Len(micro) /\ micro'[i] = micro[i + 1]
      <4>1. micro[i + 1].arg.from <= enqueued /\ (micro[i + 1].arg.from = enqueued => jobs = <<>>)
        BY <2>1, <3>1 DEF IdleLooks
      <4> QED BY <1>2, <3>1, <4>1
    <3>2. CASE \E k \in 1 .. Len(s) : micro'[i] = s[k]
      BY <1>4, <2>1, <3>2
    <3> QED BY <1>1, <3>1, <3>2, OldOrNew
  <2> QED BY <1>2, <1>5, <2>1 DEF IdleLooks
<1> QED BY <1>6

LEMMA EditLooks ==
  ASSUME CoreInv, CoreInv', IdleLooks, EditTimer \/ Retry \/ EditSettles \/ Type
  PROVE  IdleLooks'
<1>1. CASE EditTimer \/ Retry
  <2>1. PICK s \in Seq(TaskSet) : Grows(0, s) /\ \A k \in 1 .. Len(s) : s[k].name = "job"
    BY <1>1, FliesShape
  <2>2. NoneAdded(0, s)
    BY <2>1 DEF NoneAdded, EarlyName
  <2>3. idlers' = idlers /\ enqueued' = enqueued + 1
    BY <1>1, FliesShape
  <2> QED BY <2>2, <2>3, LooksAlike
<1>2. CASE EditSettles
  <2>1. PICK s \in Seq(TaskSet) :
          /\ Grows(0, s) /\ Len(flushers) \in Nat /\ Len(s) = 1 + Len(flushers)
          /\ 1 \in 1 .. Len(s) /\ s[1].name = "tail"
          /\ \A k \in 1 .. Len(flushers) : s[1 + k].name = "flushed"
    BY <1>2, EditSettlesShape
  <2>2. ASSUME NEW k \in 1 .. Len(s) PROVE s[k].name # "idle"
    <3>1. k = 1 \/ (k - 1 \in 1 .. Len(flushers) /\ 1 + (k - 1) = k)
      BY <2>1
    <3> QED BY <2>1, <3>1
  <2>3. UNCHANGED <<jobs, enqueued, idlers>>
    BY <1>2, EditSettlesShape
  <2>4. \A i \in 1 .. Len(idlers') : idlers'[i].arg.from <= enqueued
    BY <2>3 DEF IdleLooks
  <2> QED BY <2>1, <2>2, <2>3, <2>4, LooksRest
<1>3. CASE Type
  <2>1. Grows(0, <<>>) /\ UNCHANGED <<jobs, enqueued, idlers>>
    BY <1>3, NothingMoves DEF Type, queueVars
  <2>2. NoneAdded(0, <<>>)
    BY <2>1, NoTask DEF NoneAdded
  <2> QED BY <2>1, <2>2, LooksAlike
<1> QED BY <1>1, <1>2, <1>3

LEMMA LooksHold ==
  ASSUME CoreInv, CoreInv', IdleLooks, [Next]_vars
  PROVE  IdleLooks'
<1>1. CASE Operation \/ Flushed \/ Idle \/ Emptied \/ Begin
  BY <1>1, HeadGoes, HeadGoesLooks
<1>2. CASE StandsBy
  BY <1>2, StandsByLooks
<1>3. CASE TailSettles
  BY <1>3, TailLooks
<1>4. CASE Turn
  BY <1>4, TurnLooks
<1>5. CASE Asks
  BY <1>5, AskedLooks
<1>6. CASE EditTimer \/ Retry \/ EditSettles \/ Type
  BY <1>6, EditLooks
<1> QED BY <1>1, <1>2, <1>3, <1>4, <1>5, <1>6, NextCases DEF StandsBy

(***************************************************************************)
(* Where the early tasks are after a step                                  *)
(***************************************************************************)
LEMMA EarlyThen ==
  ASSUME NEW n, NEW s, Grows(n, s)
  PROVE  /\ n \in {0, 1} /\ Len(micro) \in Nat /\ EarlyAt \subseteq 1 .. Len(micro)
         /\ \A i \in EarlyAt' :
              \/ i + n \in EarlyAt /\ micro'[i] = micro[i + n] /\ i >= 1
              \/ \E k \in 1 .. Len(s) : s[k].name \in EarlyName /\ i = Len(micro) - n + k /\ micro'[i] = s[k]
         /\ \A i \in EarlyAt : i > n => i - n \in EarlyAt' /\ micro'[i - n] = micro[i]
         /\ \A k \in 1 .. Len(s) : s[k].name \in EarlyName =>
              Len(micro) - n + k \in EarlyAt' /\ micro'[Len(micro) - n + k] = s[k]
<1>1. n \in {0, 1} /\ Len(micro) \in Nat /\ EarlyAt \subseteq 1 .. Len(micro)
  BY Placed DEF EarlyAt
<1>2. ASSUME NEW i \in EarlyAt'
      PROVE  \/ i + n \in EarlyAt /\ micro'[i] = micro[i + n] /\ i >= 1
             \/ \E k \in 1 .. Len(s) : s[k].name \in EarlyName /\ i = Len(micro) - n + k /\ micro'[i] = s[k]
  <2>1. i \in 1 .. Len(micro') /\ micro'[i].name \in EarlyName
    BY DEF EarlyAt
  <2>2. CASE i <= Len(micro) - n /\ i + n \in 1 .. Len(micro) /\ micro'[i] = micro[i + n]
    BY <2>1, <2>2 DEF EarlyAt
  <2>3. CASE \E k \in 1 .. Len(s) : i = Len(micro) - n + k /\ micro'[i] = s[k]
    BY <2>1, <2>3
  <2> QED BY <2>1, <2>2, <2>3, Placed
<1>3. \A i \in EarlyAt : i > n => i - n \in EarlyAt' /\ micro'[i - n] = micro[i]
  BY Placed DEF EarlyAt
<1>4. \A k \in 1 .. Len(s) : s[k].name \in EarlyName =>
        Len(micro) - n + k \in EarlyAt' /\ micro'[Len(micro) - n + k] = s[k]
  BY Placed DEF EarlyAt
<1> QED BY <1>1, <1>2, <1>3, <1>4

\* None is added.
LEMMA EarlyRest ==
  ASSUME NEW n, NEW s, NoneAdded(n, s)
  PROVE  /\ \A i \in EarlyAt' : i + n \in EarlyAt /\ micro'[i] = micro[i + n] /\ i \in Nat /\ i >= 1
         /\ \A i \in EarlyAt : i > n => i - n \in EarlyAt' /\ micro'[i - n] = micro[i]
         /\ n \in {0, 1} /\ \A i \in EarlyAt : i \in Nat /\ i >= 1
<1>1. Grows(n, s) /\ \A k \in 1 .. Len(s) : s[k].name \notin EarlyName
  BY DEF NoneAdded
<1>2. n \in {0, 1} /\ \A i \in EarlyAt : i \in Nat /\ i >= 1
  BY <1>1, EarlyThen
<1>3. ASSUME NEW i \in EarlyAt' PROVE i + n \in EarlyAt /\ micro'[i] = micro[i + n] /\ i \in Nat /\ i >= 1
  <2>1. i \in Nat
    BY DEF EarlyAt
  <2> QED BY <1>1, <2>1, EarlyThen
<1> QED BY <1>1, <1>2, <1>3, EarlyThen

LEMMA NoneStays ==
  ASSUME NEW n, NEW s, NoneAdded(n, s), EarlyAt = {}
  PROVE  EarlyAt' = {}
BY EarlyRest

LEMMA OneStays ==
  ASSUME NEW n, NEW s, NoneAdded(n, s), n = 1 => 1 \notin EarlyAt, NEW i, EarlyAt = {i}
  PROVE  EarlyAt' = {i - n} /\ micro'[i - n] = micro[i]
<1>1. i \in Nat /\ i > n /\ n \in {0, 1}
  BY EarlyRest
<1>2. i - n \in EarlyAt' /\ micro'[i - n] = micro[i]
  BY <1>1, EarlyRest
<1>3. \A k \in EarlyAt' : k = i - n
  BY <1>1, EarlyRest
<1> QED BY <1>2, <1>3

LEMMA TwoStay ==
  ASSUME NEW n, NEW s, NoneAdded(n, s), n = 1 => 1 \notin EarlyAt, NEW i, NEW j, EarlyAt = {i, j}
  PROVE  /\ EarlyAt' = {i - n, j - n} /\ micro'[i - n] = micro[i] /\ micro'[j - n] = micro[j]
         /\ i \in Nat /\ j \in Nat /\ n \in Nat
<1>1. i \in Nat /\ i > n /\ j \in Nat /\ j > n /\ n \in {0, 1}
  BY EarlyRest
<1>2. i - n \in EarlyAt' /\ micro'[i - n] = micro[i] /\ j - n \in EarlyAt' /\ micro'[j - n] = micro[j]
  BY <1>1, EarlyRest
<1>3. \A k \in EarlyAt' : k = i - n \/ k = j - n
  BY <1>1, EarlyRest
<1> QED BY <1>1, <1>2, <1>3

LEMMA HeadGoneEarly ==
  ASSUME NEW s, NoneAdded(1, s)
  PROVE  /\ EarlyAt = {1} => EarlyAt' = {}
         /\ \A j : EarlyAt = {1, j} /\ j # 1 => EarlyAt' = {j - 1} /\ micro'[j - 1] = micro[j]
<1>1. EarlyAt = {1} => EarlyAt' = {}
  BY EarlyRest
<1>2. ASSUME NEW j, EarlyAt = {1, j}, j # 1 PROVE EarlyAt' = {j - 1} /\ micro'[j - 1] = micro[j]
  <2>1. j \in Nat /\ j > 1
    BY <1>2, EarlyRest
  <2>2. j - 1 \in EarlyAt' /\ micro'[j - 1] = micro[j]
    BY <1>2, <2>1, EarlyRest
  <2>3. \A k \in EarlyAt' : k = j - 1
    BY <1>2, <2>1, EarlyRest
  <2> QED BY <2>2, <2>3
<1> QED BY <1>1, <1>2

\* One is added, last but for others that are not early.
LEMMA EarlyAdded ==
  ASSUME NEW n, NEW s, Grows(n, s), 1 \in 1 .. Len(s), s[1].name \in EarlyName,
         \A k \in 1 .. Len(s) : k # 1 => s[k].name \notin EarlyName, NEW l, l = Len(micro) - n + 1
  PROVE  /\ l \in EarlyAt' /\ micro'[l] = s[1] /\ n \in {0, 1} /\ l \in Nat
         /\ \A i \in EarlyAt : i \in Nat /\ i >= 1
              /\ (i > n => i - n \in EarlyAt' /\ micro'[i - n] = micro[i] /\ i - n < l)
         /\ \A i \in EarlyAt' : i \in Nat /\ (i = l \/ (i + n \in EarlyAt /\ i >= 1))
<1>1. n \in {0, 1} /\ Len(micro) \in Nat /\ EarlyAt \subseteq 1 .. Len(micro) /\ n <= Len(micro)
  BY EarlyThen DEF Grows
<1>2. l \in EarlyAt' /\ micro'[l] = s[1]
  BY <1>1, EarlyThen
<1>3. \A i \in EarlyAt : i \in Nat /\ i >= 1 /\ (i > n => i - n \in EarlyAt' /\ micro'[i - n] = micro[i] /\ i - n < l)
  BY <1>1, EarlyThen
<1>4. ASSUME NEW i \in EarlyAt' PROVE i \in Nat /\ (i = l \/ (i + n \in EarlyAt /\ i >= 1))
  <2>1. i \in Nat
    BY DEF EarlyAt
  <2>2. \A k \in 1 .. Len(s) : s[k].name \in EarlyName => k = 1
    OBVIOUS
  <2> QED BY <2>1, <2>2, EarlyThen
<1> QED BY <1>1, <1>2, <1>3, <1>4

LEMMA HeadStaysEarly ==
  ASSUME NEW t \in TaskSet, t.name \in EarlyName, Grows(1, <<t>>), NEW l, l = Len(micro)
  PROVE  /\ micro'[l] = t /\ l \in EarlyAt' /\ l \in Nat
         /\ EarlyAt = {1} => EarlyAt' = {l}
         /\ \A j : EarlyAt = {1, j} /\ j # 1 => EarlyAt' = {j - 1, l} /\ micro'[j - 1] = micro[j] /\ j - 1 < l
              /\ j \in Nat
<1>1. PICK s : s = <<t>> /\ Grows(1, s)
  OBVIOUS
<1>2. 1 \in 1 .. Len(s) /\ s[1] = t /\ \A k \in 1 .. Len(s) : k = 1
  BY <1>1, OneTask
<1>3. l = Len(micro) - 1 + 1
  BY <1>1, Placed
<1>4. /\ l \in EarlyAt' /\ micro'[l] = t /\ l \in Nat
      /\ \A i \in EarlyAt : i \in Nat /\ i >= 1
           /\ (i > 1 => i - 1 \in EarlyAt' /\ micro'[i - 1] = micro[i] /\ i - 1 < l)
      /\ \A i \in EarlyAt' : i \in Nat /\ (i = l \/ (i + 1 \in EarlyAt /\ i >= 1))
  <2>1. s[1].name \in EarlyName /\ \A k \in 1 .. Len(s) : k # 1 => s[k].name \notin EarlyName
    BY <1>2
  <2> QED BY <1>1, <1>2, <1>3, <2>1, EarlyAdded
<1>5. ASSUME EarlyAt = {1} PROVE EarlyAt' = {l}
  <2>1. ASSUME NEW i \in EarlyAt' PROVE i = l
    <3>1. i \in Nat /\ (i = l \/ (i + 1 \in EarlyAt /\ i >= 1))
      BY <1>4
    <3>2. i + 1 \in EarlyAt => i + 1 = 1
      BY <1>5
    <3> QED BY <3>1, <3>2
  <2> QED BY <1>4, <2>1
<1>6. ASSUME NEW j, EarlyAt = {1, j}, j # 1
      PROVE  EarlyAt' = {j - 1, l} /\ micro'[j - 1] = micro[j] /\ j - 1 < l /\ j \in Nat
  <2>1. j \in Nat /\ j > 1
    BY <1>4, <1>6
  <2>2. j - 1 \in EarlyAt' /\ micro'[j - 1] = micro[j] /\ j - 1 < l
    BY <1>4, <1>6, <2>1
  <2>3. \A i \in EarlyAt' : i = l \/ i = j - 1
    BY <1>4, <1>6, <2>1
  <2> QED BY <1>4, <2>1, <2>2, <2>3
<1> QED BY <1>4, <1>5, <1>6

(***************************************************************************)
(* Stages                                                                  *)
(***************************************************************************)
LEMMA Stages ==
  ASSUME CoreInv, IdleLooks, NEW i \in EarlyAt
  PROVE  /\ Stage(micro[i], enqueued) \in 1 .. 7 /\ micro[i].call \in runs
         /\ Stage(micro[i], enqueued) \in {2, 6, 7} => edit = "none"
         /\ Stage(micro[i], enqueued) = 4 => jobs = <<>>
<1>1. i \in 1 .. Len(micro) /\ micro[i].name \in EarlyName
  BY DEF EarlyAt
<1>2. micro[i].call \in runs
  BY <1>1, RunsAreCalls
<1>3. micro[i].name \in {"flushed", "begin"} => edit = "none"
  BY <1>1 DEF CoreInv, EditsKnown
<1>4. micro[i].name = "idle" /\ micro[i].arg.from = enqueued => jobs = <<>>
  BY <1>1 DEF IdleLooks
<1> QED BY <1>1, <1>2, <1>3, <1>4 DEF Stage, EarlyName

\* Only a look depends on the tail.
LEMMA StageKept ==
  ASSUME NEW t, NEW a, NEW b, Stage(t, a) \notin {3, 4}
  PROVE  Stage(t, b) = Stage(t, a)
BY DEF Stage

LEMMA FirstToWait ==
  ASSUME NEW x \in TaskSet
  PROVE  Len(Append(<<>>, x)) = 1 /\ Append(<<>>, x)[1] = x
OBVIOUS

LEMMA SecondToWait ==
  ASSUME NEW w \in Seq(TaskSet), NEW x \in TaskSet, Len(w) = 1
  PROVE  Len(Append(w, x)) = 2 /\ Append(w, x)[1] = w[1] /\ Append(w, x)[2] = x
<1>1. PICK v : v = Append(w, x)
  OBVIOUS
<1>2. Len(v) = Len(w) + 1
  BY <1>1, AppendProperties
<1>3. \A i \in 1 .. Len(w) : v[i] = w[i]
  BY <1>1, AppendProperties
<1>4. v[Len(w) + 1] = x
  BY <1>1, AppendProperties
<1>5. 1 \in 1 .. Len(w) /\ Len(w) + 1 = 2
  OBVIOUS
<1>6. Len(v) = 2 /\ v[1] = w[1] /\ v[2] = x
  BY <1>2, <1>3, <1>4, <1>5
<1> QED BY <1>1, <1>6

LEMMA FlushersQueue ==
  /\ \A x \in Nat : Append(<<>>, x) = <<x>>
  /\ \A x, y \in Nat : Append(<<x>>, y) = <<x, y>>
<1>1. \A x \in Nat : Append(<<>>, x) = <<x>>
  OBVIOUS
<1>2. ASSUME NEW x \in Nat, NEW y \in Nat PROVE Append(<<x>>, y) = <<x, y>>
  <2>1. <<x>> \in Seq(Nat) /\ Len(<<x>>) = 1 /\ <<x>>[1] = x /\ <<x, y>> \in Seq(Nat) /\ Len(<<x, y>>) = 2
        /\ <<x, y>>[1] = x /\ <<x, y>>[2] = y
    OBVIOUS
  <2>2. PICK v, w : v = Append(<<x>>, y) /\ w = <<x, y>>
    OBVIOUS
  <2>3. v \in Seq(Nat) /\ Len(v) = 2 /\ v[1] = x /\ v[2] = y
    BY <2>1, <2>2, AppendProperties
  <2>4. w \in Seq(Nat) /\ Len(w) = 2 /\ w[1] = x /\ w[2] = y
    BY <2>1, <2>2
  <2>5. \A k \in 1 .. 2 : v[k] = w[k]
    BY <2>3, <2>4
  <2>6. v = w
    BY <2>3, <2>4, <2>5, SeqEqual
  <2> QED BY <2>2, <2>6
<1> QED BY <1>1, <1>2

\* The active operation, early alone, goes on.
LEMMA AloneGoes ==
  ASSUME CoreInv, IdleLooks, OneEarly, 1 \in EarlyAt, micro[1].call = Current,
         active' = active, want' = want, Arriving' => Arriving,
         (\E t : HeadAdvances(t)) \/ HeadFlushes \/ HeadLooks \/ HeadLeaves
  PROVE  OneEarly' \/ (HeadLeaves /\ NoneEarly')
<1>1. RunsAlone(1)
  <2>1. PICK i \in EarlyAt : RunsAlone(i)
    BY DEF OneEarly, FlushesAlone, LooksAlone
  <2>2. i = 1
    BY <2>1 DEF RunsAlone
  <2> QED BY <2>1, <2>2
<1>2. PICK h : h = Stage(micro[1], enqueued)
  OBVIOUS
<1>3. /\ EarlyAt = {1} /\ micro[1].call = active /\ flushers = <<>> /\ idlers = <<>> /\ Current = active
      /\ (want[active] = "automatic" \/ Arriving) /\ h \in {5, 6} => jobs = <<>>
      /\ Arriving => h \notin {3, 7} /\ (edit # "none" => h = 1)
  BY <1>1, <1>2 DEF RunsAlone
<1>4. active' # None /\ (Arriving' => want'[active'] # "automatic")
  BY DEF OneEarly
<1>5. h \in 1 .. 7 /\ (h \in {2, 6, 7} => edit = "none") /\ (h = 4 => jobs = <<>>) /\ Current \in runs
        /\ Current \in Nat
  BY <1>2, <1>3, Stages, RunsAreCalls DEF CoreInv, Types
<1>6. ASSUME NEW t, HeadAdvances(t) PROVE OneEarly'
  <2>1. PICK g : g = Stage(t, enqueued)
    OBVIOUS
  <2>2. /\ t \in TaskSet /\ t.name \in EarlyName /\ t.call = Current /\ Grows(1, <<t>>)
        /\ jobs' = jobs /\ enqueued' = enqueued /\ idlers' = idlers /\ flushers' = flushers /\ edit' = edit
    BY <1>6 DEF HeadAdvances, Advances
  <2>3. \/ h = 1 /\ g = 2 /\ edit = "none"
        \/ h = 2 /\ g = 4 /\ jobs = <<>> /\ edit = "none"
        \/ h = 3 /\ g = 4 /\ jobs = <<>>
        \/ h = 4 /\ g = 5 /\ jobs = <<>>
        \/ h = 5 /\ g = 6 /\ edit = "none"
    BY <1>2, <1>6, <2>1 DEF HeadAdvances
  <2>4. PICK l : l = Len(micro)
    OBVIOUS
  <2>5. EarlyAt' = {l} /\ micro'[l] = t /\ l \in EarlyAt'
    BY <1>3, <2>2, <2>4, HeadStaysEarly
  <2>6. Stage(micro'[l], enqueued') = g
    BY <2>1, <2>2, <2>5
  <2>7. (want'[active'] = "automatic" \/ Arriving') /\ g \in {5, 6} => jobs' = <<>>
    BY <1>3, <2>2, <2>3
  <2>8. Arriving' => g \notin {3, 7} /\ (edit' # "none" => g = 1)
    BY <1>3, <2>2, <2>3
  <2>9. RunsAlone(l)'
    BY <1>3, <2>2, <2>5, <2>6, <2>7, <2>8 DEF RunsAlone
  <2> QED BY <1>4, <2>5, <2>9 DEF OneEarly
<1>7. CASE HeadFlushes
  <2>1. PICK s : NoneAdded(1, s)
    BY <1>7 DEF HeadFlushes, Flushing
  <2>2. EarlyAt' = {}
    BY <1>3, <2>1, HeadGoneEarly
  <2>3. flushers' = <<active'>> /\ idlers' = <<>>
    BY <1>3, <1>5, <1>7, FlushersQueue DEF HeadFlushes, Flushing
  <2>4. FlushesAlone'
    BY <2>2, <2>3 DEF FlushesAlone
  <2> QED BY <1>4, <2>4 DEF OneEarly
<1>8. CASE HeadLooks
  <2>1. PICK s : NoneAdded(1, s)
    BY <1>8 DEF HeadLooks, Looking
  <2>2. EarlyAt' = {}
    BY <1>3, <2>1, HeadGoneEarly
  <2>3. PICK t : t = Look(Current)
    OBVIOUS
  <2>4. t \in TaskSet /\ t.call = Current /\ t.arg.from = enqueued
    BY <1>5, <2>3, LookType
  <2>5. /\ idlers' = Append(idlers, t) /\ jobs # <<>> /\ jobs' = jobs /\ enqueued' = enqueued
             /\ flushers' = flushers /\ edit' = edit
        /\ h \in {2, 3} /\ (h = 2 => edit = "none")
    BY <1>2, <1>8, <2>3 DEF HeadLooks, Looking
  <2>6. Len(idlers') = 1 /\ idlers'[1] = t
    BY <1>3, <2>4, <2>5, FirstToWait
  <2>7. Arriving' => edit' = "none" /\ jobs' # <<>> /\ idlers'[1].arg.from = enqueued'
    BY <1>3, <2>4, <2>5, <2>6
  <2>8. LooksAlone'
    BY <1>3, <2>2, <2>4, <2>5, <2>6, <2>7 DEF LooksAlone
  <2> QED BY <1>4, <2>8 DEF OneEarly
<1>9. CASE HeadLeaves
  <2>1. PICK s : NoneAdded(1, s)
    BY <1>9 DEF HeadLeaves, Leaving
  <2>2. EarlyAt' = {} /\ flushers' = <<>> /\ idlers' = <<>>
    BY <1>3, <1>9, <2>1, HeadGoneEarly DEF HeadLeaves, Leaving
  <2> QED BY <1>9, <2>2 DEF NoneEarly
<1> QED BY <1>6, <1>7, <1>8, <1>9

\* The first of two goes on,
LEMMA FirstGoes ==
  ASSUME CoreInv, IdleLooks, NEW d \in runs, NEW j, BothRun(d, 1, j), 1 \in EarlyAt, micro[1].call = Current,
         active' = active, (\E t : HeadAdvances(t)) \/ HeadFlushes \/ HeadLooks \/ HeadLeaves
  PROVE  \/ Behind(d)'
         \/ /\ HeadLeaves /\ Current = d /\ EarlyAt' = {j - 1} /\ micro'[j - 1].call = active'
            /\ flushers' = <<>> /\ idlers' = <<>>
<1>1. PICK h, r : h = Stage(micro[1], enqueued) /\ r = Stage(micro[j], enqueued)
  OBVIOUS
<1>2. /\ EarlyAt = {1, j} /\ j # 1 /\ Current = d /\ micro[j].call = active /\ flushers = <<>> /\ idlers = <<>>
      /\ r < h \/ (r = h /\ 1 < j)
      /\ h \in {5, 6} => jobs = <<>>
      /\ h \in {3, 7} => r = h
      /\ edit # "none" => h = r \/ h = 1 \/ (j < 1 /\ h = r + 1 /\ r \in {3, 4})
  BY <1>1 DEF BothRun
<1>3. /\ h \in 1 .. 7 /\ (h \in {2, 6, 7} => edit = "none") /\ (h = 4 => jobs = <<>>)
      /\ r \in 1 .. 7 /\ (r \in {2, 6, 7} => edit = "none") /\ (r = 4 => jobs = <<>>)
      /\ d \in Nat /\ active \in Nat /\ j \in Nat /\ j > 1
  <2>1. j \in EarlyAt
    BY <1>2
  <2>2. j \in Nat /\ j > 1
    BY <1>2, <2>1 DEF EarlyAt
  <2>3. d \in Nat /\ active \in Nat
    BY DEF CoreInv, Types, None
  <2> QED BY <1>1, <2>1, <2>2, <2>3, Stages
<1>4. ASSUME NEW t, HeadAdvances(t) PROVE Behind(d)'
  <2>1. PICK g : g = Stage(t, enqueued)
    OBVIOUS
  <2>2. /\ t \in TaskSet /\ t.name \in EarlyName /\ t.call = Current /\ Grows(1, <<t>>)
        /\ jobs' = jobs /\ enqueued' = enqueued /\ idlers' = idlers /\ flushers' = flushers /\ edit' = edit
    BY <1>4 DEF HeadAdvances, Advances
  <2>3. \/ h = 1 /\ g = 2 /\ edit = "none"
        \/ h = 2 /\ g = 4 /\ jobs = <<>> /\ edit = "none"
        \/ h = 3 /\ g = 4 /\ jobs = <<>>
        \/ h = 4 /\ g = 5 /\ jobs = <<>>
        \/ h = 5 /\ g = 6 /\ edit = "none"
    BY <1>1, <1>4, <2>1 DEF HeadAdvances
  <2>4. PICK l : l = Len(micro)
    OBVIOUS
  <2>5. EarlyAt' = {j - 1, l} /\ micro'[l] = t /\ micro'[j - 1] = micro[j] /\ j - 1 < l /\ l \in Nat
    BY <1>2, <2>2, <2>4, HeadStaysEarly
  <2>6. Stage(micro'[l], enqueued') = g /\ Stage(micro'[j - 1], enqueued') = r
    BY <1>1, <2>1, <2>2, <2>5
  <2>7. /\ r < g /\ (g \in {5, 6} => jobs' = <<>>) /\ g \notin {3, 7}
        /\ edit' # "none" => g = r \/ (g = r + 1 /\ r \in {3, 4})
    BY <1>2, <1>3, <2>2, <2>3
  <2>8. l # j - 1 /\ EarlyAt' = {l, j - 1}
    BY <1>3, <2>5
  <2>9. micro'[l].call = d /\ micro'[j - 1].call = active' /\ flushers' = <<>> /\ idlers' = <<>>
    BY <1>2, <2>2, <2>5
  <2>10. BothRun(d, l, j - 1)'
    BY <2>5, <2>6, <2>7, <2>8, <2>9 DEF BothRun
  <2> QED BY <2>8, <2>10 DEF Behind
<1>5. CASE HeadFlushes
  <2>1. PICK s : NoneAdded(1, s)
    BY <1>5 DEF HeadFlushes, Flushing
  <2>2. EarlyAt' = {j - 1} /\ micro'[j - 1] = micro[j]
    BY <1>2, <2>1, HeadGoneEarly
  <2>3. edit # "none" /\ h \in {1, 5} /\ flushers' = <<d>> /\ idlers' = <<>>
    BY <1>1, <1>2, <1>3, <1>5, FlushersQueue DEF HeadFlushes, Flushing
  <2>4. r \in {1, 5}
    BY <1>2, <1>3, <2>3
  <2>5. Stage(micro'[j - 1], enqueued') \in {1, 5}
    BY <1>1, <2>2, <2>4, StageKept
  <2>6. FirstFlushes(d, j - 1)'
    BY <1>2, <2>2, <2>3, <2>5 DEF FirstFlushes
  <2> QED BY <2>2, <2>6 DEF Behind
<1>6. CASE HeadLooks
  <2>1. PICK s : NoneAdded(1, s)
    BY <1>6 DEF HeadLooks, Looking
  <2>2. EarlyAt' = {j - 1} /\ micro'[j - 1] = micro[j]
    BY <1>2, <2>1, HeadGoneEarly
  <2>3. PICK t : t = Look(Current)
    OBVIOUS
  <2>4. t \in TaskSet /\ t.call = d /\ t.arg.from = enqueued
    BY <1>2, <1>3, <2>3, LookType
  <2>5. /\ idlers' = Append(idlers, t) /\ jobs # <<>> /\ jobs' = jobs /\ enqueued' = enqueued
             /\ flushers' = flushers /\ edit' = edit
        /\ h \in {2, 3} /\ (h = 2 => edit = "none")
    BY <1>1, <1>6, <2>3 DEF HeadLooks, Looking
  <2>6. Len(idlers') = 1 /\ idlers'[1] = t
    BY <1>2, <2>4, <2>5, FirstToWait
  <2>7. r \in {1, 2, 3} /\ (edit' # "none" => r = 3)
    BY <1>2, <1>3, <2>5
  <2>8. Stage(micro'[j - 1], enqueued') = r
    BY <1>1, <2>2, <2>5
  <2>9. FirstLooks(d, j - 1)'
    BY <1>2, <2>2, <2>4, <2>5, <2>6, <2>7, <2>8 DEF FirstLooks
  <2> QED BY <2>2, <2>9 DEF Behind
<1>7. CASE HeadLeaves
  <2>1. PICK s : NoneAdded(1, s)
    BY <1>7 DEF HeadLeaves, Leaving
  <2>2. EarlyAt' = {j - 1} /\ micro'[j - 1] = micro[j]
    BY <1>2, <2>1, HeadGoneEarly
  <2>3. flushers' = <<>> /\ idlers' = <<>>
    BY <1>2, <1>7 DEF HeadLeaves, Leaving
  <2> QED BY <1>2, <1>7, <2>2, <2>3
<1> QED BY <1>4, <1>5, <1>6, <1>7

\* and the second, which cannot pass it.
LEMMA SecondGoes ==
  ASSUME CoreInv, IdleLooks, NEW d \in runs, NEW i, BothRun(d, i, 1), 1 \in EarlyAt, micro[1].call = Current,
         active' = active, (\E t : HeadAdvances(t)) \/ HeadFlushes \/ HeadLooks \/ HeadLeaves
  PROVE  Behind(d)' /\ ~HeadLeaves
<1>1. PICK h, g : h = Stage(micro[i], enqueued) /\ g = Stage(micro[1], enqueued)
  OBVIOUS
<1>2. /\ EarlyAt = {1, i} /\ i # 1 /\ micro[i].call = d /\ Current = active /\ flushers = <<>> /\ idlers = <<>>
      /\ g < h \/ (g = h /\ i < 1)
      /\ h \in {5, 6} => jobs = <<>>
      /\ h \in {3, 7} => g = h
      /\ edit # "none" => h = g \/ h = 1 \/ (1 < i /\ h = g + 1 /\ g \in {3, 4})
  BY <1>1 DEF BothRun
<1>3. /\ h \in 1 .. 7 /\ (h \in {2, 6, 7} => edit = "none") /\ (h = 4 => jobs = <<>>)
      /\ g \in 1 .. 7 /\ (g \in {2, 6, 7} => edit = "none") /\ (g = 4 => jobs = <<>>)
      /\ i \in Nat /\ i > 1
  <2>1. i \in EarlyAt
    BY <1>2
  <2>2. i \in Nat /\ i > 1
    BY <1>2, <2>1 DEF EarlyAt
  <2> QED BY <1>1, <2>1, <2>2, Stages
<1>4. ASSUME NEW t, HeadAdvances(t) PROVE Behind(d)'
  <2>1. PICK r : r = Stage(t, enqueued)
    OBVIOUS
  <2>2. /\ t \in TaskSet /\ t.name \in EarlyName /\ t.call = Current /\ Grows(1, <<t>>)
        /\ jobs' = jobs /\ enqueued' = enqueued /\ idlers' = idlers /\ flushers' = flushers /\ edit' = edit
    BY <1>4 DEF HeadAdvances, Advances
  <2>3. \/ g = 1 /\ r = 2 /\ edit = "none"
        \/ g = 2 /\ r = 4 /\ jobs = <<>> /\ edit = "none"
        \/ g = 3 /\ r = 4 /\ jobs = <<>>
        \/ g = 4 /\ r = 5 /\ jobs = <<>>
        \/ g = 5 /\ r = 6 /\ edit = "none"
    BY <1>1, <1>4, <2>1 DEF HeadAdvances
  <2>4. PICK l : l = Len(micro)
    OBVIOUS
  <2>5. EarlyAt' = {i - 1, l} /\ micro'[l] = t /\ micro'[i - 1] = micro[i] /\ i - 1 < l /\ l \in Nat
    BY <1>2, <2>2, <2>4, HeadStaysEarly
  <2>6. Stage(micro'[l], enqueued') = r /\ Stage(micro'[i - 1], enqueued') = h
    BY <1>1, <2>1, <2>2, <2>5
  <2>7. /\ r <= h /\ (h \in {5, 6} => jobs' = <<>>) /\ h \notin {3, 7}
        /\ edit' # "none" => h = r
    BY <1>2, <1>3, <2>2, <2>3
  <2>8. r < h \/ (r = h /\ i - 1 < l)
    BY <2>3, <2>5, <2>7, <1>3
  <2>9. micro'[i - 1].call = d /\ micro'[l].call = active' /\ flushers' = <<>> /\ idlers' = <<>> /\ i - 1 # l
    BY <1>2, <1>3, <2>2, <2>5
  <2>10. BothRun(d, i - 1, l)'
    BY <2>5, <2>6, <2>7, <2>8, <2>9 DEF BothRun
  <2> QED BY <2>5, <2>10 DEF Behind
<1>5. ~HeadFlushes
  BY <1>1, <1>2, <1>3 DEF HeadFlushes, Flushing
<1>6. ~HeadLooks
  BY <1>1, <1>2, <1>3 DEF HeadLooks, Looking
<1>7. ~HeadLeaves
  BY <1>1, <1>2, <1>3 DEF HeadLeaves
<1> QED BY <1>4, <1>5, <1>6, <1>7

LEMMA FlushFollows ==
  ASSUME CoreInv, IdleLooks, NEW d \in runs, FirstFlushes(d, 1), micro[1].call = Current,
         active' = active, (\E t : HeadAdvances(t)) \/ HeadFlushes \/ HeadLooks \/ HeadLeaves
  PROVE  Behind(d)' /\ ~HeadLeaves
<1>1. /\ EarlyAt = {1} /\ Current = active /\ flushers = <<d>> /\ idlers = <<>>
      /\ Stage(micro[1], enqueued) \in {1, 5}
  BY DEF FirstFlushes
<1>2. edit # "none" /\ d \in Nat /\ active \in Nat
  <2>1. flushers # <<>>
    BY <1>1
  <2>2. edit # "none"
    BY <2>1 DEF CoreInv, EditsKnown
  <2>3. runs \subseteq 1 .. Made /\ Made \in Nat /\ active \in runs \cup {None}
    BY MadeIsNat DEF CoreInv, Types
  <2> QED BY <2>2, <2>3 DEF None
<1>3. ASSUME NEW t, HeadAdvances(t) PROVE FALSE
  BY <1>1, <1>2, <1>3 DEF HeadAdvances
<1>4. ~HeadLooks /\ ~HeadLeaves
  BY <1>1 DEF HeadLooks, HeadLeaves
<1>5. CASE HeadFlushes
  <2>1. PICK s : NoneAdded(1, s)
    BY <1>5 DEF HeadFlushes, Flushing
  <2>2. EarlyAt' = {}
    BY <1>1, <2>1, HeadGoneEarly
  <2>3. flushers' = <<d, active'>> /\ idlers' = <<>>
    BY <1>1, <1>2, <1>5, FlushersQueue DEF HeadFlushes, Flushing
  <2> QED BY <1>4, <2>2, <2>3 DEF BothFlush, Behind
<1> QED BY <1>3, <1>4, <1>5

LEMMA LookFollows ==
  ASSUME CoreInv, IdleLooks, NEW d \in runs, FirstLooks(d, 1), micro[1].call = Current,
         active' = active, (\E t : HeadAdvances(t)) \/ HeadFlushes \/ HeadLooks \/ HeadLeaves
  PROVE  Behind(d)' /\ ~HeadLeaves
<1>1. PICK h : h = Stage(micro[1], enqueued)
  OBVIOUS
<1>2. /\ EarlyAt = {1} /\ Current = active /\ flushers = <<>>
      /\ Len(idlers) = 1 /\ idlers[1].call = d /\ idlers[1].arg.from = enqueued /\ jobs # <<>>
      /\ h \in {1, 2, 3} /\ (edit # "none" => h = 3)
  BY <1>1 DEF FirstLooks
<1>3. ASSUME NEW t, HeadAdvances(t) PROVE Behind(d)'
  <2>1. PICK g : g = Stage(t, enqueued)
    OBVIOUS
  <2>2. /\ t \in TaskSet /\ t.name \in EarlyName /\ t.call = Current /\ Grows(1, <<t>>)
        /\ jobs' = jobs /\ enqueued' = enqueued /\ idlers' = idlers /\ flushers' = flushers /\ edit' = edit
    BY <1>3 DEF HeadAdvances, Advances
  <2>3. g = 2 /\ edit = "none"
    BY <1>1, <1>2, <1>3, <2>1 DEF HeadAdvances
  <2>4. PICK l : l = Len(micro)
    OBVIOUS
  <2>5. EarlyAt' = {l} /\ micro'[l] = t /\ l \in EarlyAt'
    BY <1>2, <2>2, <2>4, HeadStaysEarly
  <2>6. Stage(micro'[l], enqueued') = 2
    BY <2>1, <2>2, <2>3, <2>5
  <2>7. FirstLooks(d, l)'
    BY <1>2, <2>2, <2>3, <2>5, <2>6 DEF FirstLooks
  <2> QED BY <2>5, <2>7 DEF Behind
<1>4. ~HeadFlushes
  BY <1>1, <1>2 DEF HeadFlushes, Flushing
<1>5. ~HeadLeaves
  BY <1>1, <1>2 DEF HeadLeaves
<1>6. CASE HeadLooks
  <2>1. PICK s : NoneAdded(1, s)
    BY <1>6 DEF HeadLooks, Looking
  <2>2. EarlyAt' = {}
    BY <1>2, <2>1, HeadGoneEarly
  <2>3. PICK t : t = Look(Current)
    OBVIOUS
  <2>4. t \in TaskSet /\ t.call = active /\ t.arg.from = enqueued
    <3>1. active \in Nat
      BY DEF CoreInv, Types, None
    <3> QED BY <1>2, <2>3, <3>1, LookType
  <2>5. idlers' = Append(idlers, t) /\ flushers' = flushers
    BY <1>6, <2>3 DEF HeadLooks, Looking
  <2>6. Len(idlers') = 2 /\ idlers'[1] = idlers[1] /\ idlers'[2] = t
    <3>1. idlers \in Seq(TaskSet)
      BY DEF CoreInv, Types
    <3> QED BY <1>2, <2>4, <2>5, <3>1, SecondToWait
  <2>7. BothLook(d)'
    BY <1>2, <2>2, <2>4, <2>5, <2>6 DEF BothLook
  <2> QED BY <1>5, <2>7 DEF Behind
<1> QED BY <1>3, <1>4, <1>5, <1>6

LEMMA OneLeft ==
  ASSUME NEW i, EarlyAt' = {i}, micro'[i].call = active', flushers' = <<>>, idlers' = <<>>,
         active' # None, ~Arriving', want'[active'] # "automatic"
  PROVE  OneEarly'
<1>1. RunsAlone(i)'
  BY DEF RunsAlone
<1>2. i \in EarlyAt'
  OBVIOUS
<1> QED BY <1>1, <1>2 DEF OneEarly

\* An operation that leaves is early no more.
LEMMA EarlyLeft ==
  ASSUME NEW c, flushers' = <<>>, idlers' = <<>>, \A i \in EarlyAt' : micro'[i].call # c
  PROVE  ~Early(c)'
<1>1. \A i \in 1 .. Len(micro') : micro'[i].name \in EarlyName => micro'[i].call # c
  BY DEF EarlyAt
<1>2. (\A i \in 1 .. Len(flushers') : FALSE) /\ (\A i \in 1 .. Len(idlers') : FALSE)
  OBVIOUS
<1> QED BY <1>1, <1>2 DEF Early

LEMMA InStepGoes ==
  ASSUME CoreInv, IdleLooks, InStep, 1 \in EarlyAt, NEW c, c = Current, micro[1].call = c,
         active' = active, want' = want, runs' = runs, Arriving' => Arriving,
         (\E t : HeadAdvances(t)) \/ HeadFlushes \/ HeadLooks \/ HeadLeaves
  PROVE  InStep' /\ (HeadLeaves => ~Early(c)')
<1>1. ASSUME NEW t, HeadAdvances(t) PROVE ~HeadLeaves
  BY <1>1 DEF HeadAdvances, HeadLeaves
<1>2. HeadFlushes \/ HeadLooks => ~HeadLeaves
  BY DEF HeadFlushes, HeadLooks, HeadLeaves
<1>3. CASE OneEarly
  <2>1. OneEarly' \/ (HeadLeaves /\ NoneEarly')
    BY <1>3, AloneGoes
  <2>2. CASE HeadLeaves
    <3>1. PICK i \in EarlyAt : RunsAlone(i)
      BY <1>3 DEF OneEarly, FlushesAlone, LooksAlone
    <3>2. EarlyAt = {1} /\ flushers = <<>> /\ idlers = <<>>
      BY <3>1 DEF RunsAlone
    <3>3. PICK s : NoneAdded(1, s)
      BY <2>2 DEF HeadLeaves, Leaving
    <3>4. EarlyAt' = {} /\ flushers' = <<>> /\ idlers' = <<>>
      BY <2>2, <3>2, <3>3, HeadGoneEarly DEF HeadLeaves, Leaving
    <3>5. ~Early(c)'
      BY <3>4, EarlyLeft
    <3> QED BY <3>4, <3>5 DEF InStep, NoneEarly
  <2> QED BY <2>1, <2>2 DEF InStep
<1>4. CASE TwoEarly
  <2>1. PICK d \in runs : d # active /\ want[d] # "automatic" /\ Behind(d)
    BY <1>4 DEF TwoEarly
  <2>2. active' # None /\ ~Arriving' /\ want'[active'] # "automatic" /\ d \in runs' /\ d # active'
          /\ want'[d] # "automatic"
    BY <1>4, <2>1 DEF TwoEarly
  <2>3. Behind(d)' => InStep'
    BY <2>2 DEF InStep, TwoEarly
  <2>4. PICK j \in EarlyAt : FirstFlushes(d, j) \/ FirstLooks(d, j) \/ \E i \in EarlyAt : BothRun(d, i, j)
    BY <2>1 DEF Behind, BothFlush, BothLook
  <2>5. CASE FirstFlushes(d, j)
    <3>1. j = 1
      BY <2>5 DEF FirstFlushes
    <3> QED BY <2>3, <2>5, <3>1, FlushFollows
  <2>6. CASE FirstLooks(d, j)
    <3>1. j = 1
      BY <2>6 DEF FirstLooks
    <3> QED BY <2>3, <2>6, <3>1, LookFollows
  <2>7. ASSUME NEW i \in EarlyAt, BothRun(d, i, j) PROVE InStep' /\ (HeadLeaves => ~Early(c)')
    <3>1. i = 1 \/ j = 1
      BY <2>7 DEF BothRun
    <3>2. CASE j = 1
      BY <2>3, <2>7, <3>2, SecondGoes
    <3>3. CASE i = 1
      <4>1. CASE Behind(d)' /\ ~HeadLeaves
        BY <2>3, <4>1
      <4>2. CASE HeadLeaves
        <5>1. PICK s : NoneAdded(1, s)
          BY <4>2 DEF HeadLeaves, Leaving
        <5>2. EarlyAt = {1, j} /\ j # 1 /\ c = d /\ micro[j].call = active /\ flushers = <<>> /\ idlers = <<>>
          BY <2>7, <3>3 DEF BothRun
        <5>3. EarlyAt' = {j - 1} /\ micro'[j - 1] = micro[j] /\ flushers' = <<>> /\ idlers' = <<>>
          BY <4>2, <5>1, <5>2, HeadGoneEarly DEF HeadLeaves, Leaving
        <5>4. ~Early(c)'
          BY <2>1, <5>2, <5>3, EarlyLeft
        <5>5. micro'[j - 1].call = active'
          BY <5>2, <5>3
        <5>6. OneEarly'
          BY <2>2, <5>3, <5>5, OneLeft
        <5> QED BY <5>4, <5>6 DEF InStep
      <4>3. BothRun(d, 1, j)
        BY <2>7, <3>3
      <4> QED BY <4>1, <4>2, <4>3, FirstGoes
    <3> QED BY <3>1, <3>2, <3>3
  <2> QED BY <2>4, <2>5, <2>6, <2>7
<1>5. ~NoneEarly
  BY DEF NoneEarly
<1> QED BY <1>3, <1>4, <1>5 DEF InStep

\* The automatic refresh begins when no job waits.
LEMMA AutomaticAlone ==
  ASSUME CoreInv, InStep, 1 \in EarlyAt, want[micro[1].call] = "automatic", Stage(micro[1], enqueued) = 6
  PROVE  jobs = <<>>
<1>1. CASE OneEarly
  <2>1. PICK i \in EarlyAt : RunsAlone(i)
    BY <1>1 DEF OneEarly, FlushesAlone, LooksAlone
  <2> QED BY <2>1 DEF RunsAlone
<1>2. CASE TwoEarly
  <2>1. PICK d \in runs : want[d] # "automatic" /\ Behind(d) /\ want[active] # "automatic"
    BY <1>2 DEF TwoEarly
  <2>2. \A i \in EarlyAt : micro[i].call \in {d, active}
    BY <2>1 DEF Behind, BothFlush, BothLook, FirstFlushes, FirstLooks, BothRun
  <2> QED BY <2>1, <2>2
<1> QED BY <1>1, <1>2 DEF InStep, NoneEarly

(***************************************************************************)
(* Steps that leave the early operations where they are                    *)
(***************************************************************************)
\* The queue of jobs matters as far as somebody looks at it.
JobsLookAlike ==
  (jobs = <<>> <=> jobs' = <<>>) \/ (jobs # <<>> /\ \A i \in 1 .. Len(idlers) : idlers[i].arg.from # enqueued)

LEMMA NoneAside ==
  ASSUME NoneEarly, NEW n, NEW s, NoneAdded(n, s), flushers' = flushers, idlers' = idlers
  PROVE  NoneEarly'
BY NoneStays DEF NoneEarly

LEMMA AloneAside ==
  ASSUME OneEarly, NEW n, NEW s, NoneAdded(n, s), n = 1 => 1 \notin EarlyAt,
         UNCHANGED <<enqueued, idlers, flushers, edit, active>>, JobsLookAlike, want'[active] = want[active],
         Arriving' => Arriving
  PROVE  OneEarly'
<1>1. active' # None /\ (Arriving' => want'[active'] # "automatic")
  BY DEF OneEarly
<1>2. CASE FlushesAlone
  <2>1. EarlyAt' = {}
    BY <1>2, NoneStays DEF FlushesAlone
  <2>2. FlushesAlone'
    BY <1>2, <2>1 DEF FlushesAlone
  <2> QED BY <1>1, <2>2 DEF OneEarly
<1>3. CASE LooksAlone
  <2>1. EarlyAt' = {}
    BY <1>3, NoneStays DEF LooksAlone
  <2>2. 1 \in 1 .. Len(idlers)
    BY <1>3 DEF LooksAlone
  <2>3. Arriving' => jobs' # <<>>
    BY <1>3, <2>2 DEF LooksAlone, JobsLookAlike
  <2>4. LooksAlone'
    BY <1>3, <2>1, <2>3 DEF LooksAlone
  <2> QED BY <1>1, <2>4 DEF OneEarly
<1>4. ASSUME NEW i \in EarlyAt, RunsAlone(i) PROVE OneEarly'
  <2>1. PICK h : h = Stage(micro[i], enqueued)
    OBVIOUS
  <2>2. /\ EarlyAt = {i} /\ micro[i].call = active /\ flushers = <<>> /\ idlers = <<>>
        /\ (want[active] = "automatic" \/ Arriving) /\ h \in {5, 6} => jobs = <<>>
        /\ Arriving => h \notin {3, 7} /\ (edit # "none" => h = 1)
    BY <1>4, <2>1 DEF RunsAlone
  <2>3. EarlyAt' = {i - n} /\ micro'[i - n] = micro[i] /\ i - n \in EarlyAt'
    BY <2>2, OneStays
  <2>4. Stage(micro'[i - n], enqueued') = h
    BY <2>1, <2>3
  <2>5. jobs = <<>> => jobs' = <<>>
    BY DEF JobsLookAlike
  <2>6. RunsAlone(i - n)'
    BY <2>2, <2>3, <2>4, <2>5 DEF RunsAlone
  <2> QED BY <1>1, <2>3, <2>6 DEF OneEarly
<1> QED BY <1>2, <1>3, <1>4 DEF OneEarly

LEMMA BehindAside ==
  ASSUME NEW d, Behind(d), NEW n, NEW s, NoneAdded(n, s), n = 1 => 1 \notin EarlyAt,
         UNCHANGED <<enqueued, idlers, flushers, edit, active>>, JobsLookAlike
  PROVE  Behind(d)'
<1>1. CASE BothFlush(d)
  <2>1. EarlyAt' = {}
    BY <1>1, NoneStays DEF BothFlush
  <2> QED BY <1>1, <2>1 DEF BothFlush, Behind
<1>2. CASE BothLook(d)
  <2>1. EarlyAt' = {}
    BY <1>2, NoneStays DEF BothLook
  <2> QED BY <1>2, <2>1 DEF BothLook, Behind
<1>3. ASSUME NEW j \in EarlyAt, FirstFlushes(d, j) PROVE Behind(d)'
  <2>1. EarlyAt = {j}
    BY <1>3 DEF FirstFlushes
  <2>2. EarlyAt' = {j - n} /\ micro'[j - n] = micro[j] /\ j - n \in EarlyAt'
    BY <2>1, OneStays
  <2>3. FirstFlushes(d, j - n)'
    BY <1>3, <2>2 DEF FirstFlushes
  <2> QED BY <2>2, <2>3 DEF Behind
<1>4. ASSUME NEW j \in EarlyAt, FirstLooks(d, j) PROVE Behind(d)'
  <2>1. EarlyAt = {j} /\ 1 \in 1 .. Len(idlers) /\ idlers[1].arg.from = enqueued /\ jobs # <<>>
    BY <1>4 DEF FirstLooks
  <2>2. EarlyAt' = {j - n} /\ micro'[j - n] = micro[j] /\ j - n \in EarlyAt'
    BY <2>1, OneStays
  <2>3. jobs' # <<>>
    BY <2>1 DEF JobsLookAlike
  <2>4. FirstLooks(d, j - n)'
    BY <1>4, <2>2, <2>3 DEF FirstLooks
  <2> QED BY <2>2, <2>4 DEF Behind
<1>5. ASSUME NEW j \in EarlyAt, NEW i \in EarlyAt, BothRun(d, i, j) PROVE Behind(d)'
  <2>1. PICK h, r : h = Stage(micro[i], enqueued) /\ r = Stage(micro[j], enqueued)
    OBVIOUS
  <2>2. /\ EarlyAt = {i, j} /\ i # j /\ micro[i].call = d /\ micro[j].call = active /\ flushers = <<>>
             /\ idlers = <<>>
        /\ r < h \/ (r = h /\ i < j)
        /\ h \in {5, 6} => jobs = <<>>
        /\ h \in {3, 7} => r = h
        /\ edit # "none" => h = r \/ h = 1 \/ (j < i /\ h = r + 1 /\ r \in {3, 4})
    BY <1>5, <2>1 DEF BothRun
  <2>3. /\ EarlyAt' = {i - n, j - n} /\ micro'[i - n] = micro[i] /\ micro'[j - n] = micro[j]
        /\ i \in Nat /\ j \in Nat /\ n \in Nat
    BY <2>2, TwoStay
  <2>4. Stage(micro'[i - n], enqueued') = h /\ Stage(micro'[j - n], enqueued') = r
    BY <2>1, <2>3
  <2>5. jobs = <<>> => jobs' = <<>>
    BY DEF JobsLookAlike
  <2>6. i - n # j - n /\ (i < j <=> i - n < j - n) /\ (j < i <=> j - n < i - n)
    BY <2>2, <2>3
  <2>7. BothRun(d, i - n, j - n)'
    BY <2>2, <2>3, <2>4, <2>5, <2>6 DEF BothRun
  <2> QED BY <2>3, <2>7 DEF Behind
<1> QED BY <1>1, <1>2, <1>3, <1>4, <1>5 DEF Behind

LEMMA InStepAside ==
  ASSUME CoreInv, InStep, NEW n, NEW s, NoneAdded(n, s), n = 1 => 1 \notin EarlyAt,
         UNCHANGED <<enqueued, idlers, flushers, edit, active>>, JobsLookAlike, runs \subseteq runs',
         \A x \in runs : want'[x] = want[x], NoneEarly \/ (Arriving' => Arriving)
  PROVE  InStep'
<1>1. CASE NoneEarly
  BY <1>1, NoneAside DEF InStep
<1>2. active # None => want'[active] = want[active]
  BY DEF CoreInv, Types
<1>3. CASE OneEarly /\ (Arriving' => Arriving)
  <2>1. want'[active] = want[active]
    BY <1>2, <1>3 DEF OneEarly
  <2> QED BY <1>3, <2>1, AloneAside DEF InStep
<1>4. CASE TwoEarly /\ (Arriving' => Arriving)
  <2>1. PICK d \in runs : d # active /\ want[d] # "automatic" /\ Behind(d)
    BY <1>4 DEF TwoEarly
  <2>2. active' # None /\ ~Arriving' /\ want'[active'] # "automatic" /\ d \in runs' /\ d # active'
          /\ want'[d] # "automatic"
    BY <1>2, <1>4, <2>1 DEF TwoEarly
  <2>3. Behind(d)'
    BY <2>1, BehindAside
  <2> QED BY <2>2, <2>3 DEF InStep, TwoEarly
<1> QED BY <1>1, <1>3, <1>4 DEF InStep

(***************************************************************************)
(* Whether another operation arrives                                       *)
(***************************************************************************)
LEMMA ArrivesBefore ==
  ASSUME NEW n, NEW s, Grows(n, s),
         \A i \in 1 .. Len(micro) : Leads(micro[i], Chained') => Leads(micro[i], Chained),
         \A k \in 1 .. Len(s) : Leads(s[k], Chained') /\ s[k].name # "follow" => Arriving,
         Arriving'
  PROVE  Arriving
<1>1. PICK i \in 1 .. Len(micro') : Leads(micro'[i], Chained') /\ micro'[i].name # "follow"
  BY DEF Arriving
<1>2. CASE i + n \in 1 .. Len(micro) /\ micro'[i] = micro[i + n]
  BY <1>1, <1>2 DEF Arriving
<1>3. CASE \E k \in 1 .. Len(s) : micro'[i] = s[k]
  BY <1>1, <1>3
<1> QED BY <1>2, <1>3, OldOrNew

LEMMA PlainArrives ==
  ASSUME UNCHANGED promiseVars, NEW n, NEW s, Grows(n, s), Plain(s), Arriving'
  PROVE  Arriving
<1>1. Chained' = Chained
  BY DEF promiseVars, Chained
<1>2. \A k \in 1 .. Len(s) : ~Leads(s[k], Chained')
  BY DEF Plain, Leads
<1> QED BY <1>1, <1>2, ArrivesBefore

\* An operation that is not the active one, or active no longer, is early alone never.
LEMMA ActiveIsEarly ==
  ASSUME InStep, ~Early(active)
  PROVE  NoneEarly
<1>1. ~OneEarly
  <2>1. ~FlushesAlone
    <3>1. flushers = <<active>> => 1 \in 1 .. Len(flushers) /\ flushers[1] = active
      OBVIOUS
    <3> QED BY <3>1 DEF FlushesAlone, Early
  <2>2. ~LooksAlone
    BY DEF LooksAlone, Early
  <2>3. \A i \in EarlyAt : ~RunsAlone(i)
    BY DEF RunsAlone, EarlyAt, Early
  <2> QED BY <2>1, <2>2, <2>3 DEF OneEarly
<1>2. \A d : ~Behind(d)
  <2>1. ASSUME NEW d, BothFlush(d) PROVE FALSE
    <3>1. flushers = <<d, active>> => 2 \in 1 .. Len(flushers) /\ flushers[2] = active
      OBVIOUS
    <3> QED BY <2>1, <3>1 DEF BothFlush, Early
  <2>2. ASSUME NEW d, BothLook(d) PROVE FALSE
    <3>1. 2 \in 1 .. Len(idlers) /\ idlers[2].call = active
      BY <2>2 DEF BothLook
    <3> QED BY <3>1 DEF Early
  <2>3. \A j \in EarlyAt : micro[j].call # active
    BY DEF EarlyAt, Early
  <2> QED BY <2>1, <2>2, <2>3 DEF Behind, FirstFlushes, FirstLooks, BothRun
<1> QED BY <1>1, <1>2 DEF InStep, TwoEarly

LEMMA RunSettlesArrives ==
  ASSUME CoreInv, OperationsOnce, Chain, InStep, RunSettles
  PROVE  NoneEarly \/ (Arriving' => Arriving)
<1>1. PICK c : c = Current
  OBVIOUS
<1>2. /\ micro # <<>> /\ Head(micro).name = "run" /\ c \in runs /\ c \in Call
      /\ \A x \in Call : reactions'[Entry(x)] = reactions[Entry(x)]
  BY <1>1, RunSettlesShape
<1>3. PICK s \in Seq(TaskSet) : Grows(1, s) /\ Tells(s, reactions[Run(c)])
  BY <1>1, RunSettlesShape
<1>4. Chained' = Chained
  BY <1>2, ChainedStays
<1>5. Over(c) /\ c \in Live
  <2>1. 1 \in 1 .. Len(micro) /\ micro[1].name \in LateName /\ micro[1].call = c
    BY <1>1, <1>2, HeadTask DEF LateName
  <2>2. c \notin settled
    BY <2>1 DEF OperationsOnce
  <2> QED BY <1>2, <2>1, <2>2 DEF Live, Over
<1>6. ASSUME NEW k \in 1 .. Len(s), Leads(s[k], Chained') PROVE NoneEarly
  <2>1. /\ k \in 1 .. Len(reactions[Run(c)])
        /\ s[k].name = reactions[Run(c)][k].name /\ s[k].call = reactions[Run(c)][k].call
    BY <1>3 DEF Tells
  <2>2. Leads(reactions[Run(c)][k], Chained)
    BY <1>4, <1>6, <2>1, LeadsAlike
  <2>3. c = active
    BY <1>5, <2>1, <2>2 DEF Chain, OneLeads
  <2>4. ~Early(c)
    BY <1>2, <1>5 DEF OperationsOnce
  <2> QED BY <2>3, <2>4, ActiveIsEarly
<1>7. ~NoneEarly /\ Arriving' => Arriving
  BY <1>3, <1>4, <1>6, ArrivesBefore
<1> QED BY <1>7

LEMMA EntrySettlesArrives ==
  ASSUME CoreInv, EntrySettles, Arriving'
  PROVE  Arriving
<1>1. PICK c : c = Current
  OBVIOUS
<1>2. /\ micro # <<>> /\ Head(micro).name = "entry" /\ c \in Call
      /\ \A x \in Call : reactions'[Entry(x)] = IF x = c THEN <<>> ELSE reactions[Entry(x)]
  BY <1>1, EntrySettlesShape
<1>3. PICK s \in Seq(TaskSet) : Grows(1, s) /\ Tells(s, reactions[Entry(c)])
  BY <1>1, EntrySettlesShape
<1>4. Chained' \subseteq Chained
  <2>1. \A x \in Call : x # c => reactions'[Entry(x)] = reactions[Entry(x)]
    BY <1>2
  <2>2. \A k \in 1 .. Len(reactions'[Entry(c)]) : FALSE
    BY <1>2
  <2> QED BY <2>1, <2>2 DEF Chained
<1>5. ASSUME NEW k \in 1 .. Len(s), Leads(s[k], Chained') PROVE Arriving
  <2>1. /\ k \in 1 .. Len(reactions[Entry(c)]) /\ s[k].name = reactions[Entry(c)][k].name
    BY <1>3 DEF Tells
  <2>2. reactions[Entry(c)][k].name \in {"caller", "after"}
    BY <1>2, <2>1 DEF CoreInv, ReactionsFit, EntryFits
  <2>3. reactions[Entry(c)][k].name = "after"
    BY <1>5, <2>1, <2>2 DEF Leads, Turns, Passes
  <2>4. c \in Chained
    BY <1>2, <2>1, <2>3 DEF Chained
  <2>5. 1 \in 1 .. Len(micro) /\ micro[1].name = "entry" /\ micro[1].call = c
    BY <1>1, <1>2, HeadTask
  <2> QED BY <2>4, <2>5 DEF Arriving, Leads, Passes
<1>6. \A i \in 1 .. Len(micro) : Leads(micro[i], Chained') => Leads(micro[i], Chained)
  BY <1>4 DEF Leads
<1> QED BY <1>3, <1>5, <1>6, ArrivesBefore

LEMMA GoneArrives ==
  ASSUME Grows(1, <<>>), \A x \in Call : reactions'[Entry(x)] = reactions[Entry(x)], Arriving'
  PROVE  Arriving
<1>1. Chained' = Chained
  BY ChainedStays
<1> QED BY <1>1, NoTask, ArrivesBefore

LEMMA StandsByArrives ==
  ASSUME CoreInv, OperationsOnce, Chain, InStep, StandsBy
  PROVE  NoneEarly \/ (Arriving' => Arriving)
<1>1. CASE JobStarts \/ Returns \/ LoadSucceeds \/ LoadFails
  <2>1. UNCHANGED promiseVars /\ \E n, s : Grows(n, s) /\ Plain(s)
    BY <1>1, JobPlain
  <2> QED BY <2>1, PlainArrives
<1>2. CASE RunSettles
  BY <1>2, RunSettlesArrives
<1>3. CASE EntrySettles
  BY <1>3, EntrySettlesArrives
<1>4. CASE Clear \/ CallerGoesOn
  <2>1. Grows(1, <<>>) /\ reactions' = reactions
    BY <1>4, TaskGone
  <2> QED BY <2>1, GoneArrives
<1>5. CASE After
  <2>1. micro # <<>> /\ Head(micro).name = "after"
    BY <1>5 DEF After, Runs
  <2>2. 1 \in 1 .. Len(micro) /\ micro[1].name = "after" /\ Leads(micro[1], Chained)
    BY <2>1, TurnIsFirst, HeadTask
  <2> QED BY <2>2 DEF Arriving
<1>6. CASE Follow
  <2>1. micro # <<>> /\ Adding(<<>>) /\ \A x \in Call : reactions'[Entry(x)] = reactions[Entry(x)]
    BY <1>6, FollowShape
  <2>2. Grows(1, <<>>)
    BY <2>1, HeadAddsNone
  <2> QED BY <2>1, <2>2, GoneArrives
<1>7. CASE Rests
  <2>1. Grows(0, <<>>) /\ reactions' = reactions
    BY <1>7, RestsShape
  <2>2. Chained' = Chained
    BY <2>1, ChainedStays
  <2> QED BY <2>1, <2>2, NoTask, ArrivesBefore
<1> QED BY <1>1, <1>2, <1>3, <1>4, <1>5, <1>6, <1>7 DEF StandsBy

LEMMA StandsByInStep ==
  ASSUME CoreInv, OperationsOnce, Chain, ClearsComing, InStep, StandsBy
  PROVE  InStep'
<1>1. PlacesRest
  BY StandsByShape
<1>2. PICK n, s : LateOnly(n, s)
  BY StandsByShape
<1>3. NoneAdded(n, s)
  BY <1>2 DEF LateOnly, NoneAdded
<1>4. n = 1 => 1 \notin EarlyAt
  BY <1>2 DEF LateOnly, EarlyAt
<1>5. JobsLookAlike
  BY <1>1 DEF PlacesRest, JobsLookAlike
<1>6. want' = want /\ runs' = runs
  BY RunSettlesShape, EntrySettlesShape, TaskGone, RestsShape, FollowShape, JobPlain
     DEF StandsBy, After, flightVars
<1>7. CASE active' = active
  <2>1. NoneEarly \/ (Arriving' => Arriving)
    BY StandsByArrives
  <2>2. UNCHANGED <<enqueued, idlers, flushers, edit, active>>
    BY <1>1, <1>7 DEF PlacesRest
  <2> QED BY <1>3, <1>4, <1>5, <1>6, <2>1, <2>2, InStepAside
<1>8. CASE active' # active
  <2>1. Clear
    BY <1>8, RunSettlesShape, EntrySettlesShape, RestsShape, FollowShape, JobPlain
       DEF StandsBy, After, CallerGoesOn, flightVars
  <2>2. micro # <<>> /\ Head(micro).name = "clear" /\ active = Current
    BY <1>8, <2>1 DEF Clear, Runs, Cleared
  <2>3. 1 \in 1 .. Len(micro) /\ micro[1].name = "clear" /\ micro[1].call = active
    BY <2>2, HeadTask
  <2>4. active \in settled /\ active \in runs
    BY <2>3, RunsAreCalls DEF ClearsComing
  <2>5. ~Early(active)
    BY <2>4 DEF OperationsOnce, Over
  <2>6. NoneEarly
    BY <2>5, ActiveIsEarly
  <2> QED BY <1>1, <1>3, <2>6, NoneAside DEF InStep, PlacesRest
<1> QED BY <1>7, <1>8

(***************************************************************************)
(* Waiting operations are told                                             *)
(***************************************************************************)
\* Who looked at the tail that settles goes on, and sees whether it still is the tail.
LEMMA TailInStep ==
  ASSUME CoreInv, InStep, TailSettles
  PROVE  InStep'
<1>1. /\ micro # <<>> /\ Head(micro).name = "tail" /\ jobs # <<>> /\ jobs' = Tail(jobs)
      /\ UNCHANGED <<flightVars, promiseVars, enqueued, flushers, edit>>
  BY TailShape
<1>2. PICK m \in Nat, s \in Seq(TaskSet) :
        /\ Grows(1, s) /\ Len(idlers) \in Nat /\ m <= Len(idlers) /\ m <= Len(s)
        /\ \A k \in 1 .. m : s[k] = idlers[k]
        /\ \A k \in 1 .. Len(s) : k > m => s[k].name = "job"
        /\ Len(idlers') = Len(idlers) - m
        /\ \A k \in 1 .. Len(idlers') : m + k \in 1 .. Len(idlers) /\ idlers'[k] = idlers[m + k]
        /\ \A i \in 1 .. Len(idlers) : i <= m <=> idlers[i].arg.from = Finished + 1
  BY TailShape
<1>3. want' = want /\ runs' = runs /\ active' = active
  BY <1>1 DEF flightVars
<1>4. Arriving' => Arriving
  <2>1. \E n, z : Grows(n, z) /\ Plain(z)
    BY JobPlain
  <2> QED BY <1>1, <2>1, PlainArrives
<1>5. 1 \notin EarlyAt
  BY <1>1, HeadTask DEF EarlyAt, EarlyName
<1>6. /\ Len(jobs) \in Nat \ {0} /\ (jobs' = <<>> <=> Len(jobs) = 1) /\ Len(s) \in Nat /\ Len(micro) \in Nat
      /\ (Finished + 1 = enqueued <=> Len(jobs) = 1)
  <2>1. Len(jobs) \in Nat \ {0} /\ Len(jobs') = Len(jobs) - 1
    BY <1>1, TailGone
  <2>2. jobs' = <<>> <=> Len(jobs') = 0
    <3>1. jobs \in Seq(Nat)
      BY DEF CoreInv, Types
    <3>2. jobs' \in Seq(Nat)
      BY <1>1, <3>1
    <3> QED BY <3>2, EmptySeq
  <2>3. Finished + 1 = enqueued <=> Len(jobs) = 1
    <3>1. enqueued \in Nat /\ Len(jobs) \in Nat
      BY <2>1 DEF CoreInv, Types
    <3>2. \A e, l \in Nat : (e - l) + 1 = e <=> l = 1
      OBVIOUS
    <3> QED BY <3>1, <3>2 DEF Finished
  <2>4. Len(s) \in Nat /\ Len(micro) \in Nat
    BY <1>2 DEF Grows
  <2> QED BY <2>1, <2>2, <2>3, <2>4
<1>7. idlers \in Seq(TaskSet) /\ idlers' \in Seq(TaskSet)
  <2>1. idlers \in Seq(TaskSet)
    BY DEF CoreInv, Types
  <2> QED BY <2>1 DEF TailSettles
<1>8. CASE m = 0
  <2>1. idlers' = idlers
    BY <1>2, <1>7, <1>8, SeqEqual
  <2>2. NoneAdded(1, s)
    BY <1>2, <1>6, <1>8 DEF NoneAdded, EarlyName
  <2>3. JobsLookAlike
    <3>1. \A i \in 1 .. Len(idlers) : idlers[i].arg.from # Finished + 1
      BY <1>2, <1>8
    <3> QED BY <1>1, <1>6, <3>1 DEF JobsLookAlike
  <2>4. UNCHANGED <<enqueued, idlers, flushers, edit, active>>
    BY <1>1, <1>3, <2>1
  <2> QED BY <1>3, <1>4, <1>5, <2>2, <2>3, <2>4, InStepAside
<1>9. CASE m # 0
  <2>1. PICK t : t = idlers[1]
    OBVIOUS
  <2>2. 1 \in 1 .. m /\ 1 \in 1 .. Len(idlers) /\ 1 \in 1 .. Len(s) /\ s[1] = t /\ t.arg.from = Finished + 1
          /\ idlers # <<>>
    BY <1>2, <1>6, <1>9, <2>1
  <2>3. t.name = "idle" /\ t.name \in EarlyName
    BY <2>1, <2>2 DEF CoreInv, WaitsFit, EarlyName
  <2>4. PICK h : h = IF jobs' = <<>> THEN 4 ELSE 3
    OBVIOUS
  <2>5. Stage(t, enqueued) = h /\ Stage(t, enqueued') = h
    BY <1>1, <1>6, <2>2, <2>3, <2>4 DEF Stage
  <2>6. ~NoneEarly
    BY <2>2 DEF NoneEarly
  <2>7. PICK l : l = Len(micro)
    OBVIOUS
  <2>8. m = 1 => /\ l \in EarlyAt' /\ micro'[l] = t /\ l \in Nat
                 /\ \A i \in EarlyAt : i \in Nat /\ (i > 1 => i - 1 \in EarlyAt' /\ micro'[i - 1] = micro[i] /\ i - 1 < l)
                 /\ \A i \in EarlyAt' : i \in Nat /\ (i = l \/ (i + 1 \in EarlyAt /\ i >= 1))
    <3>1. SUFFICES ASSUME m = 1
          PROVE  /\ l \in EarlyAt' /\ micro'[l] = t /\ l \in Nat
                 /\ \A i \in EarlyAt : i \in Nat /\ (i > 1 => i - 1 \in EarlyAt' /\ micro'[i - 1] = micro[i] /\ i - 1 < l)
                 /\ \A i \in EarlyAt' : i \in Nat /\ (i = l \/ (i + 1 \in EarlyAt /\ i >= 1))
      OBVIOUS
    <3>2. \A k \in 1 .. Len(s) : k # 1 => s[k].name \notin EarlyName
      BY <1>2, <1>6, <3>1 DEF EarlyName
    <3>3. l = Len(micro) - 1 + 1
      BY <1>6, <2>7
    <3>4. s[1].name \in EarlyName /\ 1 \in 1 .. Len(s) /\ s[1] = t
      BY <2>2, <2>3
    <3> QED BY <1>2, <3>2, <3>3, <3>4, EarlyAdded
  <2>9. CASE OneEarly
    <3>1. LooksAlone
      BY <2>2, <2>9 DEF OneEarly, FlushesAlone, RunsAlone
    <3>2. /\ EarlyAt = {} /\ flushers = <<>> /\ Len(idlers) = 1 /\ t.call = active /\ m = 1
          /\ Arriving => edit = "none" /\ jobs # <<>> /\ t.arg.from = enqueued
      BY <1>2, <1>9, <2>1, <3>1 DEF LooksAlone
    <3>3. EarlyAt' = {l} /\ micro'[l] = t
      BY <2>8, <3>2
    <3>4. idlers' = <<>>
      BY <1>2, <1>7, <3>2, EmptySeq
    <3>5. Arriving' => h = 4
      BY <1>4, <1>6, <2>2, <2>4, <3>2
    <3>6. Stage(micro'[l], enqueued') = h /\ h \in {3, 4}
      BY <2>4, <2>5, <3>3
    <3>7. Arriving' => h \notin {3, 7} /\ (edit' # "none" => h = 1)
      BY <1>1, <1>4, <3>2, <3>5
    <3>8. micro'[l].call = active' /\ flushers' = <<>>
      BY <1>1, <1>3, <3>2, <3>3
    <3>9. RunsAlone(l)'
      BY <3>3, <3>4, <3>6, <3>7, <3>8 DEF RunsAlone
    <3> QED BY <1>3, <1>4, <2>9, <3>3, <3>9 DEF OneEarly, InStep
  <2>10. CASE TwoEarly
    <3>1. PICK d \in runs : d # active /\ want[d] # "automatic" /\ Behind(d)
      BY <2>10 DEF TwoEarly
    <3>2. active' # None /\ ~Arriving' /\ want'[active'] # "automatic" /\ d \in runs' /\ d # active'
            /\ want'[d] # "automatic"
      BY <1>3, <1>4, <2>10, <3>1 DEF TwoEarly
    <3>3. ASSUME NEW j \in EarlyAt, FirstLooks(d, j) PROVE Behind(d)'
      <4>1. PICK r : r = Stage(micro[j], enqueued)
        OBVIOUS
      <4>2. /\ EarlyAt = {j} /\ micro[j].call = active /\ flushers = <<>>
            /\ Len(idlers) = 1 /\ t.call = d /\ t.arg.from = enqueued /\ m = 1
            /\ r \in {1, 2, 3} /\ (edit # "none" => r = 3)
        BY <1>2, <1>9, <2>1, <3>3, <4>1 DEF FirstLooks
      <4>3. j \in Nat /\ j > 1 /\ j - 1 \in EarlyAt' /\ micro'[j - 1] = micro[j] /\ j - 1 < l
        <5>1. j # 1 /\ j >= 1
          BY <1>5 DEF EarlyAt
        <5> QED BY <2>8, <4>2, <5>1
      <4>4. EarlyAt' = {l, j - 1} /\ l # j - 1 /\ micro'[l] = t /\ l \in EarlyAt'
        BY <2>8, <4>2, <4>3
      <4>5. h = 4
        BY <1>6, <2>2, <2>4, <4>2
      <4>6. Stage(micro'[l], enqueued') = 4 /\ Stage(micro'[j - 1], enqueued') = r
        BY <1>1, <2>5, <4>1, <4>3, <4>4, <4>5
      <4>7. idlers' = <<>> /\ flushers' = <<>>
        BY <1>1, <1>2, <1>7, <4>2, EmptySeq
      <4>8. /\ r < 4 /\ (edit' # "none" => j - 1 < l /\ 4 = r + 1 /\ r \in {3, 4})
        BY <1>1, <4>2, <4>3
      <4>9. micro'[l].call = d /\ micro'[j - 1].call = active'
        BY <1>3, <4>2, <4>3, <4>4
      <4>10. BothRun(d, l, j - 1)'
        BY <4>4, <4>6, <4>7, <4>8, <4>9 DEF BothRun
      <4> QED BY <4>3, <4>4, <4>10 DEF Behind
    <3>4. ASSUME BothLook(d) PROVE Behind(d)'
      <4>1. PICK u : u = idlers[2]
        OBVIOUS
      <4>2. /\ EarlyAt = {} /\ flushers = <<>> /\ Len(idlers) = 2 /\ t.call = d /\ u.call = active
            /\ t.arg.from = u.arg.from
        BY <2>1, <3>4, <4>1 DEF BothLook
      <4>3. 2 \in 1 .. Len(idlers) /\ m = 2
        BY <1>2, <1>9, <2>2, <4>1, <4>2
      <4>4. 2 \in 1 .. Len(s) /\ s[2] = u /\ u.name = "idle" /\ u.name \in EarlyName
        <5>1. 2 \in 1 .. Len(s) /\ s[2] = u
          BY <1>2, <1>6, <4>1, <4>3
        <5>2. u.name = "idle"
          BY <4>1, <4>3 DEF CoreInv, WaitsFit
        <5> QED BY <5>1, <5>2 DEF EarlyName
      <4>5. /\ \A i \in EarlyAt' : \E k \in 1 .. Len(s) : s[k].name \in EarlyName /\ i = Len(micro) - 1 + k
            /\ \A k \in 1 .. Len(s) : s[k].name \in EarlyName =>
                  Len(micro) - 1 + k \in EarlyAt' /\ micro'[Len(micro) - 1 + k] = s[k]
        BY <1>2, <4>2, EarlyThen
      <4>6. \A k \in 1 .. Len(s) : s[k].name \in EarlyName => k = 1 \/ k = 2
        BY <1>2, <1>6, <4>3 DEF EarlyName
      <4>7. l \in EarlyAt' /\ micro'[l] = t /\ l + 1 \in EarlyAt' /\ micro'[l + 1] = u
        <5>1. Len(micro) - 1 + 1 = l /\ Len(micro) - 1 + 2 = l + 1
          BY <1>6, <2>7
        <5> QED BY <2>2, <2>3, <4>4, <4>5, <5>1
      <4>8. EarlyAt' = {l, l + 1} /\ l # l + 1 /\ l < l + 1
        <5>1. \A i \in EarlyAt' : i = l \/ i = l + 1
          BY <1>6, <2>7, <4>5, <4>6
        <5> QED BY <1>6, <2>7, <4>7, <5>1
      <4>9. Stage(micro'[l], enqueued') = h /\ Stage(micro'[l + 1], enqueued') = h /\ h \in {3, 4}
        BY <2>3, <2>4, <2>5, <4>2, <4>4, <4>7 DEF Stage
      <4>10. idlers' = <<>> /\ flushers' = <<>> /\ micro'[l].call = d /\ micro'[l + 1].call = active'
        BY <1>1, <1>2, <1>3, <1>7, <4>2, <4>3, <4>7, EmptySeq
      <4>11. BothRun(d, l, l + 1)'
        BY <4>8, <4>9, <4>10 DEF BothRun
      <4> QED BY <4>7, <4>11 DEF Behind
    <3>5. /\ ~BothFlush(d)
          /\ \A j : ~FirstFlushes(d, j) /\ \A i : ~BothRun(d, i, j)
      BY <2>2 DEF BothFlush, FirstFlushes, BothRun
    <3>6. BothLook(d) \/ \E j \in EarlyAt : FirstLooks(d, j)
      BY <3>1, <3>5 DEF Behind
    <3>7. Behind(d)'
      BY <3>3, <3>4, <3>6
    <3> QED BY <3>2, <3>7 DEF InStep, TwoEarly
  <2>11. OneEarly \/ TwoEarly
    BY <2>6 DEF InStep
  <2> QED BY <2>9, <2>10, <2>11
<1> QED BY <1>8, <1>9

\* Nothing runs and nobody waits for a patch.
LEMMA QuietAside ==
  ASSUME InStep, EarlyAt = {}, flushers = <<>>, flushers' = <<>>, idlers' = idlers, NEW n, NEW s, NoneAdded(n, s),
         active' = active, want' = want, runs' = runs, ~Arriving'
  PROVE  InStep'
<1>1. EarlyAt' = {}
  BY NoneStays
<1>2. CASE NoneEarly
  BY <1>1, <1>2 DEF NoneEarly, InStep
<1>3. CASE OneEarly
  <2>1. active # None /\ Len(idlers) = 1 /\ idlers[1].call = active
    <3>1. flushers # <<active>>
      OBVIOUS
    <3> QED BY <1>3, <3>1 DEF OneEarly, FlushesAlone, LooksAlone, RunsAlone
  <2>2. LooksAlone'
    BY <1>1, <2>1 DEF LooksAlone
  <2>3. OneEarly'
    BY <2>1, <2>2 DEF OneEarly
  <2> QED BY <2>3 DEF InStep
<1>4. CASE TwoEarly
  <2>1. PICK d \in runs : active # None /\ want[active] # "automatic" /\ d # active /\ want[d] # "automatic"
          /\ Behind(d)
    BY <1>4 DEF TwoEarly
  <2>2. BothLook(d)
    <3>1. ~BothFlush(d)
      <4>1. flushers # <<d, active>>
        OBVIOUS
      <4> QED BY <4>1 DEF BothFlush
    <3> QED BY <2>1, <3>1 DEF Behind
  <2>3. BothLook(d)'
    BY <1>1, <2>2 DEF BothLook
  <2>4. Behind(d)'
    BY <2>3 DEF Behind
  <2>5. TwoEarly'
    BY <2>1, <2>4 DEF TwoEarly
  <2> QED BY <2>5 DEF InStep
<1> QED BY <1>2, <1>3, <1>4 DEF InStep

\* The patch is answered: who waits for it goes on, one after the other.
LEMMA EditSettlesInStep ==
  ASSUME CoreInv, InStep, EditSettles
  PROVE  InStep'
<1>1. /\ micro = <<>> /\ edit' = "none" /\ flushers' = <<>> /\ UNCHANGED <<flightVars, promiseVars, enqueued, idlers>>
  BY EditSettlesShape
<1>2. PICK s \in Seq(TaskSet), code \in {"ok", "failed"} :
        /\ Grows(0, s) /\ Len(flushers) \in Nat /\ Len(s) = 1 + Len(flushers)
        /\ 1 \in 1 .. Len(s) /\ s[1].name = "tail"
        /\ \A k \in 1 .. Len(flushers) :
             s[1 + k].name = "flushed" /\ s[1 + k].call = flushers[k] /\ s[1 + k].arg.code = code
  BY EditSettlesShape
<1>3. want' = want /\ runs' = runs /\ active' = active
  BY <1>1 DEF flightVars
<1>4. EarlyAt = {} /\ Len(micro) = 0 /\ ~Arriving
  BY <1>1 DEF EarlyAt, Arriving
<1>5. ~Arriving'
  <2>1. \E n, z : Grows(n, z) /\ Plain(z)
    BY EditPlain
  <2> QED BY <1>1, <1>4, <2>1, PlainArrives
<1>6. /\ \A i \in EarlyAt' : \E k \in 1 .. Len(s) : s[k].name \in EarlyName /\ i = k
      /\ \A k \in 1 .. Len(s) : s[k].name \in EarlyName => k \in EarlyAt' /\ micro'[k] = s[k]
  <2>1. /\ \A i \in EarlyAt' : \E k \in 1 .. Len(s) : s[k].name \in EarlyName /\ i = Len(micro) - 0 + k
        /\ \A k \in 1 .. Len(s) : s[k].name \in EarlyName =>
             Len(micro) - 0 + k \in EarlyAt' /\ micro'[Len(micro) - 0 + k] = s[k]
    <3>1. Grows(0, s) /\ \A i \in EarlyAt : FALSE
      BY <1>2, <1>4
    <3> QED BY <3>1, EarlyThen
  <2>2. \A k \in 1 .. Len(s) : Len(micro) - 0 + k = k
    BY <1>4
  <2> QED BY <2>1, <2>2
<1>7. s[1].name \notin EarlyName
  BY <1>2 DEF EarlyName
<1>8. CASE flushers = <<>>
  <2>1. \A k \in 1 .. Len(s) : k = 1
    BY <1>2, <1>8
  <2>2. NoneAdded(0, s)
    BY <1>2, <1>7, <2>1 DEF NoneAdded
  <2> QED BY <1>1, <1>3, <1>4, <1>5, <1>8, <2>2, QuietAside
<1>9. PICK h : h = IF code = "ok" THEN 2 ELSE 7
  OBVIOUS
<1>10. ASSUME NEW k \in 1 .. Len(flushers)
       PROVE  /\ k + 1 \in EarlyAt' /\ micro'[k + 1].call = flushers[k] /\ Stage(micro'[k + 1], enqueued') = h
  <2>1. /\ 1 + k \in 1 .. Len(s) /\ k + 1 = 1 + k
        /\ s[1 + k].name = "flushed" /\ s[1 + k].call = flushers[k] /\ s[1 + k].arg.code = code
    BY <1>2, <1>10
  <2>2. s[1 + k].name \in EarlyName
    BY <2>1 DEF EarlyName
  <2>3. k + 1 \in EarlyAt' /\ micro'[k + 1] = s[1 + k]
    BY <1>6, <2>1, <2>2
  <2> QED BY <1>9, <2>1, <2>3 DEF Stage
<1>11. CASE FlushesAlone /\ active # None
  <2>1. flushers = <<active>> /\ idlers = <<>> /\ Len(flushers) = 1 /\ flushers[1] = active
    BY <1>11 DEF FlushesAlone
  <2>2. 2 \in EarlyAt' /\ micro'[2].call = active' /\ Stage(micro'[2], enqueued') = h
    <3>1. 1 \in 1 .. Len(flushers) /\ 1 + 1 = 2
      BY <2>1
    <3> QED BY <1>3, <1>10, <2>1, <3>1
  <2>3. EarlyAt' = {2}
    <3>1. \A k \in 1 .. Len(s) : s[k].name \in EarlyName => k = 2
      BY <1>2, <1>7, <2>1
    <3> QED BY <1>6, <2>2, <3>1
  <2>4. RunsAlone(2)'
    BY <1>1, <1>5, <1>9, <2>1, <2>2, <2>3 DEF RunsAlone
  <2>5. OneEarly'
    BY <1>3, <1>5, <1>11, <2>2, <2>4 DEF OneEarly
  <2> QED BY <2>5 DEF InStep
<1>12. ASSUME NEW d \in runs, BothFlush(d) PROVE Behind(d)'
  <2>1. flushers = <<d, active>> /\ idlers = <<>> /\ Len(flushers) = 2 /\ flushers[1] = d /\ flushers[2] = active
    BY <1>12 DEF BothFlush
  <2>2. /\ 2 \in EarlyAt' /\ micro'[2].call = d /\ Stage(micro'[2], enqueued') = h
        /\ 3 \in EarlyAt' /\ micro'[3].call = active' /\ Stage(micro'[3], enqueued') = h
    <3>1. 1 \in 1 .. Len(flushers) /\ 1 + 1 = 2 /\ 2 \in 1 .. Len(flushers) /\ 2 + 1 = 3
      BY <2>1
    <3> QED BY <1>3, <1>10, <2>1, <3>1
  <2>3. EarlyAt' = {2, 3}
    <3>1. \A k \in 1 .. Len(s) : s[k].name \in EarlyName => k = 2 \/ k = 3
      BY <1>2, <1>7, <2>1
    <3> QED BY <1>6, <2>2, <3>1
  <2>4. h \notin {5, 6} /\ edit' = "none" /\ flushers' = <<>> /\ idlers' = <<>>
    BY <1>1, <1>9, <2>1
  <2>5. BothRun(d, 2, 3)'
    BY <2>2, <2>3, <2>4 DEF BothRun
  <2> QED BY <2>2, <2>5 DEF Behind
<1>13. CASE flushers # <<>>
  <2>1. ~NoneEarly /\ ~LooksAlone /\ \A i \in EarlyAt : FALSE
    BY <1>4, <1>13 DEF NoneEarly, LooksAlone
  <2>2. CASE OneEarly
    BY <1>11, <2>1, <2>2 DEF OneEarly
  <2>3. CASE TwoEarly
    <3>1. PICK d \in runs : active # None /\ want[active] # "automatic" /\ d # active /\ want[d] # "automatic"
            /\ Behind(d)
      BY <2>3 DEF TwoEarly
    <3>2. ~BothLook(d)
      BY <1>13 DEF BothLook
    <3>3. BothFlush(d)
      BY <2>1, <3>1, <3>2 DEF Behind
    <3>4. Behind(d)'
      BY <1>12, <3>3
    <3>5. TwoEarly'
      BY <1>3, <1>5, <3>1, <3>4 DEF TwoEarly
    <3> QED BY <3>5 DEF InStep
  <2>4. OneEarly \/ TwoEarly
    BY <2>1 DEF InStep
  <2> QED BY <2>2, <2>3, <2>4
<1> QED BY <1>8, <1>13

LEMMA EditsInStep ==
  ASSUME CoreInv, InStep, EditTimer \/ Retry \/ EditSettles \/ Type
  PROVE  InStep'
<1>1. CASE EditTimer \/ Retry
  <2>1. /\ micro = <<>> /\ edit # "flying" /\ UNCHANGED <<flightVars, promiseVars, idlers, flushers>>
    BY <1>1, FliesShape
  <2>2. PICK s \in Seq(TaskSet) : Grows(0, s) /\ \A k \in 1 .. Len(s) : s[k].name = "job"
    BY <1>1, FliesShape
  <2>3. NoneAdded(0, s)
    BY <2>2 DEF NoneAdded, EarlyName
  <2>4. flushers = <<>>
    BY <2>1 DEF CoreInv, EditsKnown
  <2>5. EarlyAt = {} /\ ~Arriving
    BY <2>1 DEF EarlyAt, Arriving
  <2>6. ~Arriving'
    <3>1. \E n, z : Grows(n, z) /\ Plain(z)
      BY <1>1, EditPlain
    <3> QED BY <2>1, <2>5, <3>1, PlainArrives
  <2>7. want' = want /\ runs' = runs /\ active' = active
    BY <2>1 DEF flightVars
  <2> QED BY <2>1, <2>3, <2>4, <2>5, <2>6, <2>7, QuietAside
<1>2. CASE EditSettles
  BY <1>2, EditSettlesInStep
<1>3. CASE Type
  <2>1. /\ micro = <<>> /\ edit = "none" /\ micro' = micro /\ UNCHANGED <<flightVars, promiseVars, idlers, flushers>>
    BY <1>3 DEF Type, Quiet, queueVars
  <2>2. NoneAdded(0, <<>>)
    BY <2>1, NothingMoves, NoTask DEF NoneAdded
  <2>3. flushers = <<>>
    BY <2>1 DEF CoreInv, EditsKnown
  <2>4. EarlyAt = {} /\ ~Arriving'
    BY <2>1 DEF EarlyAt, Arriving
  <2>5. want' = want /\ runs' = runs /\ active' = active
    BY <2>1 DEF flightVars
  <2> QED BY <2>1, <2>2, <2>3, <2>4, <2>5, QuietAside
<1> QED BY <1>1, <1>2, <1>3

(***************************************************************************)
(* An operation starts                                                     *)
(***************************************************************************)
LEMMA StartsAlone ==
  ASSUME NoneEarly, UNCHANGED <<flushers, idlers>>, NEW n, NEW s, Grows(n, s), 1 \in 1 .. Len(s),
         s[1].name = "operation",
         \A k \in 1 .. Len(s) : k # 1 => s[k].name \notin EarlyName, s[1].call = active', active' # None,
         Arriving' => want'[active'] # "automatic"
  PROVE  InStep'
<1>1. PICK l : l = Len(micro) - n + 1
  OBVIOUS
<1>2. s[1].name \in EarlyName
  BY DEF EarlyName
<1>3. /\ l \in EarlyAt' /\ micro'[l] = s[1]
      /\ \A i \in EarlyAt' : i = l \/ i + n \in EarlyAt
  BY <1>1, <1>2, EarlyAdded
<1>4. EarlyAt' = {l}
  BY <1>3 DEF NoneEarly
<1>5. Stage(micro'[l], enqueued') = 1
  BY <1>3 DEF Stage
<1>6. RunsAlone(l)'
  BY <1>3, <1>4, <1>5 DEF RunsAlone, NoneEarly
<1>7. OneEarly'
  BY <1>3, <1>6 DEF OneEarly
<1> QED BY <1>7 DEF InStep

LEMMA NobodyActive ==
  ASSUME InStep, active = None
  PROVE  NoneEarly
BY DEF InStep, OneEarly, TwoEarly

\* A caller waits for no turn.
LEMMA CallerWaits ==
  ASSUME NEW p, NEW t, Gets(p, t), t.name = "caller", NEW k \in 1 .. Len(reactions'[p]),
         reactions'[p][k].name = "after"
  PROVE  \E m \in 1 .. Len(reactions[p]) : reactions[p][m].name = "after"
<1>1. k \in 1 .. Len(reactions[p]) \/ k = Len(reactions[p]) + 1
  BY DEF Gets
<1> QED BY <1>1 DEF Gets

LEMMA JoinedChained ==
  ASSUME NEW c, Joined(c)
  PROVE  Chained' \subseteq Chained
<1>1. PICK p \in Promise, t \in TaskSet :
        t.name = "caller" /\ Gets(p, t) /\ \A q \in Promise : q # p => reactions'[q] = reactions[q]
  BY DEF Joined
<1>2. ASSUME NEW x \in Call, NEW k \in 1 .. Len(reactions'[Entry(x)]), reactions'[Entry(x)][k].name = "after"
      PROVE  \E m \in 1 .. Len(reactions[Entry(x)]) : reactions[Entry(x)][m].name = "after"
  <2>1. CASE Entry(x) = p
    <3>1. k \in 1 .. Len(reactions'[p]) /\ reactions'[p][k].name = "after"
      BY <1>2, <2>1
    <3>2. \E m \in 1 .. Len(reactions[p]) : reactions[p][m].name = "after"
      BY <1>1, <3>1, CallerWaits
    <3> QED BY <2>1, <3>2
  <2>2. CASE Entry(x) # p
    <3>1. reactions'[Entry(x)] = reactions[Entry(x)]
      BY <1>1, <2>2, PromisesApart
    <3> QED BY <1>2, <3>1
  <2> QED BY <2>1, <2>2
<1> QED BY <1>2 DEF Chained

LEMMA QueuedChained ==
  ASSUME CoreInv, NEW c \in Call, Queued(c)
  PROVE  Chained' \subseteq Chained \cup {queued}
<1>1. PICK p \in Promise, t \in TaskSet, u \in TaskSet :
        /\ p = IF queued = None THEN Run(active) ELSE Entry(queued)
        /\ u.name = "caller" /\ Gets(Entry(c), u)
        /\ \A q \in Promise : q # p /\ q # Entry(c) => reactions'[q] = reactions[q]
  BY DEF Queued
<1>2. active \in Call /\ (queued # None => queued \in Call)
  <2>1. active \in runs /\ queued \in 0 .. Made /\ runs \subseteq 1 .. Made
    BY DEF CoreInv, Types, Queued
  <2>2. 1 .. Made \subseteq Call /\ Made \in Nat
    BY MadeIsNat
  <2>3. queued # None => queued \in 1 .. Made
    BY <2>1, <2>2 DEF None
  <2> QED BY <2>1, <2>2, <2>3
<1>3. ASSUME NEW x \in Call, NEW k \in 1 .. Len(reactions'[Entry(x)]), reactions'[Entry(x)][k].name = "after",
             x # queued
      PROVE  \E m \in 1 .. Len(reactions[Entry(x)]) : reactions[Entry(x)][m].name = "after"
  <2>1. CASE x = c
    <3>1. k \in 1 .. Len(reactions'[Entry(c)]) /\ reactions'[Entry(c)][k].name = "after"
      BY <1>3, <2>1
    <3>2. \E m \in 1 .. Len(reactions[Entry(c)]) : reactions[Entry(c)][m].name = "after"
      BY <1>1, <3>1, CallerWaits
    <3> QED BY <2>1, <3>2
  <2>2. CASE x # c
    <3>1. Entry(x) \in Promise /\ Entry(x) # p /\ Entry(x) # Entry(c)
      BY <1>1, <1>2, <1>3, <2>2, PromisesApart
    <3>2. reactions'[Entry(x)] = reactions[Entry(x)]
      BY <1>1, <3>1
    <3> QED BY <1>3, <3>2
  <2> QED BY <2>1, <2>2
<1> QED BY <1>3 DEF Chained

LEMMA AskedArrives ==
  ASSUME CoreInv, Chain, NEW c \in Call, c # None, Starts(c) \/ Skipped(c) \/ Joined(c) \/ Queued(c), Arriving'
  PROVE  Arriving
<1>1. CASE Starts(c)
  <2>1. PICK t \in TaskSet : t.name = "operation" /\ Grows(0, <<t>>)
    BY <1>1 DEF Starts
  <2>2. Chained' = Chained
    BY <1>1, PromisesApart, ChainedStays DEF Starts
  <2>3. \A k \in 1 .. Len(<<t>>) : ~Leads(<<t>>[k], Chained')
    BY <2>1, OneTask DEF Leads, Turns, Passes
  <2> QED BY <2>1, <2>2, <2>3, ArrivesBefore
<1>2. CASE Skipped(c)
  <2>1. PICK t \in TaskSet : t.name = "caller" /\ Grows(0, <<t>>)
    BY <1>2 DEF Skipped
  <2>2. Chained' = Chained
    BY <1>2, ChainedStays DEF Skipped
  <2>3. \A k \in 1 .. Len(<<t>>) : ~Leads(<<t>>[k], Chained')
    BY <2>1, OneTask DEF Leads, Turns, Passes
  <2> QED BY <2>1, <2>2, <2>3, ArrivesBefore
<1>3. CASE Joined(c)
  <2>1. Grows(0, <<>>)
    BY <1>3, NothingMoves DEF Joined
  <2>2. \A i \in 1 .. Len(micro) : Leads(micro[i], Chained') => Leads(micro[i], Chained)
    BY <1>3, JoinedChained DEF Leads
  <2> QED BY <2>1, <2>2, NoTask, ArrivesBefore
<1>4. CASE Queued(c)
  <2>1. Grows(0, <<>>)
    BY <1>4, NothingMoves DEF Queued
  <2>2. \A i \in 1 .. Len(micro) : Leads(micro[i], Chained') => Leads(micro[i], Chained)
    BY <1>4, QueuedChained DEF Leads, Chain, QueuedIsLast
  <2> QED BY <2>1, <2>2, NoTask, ArrivesBefore
<1> QED BY <1>1, <1>2, <1>3, <1>4

LEMMA AskedInStep ==
  ASSUME CoreInv, Chain, InStep, Asks
  PROVE  InStep'
<1>1. PICK kind \in Kind, c \in Call :
        /\ kind = "automatic" => micro = <<>> /\ calling = "none"
        /\ PlacesRest
        /\ c \notin 1 .. Made /\ c # None /\ c \notin runs /\ want'[c] = kind
        /\ \A x \in 1 .. Made : x \in 1 .. Made' /\ want'[x] = want[x]
        /\ Starts(c) \/ Skipped(c) \/ Joined(c) \/ Queued(c)
  BY AskedShape
<1>2. Arriving' => Arriving
  BY <1>1, AskedArrives
<1>3. UNCHANGED <<enqueued, idlers, flushers, edit, jobs>>
  BY <1>1 DEF PlacesRest
<1>4. CASE Starts(c)
  <2>1. active = None /\ active' = c
    BY <1>4 DEF Starts
  <2>2. PICK t \in TaskSet : t.name = "operation" /\ t.call = c /\ Grows(0, <<t>>)
    BY <1>4 DEF Starts
  <2>3. PICK s : s = <<t>>
    OBVIOUS
  <2>4. 1 \in 1 .. Len(s) /\ s[1] = t /\ \A k \in 1 .. Len(s) : k = 1
    BY <2>3, OneTask
  <2>5. Arriving' => want'[active'] # "automatic"
    <3>1. micro = <<>> => ~Arriving
      BY DEF Arriving
    <3> QED BY <1>1, <1>2, <2>1, <3>1
  <2>6. NoneEarly
    BY <2>1, NobodyActive
  <2>7. Grows(0, s) /\ s[1].name = "operation" /\ s[1].call = active' /\ active' # None
        /\ \A k \in 1 .. Len(s) : k # 1 => s[k].name \notin EarlyName
    BY <1>1, <2>1, <2>2, <2>3, <2>4
  <2> QED BY <1>3, <2>4, <2>5, <2>6, <2>7, StartsAlone
<1>5. CASE Skipped(c) \/ Joined(c) \/ Queued(c)
  <2>1. active' = active /\ runs' = runs
    BY <1>5 DEF Skipped, Joined, Queued
  <2>2. \E n, s : NoneAdded(n, s) /\ n = 0
    <3>1. CASE Skipped(c)
      <4>1. PICK t \in TaskSet : t.name = "caller" /\ Grows(0, <<t>>)
        BY <3>1 DEF Skipped
      <4>2. \A k \in 1 .. Len(<<t>>) : <<t>>[k].name \notin EarlyName
        BY <4>1, OneTask DEF EarlyName
      <4> QED BY <4>1, <4>2 DEF NoneAdded
    <3>2. CASE Joined(c) \/ Queued(c)
      <4>1. micro' = micro
        BY <3>2 DEF Joined, Queued
      <4>2. NoneAdded(0, <<>>)
        BY <4>1, NothingMoves, NoTask DEF NoneAdded
      <4> QED BY <4>2
    <3> QED BY <1>5, <3>1, <3>2
  <2>3. PICK n, s : NoneAdded(n, s) /\ n = 0
    BY <2>2
  <2>4. \A x \in runs : want'[x] = want[x]
    BY <1>1 DEF CoreInv, Types
  <2>5. JobsLookAlike
    BY <1>3 DEF JobsLookAlike
  <2>6. UNCHANGED <<enqueued, idlers, flushers, edit, active>>
    BY <1>3, <2>1
  <2> QED BY <1>2, <2>1, <2>3, <2>4, <2>5, <2>6, InStepAside
<1> QED BY <1>1, <1>4, <1>5

\* An entry's turn starts its operation while another one is early: that one is ahead.
LEMMA TurnStarts ==
  ASSUME CoreInv, IdleLooks, InStep, Arriving, 1 \notin EarlyAt, NEW t \in TaskSet, NEW u \in TaskSet,
         t.name = "operation", t.call = active',
         u.name = "follow", Grows(1, <<t, u>>), UNCHANGED <<jobs, enqueued, idlers, flushers, edit, want>>,
         runs \subseteq runs', active' \notin runs, active' # None, want[active'] # "automatic", ~Arriving'
  PROVE  InStep'
<1>1. PICK s : s = <<t, u>>
  OBVIOUS
<1>2. Grows(1, s) /\ 1 \in 1 .. Len(s) /\ s[1] = t /\ \A k \in 1 .. Len(s) : k # 1 => s[k].name \notin EarlyName
  <2>1. \A k \in 1 .. Len(s) : (k = 1 /\ s[k] = t) \/ (k = 2 /\ s[k] = u)
    BY <1>1, TwoTasks
  <2>2. Len(s) = 2
    BY <1>1, TwoTasks
  <2>3. 1 \in 1 .. Len(s)
    BY <2>2
  <2> QED BY <1>1, <2>1, <2>3 DEF EarlyName
<1>3. CASE NoneEarly
  BY <1>2, <1>3, StartsAlone
<1>4. CASE OneEarly
  <2>1. active # None /\ active \in runs /\ want[active] # "automatic"
    BY <1>4 DEF OneEarly, CoreInv, Types
  <2>2. PICK d : d = active
    OBVIOUS
  <2>3. PICK l : l = Len(micro) - 1 + 1
    OBVIOUS
  <2>4. t.name \in EarlyName
    BY DEF EarlyName
  <2>5. /\ l \in EarlyAt' /\ micro'[l] = t /\ l \in Nat
        /\ \A i \in EarlyAt : i \in Nat /\ i >= 1
             /\ (i > 1 => i - 1 \in EarlyAt' /\ micro'[i - 1] = micro[i] /\ i - 1 < l)
        /\ \A i \in EarlyAt' : i \in Nat /\ (i = l \/ i + 1 \in EarlyAt)
    BY <1>2, <2>3, <2>4, EarlyAdded
  <2>6. Stage(micro'[l], enqueued') = 1
    BY <2>5 DEF Stage
  <2>7. CASE FlushesAlone
    <3>1. EarlyAt' = {l}
      BY <2>5, <2>7 DEF FlushesAlone
    <3>2. FirstFlushes(d, l)'
      BY <2>2, <2>5, <2>6, <2>7, <3>1 DEF FirstFlushes, FlushesAlone
    <3>3. Behind(d)'
      BY <2>5, <3>2 DEF Behind
    <3> QED BY <2>1, <2>2, <3>3 DEF InStep, TwoEarly
  <2>8. CASE LooksAlone
    <3>1. EarlyAt' = {l}
      BY <2>5, <2>8 DEF LooksAlone
    <3>2. FirstLooks(d, l)'
      BY <2>2, <2>5, <2>6, <2>8, <3>1 DEF FirstLooks, LooksAlone
    <3>3. Behind(d)'
      BY <2>5, <3>2 DEF Behind
    <3> QED BY <2>1, <2>2, <3>3 DEF InStep, TwoEarly
  <2>9. ASSUME NEW i \in EarlyAt, RunsAlone(i) PROVE InStep'
    <3>1. PICK h : h = Stage(micro[i], enqueued)
      OBVIOUS
    <3>2. /\ EarlyAt = {i} /\ micro[i].call = d /\ flushers = <<>> /\ idlers = <<>>
          /\ h \in {5, 6} => jobs = <<>>
          /\ h \notin {3, 7} /\ (edit # "none" => h = 1)
      BY <2>2, <2>9, <3>1 DEF RunsAlone
    <3>3. h \in 1 .. 7
      BY <2>9, <3>1, Stages
    <3>4. i > 1 /\ i - 1 \in EarlyAt' /\ micro'[i - 1] = micro[i] /\ i - 1 < l
      <4>1. i # 1 /\ i \in Nat /\ i >= 1
        BY <2>5, <2>9
      <4> QED BY <2>5, <2>9, <4>1
    <3>5. EarlyAt' = {i - 1, l} /\ i - 1 # l
      <4>1. \A k \in EarlyAt' : k = l \/ k = i - 1
        BY <2>5, <3>2
      <4>2. i - 1 # l
        BY <2>5, <2>9, <3>4
      <4>3. l \in EarlyAt' /\ i - 1 \in EarlyAt'
        BY <2>5, <3>4
      <4>4. PICK a, e : a = i - 1 /\ e = EarlyAt'
        OBVIOUS
      <4>5. e = {a, l}
        BY <4>1, <4>3, <4>4
      <4> QED BY <4>2, <4>4, <4>5
    <3>6. Stage(micro'[i - 1], enqueued') = h
      BY <3>1, <3>4
    <3>7. 1 < h \/ (1 = h /\ i - 1 < l)
      BY <3>3, <3>4
    <3>8. BothRun(d, i - 1, l)'
      BY <2>5, <2>6, <3>2, <3>4, <3>5, <3>6, <3>7 DEF BothRun
    <3>9. Behind(d)'
      BY <2>5, <3>4, <3>8 DEF Behind
    <3> QED BY <2>1, <2>2, <3>9 DEF InStep, TwoEarly
  <2> QED BY <1>4, <2>7, <2>8, <2>9 DEF OneEarly
<1>5. NoneEarly \/ OneEarly
  BY DEF InStep, TwoEarly
<1> QED BY <1>3, <1>4, <1>5

LEMMA TurnInStep ==
  ASSUME CoreInv, IdleLooks, Chain, InStep, Turn
  PROVE  InStep'
<1>1. PICK c : c = Current
  OBVIOUS
<1>2. /\ micro # <<>> /\ Head(micro).name = "turn" /\ PlacesRest /\ want' = want /\ c \in 1 .. Made
  BY <1>1, TurnShape
<1>3. /\ c \notin runs /\ want[c] # "automatic" /\ 1 \in 1 .. Len(micro)
      /\ Leads(micro[1], Chained) /\ micro[1].name = "turn"
      /\ \A i \in 1 .. Len(micro) : i > 1 => ~Leads(micro[i], Chained)
  BY <1>1, <1>2, TurnIsFirst, HeadTask DEF MayTurn
<1>4. Arriving /\ 1 \notin EarlyAt /\ c # None
  BY <1>2, <1>3 DEF Arriving, EarlyAt, EarlyName, None
<1>5. UNCHANGED <<jobs, enqueued, idlers, flushers, edit>>
  BY <1>2 DEF PlacesRest
<1>6. CASE /\ UNCHANGED <<active, runs, reactions>>
           /\ \E t \in TaskSet : t.name = "follow" /\ t.call = c /\ t.arg.from = active /\ Adding(<<t>>)
  <2>1. PICK t \in TaskSet : t.name = "follow" /\ Adding(<<t>>)
    BY <1>6
  <2>2. Grows(1, <<t>>)
    BY <1>2, <2>1, HeadAdds
  <2>3. NoneAdded(1, <<t>>)
    BY <2>1, <2>2, OneTask DEF NoneAdded, EarlyName
  <2>4. JobsLookAlike
    BY <1>5 DEF JobsLookAlike
  <2>5. runs' = runs /\ active' = active
    BY <1>6
  <2>6. UNCHANGED <<enqueued, idlers, flushers, edit, active>>
    BY <1>5, <2>5
  <2> QED BY <1>2, <1>4, <2>3, <2>4, <2>5, <2>6, InStepAside
<1>7. CASE /\ active' = c /\ runs' = runs \cup {c}
           /\ \A x \in Call : reactions'[Entry(x)] = reactions[Entry(x)]
           /\ \E t, u \in TaskSet : /\ t.name = "operation" /\ t.call = c
                                    /\ u.name = "follow" /\ u.call = c /\ u.arg.from = c
                                    /\ Grows(1, <<t, u>>)
  <2>1. PICK t \in TaskSet, u \in TaskSet : t.name = "operation" /\ t.call = c /\ u.name = "follow"
          /\ Grows(1, <<t, u>>)
    BY <1>7
  <2>2. Chained' = Chained
    BY <1>7, ChainedStays
  <2>3. ~Arriving'
    <3>1. SUFFICES ASSUME NEW i \in 1 .. Len(micro'), Leads(micro'[i], Chained), micro'[i].name # "follow" PROVE FALSE
      BY <2>2 DEF Arriving
    <3>2. CASE i + 1 \in 1 .. Len(micro) /\ micro'[i] = micro[i + 1]
      BY <1>3, <3>1, <3>2
    <3>3. PICK s : s = <<t, u>>
      OBVIOUS
    <3>4. CASE \E k \in 1 .. Len(s) : micro'[i] = s[k]
      <4>1. micro'[i].name = "operation"
        BY <2>1, <3>1, <3>3, <3>4, TwoTasks
      <4> QED BY <3>1, <4>1 DEF Leads, Turns, Passes
    <3>5. Grows(1, s)
      BY <2>1, <3>3
    <3> QED BY <3>2, <3>4, <3>5, OldOrNew
  <2>4. active' = c /\ runs \subseteq runs'
    BY <1>7
  <2> QED BY <1>2, <1>3, <1>4, <1>5, <2>1, <2>3, <2>4, TurnStarts
<1>8. \/ /\ UNCHANGED <<active, runs, reactions>>
         /\ \E t \in TaskSet : t.name = "follow" /\ t.call = c /\ t.arg.from = active /\ Adding(<<t>>)
      \/ /\ active' = c /\ runs' = runs \cup {c}
         /\ \A x \in Call : reactions'[Entry(x)] = reactions[Entry(x)]
         /\ \E t, u \in TaskSet : /\ t.name = "operation" /\ t.call = c
                                  /\ u.name = "follow" /\ u.call = c /\ u.arg.from = c
                                  /\ Grows(1, <<t, u>>)
  <2>1. PICK o : o = Current /\ o = c
    BY <1>1
  <2> QED BY <1>1, TurnShape
<1> QED BY <1>6, <1>7, <1>8

LEMMA InStepHolds ==
  ASSUME CoreInv, OperationsOnce, ClearsComing, IdleLooks, Chain, InStep, [Next]_vars
  PROVE  InStep'
<1>1. CASE Operation \/ Flushed \/ Idle \/ Emptied \/ Begin
  <2>1. /\ 1 \in EarlyAt /\ micro[1].call = Current
        /\ (\E t : HeadAdvances(t)) \/ HeadFlushes \/ HeadLooks \/ HeadLeaves
    BY <1>1, HeadGoes
  <2>2. UNCHANGED <<flightVars, promiseVars>> /\ \E n, s : Grows(n, s) /\ Plain(s)
    BY <1>1, OperationPlain
  <2>3. Arriving' => Arriving
    BY <2>2, PlainArrives
  <2>4. active' = active /\ want' = want /\ runs' = runs
    BY <2>2 DEF flightVars
  <2> QED BY <2>1, <2>3, <2>4, InStepGoes
<1>2. CASE TailSettles
  BY <1>2, TailInStep
<1>3. CASE StandsBy
  BY <1>3, StandsByInStep
<1>4. CASE EditTimer \/ Retry \/ EditSettles \/ Type
  BY <1>4, EditsInStep
<1>5. CASE Turn
  BY <1>5, TurnInStep
<1>6. CASE Asks
  BY <1>6, AskedInStep
<1> QED BY <1>1, <1>2, <1>3, <1>4, <1>5, <1>6, NextCases DEF StandsBy

\* The operation that begins, or whose patch was refused, is early no longer.
LEMMA EarlyEnds ==
  ASSUME CoreInv, IdleLooks, InStep, Begin \/ (Flushed /\ Given.code # "ok"), NEW c, c = Current
  PROVE  ~Early(c)'
<1>1. /\ 1 \in EarlyAt /\ micro[1].call = c
      /\ (\E t : HeadAdvances(t)) \/ HeadFlushes \/ HeadLooks \/ HeadLeaves
  BY HeadGoes
<1>2. UNCHANGED <<flightVars, promiseVars>> /\ \E n, s : Grows(n, s) /\ Plain(s)
  BY OperationPlain
<1>3. Arriving' => Arriving
  BY <1>2, PlainArrives
<1>4. active' = active /\ want' = want /\ runs' = runs
  BY <1>2 DEF flightVars
<1>5. HeadLeaves
  <2>1. Stage(micro[1], enqueued) \in {6, 7}
    <3>1. CASE Begin
      <4>1. micro # <<>> /\ Head(micro).name = "begin"
        BY <3>1, BeginShape
      <4>2. micro[1].name = "begin"
        BY <4>1, HeadTask
      <4> QED BY <4>2 DEF Stage
    <3>2. CASE Flushed /\ Given.code # "ok"
      <4>1. micro # <<>> /\ Head(micro).name = "flushed"
        BY <3>2, FlushedShape
      <4>2. micro[1].name = "flushed" /\ micro[1].arg.code # "ok"
        BY <3>2, <4>1, HeadTask
      <4> QED BY <4>2 DEF Stage
    <3> QED BY <3>1, <3>2
  <2> QED BY <1>1, <2>1 DEF HeadAdvances, HeadFlushes, HeadLooks
<1> QED BY <1>1, <1>3, <1>4, <1>5, InStepGoes

LEMMA OperationsOnceHolds ==
  ASSUME CoreInv, CoreInv', OperationsOnce, IdleLooks, Chain, InStep, [Next]_vars
  PROVE  OperationsOnce'
<1>1. CASE Operation \/ Idle \/ Emptied
  BY <1>1, OperationOnce, IdleOnce, EmptiedOnce
<1>2. CASE Flushed
  <2>1. PICK c : c = Current
    OBVIOUS
  <2>2. Given.code # "ok" => ~Early(c)'
    BY <1>2, <2>1, EarlyEnds
  <2> QED BY <1>2, <2>1, <2>2, FlushedOnce
<1>3. CASE Begin
  <2>1. PICK c : c = Current
    OBVIOUS
  <2>2. ~Early(c)'
    BY <1>3, <2>1, EarlyEnds
  <2> QED BY <1>3, <2>1, <2>2, BeginOnce
<1>4. CASE JobStarts \/ LoadSucceeds \/ LoadFails \/ Returns \/ RunSettles \/ TailSettles
  BY <1>4, JobsLeaveOnce, BackOnce, TailSettlesOnce
<1>5. CASE EntrySettles \/ Clear \/ After \/ Follow \/ CallerGoesOn
  BY <1>5, PromisesOnce
<1>6. CASE Turn
  <2>1. micro # <<>> /\ Head(micro).name = "turn"
    BY <1>6, TurnShape
  <2>2. Current \notin runs
    BY <2>1, TurnIsFirst DEF MayTurn
  <2> QED BY <1>6, <2>2, TurnOnce
<1>7. CASE EditTimer \/ Retry \/ EditSettles \/ Type
  BY <1>7, EditsOnce
<1>8. CASE Asks
  BY <1>8, AskOnce DEF Asks
<1>9. CASE Rests
  <2>1. PlacesRest /\ Grows(0, <<>>) /\ settled' = settled
    BY <1>9, RestsShape
  <2>2. \A k \in 1 .. Len(<<>>) : <<>>[k].name \notin LateName \cup EarlyName
    BY NoTask
  <2> QED BY <2>1, <2>2, BystanderOnce
<1> QED BY <1>1, <1>2, <1>3, <1>4, <1>5, <1>6, <1>7, <1>8, <1>9, NextCases

(***************************************************************************)
(* The view                                                                *)
(***************************************************************************)
\* Before a reload begins nothing but the first one is on its way.
Starting ==
  newest = None =>
    /\ edit = "none" /\ ~retained /\ ~loaded /\ jobs = <<>> /\ settled = {}
    /\ \/ calling = "initial" /\ micro = <<>> /\ active = None
       \/ /\ calling = "none" /\ runs # {} /\ Len(micro) = 1 /\ micro[1].name \in EarlyName
          /\ Stage(micro[1], enqueued) # 7

\* While the view is loading, the reload that began last waits for its answer.
Loading ==
  status = "loading" /\ newest # None =>
    /\ \E i \in 1 .. Len(jobs) : jobs[i] = newest /\ (i = 1 => ~TailComes)
    /\ loaded => want[newest] # "automatic"

ViewRests ==
  /\ newest' = newest /\ status' = status /\ loaded' = loaded /\ \A x \in runs : want'[x] = want[x]
  /\ jobs' = jobs \/ jobs' = Append(jobs, None)

LEMMA TailIsNew ==
  ASSUME NEW n, NEW s, Grows(n, s), \A k \in 1 .. Len(s) : s[k].name # "tail", TailComes'
  PROVE  TailComes
BY OldOrNew DEF TailComes

LEMMA OneNoTail ==
  ASSUME NEW t \in TaskSet, Grows(1, <<t>>), t.name # "tail", TailComes'
  PROVE  TailComes
<1>1. PICK s : s = <<t>>
  OBVIOUS
<1>2. Grows(1, s) /\ \A k \in 1 .. Len(s) : s[k].name # "tail"
  BY <1>1, OneTask
<1> QED BY <1>2, TailIsNew

LEMMA NoneNoTail ==
  ASSUME NEW n, Grows(n, <<>>), TailComes'
  PROVE  TailComes
BY NoTask, TailIsNew

LEMMA FlushAllView ==
  ASSUME CoreInv, micro # <<>>, Head(micro).name \in {"operation", "emptied"}, FlushAll
  PROVE  (TailComes' => TailComes) /\ (jobs' = jobs \/ jobs' = Append(jobs, None))
<1>1. PICK t : t = Task("flushed", Current, Result("ok", None))
  OBVIOUS
<1>2. t \in TaskSet /\ t.name = "flushed"
  <2>1. Current \in Nat
    BY HeadTask
  <2> QED BY <1>1, <2>1, Names DEF Task, Result, None, TaskSet, ResultSet
<1>3. CASE jobs' = jobs /\ Grows(1, <<t>>)
  BY <1>2, <1>3, OneNoTail
<1>4. CASE \E s \in Seq(TaskSet) : Grows(1, s) /\ \A k \in 1 .. Len(s) : s[k].name = "job"
  <2>1. PICK s \in Seq(TaskSet) : Grows(1, s) /\ \A k \in 1 .. Len(s) : s[k].name = "job"
    BY <1>4
  <2>2. \A k \in 1 .. Len(s) : s[k].name # "tail"
    BY <2>1
  <2>3. TailComes' => TailComes
    BY <2>1, <2>2, TailIsNew
  <2> QED BY <2>3, FlushAllShape
<1> QED BY <1>1, <1>3, <1>4, FlushAllShape

LEMMA AwaitTailView ==
  ASSUME CoreInv, micro # <<>>, Head(micro).name \in {"flushed", "idle"}, AwaitTail, TailComes'
  PROVE  TailComes
<1>1. PICK t : t = Look(Current)
  OBVIOUS
<1>2. t \in TaskSet /\ t.name = "idle"
  <2>1. Current \in Nat
    BY HeadTask
  <2> QED BY <1>1, <2>1, LookType
<1>3. CASE Grows(1, <<t>>)
  BY <1>2, <1>3, OneNoTail
<1>4. CASE Grows(1, <<>>)
  BY <1>4, NoneNoTail
<1> QED BY <1>1, <1>3, <1>4, AwaitTailShape

LEMMA OperationView ==
  ASSUME CoreInv, Operation \/ Flushed \/ Idle \/ Emptied
  PROVE  ViewRests /\ (TailComes' => TailComes)
<1>1. CASE Operation
  <2>1. /\ micro # <<>> /\ Head(micro).name \in {"operation", "emptied"} /\ FlushAll
        /\ UNCHANGED <<flightVars, newest, viewVars>>
    BY <1>1, OperationShape
  <2> QED BY <2>1, FlushAllView DEF ViewRests, flightVars, viewVars
<1>2. CASE Flushed
  <2>1. /\ micro # <<>> /\ Head(micro).name = "flushed" /\ jobs' = jobs /\ UNCHANGED <<flightVars, newest, viewVars>>
        /\ Given.code = "ok" => AwaitTail
        /\ Given.code # "ok" => \E t \in TaskSet : t.name = "run" /\ Adding(<<t>>)
    BY <1>2, FlushedShape
  <2>2. ViewRests
    BY <2>1 DEF ViewRests, flightVars, viewVars
  <2>3. CASE Given.code # "ok"
    <3>1. PICK t \in TaskSet : t.name = "run" /\ Adding(<<t>>)
      BY <2>1, <2>3
    <3>2. TailComes' => TailComes
      BY <2>1, <3>1, HeadAdds, OneNoTail
    <3> QED BY <2>2, <3>2
  <2>4. CASE Given.code = "ok"
    BY <2>1, <2>2, <2>4, AwaitTailView
  <2> QED BY <2>3, <2>4
<1>3. CASE Idle
  <2>1. /\ micro # <<>> /\ Head(micro).name = "idle" /\ jobs' = jobs /\ UNCHANGED <<flightVars, newest, viewVars>>
        /\ Given.from # enqueued => AwaitTail
        /\ Given.from = enqueued => \E t \in TaskSet : t.name = "emptied" /\ Grows(1, <<t>>)
    BY <1>3, IdleShape
  <2>2. ViewRests
    BY <2>1 DEF ViewRests, flightVars, viewVars
  <2>3. CASE Given.from = enqueued
    BY <2>1, <2>2, <2>3, OneNoTail
  <2>4. CASE Given.from # enqueued
    BY <2>1, <2>2, <2>4, AwaitTailView
  <2> QED BY <2>3, <2>4
<1>4. CASE Emptied
  <2>1. /\ micro # <<>> /\ Head(micro).name = "emptied" /\ UNCHANGED <<flightVars, newest, viewVars>>
        /\ edit # "none" => FlushAll
        /\ edit = "none" => jobs' = jobs /\ \E t \in TaskSet : t.name = "begin" /\ Grows(1, <<t>>)
    BY <1>4, EmptiedShape
  <2>2. (TailComes' => TailComes) /\ (jobs' = jobs \/ jobs' = Append(jobs, None))
    BY <2>1, OneNoTail, FlushAllView
  <2> QED BY <2>1, <2>2 DEF ViewRests, flightVars, viewVars
<1> QED BY <1>1, <1>2, <1>3, <1>4

LEMMA TurnsView ==
  ASSUME CoreInv, Returns \/ RunSettles \/ EntrySettles \/ Clear \/ After \/ Turn \/ Follow \/ CallerGoesOn
  PROVE  ViewRests /\ (TailComes' => TailComes)
<1>1. CASE Returns
  <2>1. micro # <<>> /\ PlacesRest /\ UNCHANGED <<flightVars, newest, viewVars>>
    BY <1>1, ReturnsShape
  <2>2. PICK t \in TaskSet : t.name = "run" /\ Adding(<<t>>)
    BY <1>1, ReturnsShape
  <2>3. TailComes' => TailComes
    BY <2>1, <2>2, HeadAdds, OneNoTail
  <2> QED BY <2>1, <2>3 DEF ViewRests, PlacesRest, flightVars, viewVars
<1>2. CASE RunSettles
  <2>1. PlacesRest /\ UNCHANGED <<flightVars, newest, viewVars>> /\ Current \in Call
    BY <1>2, RunSettlesShape
  <2>2. PICK s \in Seq(TaskSet) : Grows(1, s) /\ Tells(s, reactions[Run(Current)])
    BY <1>2, RunSettlesShape
  <2>3. ASSUME NEW k \in 1 .. Len(s) PROVE s[k].name # "tail"
    <3>1. s[k].name \in ReactionName
      BY <2>1, <2>2 DEF Tells, CoreInv, ReactionsFit, RunFits
    <3> QED BY <3>1 DEF ReactionName
  <2>4. TailComes' => TailComes
    BY <2>2, <2>3, TailIsNew
  <2> QED BY <2>1, <2>4 DEF ViewRests, PlacesRest, flightVars, viewVars
<1>3. CASE EntrySettles
  <2>1. PlacesRest /\ UNCHANGED <<flightVars, newest, viewVars>> /\ Current \in Call
    BY <1>3, EntrySettlesShape
  <2>2. PICK s \in Seq(TaskSet) : Grows(1, s) /\ Tells(s, reactions[Entry(Current)])
    BY <1>3, EntrySettlesShape
  <2>3. ASSUME NEW k \in 1 .. Len(s) PROVE s[k].name # "tail"
    BY <2>1, <2>2 DEF Tells, CoreInv, ReactionsFit, EntryFits
  <2>4. TailComes' => TailComes
    BY <2>2, <2>3, TailIsNew
  <2> QED BY <2>1, <2>4 DEF ViewRests, PlacesRest, flightVars, viewVars
<1>4. CASE Clear \/ CallerGoesOn
  <2>1. PlacesRest /\ Grows(1, <<>>) /\ UNCHANGED <<want, newest, status, loaded>>
    BY <1>4, TaskGone
  <2> QED BY <2>1, NoneNoTail DEF ViewRests, PlacesRest
<1>5. CASE After
  <2>1. micro # <<>> /\ Adding(<<Task("turn", Current, Nothing)>>) /\ Head(micro).name = "after"
        /\ UNCHANGED <<want, newest, jobs, status, loaded>>
    BY <1>5 DEF After, Runs, flightVars, queueVars, viewVars
  <2>2. PICK t : t = Task("turn", Current, Nothing)
    OBVIOUS
  <2>3. t \in TaskSet /\ t.name = "turn"
    <3>1. Current \in Nat
      BY <2>1, HeadTask
    <3> QED BY <2>2, <3>1, NothingType, Names DEF Task, TaskSet
  <2>4. TailComes' => TailComes
    BY <2>1, <2>2, <2>3, HeadAdds, OneNoTail
  <2> QED BY <2>1, <2>4 DEF ViewRests
<1>6. CASE Turn
  <2>1. micro # <<>> /\ PlacesRest /\ UNCHANGED <<want, newest, viewVars>>
    BY <1>6, TurnShape
  <2>2. CASE \E t \in TaskSet : t.name = "follow" /\ Adding(<<t>>)
    <3>1. PICK t \in TaskSet : t.name = "follow" /\ Adding(<<t>>)
      BY <2>2
    <3>2. TailComes' => TailComes
      BY <2>1, <3>1, HeadAdds, OneNoTail
    <3> QED BY <2>1, <3>2 DEF ViewRests, PlacesRest, viewVars
  <2>3. CASE \E t, u \in TaskSet : t.name = "operation" /\ u.name = "follow" /\ Grows(1, <<t, u>>)
    <3>1. PICK t \in TaskSet, u \in TaskSet : t.name = "operation" /\ u.name = "follow" /\ Grows(1, <<t, u>>)
      BY <2>3
    <3>2. PICK s : s = <<t, u>>
      OBVIOUS
    <3>3. Grows(1, s) /\ \A k \in 1 .. Len(s) : s[k].name # "tail"
      BY <3>1, <3>2, TwoTasks
    <3>4. TailComes' => TailComes
      BY <3>3, TailIsNew
    <3> QED BY <2>1, <3>4 DEF ViewRests, PlacesRest, viewVars
  <2>4. \/ \E t \in TaskSet : t.name = "follow" /\ Adding(<<t>>)
        \/ \E t, u \in TaskSet : t.name = "operation" /\ u.name = "follow" /\ Grows(1, <<t, u>>)
    BY <1>6, TurnShape
  <2> QED BY <2>2, <2>3, <2>4
<1>7. CASE Follow
  <2>1. micro # <<>> /\ PlacesRest /\ Adding(<<>>) /\ UNCHANGED <<flightVars, newest, viewVars>>
    BY <1>7, FollowShape
  <2>2. TailComes' => TailComes
    BY <2>1, HeadAddsNone, NoneNoTail
  <2> QED BY <2>1, <2>2 DEF ViewRests, PlacesRest, flightVars, viewVars
<1> QED BY <1>1, <1>2, <1>3, <1>4, <1>5, <1>6, <1>7

LEMMA EditsView ==
  ASSUME CoreInv, EditTimer \/ Retry \/ Type \/ Asks \/ Rests
  PROVE  ViewRests /\ (TailComes' => TailComes)
<1>1. CASE EditTimer \/ Retry
  <2>1. jobs' = Append(jobs, None) /\ UNCHANGED <<flightVars, newest, viewVars>>
    BY <1>1, FliesShape
  <2>2. PICK s \in Seq(TaskSet) : Grows(0, s) /\ \A k \in 1 .. Len(s) : s[k].name = "job"
    BY <1>1, FliesShape
  <2>3. \A k \in 1 .. Len(s) : s[k].name # "tail"
    BY <2>2
  <2>4. TailComes' => TailComes
    BY <2>2, <2>3, TailIsNew
  <2> QED BY <2>1, <2>4 DEF ViewRests, flightVars, viewVars
<1>2. CASE Type
  BY <1>2 DEF Type, ViewRests, TailComes, flightVars, queueVars, viewVars
<1>3. CASE Asks
  <2>1. PICK kind \in Kind, c \in Call :
          /\ PlacesRest /\ UNCHANGED <<newest, viewVars>>
          /\ \A x \in 1 .. Made : want'[x] = want[x]
          /\ Starts(c) \/ Skipped(c) \/ Joined(c) \/ Queued(c)
    BY <1>3, AskedShape
  <2>2. TailComes' => TailComes
    <3>1. CASE Starts(c) \/ Skipped(c)
      <4>1. PICK t \in TaskSet : t.name # "tail" /\ Grows(0, <<t>>)
        BY <3>1 DEF Starts, Skipped
      <4>2. PICK s : s = <<t>>
        OBVIOUS
      <4>3. Grows(0, s) /\ \A k \in 1 .. Len(s) : s[k].name # "tail"
        BY <4>1, <4>2, OneTask
      <4> QED BY <4>3, TailIsNew
    <3>2. CASE Joined(c) \/ Queued(c)
      BY <3>2 DEF Joined, Queued, TailComes
    <3> QED BY <2>1, <3>1, <3>2
  <2>3. \A x \in runs : want'[x] = want[x]
    BY <2>1 DEF CoreInv, Types
  <2> QED BY <2>1, <2>2, <2>3 DEF ViewRests, PlacesRest, viewVars
<1>4. CASE Rests
  BY <1>4 DEF Rests, ViewRests, TailComes, flightVars, queueVars, viewVars
<1> QED BY <1>1, <1>2, <1>3, <1>4

\* A job that is not the newest reload's leaves the queue.
LEMMA LeavingView ==
  ASSUME CoreInv, JobStarts \/ EditSettles
  PROVE  ViewRests /\ ((TailComes' => TailComes) \/ (jobs # <<>> /\ jobs[1] # newest) \/ newest = None)
<1>1. CASE JobStarts
  <2>1. micro # <<>> /\ PlacesRest /\ UNCHANGED <<flightVars, newest, viewVars>> /\ jobs # <<>>
        /\ (Adding(<<>>) \/ Head(jobs) # newest)
    BY <1>1, JobStartsShape
  <2>2. ViewRests
    BY <2>1 DEF ViewRests, PlacesRest, flightVars, viewVars
  <2>3. CASE Adding(<<>>)
    BY <2>1, <2>2, <2>3, HeadAddsNone, NoneNoTail
  <2> QED BY <2>1, <2>2, <2>3
<1>2. CASE EditSettles
  <2>1. jobs # <<>> /\ UNCHANGED <<flightVars, newest, jobs, viewVars>>
    BY <1>2, EditSettlesShape
  <2>2. Head(jobs) = None
    BY <1>2 DEF EditSettles
  <2> QED BY <2>1, <2>2 DEF ViewRests, flightVars, viewVars
<1> QED BY <1>1, <1>2

\* The reload that began last still waits.
LEMMA LoadingRests ==
  ASSUME CoreInv, Loading, ViewRests, (TailComes' => TailComes) \/ (jobs # <<>> /\ jobs[1] # newest) \/ newest = None
  PROVE  Loading'
<1>1. SUFFICES ASSUME status = "loading", newest # None PROVE Loading'
  BY DEF Loading, ViewRests
<1>2. newest \in runs /\ jobs \in Seq(Nat)
  BY <1>1 DEF CoreInv, Types
<1>3. loaded' => want'[newest] # "automatic"
  BY <1>1, <1>2 DEF Loading, ViewRests
<1>4. PICK i \in 1 .. Len(jobs) : jobs[i] = newest /\ (i = 1 => ~TailComes)
  BY <1>1 DEF Loading
<1>5. i \in 1 .. Len(jobs') /\ jobs'[i] = jobs[i]
  <2>1. CASE jobs' = jobs
    BY <2>1
  <2>2. CASE jobs' = Append(jobs, None)
    <3>1. None \in Nat
      BY DEF None
    <3>2. Len(Append(jobs, None)) = Len(jobs) + 1 /\ \A k \in 1 .. Len(jobs) : Append(jobs, None)[k] = jobs[k]
      BY <1>2, <3>1, AppendProperties
    <3>3. Len(jobs) \in Nat
      BY <1>2
    <3> QED BY <2>2, <3>2, <3>3
  <2> QED BY <2>1, <2>2 DEF ViewRests
<1>6. i = 1 => ~TailComes'
  BY <1>1, <1>4
<1> QED BY <1>3, <1>4, <1>5, <1>6 DEF Loading, ViewRests

LEMMA OutranksRests ==
  ASSUME CoreInv, Starting, UserOutranksAutomatic, newest' = newest, \A x \in runs : want'[x] = want[x],
         \A i \in 1 .. Len(jobs') : jobs'[i] = None \/ \E k \in 1 .. Len(jobs) : jobs'[i] = jobs[k]
  PROVE  UserOutranksAutomatic'
<1>1. SUFFICES ASSUME NEW i \in 1 .. Len(jobs'), jobs'[i] # None, jobs'[i] # newest PROVE want'[newest] # "automatic"
  BY DEF UserOutranksAutomatic
<1>2. PICK k \in 1 .. Len(jobs) : jobs'[i] = jobs[k]
  BY <1>1
<1>3. want[newest] # "automatic"
  BY <1>1, <1>2 DEF UserOutranksAutomatic
<1>4. newest # None
  <2>1. jobs # <<>>
    BY <1>2
  <2> QED BY <2>1 DEF Starting
<1>5. newest \in runs
  BY <1>4 DEF CoreInv, Types
<1> QED BY <1>3, <1>5

LEMMA JobsKept ==
  ASSUME CoreInv, ViewRests
  PROVE  \A i \in 1 .. Len(jobs') : jobs'[i] = None \/ \E k \in 1 .. Len(jobs) : jobs'[i] = jobs[k]
<1>1. CASE jobs' = jobs
  BY <1>1
<1>2. CASE jobs' = Append(jobs, None)
  BY <1>2, PatchQueued
<1> QED BY <1>1, <1>2 DEF ViewRests

\* A reload begins.
LEMMA BeginView ==
  ASSUME CoreInv, CoreInv', IdleLooks, InStep, Starting, Loading, UserOutranksAutomatic, Begin
  PROVE  Loading' /\ UserOutranksAutomatic'
<1>1. PICK c : c = Current
  OBVIOUS
<1>2. /\ micro # <<>> /\ Head(micro).name = "begin" /\ c \in runs /\ want' = want /\ loaded' = loaded
      /\ status' = Announced(c)
      /\ \/ /\ Safe(c) /\ newest' = c /\ jobs' = Append(jobs, c)
            /\ \E s \in Seq(TaskSet) : Grows(1, s) /\ \A k \in 1 .. Len(s) : s[k].name = "job"
         \/ /\ ~Safe(c) /\ UNCHANGED <<newest, jobs>>
            /\ \E t \in TaskSet : t.name = "run" /\ Adding(<<t>>)
  BY <1>1, BeginShape DEF flightVars
<1>3. CASE ~Safe(c)
  <2>1. newest' = newest /\ jobs' = jobs /\ status' = status
    BY <1>2, <1>3 DEF Announced
  <2>2. PICK t \in TaskSet : t.name = "run" /\ Adding(<<t>>)
    BY <1>2, <1>3
  <2>3. TailComes' => TailComes
    BY <1>2, <2>2, HeadAdds, OneNoTail
  <2>4. ViewRests
    BY <1>2, <2>1 DEF ViewRests
  <2>5. Loading'
    BY <2>3, <2>4, LoadingRests
  <2>6. UserOutranksAutomatic'
    BY <2>4, JobsKept, OutranksRests DEF ViewRests
  <2> QED BY <2>5, <2>6
<1>4. CASE Safe(c)
  <2>1. newest' = c /\ jobs' = Append(jobs, c)
    BY <1>2, <1>4
  <2>2. PICK s \in Seq(TaskSet) : Grows(1, s) /\ \A k \in 1 .. Len(s) : s[k].name = "job"
    BY <1>2, <1>4
  <2>3. \A k \in 1 .. Len(s) : s[k].name # "tail"
    BY <2>2
  <2>4. TailComes' => TailComes
    BY <2>2, <2>3, TailIsNew
  <2>5. want[c] = "automatic" => jobs = <<>>
    <3>1. 1 \in 1 .. Len(micro) /\ micro[1].name = "begin" /\ micro[1].call = c
      BY <1>1, <1>2, HeadTask
    <3>2. 1 \in EarlyAt /\ Stage(micro[1], enqueued) = 6
      BY <3>1 DEF EarlyAt, EarlyName, Stage
    <3> QED BY <3>1, <3>2, AutomaticAlone
  <2>6. jobs \in Seq(Nat) /\ c \in Nat /\ Len(jobs) \in Nat
    BY <1>1, <1>2, HeadTask DEF CoreInv, Types
  <2>7. /\ Len(jobs') = Len(jobs) + 1 /\ jobs'[Len(jobs) + 1] = c
        /\ \A k \in 1 .. Len(jobs) : jobs'[k] = jobs[k]
    BY <2>1, <2>6, AppendProperties
  <2>8. Loading'
    <3>1. SUFFICES ASSUME status' = "loading" PROVE Loading'
      BY DEF Loading
    <3>2. PICK i : i = Len(jobs) + 1
      OBVIOUS
    <3>3. i \in 1 .. Len(jobs') /\ jobs'[i] = newest'
      BY <2>1, <2>6, <2>7, <3>2
    <3>4. i = 1 => ~TailComes'
      <4>1. jobs = <<>> => ~TailComes
        BY DEF CoreInv, JobsGoOn, TailComes
      <4>2. i = 1 => jobs = <<>>
        BY <2>6, <3>2, EmptySeq
      <4> QED BY <2>4, <4>1, <4>2
    <3>5. loaded' => want'[newest'] # "automatic"
      <4>1. SUFFICES ASSUME loaded, want[c] = "automatic" PROVE FALSE
        BY <1>2, <2>1
      <4>2. status = "loading"
        BY <1>2, <3>1, <4>1 DEF Announced, Background
      <4>3. newest # None
        BY <4>1 DEF Starting
      <4>4. jobs # <<>>
        BY <4>2, <4>3 DEF Loading
      <4> QED BY <2>5, <4>1, <4>4
    <3> QED BY <3>3, <3>4, <3>5 DEF Loading
  <2>9. UserOutranksAutomatic'
    <3>1. SUFFICES ASSUME NEW i \in 1 .. Len(jobs'), jobs'[i] # c, want[c] = "automatic" PROVE FALSE
      BY <1>2, <2>1 DEF UserOutranksAutomatic
    <3>2. Len(jobs) = 0
      BY <2>5, <3>1
    <3>3. i = 1
      BY <2>7, <3>1, <3>2
    <3> QED BY <2>7, <3>1, <3>2, <3>3
  <2> QED BY <2>8, <2>9
<1> QED BY <1>3, <1>4

\* An answer, or the fact that it is missing.
LEMMA LoadsView ==
  ASSUME CoreInv, Starting, Loading, UserOutranksAutomatic, LoadSucceeds \/ LoadFails
  PROVE  Loading' /\ UserOutranksAutomatic'
<1>1. /\ jobs' = jobs /\ newest' = newest /\ want' = want /\ jobs # <<>>
  BY LoadShape DEF PlacesRest, flightVars
<1>2. UserOutranksAutomatic'
  BY <1>1 DEF UserOutranksAutomatic
<1>3. Head(jobs) = jobs[1]
  BY <1>1, EmptySeq DEF CoreInv, Types
<1>4. CASE Head(jobs) # newest
  <2>1. status' = status /\ loaded' = loaded
    BY <1>4 DEF LoadSucceeds, LoadFails, IsCurrent
  <2>2. ViewRests
    BY <1>1, <2>1 DEF ViewRests
  <2>3. Loading'
    BY <1>1, <1>3, <1>4, <2>2, LoadingRests
  <2> QED BY <1>2, <2>3
<1>5. CASE Head(jobs) = newest
  <2>1. SUFFICES ASSUME status' = "loading", newest # None PROVE FALSE
    BY <1>1, <1>2 DEF Loading
  <2>2. ~LoadSucceeds
    BY <1>5, <2>1 DEF LoadSucceeds, IsCurrent
  <2>3. LoadFails
    BY <2>2
  <2>4. want[newest] = "automatic" /\ loaded /\ status = "loading"
    BY <1>5, <2>1, <2>3 DEF LoadFails, IsCurrent, Background
  <2> QED BY <2>1, <2>4 DEF Loading
<1> QED BY <1>4, <1>5

LEMMA TailView ==
  ASSUME CoreInv, Starting, Loading, UserOutranksAutomatic, TailSettles
  PROVE  Loading' /\ UserOutranksAutomatic'
<1>1. /\ micro # <<>> /\ Head(micro).name = "tail" /\ jobs # <<>> /\ jobs' = Tail(jobs)
      /\ UNCHANGED <<flightVars, newest, viewVars>>
  BY TailShape
<1>2. PICK m \in Nat, s \in Seq(TaskSet) :
        /\ Grows(1, s) /\ Len(idlers) \in Nat /\ m <= Len(idlers)
        /\ \A k \in 1 .. m : s[k] = idlers[k]
        /\ \A k \in 1 .. Len(s) : k > m => s[k].name = "job"
  BY TailShape
<1>3. want' = want /\ status' = status /\ loaded' = loaded /\ newest' = newest
  BY <1>1 DEF flightVars, viewVars
<1>4. /\ Len(jobs) \in Nat \ {0} /\ Len(jobs') = Len(jobs) - 1
      /\ \A i \in 1 .. Len(jobs') : i + 1 \in 1 .. Len(jobs) /\ jobs'[i] = jobs[i + 1]
  BY <1>1, TailGone
<1>5. UserOutranksAutomatic'
  BY <1>3, <1>4, OutranksRests
<1>6. 1 \in 1 .. Len(micro) /\ micro[1].name = "tail"
  BY <1>1, HeadTask
<1>7. ~TailComes'
  <2>1. \A k \in 1 .. Len(s) : s[k].name # "tail"
    <3>1. \A k \in 1 .. m : s[k].name = "idle"
      BY <1>2 DEF CoreInv, WaitsFit
    <3>2. Len(s) \in Nat
      BY <1>2 DEF Grows
    <3> QED BY <1>2, <3>1, <3>2
  <2>2. \A i \in 1 .. Len(micro) : micro[i].name = "tail" => i = 1
    BY <1>6 DEF CoreInv, JobsGoOn
  <2>3. ASSUME NEW i \in 1 .. Len(micro'), i + 1 \in 1 .. Len(micro), micro'[i] = micro[i + 1]
               PROVE micro'[i].name # "tail"
    <3>1. i + 1 # 1
      BY <2>3
    <3> QED BY <2>2, <2>3, <3>1
  <2>4. SUFFICES ASSUME NEW i \in 1 .. Len(micro'), micro'[i].name = "tail" PROVE FALSE
    BY DEF TailComes
  <2>5. \/ i + 1 \in 1 .. Len(micro) /\ micro'[i] = micro[i + 1]
        \/ \E k \in 1 .. Len(s) : micro'[i] = s[k]
    BY <1>2, OldOrNew
  <2> QED BY <2>1, <2>3, <2>4, <2>5
<1>8. Loading'
  <2>1. SUFFICES ASSUME status = "loading", newest # None PROVE Loading'
    BY <1>3 DEF Loading
  <2>2. PICK i \in 1 .. Len(jobs) : jobs[i] = newest /\ (i = 1 => ~TailComes)
    BY <2>1 DEF Loading
  <2>3. i # 1
    BY <1>6, <2>2 DEF TailComes
  <2>4. i - 1 \in 1 .. Len(jobs') /\ jobs'[i - 1] = newest
    <3>1. i - 1 \in 1 .. Len(jobs')
      BY <1>4, <2>3
    <3>2. jobs'[i - 1] = jobs[i - 1 + 1]
      BY <1>4, <3>1
    <3>3. i - 1 + 1 = i
      OBVIOUS
    <3> QED BY <2>2, <3>1, <3>2, <3>3
  <2>5. loaded => want[newest] # "automatic"
    BY <2>1 DEF Loading
  <2> QED BY <1>3, <1>7, <2>4, <2>5 DEF Loading
<1> QED BY <1>5, <1>8

LEMMA LoadingHolds ==
  ASSUME CoreInv, CoreInv', IdleLooks, InStep, Starting, Loading, UserOutranksAutomatic, [Next]_vars
  PROVE  Loading' /\ UserOutranksAutomatic'
<1>1. CASE ViewRests /\ ((TailComes' => TailComes) \/ (jobs # <<>> /\ jobs[1] # newest) \/ newest = None)
  <2>1. Loading'
    BY <1>1, LoadingRests
  <2>2. UserOutranksAutomatic'
    BY <1>1, JobsKept, OutranksRests DEF ViewRests
  <2> QED BY <2>1, <2>2
<1>2. CASE Operation \/ Flushed \/ Idle \/ Emptied
  BY <1>1, <1>2, OperationView
<1>3. CASE Returns \/ RunSettles \/ EntrySettles \/ Clear \/ After \/ Turn \/ Follow \/ CallerGoesOn
  BY <1>1, <1>3, TurnsView
<1>4. CASE EditTimer \/ Retry \/ Type \/ Asks \/ Rests
  BY <1>1, <1>4, EditsView
<1>5. CASE JobStarts \/ EditSettles
  BY <1>1, <1>5, LeavingView
<1>6. CASE Begin
  BY <1>6, BeginView
<1>7. CASE LoadSucceeds \/ LoadFails
  BY <1>7, LoadsView
<1>8. CASE TailSettles
  BY <1>8, TailView
<1> QED BY <1>2, <1>3, <1>4, <1>5, <1>6, <1>7, <1>8, NextCases

\* The operation of the first reload goes on.
LEMMA FirstGoesOn ==
  ASSUME CoreInv, IdleLooks, Starting, newest = None, Operation \/ Flushed \/ Idle \/ Emptied
  PROVE  Starting'
<1>1. /\ edit = "none" /\ ~retained /\ ~loaded /\ jobs = <<>> /\ settled = {}
  BY DEF Starting
<1>2. calling = "none" /\ micro # <<>> /\ calling' = calling /\ retained' = retained
  BY DEF Operation, Flushed, Idle, Emptied, Runs, editVars
<1>3. runs # {} /\ Len(micro) = 1 /\ Stage(micro[1], enqueued) # 7
  BY <1>2 DEF Starting
<1>4. loaded' = loaded
  BY OperationView DEF ViewRests
<1>5. UNCHANGED <<flightVars, promiseVars>>
  BY OperationPlain
<1>6. settled' = settled /\ runs' = runs
  BY <1>5 DEF flightVars, promiseVars
<1>7. Stage(micro[1], enqueued) # 6
  <2>1. Head(micro).name \in {"operation", "flushed", "idle", "emptied"}
    BY DEF Operation, Flushed, Idle, Emptied, Runs
  <2>2. micro[1].name \in {"operation", "flushed", "idle", "emptied"}
    BY <1>2, <2>1, HeadTask
  <2> QED BY <2>2 DEF Stage
<1>8. PICK t : HeadAdvances(t)
  BY <1>1, <1>3, <1>7, HeadGoes DEF HeadFlushes, HeadLooks, HeadLeaves, Flushing, Looking
<1>9. /\ t \in TaskSet /\ t.name \in EarlyName /\ Grows(1, <<t>>) /\ jobs' = jobs /\ enqueued' = enqueued
           /\ edit' = edit
      /\ Stage(t, enqueued) # 7
  BY <1>8 DEF HeadAdvances, Advances
<1>10. PICK s : s = <<t>>
  OBVIOUS
<1>11. Grows(1, s) /\ Len(s) = 1 /\ s[1] = t
  BY <1>9, <1>10, OneTask
<1>12. Len(micro') = 1 /\ micro'[1] = t
  BY <1>3, <1>11 DEF Grows
<1> QED BY <1>1, <1>2, <1>3, <1>4, <1>6, <1>9, <1>12 DEF Starting

LEMMA FirstStarts ==
  ASSUME CoreInv, Starting, newest = None, Asks
  PROVE  Starting'
<1>1. /\ edit = "none" /\ ~retained /\ ~loaded /\ jobs = <<>> /\ settled = {}
  BY DEF Starting
<1>2. PICK kind \in Kind, c \in Call :
        /\ micro = <<>> \/ calling # "none"
        /\ calling' = "none" /\ PlacesRest /\ UNCHANGED <<settled, newest, viewVars, retained>>
        /\ Starts(c) \/ Skipped(c) \/ Joined(c) \/ Queued(c)
  BY AskedShape
<1>3. micro = <<>> /\ active = None /\ Len(micro) = 0
  <2>1. micro = <<>> => Len(micro) # 1
    OBVIOUS
  <2> QED BY <1>2, <2>1 DEF Starting
<1>4. Starts(c)
  BY <1>2, <1>3 DEF Skipped, Joined, Queued
<1>5. PICK t \in TaskSet : t.name = "operation" /\ Grows(0, <<t>>)
  BY <1>4 DEF Starts
<1>6. PICK s : s = <<t>>
  OBVIOUS
<1>7. Grows(0, s) /\ Len(s) = 1 /\ s[1] = t
  BY <1>5, <1>6, OneTask
<1>8. Len(micro') = 1 /\ micro'[1] = t
  BY <1>3, <1>7 DEF Grows
<1>9. micro'[1].name \in EarlyName /\ Stage(micro'[1], enqueued') # 7
  BY <1>5, <1>8 DEF EarlyName, Stage
<1>10. runs' # {}
  BY <1>4 DEF Starts
<1>11. edit' = edit /\ jobs' = jobs /\ loaded' = loaded
  BY <1>2 DEF PlacesRest, viewVars
<1> QED BY <1>1, <1>2, <1>8, <1>9, <1>10, <1>11 DEF Starting

LEMMA StartingHolds ==
  ASSUME CoreInv, CoreInv', IdleLooks, Starting, [Next]_vars
  PROVE  Starting'
<1>1. SUFFICES ASSUME newest' = None PROVE Starting'
  BY DEF Starting
<1>2. CASE Begin
  <2>1. /\ Current \in runs /\ None \notin runs
        /\ (Safe(Current) /\ newest' = Current) \/ (~Safe(Current) /\ newest' = newest)
    BY <1>2, BeginShape, RunsAreCalls
  <2>2. newest = None /\ retained
    BY <1>1, <2>1 DEF Safe
  <2> QED BY <2>2 DEF Starting
<1>3. SUFFICES ASSUME ~Begin, newest = None PROVE Starting'
  <2>1. ~Begin => newest' = newest
    BY OperationView, TurnsView, EditsView, LeavingView, LoadShape, TailShape, NextCases DEF ViewRests
  <2> QED BY <1>1, <1>2, <2>1
<1>4. CASE Operation \/ Flushed \/ Idle \/ Emptied
  BY <1>3, <1>4, FirstGoesOn
<1>5. CASE Asks
  BY <1>3, <1>5, FirstStarts
<1>6. CASE JobStarts \/ TailSettles \/ LoadSucceeds \/ LoadFails \/ EditSettles
  <2>1. jobs # <<>>
    BY <1>6, JobStartsShape, TailShape, LoadShape, EditSettlesShape
  <2> QED BY <1>3, <2>1 DEF Starting
<1>7. CASE Returns \/ RunSettles \/ EntrySettles \/ Clear \/ After \/ Turn \/ Follow \/ CallerGoesOn
  <2>1. /\ micro # <<>> /\ calling = "none"
        /\ Head(micro).name \in {"return", "run", "entry", "clear", "after", "turn", "follow", "caller"}
    BY <1>7 DEF Returns, RunSettles, EntrySettles, Clear, After, Turn, Follow, CallerGoesOn, Runs
  <2>2. micro[1].name \in {"return", "run", "entry", "clear", "after", "turn", "follow", "caller"}
    BY <2>1, HeadTask
  <2>3. micro[1].name \notin EarlyName
    BY <2>2 DEF EarlyName
  <2> QED BY <1>3, <2>1, <2>3 DEF Starting
<1>8. CASE EditTimer \/ Retry \/ Type
  <2>1. micro = <<>> /\ calling = "none" /\ Len(micro) # 1
    BY <1>8 DEF EditTimer, Retry, Type, Quiet
  <2> QED BY <1>3, <2>1 DEF Starting
<1>9. CASE Rests
  BY <1>9 DEF Rests, Starting, flightVars, promiseVars, queueVars, editVars, viewVars
<1> QED BY <1>3, <1>4, <1>5, <1>6, <1>7, <1>8, <1>9, NextCases

(***************************************************************************)
(* The view goes on                                                        *)
(***************************************************************************)
\* What the single flight, the operations on their way and the view owe each other.
GoesOn ==
  /\ OperationsOnce /\ ClearsComing /\ IdleLooks /\ Chain /\ InStep
  /\ Starting /\ Loading /\ UserOutranksAutomatic

LEMMA InitGoesOn ==
  ASSUME Init
  PROVE  GoesOn
<1>1. /\ runs = {} /\ active = None /\ queued = None /\ settled = {} /\ micro = <<>> /\ jobs = <<>>
      /\ idlers = <<>> /\ flushers = <<>> /\ newest = None /\ edit = "none" /\ ~retained /\ ~loaded
      /\ calling = "initial" /\ enqueued = 0
      /\ \A x \in Call : reactions[Run(x)] = <<>> /\ reactions[Entry(x)] = <<>>
  BY PromisesApart DEF Init
<1>2. /\ \A i \in 1 .. Len(micro) : FALSE
      /\ \A i \in 1 .. Len(jobs) : FALSE
      /\ \A i \in 1 .. Len(idlers) : FALSE
      /\ \A x \in Call : \A k \in 1 .. Len(reactions[Run(x)]) : FALSE
      /\ \A x \in Call : \A k \in 1 .. Len(reactions[Entry(x)]) : FALSE
  BY <1>1
<1>3. OperationsOnce
  BY <1>1, <1>2 DEF OperationsOnce
<1>4. ClearsComing
  BY <1>1, <1>2 DEF ClearsComing
<1>5. IdleLooks
  BY <1>2 DEF IdleLooks
<1>6. Live = {}
  BY <1>1 DEF Live
<1>7. Chained = {}
  BY <1>2 DEF Chained
<1>8. OneLeads
  BY <1>2, <1>6 DEF OneLeads
<1>9. QueuedIsLast
  BY <1>2, <1>6, <1>7 DEF QueuedIsLast
<1>10. TurnsOnce
  BY <1>2, <1>6 DEF TurnsOnce
<1>11. NoneEarly
  BY <1>1, <1>2 DEF NoneEarly, EarlyAt
<1>12. Starting
  BY <1>1 DEF Starting
<1>13. Loading /\ UserOutranksAutomatic
  BY <1>1, <1>2 DEF Loading, UserOutranksAutomatic
<1> QED BY <1>3, <1>4, <1>5, <1>8, <1>9, <1>10, <1>11, <1>12, <1>13 DEF GoesOn, Chain, InStep

LEMMA NextGoesOn ==
  ASSUME CoreInv, CoreInv', GoesOn, [Next]_vars
  PROVE  GoesOn'
<1>1. /\ OperationsOnce /\ ClearsComing /\ IdleLooks /\ Chain /\ InStep
      /\ Starting /\ Loading /\ UserOutranksAutomatic
  BY DEF GoesOn
<1>2. OperationsOnce'
  BY <1>1, OperationsOnceHolds
<1>3. ClearsComing'
  BY <1>1, ClearsHold
<1>4. IdleLooks'
  BY <1>1, LooksHold
<1>5. Chain'
  BY <1>1, ChainHolds
<1>6. InStep'
  BY <1>1, InStepHolds
<1>7. Starting'
  BY <1>1, StartingHolds
<1>8. Loading' /\ UserOutranksAutomatic'
  BY <1>1, LoadingHolds
<1> QED BY <1>2, <1>3, <1>4, <1>5, <1>6, <1>7, <1>8 DEF GoesOn

\* The automatic refresh runs or is armed: whoever ends it arms the timer in a visible tab.
LEMMA RefreshStays ==
  ASSUME RefreshGoesOn, [Next]_vars
  PROVE  RefreshGoesOn'
<1>1. CASE UNCHANGED autoVars
  BY <1>1 DEF RefreshGoesOn, autoVars
<1>2. CASE CallerGoesOn
  <2>1. visible' = visible /\ ((timer' = visible) \/ UNCHANGED <<refreshing, timer>>)
    BY <1>2 DEF CallerGoesOn, AutomaticEnds
  <2>2. CASE timer' = visible
    BY <2>1, <2>2, Zenon DEF RefreshGoesOn
  <2>3. CASE UNCHANGED <<refreshing, timer>>
    BY <2>1, <2>3 DEF RefreshGoesOn
  <2> QED BY <2>1, <2>2, <2>3
<1>3. CASE TimerFires
  BY <1>3 DEF TimerFires, Attempt, RefreshGoesOn
<1>4. CASE Hide
  BY <1>4 DEF Hide, RefreshGoesOn
<1>5. CASE Show
  <2>1. CASE Attempt
    BY <2>1 DEF Attempt, RefreshGoesOn
  <2>2. CASE timer' = ~refreshing /\ refreshing' = refreshing
    BY <2>2, Zenon DEF RefreshGoesOn
  <2> QED BY <1>5, <2>1, <2>2 DEF Show
<1>6. CASE UNCHANGED vars
  BY <1>6 DEF vars, autoVars, RefreshGoesOn
<1> QED
  BY <1>1, <1>2, <1>3, <1>4, <1>5, <1>6
     DEF Next, Microtask, GoOn, Operation, Flushed, Idle, Emptied, Begin, JobStarts, TailSettles, Returns, RunSettles,
         EntrySettles, Clear, After, Turn, Follow, LoadSucceeds, LoadFails, EditTimer, EditSettles, UserAsks, Type,
         Retry, Flies

LEMMA TypesKnown ==
  ASSUME CoreInv, GoesOn
  PROVE  TypeOK
<1>1. Types
  BY DEF CoreInv
<1>2. jobs \in Seq(runs \cup {None})
  <2>1. jobs \in Seq(Nat) /\ \A i \in 1 .. Len(jobs) : jobs[i] \in runs \cup {None}
    BY DEF CoreInv, Types, WaitsFit
  <2>2. jobs \in [1 .. Len(jobs) -> runs \cup {None}] /\ Len(jobs) \in Nat
    BY <2>1
  <2> QED BY <2>2
<1>3. working => jobs # <<>>
  BY DEF CoreInv, JobsGoOn
<1>4. Quiet => active \notin settled
  BY DEF Quiet, GoesOn, ClearsComing
<1> QED BY <1>1, <1>2, <1>3, <1>4 DEF Types, TypeOK

LEMMA LoadingIsBusy ==
  ASSUME CoreInv, GoesOn
  PROVE  LoadingEnds
<1>1. SUFFICES ASSUME status = "loading", calling = "none" PROVE runs # settled
  BY DEF LoadingEnds
<1>2. CASE newest = None
  BY <1>1, <1>2 DEF GoesOn, Starting
<1>3. CASE newest # None
  <2>1. PICK i \in 1 .. Len(jobs) : jobs[i] = newest /\ (i = 1 => ~TailComes)
    BY <1>1, <1>3 DEF GoesOn, Loading
  <2>2. ~Over(newest)
    BY <1>3, <2>1 DEF GoesOn, OperationsOnce
  <2>3. newest \in runs
    BY <1>3 DEF CoreInv, Types
  <2> QED BY <2>2, <2>3 DEF Over
<1> QED BY <1>2, <1>3

\* Whatever reloads supersede, refuse or outlive each other, the view does not load for ever,
\* the automatic refresh never ends and never voids a reload the user asked for.
THEOREM ViewKeepsGoing == Spec => []ViewGoesOn
<1> DEFINE Inv == CoreInv /\ GoesOn /\ RefreshGoesOn
<1>1. Init => Inv
  BY InitCore, InitGoesOn DEF Init, RefreshGoesOn
<1>2. Inv /\ [Next]_vars => Inv'
  <2>1. SUFFICES ASSUME CoreInv, GoesOn, RefreshGoesOn, [Next]_vars PROVE Inv'
    OBVIOUS
  <2>2. CoreInv'
    BY <2>1, NextCore
  <2>3. GoesOn'
    BY <2>1, <2>2, NextGoesOn
  <2>4. RefreshGoesOn'
    BY <2>1, RefreshStays
  <2> QED BY <2>2, <2>3, <2>4
<1>3. Inv => ViewGoesOn
  BY TypesKnown, LoadingIsBusy DEF ViewGoesOn, GoesOn
<1> QED BY <1>1, <1>2, <1>3, PTL DEF Spec
===============================================================================
