--------------------------- MODULE DataReloadProofs ---------------------------
(***************************************************************************)
(* Proofs about DataReload for every number of calls and edits: whoever    *)
(* asks for a reload gets the answer of one with his own options, and a    *)
(* refused edit outlives every reload that was not told what to do with it.*)
(***************************************************************************)
EXTENDS DataReload, SequenceTheorems, TLAPS

(***************************************************************************)
(* What is in the microtask queue                                          *)
(***************************************************************************)
\* An operation on its way to the queue of jobs, and on its way from there.
EarlyName    == {"operation", "flushed", "idle", "emptied", "begin"}
LateName     == {"return", "run"}
ReactionName == {"clear", "caller", "entry", "after"}
TaskName     == EarlyName \cup LateName \cup ReactionName \cup {"job", "tail", "turn", "follow"}

ResultSet == [code : {"none", "ok", "failed", "refused", "superseded", "skipped"}, from : Nat]
TaskSet   == [name : TaskName, call : Nat, arg : ResultSet]

Types ==
  /\ want \in Seq(Kind) /\ Made <= MaxCalls
  /\ runs \subseteq 1 .. Made /\ settled \subseteq runs /\ answered \subseteq 1 .. Made
  /\ active \in runs \cup {None} /\ queued \in 0 .. Made /\ newest \in runs \cup {None}
  /\ jobs \in Seq(Nat) /\ working \in BOOLEAN /\ enqueued \in Nat /\ Len(jobs) <= enqueued
  /\ flushers \in Seq(Nat) /\ idlers \in Seq(TaskSet)
  /\ edit \in {"none", "pending", "flying"} /\ typed \in 0 .. MaxEdits
  /\ retained \in BOOLEAN /\ loaded \in BOOLEAN
  /\ status \in {"loading", "ready", "error"}
  /\ calling \in {"none", "initial", "discard"}
  /\ micro \in Seq(TaskSet) /\ reactions \in [Promise -> Seq(TaskSet)]

\* Every task is about a call that was made, and what it is given comes from a reload
\* with the options of that call.
TaskFits(t) ==
  /\ t.name \in EarlyName \cup LateName \cup {"clear"} => t.call \in runs
  /\ t.name \in {"caller", "entry", "after", "turn", "follow"} => t.call \in 1 .. Made
  /\ t.name \in LateName => t.arg.from = t.call
  /\ t.name \in {"caller", "entry"} => t.arg.from \in 1 .. Made /\ want[t.arg.from] = want[t.call]
  /\ t.name = "follow" => t.arg.from \in runs /\ want[t.arg.from] = want[t.call]

\* So is whatever waits for the promise of a call.
RunFits(x, t) ==
  /\ x \in runs /\ t.name \in ReactionName /\ t.call \in 1 .. Made
  /\ t.name = "clear" => t.call = x
  /\ t.name \in {"caller", "entry"} => want[t.call] = want[x]

EntryFits(x, t) ==
  /\ x \in 1 .. Made /\ t.name \in {"caller", "after"} /\ t.call \in 1 .. Made
  /\ t.name = "caller" => want[t.call] = want[x]

TasksFit == \A i \in 1 .. Len(micro) : TaskFits(micro[i])

ReactionsFit ==
  \A x \in Call :
    /\ \A i \in 1 .. Len(reactions[Run(x)]) : RunFits(x, reactions[Run(x)][i])
    /\ \A i \in 1 .. Len(reactions[Entry(x)]) : EntryFits(x, reactions[Entry(x)][i])

\* So is every job, and every wait for the queue of jobs.
WaitsFit ==
  /\ \A i \in 1 .. Len(idlers) : idlers[i].name = "idle" /\ idlers[i].call \in runs
  /\ \A i \in 1 .. Len(flushers) : flushers[i] \in runs
  /\ \A i \in 1 .. Len(jobs) : jobs[i] \in runs \cup {None}

\* The head job is at work, or one task of the queue goes on with it.
JobsGoOn ==
  /\ jobs = <<>> => ~working
  /\ \A i \in 1 .. Len(micro) : micro[i].name \in {"job", "tail"} =>
       /\ jobs # <<>> /\ ~working
       /\ \A j \in 1 .. Len(micro) : micro[j].name \in {"job", "tail"} => i = j

\* A patch is the last job, for nobody begins while an edit is unsaved.
PatchIsLast ==
  \A i \in 1 .. Len(jobs) : jobs[i] = None =>
    /\ i = Len(jobs)
    /\ \/ edit = "flying"
       \/ i = 1 /\ calling = "none" /\ micro # <<>> /\ Head(micro).name = "tail"

EditsKnown ==
  /\ flushers # <<>> => edit = "flying"
  /\ \A i \in 1 .. Len(micro) : micro[i].name \in {"flushed", "begin"} => edit = "none"

\* Whoever waits for its turn while a refused patch is kept knows what to do with it.
JobsAreSafe ==
  \A i \in 1 .. Len(jobs) : jobs[i] # None /\ retained => want[jobs[i]] \in {"discard", "preserve"}

CoreInv ==
  /\ Types /\ TasksFit /\ ReactionsFit /\ WaitsFit
  /\ JobsGoOn /\ PatchIsLast /\ EditsKnown /\ JobsAreSafe

(***************************************************************************)
(* Tasks and the queue of them                                             *)
(***************************************************************************)
LEMMA ResultType ==
  ASSUME NEW code \in {"none", "ok", "failed", "refused", "superseded", "skipped"}, NEW from \in Nat
  PROVE  /\ Result(code, from) \in ResultSet
         /\ Result(code, from).code = code /\ Result(code, from).from = from
BY DEF Result, ResultSet

LEMMA NothingType == Nothing \in ResultSet
BY DEF Nothing, Result, ResultSet, None

LEMMA Names ==
  /\ "operation" \in TaskName /\ "flushed" \in TaskName /\ "idle" \in TaskName /\ "emptied" \in TaskName
  /\ "begin" \in TaskName /\ "return" \in TaskName /\ "run" \in TaskName /\ "clear" \in TaskName
  /\ "caller" \in TaskName /\ "entry" \in TaskName /\ "after" \in TaskName /\ "turn" \in TaskName
  /\ "follow" \in TaskName /\ "job" \in TaskName /\ "tail" \in TaskName
BY DEF TaskName, EarlyName, LateName, ReactionName

LEMMA TaskType ==
  ASSUME NEW name \in TaskName, NEW c \in Nat, NEW arg \in ResultSet
  PROVE  /\ Task(name, c, arg) \in TaskSet
         /\ Task(name, c, arg).name = name /\ Task(name, c, arg).call = c /\ Task(name, c, arg).arg = arg
BY DEF Task, TaskSet

LEMMA PlainTask ==
  ASSUME NEW name \in TaskName, NEW c \in Nat
  PROVE  /\ Task(name, c, Nothing) \in TaskSet
         /\ Task(name, c, Nothing).name = name /\ Task(name, c, Nothing).call = c
         /\ Task(name, c, Nothing).arg = Nothing
BY TaskType, NothingType

LEMMA GivenTask ==
  ASSUME NEW name \in TaskName, NEW c \in Nat, NEW from \in Nat,
         NEW code \in {"none", "ok", "failed", "refused", "superseded", "skipped"}
  PROVE  LET t == Task(name, c, Result(code, from))
         IN  /\ t \in TaskSet /\ t.name = name /\ t.call = c
             /\ t.arg = Result(code, from) /\ t.arg.code = code /\ t.arg.from = from
<1> DEFINE r == Result(code, from)
<1>1. r \in ResultSet /\ r.code = code /\ r.from = from
  BY ResultType
<1> HIDE DEF r
<1>2. Task(name, c, r) \in TaskSet /\ Task(name, c, r).name = name /\ Task(name, c, r).call = c
      /\ Task(name, c, r).arg = r
  BY <1>1, TaskType
<1> QED BY <1>1, <1>2 DEF r

\* What a task is made of.
LEMMA TaskParts ==
  ASSUME NEW t \in TaskSet
  PROVE  /\ t.name \in TaskName /\ t.call \in Nat /\ t.arg \in ResultSet
         /\ t.arg.code \in {"none", "ok", "failed", "refused", "superseded", "skipped"} /\ t.arg.from \in Nat
BY DEF TaskSet, ResultSet

\* The queue after its head has run and added tasks.
LEMMA Added ==
  ASSUME micro \in Seq(TaskSet), micro # <<>>, NEW s \in Seq(TaskSet), micro' = Tail(micro) \o s
  PROVE  /\ micro' \in Seq(TaskSet) /\ Len(micro) \in Nat \ {0} /\ Len(s) \in Nat
         /\ Head(micro) = micro[1] /\ micro[1] \in TaskSet
         /\ Len(micro') = Len(micro) - 1 + Len(s)
         /\ \A i \in 1 .. Len(micro) - 1 : micro'[i] = micro[i + 1]
         /\ \A i \in 1 .. Len(s) : micro'[Len(micro) - 1 + i] = s[i]
<1>1. /\ Tail(micro) \in Seq(TaskSet) /\ Len(Tail(micro)) = Len(micro) - 1
      /\ \A i \in 1 .. Len(micro) - 1 : Tail(micro)[i] = micro[i + 1]
  BY HeadTailProperties
<1>2. Len(micro) \in Nat \ {0} /\ Len(s) \in Nat
  BY LenProperties, EmptySeq
<1>3. /\ micro' \in Seq(TaskSet) /\ Len(micro') = Len(micro) - 1 + Len(s)
      /\ \A i \in 1 .. Len(micro) - 1 + Len(s) : micro'[i] =
           IF i <= Len(micro) - 1 THEN Tail(micro)[i] ELSE s[i - (Len(micro) - 1)]
  BY <1>1, ConcatProperties
<1>4. Head(micro) = micro[1] /\ micro[1] \in TaskSet
  BY <1>2, ElementOfSeq
<1>5. ASSUME NEW i \in 1 .. Len(s) PROVE micro'[Len(micro) - 1 + i] = s[i]
  <2>1. Len(micro) - 1 + i \in 1 .. Len(micro) - 1 + Len(s) /\ ~(Len(micro) - 1 + i <= Len(micro) - 1)
    BY <1>2
  <2>2. (Len(micro) - 1 + i) - (Len(micro) - 1) = i
    BY <1>2
  <2> QED BY <1>3, <2>1, <2>2
<1>6. ASSUME NEW i \in 1 .. Len(micro) - 1 PROVE micro'[i] = micro[i + 1]
  BY <1>1, <1>2, <1>3
<1> QED BY <1>2, <1>3, <1>4, <1>5, <1>6

\* Where each task of the queue then comes from.
LEMMA AddedNone ==
  ASSUME micro \in Seq(TaskSet), micro # <<>>, micro' = Tail(micro) \o <<>>
  PROVE  /\ micro' \in Seq(TaskSet) /\ Len(micro) \in Nat \ {0} /\ Len(micro') = Len(micro) - 1
         /\ Head(micro) = micro[1] /\ micro[1] \in TaskSet
         /\ \A i \in 1 .. Len(micro') : i + 1 \in 2 .. Len(micro) /\ micro'[i] = micro[i + 1]
<1>1. <<>> \in Seq(TaskSet) /\ Len(<<>>) = 0
  BY EmptySeq
<1> QED BY <1>1, Added

LEMMA AddedOne ==
  ASSUME micro \in Seq(TaskSet), micro # <<>>, NEW t \in TaskSet, micro' = Tail(micro) \o <<t>>
  PROVE  /\ micro' \in Seq(TaskSet) /\ Len(micro) \in Nat \ {0} /\ Len(micro') = Len(micro)
         /\ Head(micro) = micro[1] /\ micro[1] \in TaskSet
         /\ \A i \in 1 .. Len(micro') :
              \/ i < Len(micro) /\ i + 1 \in 2 .. Len(micro) /\ micro'[i] = micro[i + 1]
              \/ i = Len(micro) /\ micro'[i] = t
<1>1. <<t>> \in Seq(TaskSet) /\ Len(<<t>>) = 1 /\ <<t>>[1] = t
  OBVIOUS
<1>2. micro'[Len(micro) - 1 + 1] = t
  BY <1>1, Added
<1> QED BY <1>1, <1>2, Added

LEMMA AddedTwo ==
  ASSUME micro \in Seq(TaskSet), micro # <<>>, NEW t \in TaskSet, NEW u \in TaskSet, micro' = Tail(micro) \o <<t, u>>
  PROVE  /\ micro' \in Seq(TaskSet) /\ Len(micro) \in Nat \ {0} /\ Len(micro') = Len(micro) + 1
         /\ Head(micro) = micro[1] /\ micro[1] \in TaskSet
         /\ \A i \in 1 .. Len(micro') :
              \/ i < Len(micro) /\ i + 1 \in 2 .. Len(micro) /\ micro'[i] = micro[i + 1]
              \/ i = Len(micro) /\ micro'[i] = t
              \/ i = Len(micro) + 1 /\ micro'[i] = u
<1>1. <<t, u>> \in Seq(TaskSet) /\ Len(<<t, u>>) = 2 /\ <<t, u>>[1] = t /\ <<t, u>>[2] = u
  OBVIOUS
<1>2. micro'[Len(micro) - 1 + 1] = t /\ micro'[Len(micro) - 1 + 2] = u
  BY <1>1, Added
<1> QED BY <1>1, <1>2, Added

LEMMA AddedMany ==
  ASSUME micro \in Seq(TaskSet), micro # <<>>, NEW s \in Seq(TaskSet), micro' = Tail(micro) \o s
  PROVE  /\ micro' \in Seq(TaskSet) /\ Len(micro) \in Nat \ {0} /\ Len(s) \in Nat
         /\ Len(micro') = Len(micro) - 1 + Len(s)
         /\ Head(micro) = micro[1] /\ micro[1] \in TaskSet
         /\ \A i \in 1 .. Len(micro') :
              \/ i < Len(micro) /\ i + 1 \in 2 .. Len(micro) /\ micro'[i] = micro[i + 1]
              \/ \E k \in 1 .. Len(s) : i = Len(micro) - 1 + k /\ micro'[i] = s[k]
<1>1. /\ micro' \in Seq(TaskSet) /\ Len(micro) \in Nat \ {0} /\ Len(s) \in Nat
      /\ Head(micro) = micro[1] /\ micro[1] \in TaskSet
      /\ Len(micro') = Len(micro) - 1 + Len(s)
      /\ \A i \in 1 .. Len(micro) - 1 : micro'[i] = micro[i + 1]
      /\ \A i \in 1 .. Len(s) : micro'[Len(micro) - 1 + i] = s[i]
  BY Added
<1>2. ASSUME NEW i \in 1 .. Len(micro'), ~(i < Len(micro))
      PROVE  \E k \in 1 .. Len(s) : i = Len(micro) - 1 + k /\ micro'[i] = s[k]
  <2> DEFINE k == i - (Len(micro) - 1)
  <2>1. k \in 1 .. Len(s) /\ Len(micro) - 1 + k = i
    BY <1>1, <1>2
  <2> QED BY <1>1, <2>1
<1>3. ASSUME NEW i \in 1 .. Len(micro'), i < Len(micro)
      PROVE  i + 1 \in 2 .. Len(micro) /\ micro'[i] = micro[i + 1]
  BY <1>1, <1>3
<1> QED BY <1>1, <1>2, <1>3

\* A task at the end of a line.
LEMMA Appended ==
  ASSUME NEW S, NEW s \in Seq(S), NEW t \in S
  PROVE  /\ Append(s, t) \in Seq(S) /\ Len(s) \in Nat /\ Len(Append(s, t)) = Len(s) + 1
         /\ \A i \in 1 .. Len(s) : Append(s, t)[i] = s[i]
         /\ Append(s, t)[Len(s) + 1] = t
BY LenProperties

(***************************************************************************)
(* The reactions to promises                                               *)
(***************************************************************************)
LEMMA RunChanged ==
  ASSUME reactions \in [Promise -> Seq(TaskSet)], NEW c \in Call, NEW s \in Seq(TaskSet),
         reactions' = [reactions EXCEPT ![Run(c)] = s]
  PROVE  /\ reactions' \in [Promise -> Seq(TaskSet)]
         /\ \A x \in Call : reactions'[Run(x)] = IF x = c THEN s ELSE reactions[Run(x)]
         /\ \A x \in Call : reactions'[Entry(x)] = reactions[Entry(x)]
BY DEF Run, Entry, Promise

LEMMA EntryChanged ==
  ASSUME reactions \in [Promise -> Seq(TaskSet)], NEW c \in Call, NEW s \in Seq(TaskSet),
         reactions' = [reactions EXCEPT ![Entry(c)] = s]
  PROVE  /\ reactions' \in [Promise -> Seq(TaskSet)]
         /\ \A x \in Call : reactions'[Entry(x)] = IF x = c THEN s ELSE reactions[Entry(x)]
         /\ \A x \in Call : reactions'[Run(x)] = reactions[Run(x)]
BY DEF Run, Entry, Promise

LEMMA RunCleared ==
  ASSUME reactions \in [Promise -> Seq(TaskSet)], NEW c \in Call,
         reactions' = [reactions EXCEPT ![Run(c)] = <<>>]
  PROVE  /\ reactions' \in [Promise -> Seq(TaskSet)]
         /\ \A x \in Call : reactions'[Run(x)] = (IF x = c THEN <<>> ELSE reactions[Run(x)])
         /\ \A x \in Call : reactions'[Entry(x)] = reactions[Entry(x)]
BY DEF Run, Entry, Promise

LEMMA EntryCleared ==
  ASSUME reactions \in [Promise -> Seq(TaskSet)], NEW c \in Call,
         reactions' = [reactions EXCEPT ![Entry(c)] = <<>>]
  PROVE  /\ reactions' \in [Promise -> Seq(TaskSet)]
         /\ \A x \in Call : reactions'[Entry(x)] = (IF x = c THEN <<>> ELSE reactions[Entry(x)])
         /\ \A x \in Call : reactions'[Run(x)] = reactions[Run(x)]
BY DEF Run, Entry, Promise

LEMMA RunAppended ==
  ASSUME reactions \in [Promise -> Seq(TaskSet)], NEW c \in Call, NEW t \in TaskSet,
         reactions' = Then(Run(c), t)
  PROVE  /\ reactions' \in [Promise -> Seq(TaskSet)]
         /\ \A x \in Call : x # c => reactions'[Run(x)] = reactions[Run(x)]
         /\ \A x \in Call : reactions'[Entry(x)] = reactions[Entry(x)]
         /\ Len(reactions[Run(c)]) \in Nat /\ Len(reactions'[Run(c)]) = Len(reactions[Run(c)]) + 1
         /\ \A i \in 1 .. Len(reactions[Run(c)]) : reactions'[Run(c)][i] = reactions[Run(c)][i]
         /\ reactions'[Run(c)][Len(reactions[Run(c)]) + 1] = t
<1> DEFINE old == reactions[Run(c)]
<1> DEFINE new == Append(old, t)
<1>1. reactions' = [reactions EXCEPT ![Run(c)] = new]
  BY DEF Then
<1>2. old \in Seq(TaskSet)
  BY DEF Run, Promise
<1> HIDE DEF old
<1>3. /\ new \in Seq(TaskSet) /\ Len(old) \in Nat /\ Len(new) = Len(old) + 1
      /\ \A i \in 1 .. Len(old) : new[i] = old[i]
      /\ new[Len(old) + 1] = t
  BY <1>2, Appended
<1> HIDE DEF new
<1>4. /\ reactions' \in [Promise -> Seq(TaskSet)]
      /\ \A x \in Call : reactions'[Run(x)] = IF x = c THEN new ELSE reactions[Run(x)]
      /\ \A x \in Call : reactions'[Entry(x)] = reactions[Entry(x)]
  BY <1>1, <1>3, RunChanged
<1> QED BY <1>3, <1>4 DEF old

LEMMA EntryAppended ==
  ASSUME reactions \in [Promise -> Seq(TaskSet)], NEW c \in Call, NEW t \in TaskSet,
         reactions' = Then(Entry(c), t)
  PROVE  /\ reactions' \in [Promise -> Seq(TaskSet)]
         /\ \A x \in Call : x # c => reactions'[Entry(x)] = reactions[Entry(x)]
         /\ \A x \in Call : reactions'[Run(x)] = reactions[Run(x)]
         /\ Len(reactions[Entry(c)]) \in Nat /\ Len(reactions'[Entry(c)]) = Len(reactions[Entry(c)]) + 1
         /\ \A i \in 1 .. Len(reactions[Entry(c)]) : reactions'[Entry(c)][i] = reactions[Entry(c)][i]
         /\ reactions'[Entry(c)][Len(reactions[Entry(c)]) + 1] = t
<1> DEFINE old == reactions[Entry(c)]
<1> DEFINE new == Append(old, t)
<1>1. reactions' = [reactions EXCEPT ![Entry(c)] = new]
  BY DEF Then
<1>2. old \in Seq(TaskSet)
  BY DEF Entry, Promise
<1> HIDE DEF old
<1>3. /\ new \in Seq(TaskSet) /\ Len(old) \in Nat /\ Len(new) = Len(old) + 1
      /\ \A i \in 1 .. Len(old) : new[i] = old[i]
      /\ new[Len(old) + 1] = t
  BY <1>2, Appended
<1> HIDE DEF new
<1>4. /\ reactions' \in [Promise -> Seq(TaskSet)]
      /\ \A x \in Call : reactions'[Entry(x)] = IF x = c THEN new ELSE reactions[Entry(x)]
      /\ \A x \in Call : reactions'[Run(x)] = reactions[Run(x)]
  BY <1>1, <1>3, EntryChanged
<1> QED BY <1>3, <1>4 DEF old

LEMMA ReactionType ==
  ASSUME reactions \in [Promise -> Seq(TaskSet)], NEW c \in Call
  PROVE  /\ reactions[Run(c)] \in Seq(TaskSet) /\ reactions[Entry(c)] \in Seq(TaskSet)
         /\ Run(c) \in Promise /\ Entry(c) \in Promise
         /\ Len(reactions[Run(c)]) \in Nat /\ Len(reactions[Entry(c)]) \in Nat
<1>1. Run(c) \in Promise /\ Entry(c) \in Promise
  BY DEF Run, Entry, Promise
<1> QED BY <1>1, LenProperties

\* What a promise tells: each of its reactions is given the result.
LEMMA ToldTasks ==
  ASSUME NEW p \in Promise, reactions \in [Promise -> Seq(TaskSet)], NEW result \in ResultSet
  PROVE  /\ Told(p, result) \in Seq(TaskSet) /\ Len(Told(p, result)) = Len(reactions[p])
         /\ Len(reactions[p]) \in Nat
         /\ \A i \in 1 .. Len(reactions[p]) :
              /\ Told(p, result)[i].name = reactions[p][i].name
              /\ Told(p, result)[i].call = reactions[p][i].call
              /\ Told(p, result)[i].arg = result
<1>1. reactions[p] \in Seq(TaskSet) /\ Len(reactions[p]) \in Nat
  BY LenProperties
<1>2. ASSUME NEW i \in 1 .. Len(reactions[p])
      PROVE  LET t == [reactions[p][i] EXCEPT !.arg = result]
             IN  t \in TaskSet /\ t.name = reactions[p][i].name /\ t.call = reactions[p][i].call /\ t.arg = result
  <2>1. reactions[p][i] \in TaskSet
    BY <1>1, ElementOfSeq
  <2> QED BY <2>1 DEF TaskSet
<1>3. Told(p, result) = [i \in 1 .. Len(reactions[p]) |-> [reactions[p][i] EXCEPT !.arg = result]]
  BY DEF Told
<1>4. Told(p, result) \in [1 .. Len(reactions[p]) -> TaskSet]
  BY <1>2, <1>3
<1>5. Told(p, result) \in Seq(TaskSet)
  BY <1>1, <1>4, SeqDef
<1>6. DOMAIN Told(p, result) = 1 .. Len(Told(p, result)) /\ Len(Told(p, result)) \in Nat
  BY <1>5, LenProperties
<1>7. Len(Told(p, result)) = Len(reactions[p])
  BY <1>1, <1>4, <1>6
<1> QED BY <1>1, <1>2, <1>3, <1>5, <1>7

(***************************************************************************)
(* What most steps leave alone                                             *)
(***************************************************************************)
\* The task that runs now.
LEMMA HeadTask ==
  ASSUME CoreInv, NEW name, micro # <<>>, Head(micro).name = name
  PROVE  /\ Len(micro) \in Nat \ {0} /\ 1 \in 1 .. Len(micro)
         /\ Head(micro) = micro[1] /\ micro[1] \in TaskSet /\ micro[1].name = name
         /\ Current = micro[1].call /\ Given = micro[1].arg
         /\ Current \in Nat /\ Given \in ResultSet
         /\ TaskFits(micro[1])
<1>1. micro \in Seq(TaskSet)
  BY DEF CoreInv, Types
<1>2. Len(micro) \in Nat \ {0} /\ 1 \in 1 .. Len(micro) /\ Head(micro) = micro[1] /\ micro[1] \in TaskSet
  BY <1>1, EmptySeq, ElementOfSeq
<1>3. TaskFits(micro[1])
  BY <1>2 DEF CoreInv, TasksFit
<1> QED BY <1>2, <1>3, TaskParts DEF Current, Given

\* Calls and operations are only added.
Extends ==
  /\ runs \subseteq runs' /\ Made' \in Nat /\ Made <= Made'
  /\ \A c \in 1 .. Made : want'[c] = want[c]

QueuesRest == UNCHANGED <<jobs, working, edit, retained, flushers, idlers>>

\* The tail of the head job has not just been settled by a patch.
NoTailRuns == calling # "none" \/ micro = <<>> \/ Head(micro).name # "tail"

LEMMA PatchFlies ==
  ASSUME CoreInv, NoTailRuns, NEW i \in 1 .. Len(jobs), jobs[i] = None
  PROVE  i = Len(jobs) /\ edit = "flying"
BY DEF CoreInv, PatchIsLast, NoTailRuns

LEMMA MicroType ==
  ASSUME CoreInv
  PROVE  micro \in Seq(TaskSet)
BY DEF CoreInv, Types

LEMMA MadeIsNat ==
  ASSUME CoreInv
  PROVE  /\ Made \in Nat /\ Made <= MaxCalls /\ 1 .. Made \subseteq Call /\ MaxCalls \in Nat \ {0}
         /\ runs \subseteq Call /\ \A c \in 1 .. Made : want[c] \in Kind
<1>1. Len(want) \in Nat /\ \A c \in 1 .. Len(want) : want[c] \in Kind
  BY LenProperties, ElementOfSeq DEF CoreInv, Types
<1> QED BY <1>1, BoundAssumption DEF CoreInv, Types, Made, Call

LEMMA OldCalls ==
  ASSUME CoreInv, Extends
  PROVE  /\ runs \subseteq 1 .. Made /\ Made \in Nat /\ Made' \in Nat /\ runs \subseteq runs'
         /\ \A x \in 1 .. Made : x \in 1 .. Made' /\ want'[x] = want[x]
<1>1. runs \subseteq 1 .. Made /\ Made \in Nat
  BY MadeIsNat DEF CoreInv, Types
<1>2. Made' \in Nat /\ Made <= Made' /\ runs \subseteq runs' /\ \A c \in 1 .. Made : want'[c] = want[c]
  BY DEF Extends
<1> QED BY <1>1, <1>2

LEMMA WantKept ==
  ASSUME CoreInv, UNCHANGED want, runs \subseteq runs'
  PROVE  Extends
BY MadeIsNat DEF Extends, Made

LEMMA ReactionsKept ==
  ASSUME CoreInv, Extends, UNCHANGED reactions
  PROVE  ReactionsFit'
<1>1. ReactionsFit /\ runs \subseteq 1 .. Made
  BY DEF CoreInv, Types
<1>2. Made \in Nat /\ Made' \in Nat
  BY MadeIsNat DEF Extends
<1>3. ASSUME NEW x \in Call, NEW i \in 1 .. Len(reactions[Run(x)]) PROVE RunFits(x, reactions[Run(x)][i])'
  <2>1. RunFits(x, reactions[Run(x)][i])
    BY <1>1 DEF ReactionsFit
  <2> DEFINE t == reactions[Run(x)][i]
  <2>2. /\ x \in runs /\ t.name \in ReactionName /\ t.call \in 1 .. Made /\ (t.name = "clear" => t.call = x)
        /\ (t.name \in {"caller", "entry"} => want[t.call] = want[x])
    BY <2>1 DEF RunFits
  <2>3. x \in runs' /\ x \in 1 .. Made /\ t.call \in 1 .. Made'
    BY <1>1, <1>2, <2>2 DEF Extends
  <2>4. want'[t.call] = want[t.call] /\ want'[x] = want[x]
    BY <2>2, <2>3 DEF Extends
  <2>5. reactions' = reactions
    OBVIOUS
  <2> QED BY <2>2, <2>3, <2>4, <2>5 DEF RunFits
<1>4. ASSUME NEW x \in Call, NEW i \in 1 .. Len(reactions[Entry(x)]) PROVE EntryFits(x, reactions[Entry(x)][i])'
  <2>1. EntryFits(x, reactions[Entry(x)][i])
    BY <1>1 DEF ReactionsFit
  <2> QED BY <1>1, <1>2, <2>1 DEF EntryFits, Extends
<1> QED BY <1>3, <1>4 DEF ReactionsFit

LEMMA OldTaskFits ==
  ASSUME CoreInv, Extends, NEW t, TaskFits(t)
  PROVE  TaskFits(t)'
<1>1. runs \subseteq 1 .. Made /\ Made \in Nat /\ Made' \in Nat /\ runs \subseteq runs'
  BY MadeIsNat DEF CoreInv, Types, Extends
<1>2. \A c \in 1 .. Made : c \in 1 .. Made' /\ want'[c] = want[c]
  BY <1>1 DEF Extends
<1>3. (t.name \in EarlyName \cup LateName \cup {"clear"} => t.call \in runs)'
  BY <1>1 DEF TaskFits, EarlyName, LateName
<1>4. (t.name \in {"caller", "entry", "after", "turn", "follow"} => t.call \in 1 .. Made)'
  BY <1>2 DEF TaskFits
<1>5. t.name \in LateName => t.arg.from = t.call
  BY DEF TaskFits
<1>6. (t.name \in {"caller", "entry"} => t.arg.from \in 1 .. Made /\ want[t.arg.from] = want[t.call])'
  BY <1>2 DEF TaskFits
<1>7. ASSUME t.name = "follow" PROVE t.arg.from \in runs' /\ want'[t.arg.from] = want'[t.call]
  <2>1. t.arg.from \in runs /\ want[t.arg.from] = want[t.call] /\ t.call \in 1 .. Made
    BY <1>7 DEF TaskFits
  <2> QED BY <1>1, <1>2, <2>1
<1> QED BY <1>3, <1>4, <1>5, <1>6, <1>7 DEF TaskFits, LateName

\* A step that leaves the queues alone: n is 1 if the head of the tasks has run, and what
\* it adds is neither about the jobs nor about the edits.
LEMMA QueuesRested ==
  ASSUME CoreInv, Types', Extends, QueuesRest, NoTailRuns, ReactionsFit', NEW n \in {0, 1},
         \A i \in 1 .. Len(micro') :
           \/ i + n \in 1 .. Len(micro) /\ micro'[i] = micro[i + n]
           \/ /\ micro'[i].name \notin {"job", "tail", "flushed", "begin"}
              /\ TaskFits(micro[i])'
  PROVE  CoreInv'
<1>1. /\ Types /\ TasksFit /\ WaitsFit /\ JobsGoOn /\ EditsKnown /\ JobsAreSafe
      /\ Len(micro) \in Nat /\ Len(micro') \in Nat
  BY LenProperties DEF CoreInv, Types
<1>2. TasksFit'
  <2> SUFFICES ASSUME NEW i \in 1 .. Len(micro') PROVE TaskFits(micro[i])'
    BY DEF TasksFit
  <2>1. CASE i + n \in 1 .. Len(micro) /\ micro'[i] = micro[i + n]
    <3>1. TaskFits(micro[i + n])
      BY <1>1, <2>1 DEF TasksFit
    <3>2. \A t : TaskFits(t) => TaskFits(t)'
      BY OldTaskFits
    <3> QED BY <2>1, <3>1, <3>2 DEF TaskFits, EarlyName, LateName
  <2> QED BY <2>1
<1>3. WaitsFit'
  BY <1>1 DEF WaitsFit, QueuesRest, Extends
<1>4. JobsGoOn'
  <2>1. (jobs = <<>> => ~working) /\ UNCHANGED <<jobs, working>>
    BY <1>1 DEF JobsGoOn, QueuesRest
  <2>2. ASSUME NEW i \in 1 .. Len(micro'), micro'[i].name \in {"job", "tail"}
        PROVE  i + n \in 1 .. Len(micro) /\ micro[i + n].name \in {"job", "tail"}
    BY <2>2
  <2>3. ASSUME NEW i \in 1 .. Len(micro'), NEW j \in 1 .. Len(micro'),
               micro'[i].name \in {"job", "tail"}, micro'[j].name \in {"job", "tail"}
        PROVE  jobs # <<>> /\ ~working /\ i = j
    <3>1. jobs # <<>> /\ ~working /\ i + n = j + n
      BY <1>1, <2>2, <2>3 DEF JobsGoOn
    <3> QED BY <3>1, <1>1
  <2> QED BY <2>1, <2>3 DEF JobsGoOn
<1>5. PatchIsLast'
  BY PatchFlies DEF PatchIsLast, QueuesRest
<1>6. EditsKnown'
  BY <1>1 DEF EditsKnown, QueuesRest
<1>7. JobsAreSafe'
  <2> SUFFICES ASSUME NEW i \in 1 .. Len(jobs), jobs[i] # None, retained
               PROVE  want'[jobs[i]] \in {"discard", "preserve"}
    BY DEF JobsAreSafe, QueuesRest
  <2>1. jobs[i] \in 1 .. Made /\ want[jobs[i]] \in {"discard", "preserve"}
    BY <1>1 DEF WaitsFit, JobsAreSafe, Types
  <2> QED BY <2>1 DEF Extends
<1> QED BY <1>2, <1>3, <1>4, <1>5, <1>6, <1>7 DEF CoreInv

(***************************************************************************)
(* The microtasks of promises keep the core                                *)
(***************************************************************************)
LEMMA ReturnsCore ==
  ASSUME CoreInv, Returns
  PROVE  CoreInv'
<1> DEFINE t == Task("run", Current, Given)
<1>1. /\ micro # <<>> /\ Head(micro).name = "return" /\ calling = "none" /\ micro' = Tail(micro) \o <<t>>
      /\ UNCHANGED <<want, runs, reactions, jobs, working, edit, retained, flushers, idlers>>
  BY DEF Returns, Runs, Adding, flightVars, promiseVars, queueVars, editVars
<1>2. TaskFits(micro[1]) /\ micro[1].name = "return" /\ Current = micro[1].call /\ Given = micro[1].arg
      /\ Current \in Nat /\ Given \in ResultSet
  BY <1>1, HeadTask
<1>3. t \in TaskSet /\ t.name = "run" /\ t.call = Current /\ t.arg = Given
  BY <1>2, TaskType DEF TaskName, LateName
<1>4. Current \in runs /\ Given.from = Current
  BY <1>2 DEF TaskFits, EarlyName, LateName
<1> HIDE DEF t
<1>5. micro \in Seq(TaskSet)
  BY DEF CoreInv, Types
<1>6. /\ micro' \in Seq(TaskSet) /\ Len(micro) \in Nat
      /\ \A i \in 1 .. Len(micro') :
           \/ i + 1 \in 1 .. Len(micro) /\ micro'[i] = micro[i + 1]
           \/ micro'[i] = t
  BY <1>1, <1>3, <1>5, AddedOne
<1>7. Types'
  BY <1>6, <1>1 DEF Returns, CoreInv, Types, Made, flightVars, promiseVars, queueVars, editVars, viewVars
<1>8. Extends /\ QueuesRest /\ NoTailRuns /\ ReactionsFit'
  BY <1>1, WantKept, ReactionsKept DEF QueuesRest, NoTailRuns
<1>9. ASSUME NEW i \in 1 .. Len(micro'), micro'[i] = t PROVE TaskFits(micro[i])'
  BY <1>9, <1>1, <1>3, <1>4 DEF TaskFits, EarlyName, LateName
<1>10. ASSUME NEW i \in 1 .. Len(micro')
       PROVE  \/ i + 1 \in 1 .. Len(micro) /\ micro'[i] = micro[i + 1]
              \/ /\ micro'[i].name \notin {"job", "tail", "flushed", "begin"}
                 /\ TaskFits(micro[i])'
  BY <1>3, <1>6, <1>9
<1> QED BY <1>7, <1>8, <1>10, QueuesRested

LEMMA AfterCore ==
  ASSUME CoreInv, After
  PROVE  CoreInv'
<1> DEFINE t == Task("turn", Current, Nothing)
<1>1. /\ micro # <<>> /\ Head(micro).name = "after" /\ calling = "none" /\ micro' = Tail(micro) \o <<t>>
      /\ UNCHANGED <<want, runs, reactions, jobs, working, edit, retained, flushers, idlers>>
  BY DEF After, Runs, Adding, flightVars, promiseVars, queueVars, editVars
<1>2. TaskFits(micro[1]) /\ micro[1].name = "after" /\ Current = micro[1].call /\ Current \in Nat
  BY <1>1, HeadTask
<1>3. t \in TaskSet /\ t.name = "turn" /\ t.call = Current
  BY <1>2, TaskType, NothingType DEF TaskName
<1>4. Current \in 1 .. Made
  BY <1>2 DEF TaskFits
<1> HIDE DEF t
<1>5. micro \in Seq(TaskSet)
  BY DEF CoreInv, Types
<1>6. /\ micro' \in Seq(TaskSet) /\ Len(micro) \in Nat
      /\ \A i \in 1 .. Len(micro') :
           \/ i + 1 \in 1 .. Len(micro) /\ micro'[i] = micro[i + 1]
           \/ micro'[i] = t
  BY <1>1, <1>3, <1>5, AddedOne
<1>7. Types'
  BY <1>6, <1>1 DEF After, CoreInv, Types, Made, flightVars, promiseVars, queueVars, editVars, viewVars
<1>8. Extends /\ QueuesRest /\ NoTailRuns /\ ReactionsFit'
  BY <1>1, WantKept, ReactionsKept DEF QueuesRest, NoTailRuns
<1>9. ASSUME NEW i \in 1 .. Len(micro'), micro'[i] = t PROVE TaskFits(micro[i])'
  BY <1>9, <1>1, <1>3, <1>4 DEF TaskFits, EarlyName, LateName, Made
<1>10. ASSUME NEW i \in 1 .. Len(micro')
       PROVE  \/ i + 1 \in 1 .. Len(micro) /\ micro'[i] = micro[i + 1]
              \/ /\ micro'[i].name \notin {"job", "tail", "flushed", "begin"}
                 /\ TaskFits(micro[i])'
  BY <1>3, <1>6, <1>9
<1> QED BY <1>7, <1>8, <1>10, QueuesRested

LEMMA ClearCore ==
  ASSUME CoreInv, Clear
  PROVE  CoreInv'
<1>1. /\ micro # <<>> /\ Head(micro).name = "clear" /\ calling = "none" /\ micro' = Tail(micro) \o <<>>
      /\ UNCHANGED <<want, runs, reactions, jobs, working, edit, retained, flushers, idlers>>
      /\ active' \in {active, None}
  BY DEF Clear, Cleared, Runs, Adding, promiseVars, queueVars, editVars
<1>2. micro \in Seq(TaskSet)
  BY DEF CoreInv, Types
<1>3. /\ micro' \in Seq(TaskSet)
      /\ \A i \in 1 .. Len(micro') : i + 1 \in 1 .. Len(micro) /\ micro'[i] = micro[i + 1]
  BY <1>1, <1>2, AddedNone
<1>4. Types'
  BY <1>1, <1>3 DEF Clear, CoreInv, Types, Made, promiseVars, queueVars, editVars, viewVars
<1>5. Extends /\ QueuesRest /\ NoTailRuns /\ ReactionsFit'
  BY <1>1, WantKept, ReactionsKept DEF QueuesRest, NoTailRuns
<1> QED BY <1>3, <1>4, <1>5, QueuesRested

LEMMA CallerGoesOnCore ==
  ASSUME CoreInv, CallerGoesOn
  PROVE  CoreInv'
<1>1. /\ micro # <<>> /\ Head(micro).name = "caller" /\ micro' = Tail(micro) \o <<>>
      /\ UNCHANGED <<want, runs, reactions, jobs, working, edit, retained, flushers, idlers>>
      /\ answered' = answered \cup {Current} /\ calling' \in {calling, "discard"}
  BY DEF CallerGoesOn, Runs, Adding, flightVars, promiseVars, queueVars, editVars
<1>2. micro \in Seq(TaskSet)
  BY DEF CoreInv, Types
<1>3. /\ micro' \in Seq(TaskSet)
      /\ \A i \in 1 .. Len(micro') : i + 1 \in 1 .. Len(micro) /\ micro'[i] = micro[i + 1]
  BY <1>1, <1>2, AddedNone
<1>4. Current \in 1 .. Made
  BY <1>1, HeadTask DEF TaskFits
<1>5. Types'
  BY <1>1, <1>3, <1>4
     DEF CallerGoesOn, CoreInv, Types, Made, flightVars, promiseVars, queueVars, editVars, viewVars
<1>6. Extends /\ QueuesRest /\ NoTailRuns /\ ReactionsFit'
  BY <1>1, WantKept, ReactionsKept DEF QueuesRest, NoTailRuns
<1> QED BY <1>3, <1>5, <1>6, QueuesRested

LEMMA ToldOfRun ==
  ASSUME reactions \in [Promise -> Seq(TaskSet)], NEW c \in Call, NEW result \in ResultSet
  PROVE  /\ Told(Run(c), result) \in Seq(TaskSet) /\ Len(Told(Run(c), result)) = Len(reactions[Run(c)])
         /\ Len(Told(Run(c), result)) \in Nat
         /\ \A i \in 1 .. Len(Told(Run(c), result)) :
              /\ Told(Run(c), result)[i].name = reactions[Run(c)][i].name
              /\ Told(Run(c), result)[i].call = reactions[Run(c)][i].call
              /\ Told(Run(c), result)[i].arg = result
<1> DEFINE p == Run(c)
<1>1. p \in Promise
  BY ReactionType
<1> HIDE DEF p
<1>2. /\ Told(p, result) \in Seq(TaskSet) /\ Len(Told(p, result)) = Len(reactions[p])
      /\ Len(Told(p, result)) \in Nat
      /\ \A i \in 1 .. Len(Told(p, result)) :
           /\ Told(p, result)[i].name = reactions[p][i].name
           /\ Told(p, result)[i].call = reactions[p][i].call
           /\ Told(p, result)[i].arg = result
  BY <1>1, ToldTasks
<1> QED BY <1>2 DEF p

LEMMA ToldOfEntry ==
  ASSUME reactions \in [Promise -> Seq(TaskSet)], NEW c \in Call, NEW result \in ResultSet
  PROVE  /\ Told(Entry(c), result) \in Seq(TaskSet) /\ Len(Told(Entry(c), result)) = Len(reactions[Entry(c)])
         /\ Len(Told(Entry(c), result)) \in Nat
         /\ \A i \in 1 .. Len(Told(Entry(c), result)) :
              /\ Told(Entry(c), result)[i].name = reactions[Entry(c)][i].name
              /\ Told(Entry(c), result)[i].call = reactions[Entry(c)][i].call
              /\ Told(Entry(c), result)[i].arg = result
<1> DEFINE p == Entry(c)
<1>1. p \in Promise
  BY ReactionType
<1> HIDE DEF p
<1>2. /\ Told(p, result) \in Seq(TaskSet) /\ Len(Told(p, result)) = Len(reactions[p])
      /\ Len(Told(p, result)) \in Nat
      /\ \A i \in 1 .. Len(Told(p, result)) :
           /\ Told(p, result)[i].name = reactions[p][i].name
           /\ Told(p, result)[i].call = reactions[p][i].call
           /\ Told(p, result)[i].arg = result
  BY <1>1, ToldTasks
<1> QED BY <1>2 DEF p

LEMMA RunSettlesCore ==
  ASSUME CoreInv, RunSettles
  PROVE  CoreInv'
<1> DEFINE told == Told(Run(Current), Given)
<1>1. /\ micro # <<>> /\ Head(micro).name = "run" /\ calling = "none" /\ micro' = Tail(micro) \o told
      /\ UNCHANGED <<want, runs, jobs, working, edit, retained, flushers, idlers>>
      /\ reactions' = [reactions EXCEPT ![Run(Current)] = <<>>] /\ settled' = settled \cup {Current}
  BY DEF RunSettles, Settle, Runs, Adding, flightVars, queueVars, editVars
<1>2. /\ TaskFits(micro[1]) /\ micro[1].name = "run" /\ Current = micro[1].call /\ Given = micro[1].arg
      /\ Given \in ResultSet
  BY <1>1, HeadTask
<1>3. Current \in runs /\ Given.from = Current /\ Current \in Call
  BY <1>2, MadeIsNat DEF TaskFits, EarlyName, LateName
<1>4. micro \in Seq(TaskSet) /\ reactions \in [Promise -> Seq(TaskSet)] /\ Run(Current) \in Promise
  BY <1>3, ReactionType DEF CoreInv, Types
<1>5. /\ told \in Seq(TaskSet) /\ Len(told) = Len(reactions[Run(Current)]) /\ Len(told) \in Nat
      /\ \A i \in 1 .. Len(told) :
           /\ told[i].name = reactions[Run(Current)][i].name
           /\ told[i].call = reactions[Run(Current)][i].call
           /\ told[i].arg = Given
  BY <1>2, <1>3, <1>4, ToldOfRun
<1> HIDE DEF told
<1>6. ASSUME NEW k \in 1 .. Len(told) PROVE TaskFits(told[k]) /\ told[k].name \in ReactionName
  <2>1. RunFits(Current, reactions[Run(Current)][k])
    BY <1>3, <1>5 DEF CoreInv, ReactionsFit
  <2> QED BY <2>1, <1>3, <1>5, MadeIsNat
          DEF RunFits, TaskFits, EarlyName, LateName, ReactionName, CoreInv, Types
<1>7. /\ micro' \in Seq(TaskSet) /\ Len(micro) \in Nat
      /\ \A i \in 1 .. Len(micro') :
           \/ i + 1 \in 1 .. Len(micro) /\ micro'[i] = micro[i + 1]
           \/ \E k \in 1 .. Len(told) : micro'[i] = told[k]
  <2>1. /\ micro \in Seq(TaskSet) /\ micro # <<>> /\ told \in Seq(TaskSet) /\ micro' = Tail(micro) \o told
    BY <1>1, <1>4, <1>5
  <2>2. /\ micro' \in Seq(TaskSet) /\ Len(micro) \in Nat
        /\ \A i \in 1 .. Len(micro') :
             \/ i + 1 \in 2 .. Len(micro) /\ micro'[i] = micro[i + 1]
             \/ \E k \in 1 .. Len(told) : micro'[i] = told[k]
    BY <2>1, AddedMany
  <2> QED BY <2>2
<1>8. reactions' \in [Promise -> Seq(TaskSet)] /\ Extends /\ QueuesRest /\ NoTailRuns
  BY <1>1, <1>3, <1>4, RunCleared, WantKept DEF QueuesRest, NoTailRuns
<1>9. Types'
  BY <1>1, <1>3, <1>7, <1>8 DEF RunSettles, CoreInv, Types, Made, flightVars, queueVars, editVars, viewVars
<1>10. ReactionsFit'
  <2>1. \A x \in Call : /\ reactions'[Run(x)] = (IF x = Current THEN <<>> ELSE reactions[Run(x)])
                         /\ reactions'[Entry(x)] = reactions[Entry(x)]
    BY <1>1, <1>3, <1>4, RunCleared
  <2> QED BY <2>1, <1>1 DEF CoreInv, ReactionsFit, RunFits, EntryFits, ReactionName, Made
<1>11. ASSUME NEW i \in 1 .. Len(micro'), NEW k \in 1 .. Len(told), micro'[i] = told[k]
       PROVE  micro'[i].name \notin {"job", "tail", "flushed", "begin"} /\ TaskFits(micro[i])'
  <2>1. TaskFits(told[k]) /\ micro'[i].name \notin {"job", "tail", "flushed", "begin"}
    BY <1>6, <1>11 DEF ReactionName
  <2> QED BY <2>1, <1>1, <1>11 DEF TaskFits, EarlyName, LateName, Made
<1> QED BY <1>7, <1>8, <1>9, <1>10, <1>11, QueuesRested

LEMMA EntrySettlesCore ==
  ASSUME CoreInv, EntrySettles
  PROVE  CoreInv'
<1> DEFINE told == Told(Entry(Current), Given)
<1>1. /\ micro # <<>> /\ Head(micro).name = "entry" /\ calling = "none" /\ micro' = Tail(micro) \o told
      /\ UNCHANGED <<want, runs, jobs, working, edit, retained, flushers, idlers>>
      /\ reactions' = [reactions EXCEPT ![Entry(Current)] = <<>>]
  BY DEF EntrySettles, Settle, Runs, Adding, flightVars, queueVars, editVars
<1>2. /\ TaskFits(micro[1]) /\ micro[1].name = "entry" /\ Current = micro[1].call /\ Given = micro[1].arg
      /\ Given \in ResultSet
  BY <1>1, HeadTask
<1>3. Current \in 1 .. Made /\ Given.from \in 1 .. Made /\ want[Given.from] = want[Current] /\ Current \in Call
  BY <1>2, MadeIsNat DEF TaskFits
<1>4. micro \in Seq(TaskSet) /\ reactions \in [Promise -> Seq(TaskSet)] /\ Entry(Current) \in Promise
  BY <1>3, ReactionType DEF CoreInv, Types
<1>5. /\ told \in Seq(TaskSet) /\ Len(told) = Len(reactions[Entry(Current)]) /\ Len(told) \in Nat
      /\ \A i \in 1 .. Len(told) :
           /\ told[i].name = reactions[Entry(Current)][i].name
           /\ told[i].call = reactions[Entry(Current)][i].call
           /\ told[i].arg = Given
  BY <1>2, <1>3, <1>4, ToldOfEntry
<1> HIDE DEF told
<1>6. ASSUME NEW k \in 1 .. Len(told) PROVE TaskFits(told[k]) /\ told[k].name \in ReactionName
  <2>1. EntryFits(Current, reactions[Entry(Current)][k])
    BY <1>3, <1>5 DEF CoreInv, ReactionsFit
  <2> QED BY <2>1, <1>3, <1>5 DEF EntryFits, TaskFits, EarlyName, LateName, ReactionName
<1>7. /\ micro' \in Seq(TaskSet) /\ Len(micro) \in Nat
      /\ \A i \in 1 .. Len(micro') :
           \/ i + 1 \in 1 .. Len(micro) /\ micro'[i] = micro[i + 1]
           \/ \E k \in 1 .. Len(told) : micro'[i] = told[k]
  <2>1. /\ micro \in Seq(TaskSet) /\ micro # <<>> /\ told \in Seq(TaskSet) /\ micro' = Tail(micro) \o told
    BY <1>1, <1>4, <1>5
  <2>2. /\ micro' \in Seq(TaskSet) /\ Len(micro) \in Nat
        /\ \A i \in 1 .. Len(micro') :
             \/ i + 1 \in 2 .. Len(micro) /\ micro'[i] = micro[i + 1]
             \/ \E k \in 1 .. Len(told) : micro'[i] = told[k]
    BY <2>1, AddedMany
  <2> QED BY <2>2
<1>8. reactions' \in [Promise -> Seq(TaskSet)] /\ Extends /\ QueuesRest /\ NoTailRuns
  BY <1>1, <1>3, <1>4, EntryCleared, WantKept DEF QueuesRest, NoTailRuns
<1>9. Types'
  BY <1>1, <1>3, <1>7, <1>8 DEF EntrySettles, CoreInv, Types, Made, flightVars, queueVars, editVars, viewVars
<1>10. ReactionsFit'
  <2>1. \A x \in Call : /\ reactions'[Entry(x)] = (IF x = Current THEN <<>> ELSE reactions[Entry(x)])
                         /\ reactions'[Run(x)] = reactions[Run(x)]
    BY <1>1, <1>3, <1>4, EntryCleared
  <2> QED BY <2>1, <1>1 DEF CoreInv, ReactionsFit, RunFits, EntryFits, ReactionName, Made
<1>11. ASSUME NEW i \in 1 .. Len(micro'), NEW k \in 1 .. Len(told), micro'[i] = told[k]
       PROVE  micro'[i].name \notin {"job", "tail", "flushed", "begin"} /\ TaskFits(micro[i])'
  <2>1. TaskFits(told[k]) /\ micro'[i].name \notin {"job", "tail", "flushed", "begin"}
    BY <1>6, <1>11 DEF ReactionName
  <2> QED BY <2>1, <1>1, <1>11 DEF TaskFits, EarlyName, LateName, Made
<1> QED BY <1>7, <1>8, <1>9, <1>10, <1>11, QueuesRested

\* What then() adds to a promise fits, if it is about a call with the same options.
LEMMA ThenOnRun ==
  ASSUME CoreInv, Extends, NEW c \in Call, NEW t \in TaskSet, reactions' = Then(Run(c), t),
         c \in runs', t.name \in ReactionName, t.call \in 1 .. Made', t.name = "clear" => t.call = c,
         t.name \in {"caller", "entry"} => want'[t.call] = want'[c]
  PROVE  reactions' \in [Promise -> Seq(TaskSet)] /\ ReactionsFit'
<1>1. /\ reactions' \in [Promise -> Seq(TaskSet)]
      /\ \A x \in Call : x # c => reactions'[Run(x)] = reactions[Run(x)]
      /\ \A x \in Call : reactions'[Entry(x)] = reactions[Entry(x)]
      /\ Len(reactions[Run(c)]) \in Nat /\ Len(reactions'[Run(c)]) = Len(reactions[Run(c)]) + 1
      /\ \A i \in 1 .. Len(reactions[Run(c)]) : reactions'[Run(c)][i] = reactions[Run(c)][i]
      /\ reactions'[Run(c)][Len(reactions[Run(c)]) + 1] = t
  BY RunAppended DEF CoreInv, Types
<1>2. /\ ReactionsFit /\ runs \subseteq 1 .. Made /\ Made \in Nat /\ Made' \in Nat
      /\ runs \subseteq runs' /\ \A x \in 1 .. Made : x \in 1 .. Made' /\ want'[x] = want[x]
  BY OldCalls DEF CoreInv
<1>3. ASSUME NEW x \in Call, NEW i \in 1 .. Len(reactions'[Run(x)]) PROVE RunFits(x, reactions[Run(x)][i])'
  <2>1. CASE x = c /\ i = Len(reactions[Run(c)]) + 1
    BY <1>1, <2>1 DEF RunFits, ReactionName
  <2>2. CASE ~(x = c /\ i = Len(reactions[Run(c)]) + 1)
    <3>1. i \in 1 .. Len(reactions[Run(x)]) /\ reactions'[Run(x)][i] = reactions[Run(x)][i]
      BY <1>1, <2>2
    <3>2. RunFits(x, reactions[Run(x)][i])
      BY <1>2, <3>1 DEF ReactionsFit
    <3> QED BY <1>2, <3>1, <3>2 DEF RunFits, ReactionName
  <2> QED BY <2>1, <2>2
<1>4. ASSUME NEW x \in Call, NEW i \in 1 .. Len(reactions'[Entry(x)]) PROVE EntryFits(x, reactions[Entry(x)][i])'
  <2>1. i \in 1 .. Len(reactions[Entry(x)]) /\ reactions'[Entry(x)][i] = reactions[Entry(x)][i]
    BY <1>1, <1>4
  <2>2. EntryFits(x, reactions[Entry(x)][i])
    BY <1>2, <2>1 DEF ReactionsFit
  <2> QED BY <1>2, <2>1, <2>2 DEF EntryFits
<1> QED BY <1>1, <1>3, <1>4 DEF ReactionsFit

LEMMA ThenOnEntry ==
  ASSUME CoreInv, Extends, NEW c \in Call, NEW t \in TaskSet, reactions' = Then(Entry(c), t),
         c \in 1 .. Made', t.name \in {"caller", "after"}, t.call \in 1 .. Made',
         t.name = "caller" => want'[t.call] = want'[c]
  PROVE  reactions' \in [Promise -> Seq(TaskSet)] /\ ReactionsFit'
<1>1. /\ reactions' \in [Promise -> Seq(TaskSet)]
      /\ \A x \in Call : x # c => reactions'[Entry(x)] = reactions[Entry(x)]
      /\ \A x \in Call : reactions'[Run(x)] = reactions[Run(x)]
      /\ Len(reactions[Entry(c)]) \in Nat /\ Len(reactions'[Entry(c)]) = Len(reactions[Entry(c)]) + 1
      /\ \A i \in 1 .. Len(reactions[Entry(c)]) : reactions'[Entry(c)][i] = reactions[Entry(c)][i]
      /\ reactions'[Entry(c)][Len(reactions[Entry(c)]) + 1] = t
  BY EntryAppended DEF CoreInv, Types
<1>2. /\ ReactionsFit /\ runs \subseteq 1 .. Made /\ Made \in Nat /\ Made' \in Nat
      /\ runs \subseteq runs' /\ \A x \in 1 .. Made : x \in 1 .. Made' /\ want'[x] = want[x]
  BY OldCalls DEF CoreInv
<1>3. ASSUME NEW x \in Call, NEW i \in 1 .. Len(reactions'[Entry(x)]) PROVE EntryFits(x, reactions[Entry(x)][i])'
  <2>1. CASE x = c /\ i = Len(reactions[Entry(c)]) + 1
    BY <1>1, <2>1 DEF EntryFits
  <2>2. CASE ~(x = c /\ i = Len(reactions[Entry(c)]) + 1)
    <3>1. i \in 1 .. Len(reactions[Entry(x)]) /\ reactions'[Entry(x)][i] = reactions[Entry(x)][i]
      BY <1>1, <2>2
    <3>2. EntryFits(x, reactions[Entry(x)][i])
      BY <1>2, <3>1 DEF ReactionsFit
    <3> QED BY <1>2, <3>1, <3>2 DEF EntryFits
  <2> QED BY <2>1, <2>2
<1>4. ASSUME NEW x \in Call, NEW i \in 1 .. Len(reactions'[Run(x)]) PROVE RunFits(x, reactions[Run(x)][i])'
  <2>1. i \in 1 .. Len(reactions[Run(x)]) /\ reactions'[Run(x)][i] = reactions[Run(x)][i]
    BY <1>1, <1>4
  <2>2. RunFits(x, reactions[Run(x)][i])
    BY <1>2, <2>1 DEF ReactionsFit
  <2> QED BY <1>2, <2>1, <2>2 DEF RunFits, ReactionName
<1> QED BY <1>1, <1>3, <1>4 DEF ReactionsFit

LEMMA FollowCore ==
  ASSUME CoreInv, Follow
  PROVE  CoreInv'
<1> DEFINE t == Task("entry", Current, Nothing)
<1>1. /\ micro # <<>> /\ Head(micro).name = "follow" /\ calling = "none" /\ micro' = Tail(micro) \o <<>>
      /\ UNCHANGED <<want, runs, jobs, working, edit, retained, flushers, idlers>>
      /\ reactions' = Then(Run(Given.from), t)
  BY DEF Follow, Runs, Adding, flightVars, queueVars, editVars
<1>2. /\ TaskFits(micro[1]) /\ micro[1].name = "follow" /\ Current = micro[1].call /\ Given = micro[1].arg
      /\ Current \in Nat
  BY <1>1, HeadTask
<1>3. Current \in 1 .. Made /\ Given.from \in runs /\ want[Given.from] = want[Current] /\ Given.from \in Call
  BY <1>2, MadeIsNat DEF TaskFits
<1>4. t \in TaskSet /\ t.name = "entry" /\ t.call = Current
  BY <1>2, TaskType, NothingType, Names
<1> HIDE DEF t
<1>5. micro \in Seq(TaskSet)
  BY DEF CoreInv, Types
<1>6. /\ micro' \in Seq(TaskSet)
      /\ \A i \in 1 .. Len(micro') : i + 1 \in 1 .. Len(micro) /\ micro'[i] = micro[i + 1]
  BY <1>1, <1>5, AddedNone
<1>7. Extends /\ QueuesRest /\ NoTailRuns
  BY <1>1, WantKept DEF QueuesRest, NoTailRuns
<1>8. reactions' \in [Promise -> Seq(TaskSet)] /\ ReactionsFit'
  BY <1>1, <1>3, <1>4, <1>7, ThenOnRun DEF ReactionName, Made
<1>9. Types'
  BY <1>1, <1>6, <1>8 DEF Follow, CoreInv, Types, Made, flightVars, queueVars, editVars, viewVars
<1> QED BY <1>6, <1>7, <1>8, <1>9, QueuesRested

LEMMA TurnCore ==
  ASSUME CoreInv, Turn
  PROVE  CoreInv'
<1>1. /\ micro # <<>> /\ Head(micro).name = "turn" /\ calling = "none"
      /\ UNCHANGED <<want, settled, calling, jobs, working, edit, retained, flushers, idlers>>
      /\ queued' \in {queued, None}
  BY DEF Turn, Runs, queueVars, editVars
<1>2. /\ TaskFits(micro[1]) /\ micro[1].name = "turn" /\ Current = micro[1].call /\ Current \in Nat
      /\ Current \in 1 .. Made /\ Current \in Call
  BY <1>1, HeadTask, MadeIsNat DEF TaskFits
<1>3. micro \in Seq(TaskSet) /\ Types
  BY DEF CoreInv, Types
<1>4. CASE active # None /\ want[active] = want[Current]
  <2> DEFINE t == Task("follow", Current, Result("none", active))
  <2>1. micro' = Tail(micro) \o <<t>> /\ UNCHANGED <<active, runs, reactions>>
    BY <1>4 DEF Turn, Adding
  <2>2. active \in runs /\ active \in Nat
    BY <1>3, <1>4, MadeIsNat DEF Types, Call
  <2>3. t \in TaskSet /\ t.name = "follow" /\ t.call = Current /\ t.arg.from = active
    BY <1>2, <2>2, Names DEF Task, Result, TaskSet, ResultSet
  <2> HIDE DEF t
  <2>4. /\ micro' \in Seq(TaskSet) /\ Len(micro) \in Nat
        /\ \A i \in 1 .. Len(micro') :
             \/ i + 1 \in 1 .. Len(micro) /\ micro'[i] = micro[i + 1]
             \/ micro'[i] = t
    BY <1>1, <1>3, <2>1, <2>3, AddedOne
  <2>5. Types'
    <3>1. queued' \in 0 .. Made' /\ Made' = Made
      BY <1>1, <1>3, MadeIsNat DEF Types, Made, None
    <3> QED BY <3>1, <1>1, <1>3, <2>1, <2>4 DEF Turn, Types, Made, None, queueVars, editVars, viewVars
  <2>6. Extends /\ QueuesRest /\ NoTailRuns /\ ReactionsFit'
    BY <1>1, <2>1, WantKept, ReactionsKept DEF QueuesRest, NoTailRuns
  <2>7. ASSUME NEW i \in 1 .. Len(micro'), micro'[i] = t PROVE TaskFits(micro[i])'
    BY <2>7, <1>1, <1>2, <1>4, <2>1, <2>2, <2>3 DEF TaskFits, EarlyName, LateName, Made
  <2>8. ASSUME NEW i \in 1 .. Len(micro')
        PROVE  \/ i + 1 \in 1 .. Len(micro) /\ micro'[i] = micro[i + 1]
               \/ /\ micro'[i].name \notin {"job", "tail", "flushed", "begin"}
                  /\ TaskFits(micro[i])'
    BY <2>3, <2>4, <2>7
  <2> QED BY <2>5, <2>6, <2>8, QueuesRested
<1>5. CASE ~(active # None /\ want[active] = want[Current])
  <2> DEFINE t == Task("operation", Current, Nothing)
             u == Task("follow", Current, Result("none", Current))
             v == Task("clear", Current, Nothing)
  <2>1. /\ micro' = Tail(micro) \o <<t, u>> /\ active' = Current /\ runs' = runs \cup {Current}
        /\ reactions' = [reactions EXCEPT ![Run(Current)] = <<v>>]
    BY <1>5 DEF Turn, Adding
  <2>2. /\ t \in TaskSet /\ t.name = "operation" /\ t.call = Current
        /\ u \in TaskSet /\ u.name = "follow" /\ u.call = Current /\ u.arg.from = Current
        /\ v \in TaskSet /\ v.name = "clear" /\ v.call = Current
    BY <1>2, Names DEF Task, Result, Nothing, None, TaskSet, ResultSet
  <2> HIDE DEF t, u, v
  <2>3. /\ micro' \in Seq(TaskSet) /\ Len(micro) \in Nat
        /\ \A i \in 1 .. Len(micro') :
             \/ i + 1 \in 1 .. Len(micro) /\ micro'[i] = micro[i + 1]
             \/ micro'[i] = t \/ micro'[i] = u
    BY <1>1, <1>3, <2>1, <2>2, AddedTwo
  <2>4. Extends /\ QueuesRest /\ NoTailRuns
    BY <1>1, <2>1, WantKept DEF QueuesRest, NoTailRuns
  <2>5. <<v>> \in Seq(TaskSet) /\ Len(<<v>>) = 1 /\ <<v>>[1] = v
    BY <2>2
  <2>6. /\ reactions' \in [Promise -> Seq(TaskSet)]
        /\ \A x \in Call : reactions'[Run(x)] = IF x = Current THEN <<v>> ELSE reactions[Run(x)]
        /\ \A x \in Call : reactions'[Entry(x)] = reactions[Entry(x)]
    BY <1>2, <1>3, <2>1, <2>5, RunChanged DEF Types
  <2>7. ReactionsFit'
    <3>1. ReactionsFit /\ UNCHANGED <<want, Made>>
      BY <1>1 DEF CoreInv, Made
    <3>2. ASSUME NEW x \in Call, NEW i \in 1 .. Len(reactions'[Run(x)]) PROVE RunFits(x, reactions[Run(x)][i])'
      <4>1. CASE x = Current
        <5>1. reactions'[Run(x)] = <<v>>
          BY <2>6, <4>1
        <5>2. i = 1 /\ reactions'[Run(x)][i] = v
          BY <2>5, <5>1
        <5> QED BY <1>2, <2>1, <2>2, <3>1, <4>1, <5>2 DEF RunFits, ReactionName
      <4>2. CASE x # Current
        <5>1. reactions'[Run(x)] = reactions[Run(x)]
          BY <2>6, <4>2
        <5>2. RunFits(x, reactions[Run(x)][i])
          BY <3>1, <3>2, <5>1 DEF ReactionsFit
        <5> QED BY <2>1, <3>1, <5>1, <5>2 DEF RunFits, ReactionName
      <4> QED BY <4>1, <4>2
    <3>3. ASSUME NEW x \in Call, NEW i \in 1 .. Len(reactions'[Entry(x)]) PROVE EntryFits(x, reactions[Entry(x)][i])'
      BY <2>6, <3>1 DEF EntryFits, ReactionsFit
    <3> QED BY <3>2, <3>3 DEF ReactionsFit
  <2>8. Types'
    <3>1. queued' \in 0 .. Made' /\ Made' = Made
      BY <1>1, <1>3, MadeIsNat DEF Types, Made, None
    <3> QED BY <3>1, <1>1, <1>2, <1>3, <2>1, <2>3, <2>6 DEF Turn, Types, Made, None, queueVars, editVars, viewVars
  <2>9. ASSUME NEW i \in 1 .. Len(micro'), micro'[i] = t \/ micro'[i] = u
        PROVE  TaskFits(micro[i])'
    BY <2>9, <1>1, <1>2, <2>1, <2>2 DEF TaskFits, EarlyName, LateName, Made
  <2>10. ASSUME NEW i \in 1 .. Len(micro')
         PROVE  \/ i + 1 \in 1 .. Len(micro) /\ micro'[i] = micro[i + 1]
                \/ /\ micro'[i].name \notin {"job", "tail", "flushed", "begin"}
                   /\ TaskFits(micro[i])'
    BY <2>2, <2>3, <2>9
  <2> QED BY <2>4, <2>7, <2>8, <2>10, QueuesRested
<1> QED BY <1>4, <1>5

(***************************************************************************)
(* A call of reloadData() keeps the core                                   *)
(***************************************************************************)
\* Reactions that are still there fit; so must the new ones.
LEMMA ReactionsGrow ==
  ASSUME CoreInv, Extends,
         \A x \in Call : \A i \in 1 .. Len(reactions'[Run(x)]) :
           \/ i \in 1 .. Len(reactions[Run(x)]) /\ reactions'[Run(x)][i] = reactions[Run(x)][i]
           \/ RunFits(x, reactions[Run(x)][i])',
         \A x \in Call : \A i \in 1 .. Len(reactions'[Entry(x)]) :
           \/ i \in 1 .. Len(reactions[Entry(x)]) /\ reactions'[Entry(x)][i] = reactions[Entry(x)][i]
           \/ EntryFits(x, reactions[Entry(x)][i])'
  PROVE  ReactionsFit'
<1>1. /\ ReactionsFit /\ runs \subseteq 1 .. Made /\ Made \in Nat /\ Made' \in Nat
      /\ runs \subseteq runs' /\ \A x \in 1 .. Made : x \in 1 .. Made' /\ want'[x] = want[x]
  BY OldCalls DEF CoreInv
<1>2. ASSUME NEW x \in Call, NEW i \in 1 .. Len(reactions'[Run(x)]) PROVE RunFits(x, reactions[Run(x)][i])'
  <2>1. CASE i \in 1 .. Len(reactions[Run(x)]) /\ reactions'[Run(x)][i] = reactions[Run(x)][i]
    <3>1. RunFits(x, reactions[Run(x)][i])
      BY <1>1, <2>1 DEF ReactionsFit
    <3> QED BY <1>1, <2>1, <3>1 DEF RunFits, ReactionName
  <2> QED BY <2>1
<1>3. ASSUME NEW x \in Call, NEW i \in 1 .. Len(reactions'[Entry(x)]) PROVE EntryFits(x, reactions[Entry(x)][i])'
  <2>1. CASE i \in 1 .. Len(reactions[Entry(x)]) /\ reactions'[Entry(x)][i] = reactions[Entry(x)][i]
    <3>1. EntryFits(x, reactions[Entry(x)][i])
      BY <1>1, <2>1 DEF ReactionsFit
    <3> QED BY <1>1, <2>1, <3>1 DEF EntryFits
  <2> QED BY <2>1
<1> QED BY <1>2, <1>3 DEF ReactionsFit

\* The call that is made now, and those before it.
LEMMA NewCall ==
  ASSUME CoreInv, NEW kind \in Kind, Made < MaxCalls, want' = Append(want, kind), runs \subseteq runs'
  PROVE  /\ Extends /\ want' \in Seq(Kind) /\ Made \in Nat /\ Made' = Made + 1 /\ Made' <= MaxCalls
         /\ Made + 1 \in Call /\ Made + 1 \in Nat /\ want'[Made + 1] = kind
         /\ \A x \in 1 .. Made : x \in 1 .. Made' /\ want'[x] = want[x]
<1>1. want \in Seq(Kind) /\ Made \in Nat /\ MaxCalls \in Nat
  BY MadeIsNat DEF CoreInv, Types
<1>2. want' \in Seq(Kind) /\ Len(want') = Len(want) + 1 /\ want'[Len(want) + 1] = kind
      /\ \A i \in 1 .. Len(want) : want'[i] = want[i]
  BY <1>1, Appended
<1> QED BY <1>1, <1>2 DEF Made, Extends, Call

LEMMA AwaitsType ==
  ASSUME NEW c \in Nat
  PROVE  Awaits(c) \in TaskSet /\ Awaits(c).name = "caller" /\ Awaits(c).call = c
BY Names, PlainTask DEF Awaits

LEMMA StartAtOnceCore ==
  ASSUME CoreInv, NEW kind \in Kind, Ask(kind), NEW c \in Nat, c = Made + 1, StartAtOnce(c), NoTailRuns,
         calling' \in {"none", "initial", "discard"}
  PROVE  CoreInv'
<1> DEFINE t == Task("operation", c, Nothing)
           v == Task("clear", c, Nothing)
           u == Awaits(c)
<1>1. /\ Made < MaxCalls /\ want' = Append(want, kind) /\ runs' = runs \cup {c} /\ active' = c
      /\ micro' = Append(micro, t) /\ reactions' = [reactions EXCEPT ![Run(c)] = <<v, u>>]
      /\ UNCHANGED <<queued, settled, newest, answered, jobs, working, enqueued, idlers, flushers>>
      /\ UNCHANGED <<edit, retained, typed, status, loaded>>
  BY DEF Ask, StartAtOnce, queueVars, editVars, viewVars
<1>2. /\ Extends /\ want' \in Seq(Kind) /\ Made \in Nat /\ Made' = Made + 1 /\ Made' <= MaxCalls
      /\ c \in Call /\ c \in Nat
  BY <1>1, NewCall
<1>3. /\ t \in TaskSet /\ t.name = "operation" /\ t.call = c
      /\ v \in TaskSet /\ v.name = "clear" /\ v.call = c
      /\ u \in TaskSet /\ u.name = "caller" /\ u.call = c
  BY <1>2, Names, PlainTask, AwaitsType
<1>4. c \in 1 .. Made' /\ c = Made'
  BY <1>2
<1> HIDE DEF t, u, v
<1>5. <<v, u>> \in Seq(TaskSet) /\ Len(<<v, u>>) = 2 /\ <<v, u>>[1] = v /\ <<v, u>>[2] = u
  BY <1>3
<1>6. /\ reactions' \in [Promise -> Seq(TaskSet)]
      /\ \A x \in Call : reactions'[Run(x)] = IF x = c THEN <<v, u>> ELSE reactions[Run(x)]
      /\ \A x \in Call : reactions'[Entry(x)] = reactions[Entry(x)]
  BY <1>1, <1>2, <1>5, RunChanged DEF CoreInv, Types
<1>7. /\ micro' \in Seq(TaskSet) /\ Len(micro) \in Nat /\ Len(micro') = Len(micro) + 1
      /\ \A i \in 1 .. Len(micro) : micro'[i] = micro[i]
      /\ micro'[Len(micro) + 1] = t
  BY <1>1, <1>3, Appended DEF CoreInv, Types
<1>8. ReactionsFit'
  <2>1. ASSUME NEW i \in 1 .. Len(reactions'[Run(c)]) PROVE RunFits(c, reactions[Run(c)][i])'
    <3>1. reactions'[Run(c)] = <<v, u>>
      BY <1>2, <1>6
    <3>2. (i = 1 /\ reactions'[Run(c)][i] = v) \/ (i = 2 /\ reactions'[Run(c)][i] = u)
      BY <1>5, <3>1
    <3>3. c \in runs' /\ c \in 1 .. Made'
      BY <1>1, <1>2, <1>4
    <3> QED BY <1>3, <3>2, <3>3 DEF RunFits, ReactionName
  <2> QED BY <1>2, <1>6, <2>1, ReactionsGrow
<1>9. Types'
  <2>1. /\ runs' \subseteq 1 .. Made' /\ settled' \subseteq runs' /\ answered' \subseteq 1 .. Made'
        /\ active' \in runs' \cup {None} /\ queued' \in 0 .. Made' /\ newest' \in runs' \cup {None}
    BY <1>1, <1>2, <1>4 DEF CoreInv, Types, None
  <2> QED BY <1>1, <1>2, <1>6, <1>7, <2>1 DEF CoreInv, Types
<1>10. ASSUME NEW i \in 1 .. Len(micro'), micro'[i] = t
       PROVE  micro'[i].name \notin {"job", "tail", "flushed", "begin"} /\ TaskFits(micro[i])'
  BY <1>1, <1>3, <1>10 DEF TaskFits, EarlyName, LateName
<1>11. ASSUME NEW i \in 1 .. Len(micro')
       PROVE  \/ i + 0 \in 1 .. Len(micro) /\ micro'[i] = micro[i + 0]
              \/ /\ micro'[i].name \notin {"job", "tail", "flushed", "begin"}
                 /\ TaskFits(micro[i])'
  <2>1. CASE i = Len(micro) + 1
    BY <1>7, <1>10, <2>1
  <2>2. CASE i # Len(micro) + 1
    BY <1>7, <2>2
  <2> QED BY <2>1, <2>2
<1>12. QueuesRest
  BY <1>1 DEF QueuesRest
<1> QED BY <1>2, <1>8, <1>9, <1>11, <1>12, QueuesRested

LEMMA SkipCore ==
  ASSUME CoreInv, NEW kind \in Kind, Ask(kind), NEW c \in Nat, c = Made + 1, Skip(c, kind), NoTailRuns,
         calling' \in {"none", "initial", "discard"}
  PROVE  CoreInv'
<1> DEFINE t == Task("caller", c, Result("skipped", c))
<1>1. /\ Made < MaxCalls /\ want' = Append(want, kind) /\ micro' = Append(micro, t)
      /\ UNCHANGED <<runs, active, reactions>>
      /\ UNCHANGED <<queued, settled, newest, answered, jobs, working, enqueued, idlers, flushers>>
      /\ UNCHANGED <<edit, retained, typed, status, loaded>>
  BY DEF Ask, Skip, queueVars, editVars, viewVars
<1>2. /\ Extends /\ want' \in Seq(Kind) /\ Made \in Nat /\ Made' = Made + 1 /\ Made' <= MaxCalls
      /\ c \in Call /\ c \in Nat
  BY <1>1, NewCall
<1>3. t \in TaskSet /\ t.name = "caller" /\ t.call = c /\ t.arg.from = c
  BY <1>2, Names DEF Task, Result, TaskSet, ResultSet
<1>4. c \in 1 .. Made' /\ c = Made'
  BY <1>2
<1> HIDE DEF t
<1>5. /\ micro' \in Seq(TaskSet) /\ Len(micro) \in Nat /\ Len(micro') = Len(micro) + 1
      /\ \A i \in 1 .. Len(micro) : micro'[i] = micro[i]
      /\ micro'[Len(micro) + 1] = t
  BY <1>1, <1>3, Appended DEF CoreInv, Types
<1>6. ReactionsFit'
  BY <1>1, <1>2, ReactionsKept
<1>7. Types'
  <2>1. /\ runs' \subseteq 1 .. Made' /\ settled' \subseteq runs' /\ answered' \subseteq 1 .. Made'
        /\ active' \in runs' \cup {None} /\ queued' \in 0 .. Made' /\ newest' \in runs' \cup {None}
    BY <1>1, <1>2, <1>4 DEF CoreInv, Types, None
  <2> QED BY <1>1, <1>2, <1>5, <2>1 DEF CoreInv, Types
<1>8. ASSUME NEW i \in 1 .. Len(micro'), micro'[i] = t
      PROVE  micro'[i].name \notin {"job", "tail", "flushed", "begin"} /\ TaskFits(micro[i])'
  BY <1>1, <1>2, <1>3, <1>4, <1>8 DEF TaskFits, EarlyName, LateName
<1>9. ASSUME NEW i \in 1 .. Len(micro')
      PROVE  \/ i + 0 \in 1 .. Len(micro) /\ micro'[i] = micro[i + 0]
             \/ /\ micro'[i].name \notin {"job", "tail", "flushed", "begin"}
                /\ TaskFits(micro[i])'
  <2>1. CASE i = Len(micro) + 1
    BY <1>5, <1>8, <2>1
  <2>2. CASE i # Len(micro) + 1
    BY <1>5, <2>2
  <2> QED BY <2>1, <2>2
<1>10. QueuesRest
  BY <1>1 DEF QueuesRest
<1> QED BY <1>2, <1>6, <1>7, <1>9, <1>10, QueuesRested

\* A call that waits for a promise: nothing but the reactions changes.
LEMMA WaitingCore ==
  ASSUME CoreInv, NEW kind \in Kind, Ask(kind), NoTailRuns, calling' \in {"none", "initial", "discard"},
         UNCHANGED <<runs, active, micro>>, queued' \in 0 .. Made + 1,
         reactions' \in [Promise -> Seq(TaskSet)], ReactionsFit'
  PROVE  CoreInv'
<1>1. /\ Made < MaxCalls /\ want' = Append(want, kind)
      /\ UNCHANGED <<settled, newest, answered, jobs, working, enqueued, idlers, flushers>>
      /\ UNCHANGED <<edit, retained, typed, status, loaded>>
  BY DEF Ask, queueVars, editVars, viewVars
<1>2. Extends /\ want' \in Seq(Kind) /\ Made \in Nat /\ Made' = Made + 1 /\ Made' <= MaxCalls
  BY <1>1, NewCall
<1>3. Types'
  <2>1. /\ runs' \subseteq 1 .. Made' /\ settled' \subseteq runs' /\ answered' \subseteq 1 .. Made'
        /\ active' \in runs' \cup {None} /\ queued' \in 0 .. Made' /\ newest' \in runs' \cup {None}
    BY <1>1, <1>2 DEF CoreInv, Types, None
  <2> QED BY <1>1, <1>2, <2>1 DEF CoreInv, Types
<1>4. Len(micro) \in Nat
  BY LenProperties DEF CoreInv, Types
<1>5. QueuesRest
  BY <1>1 DEF QueuesRest
<1>6. \A i \in 1 .. Len(micro') : i + 0 \in 1 .. Len(micro) /\ micro'[i] = micro[i + 0]
  BY <1>4
<1> QED BY <1>2, <1>3, <1>5, <1>6, QueuesRested

LEMMA JoinCore ==
  ASSUME CoreInv, NEW kind \in Kind, Ask(kind), NEW c \in Nat, c = Made + 1, Join(c, kind), NoTailRuns,
         calling' \in {"none", "initial", "discard"}
  PROVE  CoreInv'
<1> DEFINE u == Awaits(c)
<1>1. /\ Made < MaxCalls /\ want' = Append(want, kind) /\ active # None /\ want[active] = kind
      /\ reactions' = Then(Run(active), u) /\ UNCHANGED <<runs, active, queued, micro>>
  BY DEF Ask, Join, Joins
<1>2. /\ Extends /\ Made \in Nat /\ Made' = Made + 1 /\ c \in Nat /\ want'[c] = kind
      /\ \A x \in 1 .. Made : x \in 1 .. Made' /\ want'[x] = want[x]
  BY <1>1, NewCall
<1>3. active \in runs /\ active \in Call /\ active \in 1 .. Made /\ queued \in 0 .. Made
  BY <1>1, MadeIsNat DEF CoreInv, Types
<1>4. u \in TaskSet /\ u.name = "caller" /\ u.call = c
  BY <1>2, AwaitsType
<1>5. c \in 1 .. Made'
  BY <1>2
<1> HIDE DEF u
<1>6. reactions' \in [Promise -> Seq(TaskSet)] /\ ReactionsFit'
  BY <1>1, <1>2, <1>3, <1>4, <1>5, ThenOnRun DEF ReactionName
<1> QED BY <1>1, <1>2, <1>3, <1>6, WaitingCore

LEMMA QueueCore ==
  ASSUME CoreInv, NEW kind \in Kind, Ask(kind), NEW c \in Nat, c = Made + 1, Queue(c, kind), NoTailRuns,
         calling' \in {"none", "initial", "discard"}
  PROVE  CoreInv'
<1> DEFINE u == Awaits(c)
           t == Task("after", c, Nothing)
<1>1. /\ Made < MaxCalls /\ want' = Append(want, kind) /\ active # None
      /\ UNCHANGED <<runs, active, micro>>
  BY DEF Ask, Queue
<1>2. /\ Extends /\ Made \in Nat /\ Made' = Made + 1 /\ c \in Nat /\ c \in Call /\ want'[c] = kind
      /\ \A x \in 1 .. Made : x \in 1 .. Made' /\ want'[x] = want[x]
  BY <1>1, NewCall
<1>3. active \in runs /\ active \in Call /\ active \in 1 .. Made /\ queued \in 0 .. Made
      /\ (queued # None => queued \in 1 .. Made /\ queued \in Call)
  <2>1. active \in runs /\ runs \subseteq 1 .. Made /\ queued \in 0 .. Made
    BY <1>1 DEF CoreInv, Types
  <2>2. queued # None => queued \in 1 .. Made
    BY <1>2, <2>1 DEF None
  <2> QED BY <2>1, <2>2, MadeIsNat
<1>4. /\ u \in TaskSet /\ u.name = "caller" /\ u.call = c
      /\ t \in TaskSet /\ t.name = "after" /\ t.call = c
  BY <1>2, AwaitsType, Names, PlainTask
<1>5. c \in 1 .. Made' /\ c \notin 1 .. Made /\ c \in 0 .. Made + 1
  BY <1>2
<1>6. CASE queued # None /\ want[queued] = kind
  <2>1. reactions' = Then(Entry(queued), u) /\ UNCHANGED queued
    BY <1>6 DEF Queue
  <2> HIDE DEF u
  <2>2. reactions' \in [Promise -> Seq(TaskSet)] /\ ReactionsFit'
    BY <1>2, <1>3, <1>4, <1>5, <1>6, <2>1, ThenOnEntry
  <2> QED BY <1>1, <1>2, <1>3, <2>1, <2>2, WaitingCore
<1>7. CASE ~(queued # None /\ want[queued] = kind)
  <2> DEFINE previous == IF queued # None THEN Entry(queued) ELSE Run(active)
             first  == reactions[previous]
             second == reactions[Entry(c)]
  <2>1. reactions' = [Then(previous, t) EXCEPT ![Entry(c)] = Append(@, u)] /\ queued' = c
    BY <1>7 DEF Queue
  <2>2. /\ reactions \in [Promise -> Seq(TaskSet)] /\ previous \in Promise /\ Entry(c) \in Promise
        /\ previous # Entry(c)
    BY <1>2, <1>3, <1>5, ReactionType DEF CoreInv, Types, Run, Entry
  <2> HIDE DEF u, t
  <2>3. /\ first \in Seq(TaskSet) /\ second \in Seq(TaskSet)
        /\ Append(first, t) \in Seq(TaskSet) /\ Append(second, u) \in Seq(TaskSet)
        /\ Len(first) \in Nat /\ Len(Append(first, t)) = Len(first) + 1
        /\ \A i \in 1 .. Len(first) : Append(first, t)[i] = first[i]
        /\ Append(first, t)[Len(first) + 1] = t
        /\ Len(second) \in Nat /\ Len(Append(second, u)) = Len(second) + 1
        /\ \A i \in 1 .. Len(second) : Append(second, u)[i] = second[i]
        /\ Append(second, u)[Len(second) + 1] = u
    BY <1>4, <2>2, Appended
  <2> HIDE DEF previous
  <2>4. /\ reactions' \in [Promise -> Seq(TaskSet)]
        /\ reactions'[previous] = Append(first, t) /\ reactions'[Entry(c)] = Append(second, u)
        /\ \A p \in Promise : p # previous /\ p # Entry(c) => reactions'[p] = reactions[p]
    BY <2>1, <2>2, <2>3 DEF Then
  <2> HIDE DEF first, second
  <2>5. ASSUME NEW x \in Call, NEW i \in 1 .. Len(reactions'[Run(x)])
        PROVE  \/ i \in 1 .. Len(reactions[Run(x)]) /\ reactions'[Run(x)][i] = reactions[Run(x)][i]
               \/ RunFits(x, reactions[Run(x)][i])'
    <3>1. Run(x) # Entry(c) /\ Run(x) \in Promise
      BY ReactionType, <2>2 DEF Run, Entry
    <3>2. CASE Run(x) = previous
      <4>1. x = active
        BY <1>3, <3>2 DEF previous, Run, Entry
      <4>2. CASE i = Len(first) + 1
        <5>1. reactions'[Run(x)][i] = t
          BY <2>3, <2>4, <3>2, <4>2
        <5> QED BY <1>1, <1>3, <1>4, <1>5, <4>1, <5>1 DEF RunFits, ReactionName
      <4>3. CASE i # Len(first) + 1
        <5>1. reactions'[Run(x)] = Append(first, t) /\ reactions[Run(x)] = first
          BY <2>4, <3>2 DEF first
        <5> QED BY <2>3, <4>3, <5>1
      <4> QED BY <4>2, <4>3
    <3>3. CASE Run(x) # previous
      BY <2>4, <3>1, <3>3
    <3> QED BY <3>2, <3>3
  <2>6. ASSUME NEW x \in Call, NEW i \in 1 .. Len(reactions'[Entry(x)])
        PROVE  \/ i \in 1 .. Len(reactions[Entry(x)]) /\ reactions'[Entry(x)][i] = reactions[Entry(x)][i]
               \/ EntryFits(x, reactions[Entry(x)][i])'
    <3>1. Entry(x) \in Promise
      BY ReactionType, <2>2
    <3>2. CASE Entry(x) = previous
      <4>1. x = queued /\ x \in 1 .. Made'
        BY <1>2, <1>3, <3>2 DEF previous, Run, Entry
      <4>2. CASE i = Len(first) + 1
        <5>1. reactions'[Entry(x)][i] = t
          BY <2>3, <2>4, <3>2, <4>2
        <5> QED BY <1>4, <1>5, <4>1, <5>1 DEF EntryFits
      <4>3. CASE i # Len(first) + 1
        <5>1. reactions'[Entry(x)] = Append(first, t) /\ reactions[Entry(x)] = first
          BY <2>4, <3>2 DEF first
        <5> QED BY <2>3, <4>3, <5>1
      <4> QED BY <4>2, <4>3
    <3>3. CASE Entry(x) = Entry(c)
      <4>1. x = c
        BY <3>3 DEF Entry
      <4>2. CASE i = Len(second) + 1
        <5>1. reactions'[Entry(x)][i] = u
          BY <2>3, <2>4, <3>3, <4>2
        <5> QED BY <1>4, <1>5, <4>1, <5>1 DEF EntryFits
      <4>3. CASE i # Len(second) + 1
        <5>1. reactions'[Entry(x)] = Append(second, u) /\ reactions[Entry(x)] = second
          BY <2>4, <3>3 DEF second
        <5> QED BY <2>3, <4>3, <5>1
      <4> QED BY <4>2, <4>3
    <3>4. CASE Entry(x) # previous /\ Entry(x) # Entry(c)
      BY <2>4, <3>1, <3>4
    <3> QED BY <3>2, <3>3, <3>4
  <2>7. ReactionsFit'
    BY <1>2, <2>5, <2>6, ReactionsGrow
  <2> QED BY <1>1, <1>5, <2>1, <2>4, <2>7, WaitingCore
<1> QED BY <1>6, <1>7

LEMMA AskCore ==
  ASSUME CoreInv, NEW kind \in Kind, Ask(kind), NoTailRuns, calling' \in {"none", "initial", "discard"}
  PROVE  CoreInv'
<1>1. PICK c \in Nat : c = Made + 1 /\ (StartAtOnce(c) \/ Skip(c, kind) \/ Join(c, kind) \/ Queue(c, kind))
  BY MadeIsNat DEF Ask
<1> QED BY <1>1, StartAtOnceCore, SkipCore, JoinCore, QueueCore

LEMMA AsksCore ==
  ASSUME CoreInv, GoOn \/ UserAsks \/ TimerFires
  PROVE  CoreInv'
<1>1. calling \in {"none", "initial", "discard"}
  BY DEF CoreInv, Types
<1>2. CASE GoOn
  BY <1>1, <1>2, AskCore DEF GoOn, NoTailRuns, Kind
<1>3. CASE UserAsks
  <2>1. PICK kind \in {"plain", "preserve"} : Ask(kind)
    BY <1>3 DEF UserAsks
  <2> QED BY <1>1, <1>3, <2>1, AskCore DEF UserAsks, Quiet, NoTailRuns, Kind
<1>4. CASE TimerFires
  BY <1>1, <1>4, AskCore DEF TimerFires, Attempt, Quiet, NoTailRuns, Kind
<1> QED BY <1>2, <1>3, <1>4

\* A step that touches nothing of the core.
LEMMA UntouchedCore ==
  ASSUME CoreInv, NoTailRuns, UNCHANGED <<flightVars, promiseVars, micro, calling, newest, queueVars, editVars>>,
         UNCHANGED <<viewVars, answered>>
  PROVE  CoreInv'
<1>1. /\ UNCHANGED <<want, runs, active, queued, settled, reactions, micro, calling, newest>>
      /\ UNCHANGED <<jobs, working, enqueued, idlers, flushers, edit, retained, typed, status, loaded, answered>>
  BY DEF flightVars, promiseVars, queueVars, editVars, viewVars
<1>2. Types' /\ Extends /\ QueuesRest /\ ReactionsFit' /\ Len(micro) \in Nat
  BY SMTT(30), <1>1, WantKept, ReactionsKept, LenProperties DEF CoreInv, Types, Made, QueuesRest
<1>3. \A i \in 1 .. Len(micro') : i + 0 \in 1 .. Len(micro) /\ micro'[i] = micro[i + 0]
  BY <1>1, <1>2
<1> QED BY <1>2, <1>3, QueuesRested

LEMMA ShownCore ==
  ASSUME CoreInv, Show \/ Hide
  PROVE  CoreInv'
<1>1. NoTailRuns /\ calling \in {"none", "initial", "discard"}
  BY DEF Show, Hide, Quiet, NoTailRuns, CoreInv, Types
<1>2. CASE Attempt /\ UNCHANGED calling
  BY <1>1, <1>2, AskCore DEF Attempt, Kind
<1>3. CASE ~(Attempt /\ UNCHANGED calling)
  BY <1>1, <1>3, UntouchedCore DEF Show, Hide
<1> QED BY <1>2, <1>3

(***************************************************************************)
(* The queue of jobs and the edits                                         *)
(***************************************************************************)
LEMMA OldTasksFit ==
  ASSUME CoreInv, Extends, NEW n \in {0, 1},
         \A i \in 1 .. Len(micro') :
           \/ i + n \in 1 .. Len(micro) /\ micro'[i] = micro[i + n]
           \/ TaskFits(micro[i])'
  PROVE  TasksFit'
<1> SUFFICES ASSUME NEW i \in 1 .. Len(micro') PROVE TaskFits(micro[i])'
  BY DEF TasksFit
<1>1. CASE i + n \in 1 .. Len(micro) /\ micro'[i] = micro[i + n]
  <2>1. TaskFits(micro[i + n])
    BY <1>1 DEF CoreInv, TasksFit
  <2>2. \A t : TaskFits(t) => TaskFits(t)'
    BY OldTaskFits
  <2> QED BY <1>1, <2>1, <2>2 DEF TaskFits, EarlyName, LateName
<1> QED BY <1>1

\* Nothing happens to the jobs.
LEMMA JobsRest ==
  ASSUME CoreInv, NEW n \in {0, 1}, UNCHANGED <<jobs, working>>, Len(micro') \in Nat,
         \A i \in 1 .. Len(micro') :
           \/ i + n \in 1 .. Len(micro) /\ micro'[i] = micro[i + n]
           \/ micro'[i].name \notin {"job", "tail"}
  PROVE  JobsGoOn'
<1>1. JobsGoOn /\ Len(micro) \in Nat
  BY LenProperties DEF CoreInv, Types
<1>2. ASSUME NEW i \in 1 .. Len(micro'), micro'[i].name \in {"job", "tail"}
      PROVE  i + n \in 1 .. Len(micro) /\ micro[i + n].name \in {"job", "tail"}
  BY <1>2
<1>3. ASSUME NEW i \in 1 .. Len(micro'), NEW j \in 1 .. Len(micro'),
             micro'[i].name \in {"job", "tail"}, micro'[j].name \in {"job", "tail"}
      PROVE  jobs # <<>> /\ ~working /\ i = j
  <2>1. jobs # <<>> /\ ~working /\ i + n = j + n
    BY <1>1, <1>2, <1>3 DEF JobsGoOn
  <2> QED BY <2>1, <1>1
<1> QED BY <1>1, <1>3 DEF JobsGoOn

\* A job is added, and started if it is the only one.
LEMMA JobEnqueued ==
  ASSUME CoreInv, NEW n \in {0, 1}, UNCHANGED working, jobs' # <<>>, Len(micro') \in Nat,
         \A i \in 1 .. Len(micro') :
           \/ i + n \in 1 .. Len(micro) /\ micro'[i] = micro[i + n]
           \/ jobs = <<>> /\ i = Len(micro')
  PROVE  JobsGoOn'
<1>1. JobsGoOn /\ Len(micro) \in Nat
  BY LenProperties DEF CoreInv, Types
<1>2. ASSUME NEW i \in 1 .. Len(micro'), NEW j \in 1 .. Len(micro'),
             micro'[i].name \in {"job", "tail"}, micro'[j].name \in {"job", "tail"}
      PROVE  ~working /\ i = j
  <2>1. CASE jobs = <<>>
    <3>1. ~working /\ i = Len(micro') /\ j = Len(micro')
      BY <1>1, <1>2, <2>1 DEF JobsGoOn
    <3> QED BY <3>1
  <2>2. CASE jobs # <<>>
    <3>1. ~working /\ i + n = j + n
      BY <1>1, <1>2, <2>2 DEF JobsGoOn
    <3> QED BY <3>1, <1>1
  <2> QED BY <2>1, <2>2
<1> QED BY <1>2 DEF JobsGoOn

LEMMA SafeJobsStay ==
  ASSUME CoreInv, Extends, NEW i \in 1 .. Len(jobs), jobs[i] # None, retained
  PROVE  want'[jobs[i]] \in {"discard", "preserve"}
<1>1. jobs[i] \in 1 .. Made /\ want[jobs[i]] \in {"discard", "preserve"}
  BY DEF CoreInv, WaitsFit, JobsAreSafe, Types
<1> QED BY <1>1 DEF Extends

\* The task goes on, and neither the jobs nor the edits change.
LEMMA TasksFollow ==
  ASSUME CoreInv, Types', UNCHANGED <<want, runs, reactions, jobs, working, edit, retained, flushers>>,
         NoTailRuns, WaitsFit', NEW n \in {0, 1},
         \A i \in 1 .. Len(micro') :
           \/ i + n \in 1 .. Len(micro) /\ micro'[i] = micro[i + n]
           \/ /\ micro'[i].name \notin {"job", "tail"}
              /\ micro'[i].name \in {"flushed", "begin"} => edit = "none"
              /\ TaskFits(micro[i])'
  PROVE  CoreInv'
<1>1. Extends /\ ReactionsFit' /\ EditsKnown /\ Len(micro') \in Nat
  BY WantKept, ReactionsKept, LenProperties DEF CoreInv, Types
<1>2. TasksFit' /\ JobsGoOn'
  BY <1>1, OldTasksFit, JobsRest
<1>3. PatchIsLast'
  BY PatchFlies DEF PatchIsLast
<1>4. EditsKnown'
  BY <1>1 DEF EditsKnown
<1>5. JobsAreSafe'
  BY <1>1, SafeJobsStay DEF JobsAreSafe
<1> QED BY <1>1, <1>2, <1>3, <1>4, <1>5 DEF CoreInv

LEMMA JobAppended ==
  ASSUME jobs \in Seq(Nat), NEW j \in Nat, jobs' = Append(jobs, j)
  PROVE  /\ jobs' \in Seq(Nat) /\ Len(jobs) \in Nat /\ Len(jobs') = Len(jobs) + 1 /\ jobs' # <<>>
         /\ \A i \in 1 .. Len(jobs') :
              \/ i \in 1 .. Len(jobs) /\ jobs'[i] = jobs[i]
              \/ i = Len(jobs') /\ jobs'[i] = j
<1>1. /\ jobs' \in Seq(Nat) /\ Len(jobs) \in Nat /\ Len(jobs') = Len(jobs) + 1
      /\ \A i \in 1 .. Len(jobs) : jobs'[i] = jobs[i]
      /\ jobs'[Len(jobs) + 1] = j
  BY Appended
<1>2. jobs' # <<>>
  BY <1>1
<1>3. ASSUME NEW i \in 1 .. Len(jobs'), i \notin 1 .. Len(jobs) PROVE i = Len(jobs) + 1
  BY <1>1, <1>3
<1> QED BY <1>1, <1>2, <1>3

\* The task that starts the queue of jobs, if it is needed.
LEMMA JobStarted ==
  ASSUME micro \in Seq(TaskSet), micro # <<>>, micro' = Tail(micro) \o StartIfIdle
  PROVE  /\ micro' \in Seq(TaskSet) /\ Len(micro) \in Nat /\ Len(micro') \in Nat
         /\ \A i \in 1 .. Len(micro') :
              \/ i + 1 \in 1 .. Len(micro) /\ micro'[i] = micro[i + 1]
              \/ jobs = <<>> /\ i = Len(micro') /\ micro'[i].name = "job"
<1> DEFINE t == Task("job", None, Nothing)
<1>1. t \in TaskSet /\ t.name = "job"
  BY Names, PlainTask DEF None
<1>2. StartIfIdle = IF jobs = <<>> THEN <<t>> ELSE <<>>
  BY DEF StartIfIdle
<1> HIDE DEF t
<1>3. CASE jobs = <<>>
  <2>1. micro' = Tail(micro) \o <<t>>
    BY <1>2, <1>3
  <2>2. /\ micro' \in Seq(TaskSet) /\ Len(micro) \in Nat \ {0} /\ Len(micro') = Len(micro)
        /\ \A i \in 1 .. Len(micro') :
             \/ i < Len(micro) /\ i + 1 \in 2 .. Len(micro) /\ micro'[i] = micro[i + 1]
             \/ i = Len(micro) /\ micro'[i] = t
    BY <1>1, <2>1, AddedOne
  <2> QED BY <1>1, <1>3, <2>2
<1>4. CASE jobs # <<>>
  <2>1. micro' = Tail(micro) \o <<>>
    BY <1>2, <1>4
  <2>2. /\ micro' \in Seq(TaskSet) /\ Len(micro) \in Nat \ {0} /\ Len(micro') = Len(micro) - 1
        /\ \A i \in 1 .. Len(micro') : i + 1 \in 2 .. Len(micro) /\ micro'[i] = micro[i + 1]
    BY <2>1, AddedNone
  <2> QED BY <2>2
<1> QED BY <1>3, <1>4

LEMMA FlushAllCore ==
  ASSUME CoreInv, micro # <<>>, Head(micro).name \in {"operation", "emptied"}, calling = "none", FlushAll,
         UNCHANGED <<flightVars, promiseVars, calling, newest, working, idlers, retained, typed, viewVars, answered>>
  PROVE  CoreInv'
<1>1. UNCHANGED <<want, runs, active, queued, settled, reactions, calling, newest, working, idlers, retained, typed,
                  status, loaded, answered>>
  BY DEF flightVars, promiseVars, viewVars
<1>2. TaskFits(micro[1]) /\ micro[1].name \in {"operation", "emptied"} /\ Current = micro[1].call /\ Current \in Nat
  BY HeadTask
<1>3. Current \in runs
  BY <1>2 DEF TaskFits, EarlyName
<1>4. Types /\ micro \in Seq(TaskSet) /\ jobs \in Seq(Nat) /\ flushers \in Seq(Nat) /\ Len(jobs) \in Nat
      /\ enqueued \in Nat /\ Len(jobs) <= enqueued
  BY LenProperties DEF CoreInv, Types
<1>5. Extends /\ ReactionsFit' /\ NoTailRuns
  BY <1>1, WantKept, ReactionsKept DEF NoTailRuns
<1>6. CASE edit = "none"
  <2> DEFINE t == Task("flushed", Current, Result("ok", None))
  <2>1. micro' = Tail(micro) \o <<t>> /\ UNCHANGED <<jobs, enqueued, flushers, edit>>
    BY <1>6 DEF FlushAll, Adding
  <2>2. t \in TaskSet /\ t.name = "flushed" /\ t.call = Current
    BY <1>2, Names DEF Task, Result, TaskSet, ResultSet, None
  <2> HIDE DEF t
  <2>3. /\ micro' \in Seq(TaskSet) /\ Len(micro) \in Nat
        /\ \A i \in 1 .. Len(micro') :
             \/ i + 1 \in 1 .. Len(micro) /\ micro'[i] = micro[i + 1]
             \/ micro'[i] = t
    BY <1>4, <2>1, <2>2, AddedOne
  <2>4. ASSUME NEW i \in 1 .. Len(micro'), micro'[i] = t PROVE TaskFits(micro[i])'
    BY <2>4, <1>1, <1>3, <2>2 DEF TaskFits, EarlyName, LateName
  <2>5. Types' /\ WaitsFit'
    BY <1>1, <1>4, <2>1, <2>3 DEF CoreInv, Types, WaitsFit, Made
  <2>6. ASSUME NEW i \in 1 .. Len(micro')
        PROVE  \/ i + 1 \in 1 .. Len(micro) /\ micro'[i] = micro[i + 1]
               \/ /\ micro'[i].name \notin {"job", "tail"}
                  /\ micro'[i].name \in {"flushed", "begin"} => edit = "none"
                  /\ TaskFits(micro[i])'
    BY <1>6, <2>2, <2>3, <2>4
  <2> QED BY <1>1, <1>5, <2>1, <2>5, <2>6, TasksFollow
<1>7. CASE edit # "none"
  <2>1. flushers' = Append(flushers, Current) /\ edit' = "flying"
    BY <1>7 DEF FlushAll
  <2>2. /\ flushers' \in Seq(Nat)
        /\ \A i \in 1 .. Len(flushers') : flushers'[i] \in runs'
    <3>1. /\ flushers' \in Seq(Nat) /\ Len(flushers) \in Nat /\ Len(flushers') = Len(flushers) + 1
          /\ \A i \in 1 .. Len(flushers) : flushers'[i] = flushers[i]
          /\ flushers'[Len(flushers) + 1] = Current
      BY <1>2, <1>4, <2>1, Appended
    <3>2. \A i \in 1 .. Len(flushers) : flushers[i] \in runs
      BY DEF CoreInv, WaitsFit
    <3> QED BY <1>1, <1>3, <3>1, <3>2
  <2>3. \A i \in 1 .. Len(micro) : micro[i].name \notin {"flushed", "begin"}
    BY <1>7 DEF CoreInv, EditsKnown
  <2>4. CASE edit = "pending"
    <3>1. jobs' = Append(jobs, None) /\ enqueued' = enqueued + 1 /\ micro' = Tail(micro) \o StartIfIdle
      BY <2>4 DEF FlushAll, Enqueue, Adding
    <3>2. /\ micro' \in Seq(TaskSet) /\ Len(micro) \in Nat /\ Len(micro') \in Nat
          /\ \A i \in 1 .. Len(micro') :
               \/ i + 1 \in 1 .. Len(micro) /\ micro'[i] = micro[i + 1]
               \/ jobs = <<>> /\ i = Len(micro') /\ micro'[i].name = "job"
      BY <1>4, <3>1, JobStarted
    <3>3. /\ jobs' \in Seq(Nat) /\ Len(jobs') = Len(jobs) + 1 /\ jobs' # <<>>
          /\ \A i \in 1 .. Len(jobs') :
               \/ i \in 1 .. Len(jobs) /\ jobs'[i] = jobs[i]
               \/ i = Len(jobs') /\ jobs'[i] = None
      <4>1. None \in Nat
        BY DEF None
      <4> QED BY <1>4, <3>1, <4>1, JobAppended
    <3>4. Types'
      <4>1. enqueued' \in Nat /\ Len(jobs') <= enqueued'
        BY <1>4, <3>1, <3>3
      <4> QED BY <1>1, <1>4, <2>1, <2>2, <3>2, <3>3, <4>1 DEF Types, Made
    <3>5. ASSUME NEW i \in 1 .. Len(micro'), micro'[i].name = "job" PROVE TaskFits(micro[i])'
      BY <3>5 DEF TaskFits, EarlyName, LateName
    <3>6. TasksFit' /\ JobsGoOn'
      BY <1>1, <1>5, <3>2, <3>3, <3>5, OldTasksFit, JobEnqueued
    <3>7. WaitsFit'
      <4>1. \A i \in 1 .. Len(jobs') : jobs'[i] \in runs' \cup {None}
        BY <1>1, <3>3 DEF CoreInv, WaitsFit
      <4> QED BY <1>1, <2>2, <4>1 DEF CoreInv, WaitsFit
    <3>8. PatchIsLast'
      BY <1>4, <1>5, <2>1, <2>4, <3>3, PatchFlies DEF PatchIsLast
    <3>9. EditsKnown'
      BY <2>1, <2>3, <3>2 DEF EditsKnown
    <3>10. JobsAreSafe'
      BY <1>1, <1>5, <3>3, SafeJobsStay DEF JobsAreSafe
    <3> QED BY <1>5, <3>4, <3>6, <3>7, <3>8, <3>9, <3>10 DEF CoreInv
  <2>5. CASE edit # "pending"
    <3>1. edit = "flying" /\ micro' = Tail(micro) \o <<>> /\ UNCHANGED <<jobs, enqueued>>
      BY <1>4, <1>7, <2>5 DEF FlushAll, Adding, Types
    <3>2. /\ micro' \in Seq(TaskSet) /\ Len(micro') \in Nat
          /\ \A i \in 1 .. Len(micro') : i + 1 \in 1 .. Len(micro) /\ micro'[i] = micro[i + 1]
      BY <1>4, <3>1, AddedNone
    <3>3. Types'
      BY <1>1, <1>4, <2>1, <2>2, <3>1, <3>2 DEF Types, Made
    <3>4. TasksFit' /\ JobsGoOn'
      BY <1>1, <1>5, <3>1, <3>2, OldTasksFit, JobsRest
    <3>5. WaitsFit'
      BY <1>1, <2>2, <3>1 DEF CoreInv, WaitsFit
    <3>6. PatchIsLast'
      BY <1>5, <2>1, <3>1, PatchFlies DEF PatchIsLast
    <3>7. EditsKnown'
      BY <2>1, <2>3, <3>2 DEF EditsKnown
    <3>8. JobsAreSafe'
      BY <1>1, <1>5, <3>1, SafeJobsStay DEF JobsAreSafe
    <3> QED BY <1>5, <3>3, <3>4, <3>5, <3>6, <3>7, <3>8 DEF CoreInv
  <2> QED BY <2>4, <2>5
<1> QED BY <1>6, <1>7

LEMMA OperationCore ==
  ASSUME CoreInv, Operation
  PROVE  CoreInv'
BY FlushAllCore DEF Operation, Runs

LEMMA EmptiedCore ==
  ASSUME CoreInv, Emptied
  PROVE  CoreInv'
<1>1. /\ micro # <<>> /\ Head(micro).name = "emptied" /\ calling = "none"
      /\ UNCHANGED <<want, runs, active, queued, settled, reactions, calling, newest, working, idlers, retained,
                     typed, status, loaded, answered>>
  BY DEF Emptied, Runs, flightVars, promiseVars, viewVars
<1>2. CASE edit = "none"
  <2> DEFINE t == Task("begin", Current, Nothing)
  <2>1. micro' = Tail(micro) \o <<t>> /\ UNCHANGED <<jobs, enqueued, flushers, edit>>
    BY <1>2 DEF Emptied, Adding
  <2>2. TaskFits(micro[1]) /\ micro[1].name = "emptied" /\ Current = micro[1].call /\ Current \in Nat
    BY <1>1, HeadTask
  <2>3. t \in TaskSet /\ t.name = "begin" /\ t.call = Current /\ Current \in runs
    BY <2>2, Names, PlainTask DEF TaskFits, EarlyName
  <2> HIDE DEF t
  <2>4. /\ micro' \in Seq(TaskSet) /\ Len(micro) \in Nat
        /\ \A i \in 1 .. Len(micro') :
             \/ i + 1 \in 1 .. Len(micro) /\ micro'[i] = micro[i + 1]
             \/ micro'[i] = t
    BY <1>1, <2>1, <2>3, MicroType, AddedOne
  <2>5. ASSUME NEW i \in 1 .. Len(micro'), micro'[i] = t PROVE TaskFits(micro[i])'
    BY <2>5, <1>1, <2>3 DEF TaskFits, EarlyName, LateName
  <2>6. Types' /\ WaitsFit' /\ NoTailRuns
    BY <1>1, <2>1, <2>4 DEF CoreInv, Types, WaitsFit, Made, NoTailRuns
  <2>7. ASSUME NEW i \in 1 .. Len(micro')
        PROVE  \/ i + 1 \in 1 .. Len(micro) /\ micro'[i] = micro[i + 1]
               \/ /\ micro'[i].name \notin {"job", "tail"}
                  /\ micro'[i].name \in {"flushed", "begin"} => edit = "none"
                  /\ TaskFits(micro[i])'
    BY <1>2, <2>3, <2>4, <2>5
  <2> QED BY <1>1, <2>1, <2>6, <2>7, TasksFollow
<1>3. CASE edit # "none"
  BY <1>3, FlushAllCore DEF Emptied, Runs
<1> QED BY <1>2, <1>3

\* What whenIdle() waits for.
LEMMA AwaitTailKeeps ==
  ASSUME CoreInv, micro # <<>>, Head(micro).name \in {"flushed", "idle"}, AwaitTail,
         UNCHANGED <<want, runs, jobs, flushers>>
  PROVE  /\ micro' \in Seq(TaskSet) /\ idlers' \in Seq(TaskSet) /\ WaitsFit'
         /\ \A i \in 1 .. Len(micro') :
              \/ i + 1 \in 1 .. Len(micro) /\ micro'[i] = micro[i + 1]
              \/ micro'[i].name = "idle" /\ TaskFits(micro[i])'
<1> DEFINE t == Task("idle", Current, Result("none", enqueued))
<1>1. (jobs = <<>> /\ micro' = Tail(micro) \o <<t>> /\ UNCHANGED idlers)
      \/ (micro' = Tail(micro) \o <<>> /\ idlers' = Append(idlers, t))
  BY DEF AwaitTail, Adding
<1>2. TaskFits(micro[1]) /\ micro[1].name \in {"flushed", "idle"} /\ Current = micro[1].call /\ Current \in Nat
  BY HeadTask
<1>3. Current \in runs
  BY <1>2 DEF TaskFits, EarlyName
<1>4. enqueued \in Nat /\ micro \in Seq(TaskSet) /\ idlers \in Seq(TaskSet)
  BY DEF CoreInv, Types
<1>5. t \in TaskSet /\ t.name = "idle" /\ t.call = Current
  BY <1>2, <1>4, Names DEF Task, Result, TaskSet, ResultSet
<1> HIDE DEF t
<1>6. ASSUME NEW i \in 1 .. Len(micro'), micro'[i] = t PROVE micro'[i].name = "idle" /\ TaskFits(micro[i])'
  BY <1>3, <1>5, <1>6 DEF TaskFits, EarlyName, LateName
<1>7. CASE micro' = Tail(micro) \o <<t>> /\ UNCHANGED idlers
  <2>1. /\ micro' \in Seq(TaskSet) /\ Len(micro) \in Nat
        /\ \A i \in 1 .. Len(micro') :
             \/ i + 1 \in 1 .. Len(micro) /\ micro'[i] = micro[i + 1]
             \/ micro'[i] = t
    BY <1>4, <1>5, <1>7, AddedOne
  <2> QED BY <1>4, <1>6, <1>7, <2>1 DEF CoreInv, WaitsFit
<1>8. CASE micro' = Tail(micro) \o <<>> /\ idlers' = Append(idlers, t)
  <2>1. /\ micro' \in Seq(TaskSet)
        /\ \A i \in 1 .. Len(micro') : i + 1 \in 1 .. Len(micro) /\ micro'[i] = micro[i + 1]
    BY <1>4, <1>8, AddedNone
  <2>2. /\ idlers' \in Seq(TaskSet) /\ Len(idlers) \in Nat /\ Len(idlers') = Len(idlers) + 1
        /\ \A i \in 1 .. Len(idlers) : idlers'[i] = idlers[i]
        /\ idlers'[Len(idlers) + 1] = t
    BY <1>4, <1>5, <1>8, Appended
  <2>3. ASSUME NEW i \in 1 .. Len(idlers') PROVE idlers'[i].name = "idle" /\ idlers'[i].call \in runs
    <3>1. CASE i \in 1 .. Len(idlers)
      BY <2>2, <3>1 DEF CoreInv, WaitsFit
    <3>2. CASE i \notin 1 .. Len(idlers)
      <4>1. i = Len(idlers) + 1
        BY <2>2, <3>2
      <4> QED BY <1>3, <1>5, <2>2, <4>1
    <3> QED BY <3>1, <3>2
  <2>4. WaitsFit'
    BY <2>3 DEF CoreInv, WaitsFit
  <2> QED BY <2>1, <2>2, <2>4
<1> QED BY <1>1, <1>7, <1>8

LEMMA FlushedCore ==
  ASSUME CoreInv, Flushed
  PROVE  CoreInv'
<1>1. /\ micro # <<>> /\ Head(micro).name = "flushed" /\ calling = "none"
      /\ UNCHANGED <<want, runs, active, queued, settled, reactions, calling, newest, jobs, working, enqueued,
                     flushers, edit, retained, typed, status, loaded, answered>>
  BY DEF Flushed, Runs, flightVars, promiseVars, editVars, viewVars
<1>2. NoTailRuns
  BY <1>1 DEF NoTailRuns
<1>3. CASE Given.code = "ok"
  <2>1. AwaitTail
    BY <1>3 DEF Flushed
  <2>2. /\ micro' \in Seq(TaskSet) /\ idlers' \in Seq(TaskSet) /\ WaitsFit'
        /\ \A i \in 1 .. Len(micro') :
             \/ i + 1 \in 1 .. Len(micro) /\ micro'[i] = micro[i + 1]
             \/ micro'[i].name = "idle" /\ TaskFits(micro[i])'
    BY <1>1, <2>1, AwaitTailKeeps
  <2>3. Types'
    BY <1>1, <2>2 DEF CoreInv, Types, Made
  <2> QED BY <1>1, <1>2, <2>2, <2>3, TasksFollow
<1>4. CASE Given.code # "ok"
  <2> DEFINE t == Task("run", Current, Result("failed", Current))
  <2>1. micro' = Tail(micro) \o <<t>> /\ UNCHANGED idlers
    BY <1>4 DEF Flushed, Adding
  <2>2. TaskFits(micro[1]) /\ micro[1].name = "flushed" /\ Current = micro[1].call /\ Current \in Nat
    BY <1>1, HeadTask
  <2>3. t \in TaskSet /\ t.name = "run" /\ t.call = Current /\ t.arg.from = Current /\ Current \in runs
    BY <2>2, Names DEF Task, Result, TaskSet, ResultSet, TaskFits, EarlyName
  <2> HIDE DEF t
  <2>4. /\ micro' \in Seq(TaskSet) /\ Len(micro) \in Nat
        /\ \A i \in 1 .. Len(micro') :
             \/ i + 1 \in 1 .. Len(micro) /\ micro'[i] = micro[i + 1]
             \/ micro'[i] = t
    BY <1>1, <2>1, <2>3, MicroType, AddedOne
  <2>5. ASSUME NEW i \in 1 .. Len(micro'), micro'[i] = t PROVE TaskFits(micro[i])'
    BY <2>5, <1>1, <2>3 DEF TaskFits, EarlyName, LateName
  <2>6. Types' /\ WaitsFit'
    BY <1>1, <2>1, <2>4 DEF CoreInv, Types, WaitsFit, Made
  <2>7. ASSUME NEW i \in 1 .. Len(micro')
        PROVE  \/ i + 1 \in 1 .. Len(micro) /\ micro'[i] = micro[i + 1]
               \/ /\ micro'[i].name \notin {"job", "tail"}
                  /\ micro'[i].name \in {"flushed", "begin"} => edit = "none"
                  /\ TaskFits(micro[i])'
    BY <2>3, <2>4, <2>5
  <2> QED BY <1>1, <1>2, <2>6, <2>7, TasksFollow
<1> QED BY <1>3, <1>4

LEMMA IdleCore ==
  ASSUME CoreInv, Idle
  PROVE  CoreInv'
<1>1. /\ micro # <<>> /\ Head(micro).name = "idle" /\ calling = "none"
      /\ UNCHANGED <<want, runs, active, queued, settled, reactions, calling, newest, jobs, working, enqueued,
                     flushers, edit, retained, typed, status, loaded, answered>>
  BY DEF Idle, Runs, flightVars, promiseVars, editVars, viewVars
<1>2. NoTailRuns
  BY <1>1 DEF NoTailRuns
<1>3. CASE Given.from # enqueued
  <2>1. AwaitTail
    BY <1>3 DEF Idle
  <2>2. /\ micro' \in Seq(TaskSet) /\ idlers' \in Seq(TaskSet) /\ WaitsFit'
        /\ \A i \in 1 .. Len(micro') :
             \/ i + 1 \in 1 .. Len(micro) /\ micro'[i] = micro[i + 1]
             \/ micro'[i].name = "idle" /\ TaskFits(micro[i])'
    BY <1>1, <2>1, AwaitTailKeeps
  <2>3. Types'
    BY <1>1, <2>2 DEF CoreInv, Types, Made
  <2> QED BY <1>1, <1>2, <2>2, <2>3, TasksFollow
<1>4. CASE Given.from = enqueued
  <2> DEFINE t == Task("emptied", Current, Nothing)
  <2>1. micro' = Tail(micro) \o <<t>> /\ UNCHANGED idlers
    BY <1>4 DEF Idle, Adding
  <2>2. TaskFits(micro[1]) /\ micro[1].name = "idle" /\ Current = micro[1].call /\ Current \in Nat
    BY <1>1, HeadTask
  <2>3. t \in TaskSet /\ t.name = "emptied" /\ t.call = Current /\ Current \in runs
    BY <2>2, Names, PlainTask DEF TaskFits, EarlyName
  <2> HIDE DEF t
  <2>4. /\ micro' \in Seq(TaskSet) /\ Len(micro) \in Nat
        /\ \A i \in 1 .. Len(micro') :
             \/ i + 1 \in 1 .. Len(micro) /\ micro'[i] = micro[i + 1]
             \/ micro'[i] = t
    BY <1>1, <2>1, <2>3, MicroType, AddedOne
  <2>5. ASSUME NEW i \in 1 .. Len(micro'), micro'[i] = t PROVE TaskFits(micro[i])'
    BY <2>5, <1>1, <2>3 DEF TaskFits, EarlyName, LateName
  <2>6. Types' /\ WaitsFit'
    BY <1>1, <2>1, <2>4 DEF CoreInv, Types, WaitsFit, Made
  <2>7. ASSUME NEW i \in 1 .. Len(micro')
        PROVE  \/ i + 1 \in 1 .. Len(micro) /\ micro'[i] = micro[i + 1]
               \/ /\ micro'[i].name \notin {"job", "tail"}
                  /\ micro'[i].name \in {"flushed", "begin"} => edit = "none"
                  /\ TaskFits(micro[i])'
    BY <2>3, <2>4, <2>5
  <2> QED BY <1>1, <1>2, <2>6, <2>7, TasksFollow
<1> QED BY <1>3, <1>4

LEMMA BeginCore ==
  ASSUME CoreInv, Begin
  PROVE  CoreInv'
<1>1. /\ micro # <<>> /\ Head(micro).name = "begin" /\ calling = "none" /\ status' = Announced(Current)
      /\ UNCHANGED <<want, runs, active, queued, settled, reactions, calling, working, idlers, flushers,
                     edit, retained, typed, loaded, answered>>
  BY DEF Begin, Runs, flightVars, promiseVars, editVars
<1>2. /\ TaskFits(micro[1]) /\ micro[1].name = "begin" /\ Current = micro[1].call /\ Current \in Nat
      /\ 1 \in 1 .. Len(micro)
  BY <1>1, HeadTask
<1>3. Current \in runs
  BY <1>2 DEF TaskFits, EarlyName
<1>4. status' \in {"loading", "ready", "error"}
  BY <1>1 DEF Announced, CoreInv, Types
<1>5. edit = "none"
  BY <1>2 DEF CoreInv, EditsKnown
<1>6. /\ Types /\ micro \in Seq(TaskSet) /\ jobs \in Seq(Nat) /\ Len(jobs) \in Nat
      /\ enqueued \in Nat /\ Len(jobs) <= enqueued /\ runs \subseteq 1 .. Made
  BY LenProperties DEF CoreInv, Types
<1>7. Extends /\ ReactionsFit' /\ NoTailRuns
  BY <1>1, WantKept, ReactionsKept DEF NoTailRuns
<1>8. CASE Safe(Current)
  <2>1. newest' = Current /\ jobs' = Append(jobs, Current) /\ enqueued' = enqueued + 1
        /\ micro' = Tail(micro) \o StartIfIdle
    BY <1>8 DEF Begin, Enqueue, Adding
  <2>2. /\ micro' \in Seq(TaskSet) /\ Len(micro) \in Nat /\ Len(micro') \in Nat
        /\ \A i \in 1 .. Len(micro') :
             \/ i + 1 \in 1 .. Len(micro) /\ micro'[i] = micro[i + 1]
             \/ jobs = <<>> /\ i = Len(micro') /\ micro'[i].name = "job"
    BY <1>1, <1>6, <2>1, JobStarted
  <2> DEFINE c == Current
  <2>3. c \in Nat /\ c \in runs /\ c # None /\ (retained => want[c] \in {"discard", "preserve"})
    BY <1>2, <1>3, <1>6, <1>8 DEF Safe, None
  <2>4. newest' = c /\ jobs' = Append(jobs, c)
    BY <2>1
  <2> HIDE DEF c
  <2>5. /\ jobs' \in Seq(Nat) /\ Len(jobs') = Len(jobs) + 1 /\ jobs' # <<>>
        /\ \A i \in 1 .. Len(jobs') :
             \/ i \in 1 .. Len(jobs) /\ jobs'[i] = jobs[i]
             \/ i = Len(jobs') /\ jobs'[i] = c
    BY <1>6, <2>3, <2>4, JobAppended
  <2>6. Types'
    <3>1. enqueued' \in Nat /\ Len(jobs') <= enqueued'
      BY <1>6, <2>1, <2>5
    <3> QED BY <1>1, <1>4, <1>6, <2>2, <2>3, <2>4, <2>5, <3>1 DEF Types, Made
  <2>7. ASSUME NEW i \in 1 .. Len(micro'), micro'[i].name = "job" PROVE TaskFits(micro[i])'
    BY <2>7 DEF TaskFits, EarlyName, LateName
  <2>8. TasksFit' /\ JobsGoOn'
    BY <1>1, <1>7, <2>2, <2>5, <2>7, OldTasksFit, JobEnqueued
  <2>9. WaitsFit'
    <3>1. \A i \in 1 .. Len(jobs') : jobs'[i] \in runs' \cup {None}
      BY <1>1, <2>3, <2>5 DEF CoreInv, WaitsFit
    <3> QED BY <1>1, <3>1 DEF CoreInv, WaitsFit
  <2>10. PatchIsLast'
    <3>1. \A i \in 1 .. Len(jobs) : jobs[i] # None
      BY <1>5, <1>7, PatchFlies
    <3> QED BY <2>3, <2>5, <3>1 DEF PatchIsLast
  <2>11. EditsKnown'
    BY <1>1, <1>5 DEF EditsKnown, CoreInv
  <2>12. JobsAreSafe'
    BY <1>1, <1>7, <2>3, <2>5, SafeJobsStay DEF JobsAreSafe
  <2> QED BY <1>7, <2>6, <2>8, <2>9, <2>10, <2>11, <2>12 DEF CoreInv
<1>9. CASE ~Safe(Current)
  <2> DEFINE t == Task("run", Current, Result("refused", Current))
  <2>1. micro' = Tail(micro) \o <<t>> /\ UNCHANGED <<newest, jobs, enqueued>>
    BY <1>9 DEF Begin, Adding
  <2>2. t \in TaskSet /\ t.name = "run" /\ t.call = Current /\ t.arg.from = Current
    BY <1>2, Names DEF Task, Result, TaskSet, ResultSet
  <2> HIDE DEF t
  <2>3. /\ micro' \in Seq(TaskSet) /\ Len(micro) \in Nat
        /\ \A i \in 1 .. Len(micro') :
             \/ i + 1 \in 1 .. Len(micro) /\ micro'[i] = micro[i + 1]
             \/ micro'[i] = t
    BY <1>1, <1>6, <2>1, <2>2, AddedOne
  <2>4. ASSUME NEW i \in 1 .. Len(micro'), micro'[i] = t PROVE TaskFits(micro[i])'
    BY <2>4, <1>1, <1>3, <2>2 DEF TaskFits, EarlyName, LateName
  <2>5. Types' /\ WaitsFit'
    BY <1>1, <1>4, <1>6, <2>1, <2>3 DEF CoreInv, Types, WaitsFit, Made
  <2>6. ASSUME NEW i \in 1 .. Len(micro')
        PROVE  \/ i + 1 \in 1 .. Len(micro) /\ micro'[i] = micro[i + 1]
               \/ /\ micro'[i].name \notin {"job", "tail"}
                  /\ micro'[i].name \in {"flushed", "begin"} => edit = "none"
                  /\ TaskFits(micro[i])'
    BY <2>2, <2>3, <2>4
  <2> QED BY <1>1, <1>7, <2>1, <2>5, <2>6, TasksFollow
<1> QED BY <1>8, <1>9

\* What the end of the head job leaves.
LEMMA HeadJob ==
  ASSUME CoreInv, jobs # <<>>
  PROVE  /\ jobs \in Seq(Nat) /\ Len(jobs) \in Nat \ {0} /\ 1 \in 1 .. Len(jobs) /\ Head(jobs) = jobs[1]
         /\ Head(jobs) \in Nat /\ (Head(jobs) # None => Head(jobs) \in runs)
<1>1. jobs \in Seq(Nat)
  BY DEF CoreInv, Types
<1>2. Len(jobs) \in Nat \ {0} /\ 1 \in 1 .. Len(jobs) /\ Head(jobs) = jobs[1] /\ jobs[1] \in Nat
  BY <1>1, EmptySeq, ElementOfSeq
<1>3. jobs[1] \in runs \cup {None}
  BY <1>2 DEF CoreInv, WaitsFit
<1> QED BY <1>1, <1>2, <1>3

\* The jobs, the edits and what waits for them stay: what is left to show.
LEMMA EditsStay ==
  ASSUME CoreInv, NoTailRuns, Types', TasksFit', JobsGoOn',
         UNCHANGED <<want, runs, reactions, jobs, edit, flushers, idlers>>, retained' => retained,
         \A i \in 1 .. Len(micro') : micro'[i].name \in {"flushed", "begin"} => edit = "none"
  PROVE  CoreInv'
<1>1. Extends /\ ReactionsFit' /\ EditsKnown /\ WaitsFit
  BY WantKept, ReactionsKept DEF CoreInv
<1>2. WaitsFit' /\ EditsKnown'
  BY <1>1 DEF WaitsFit, EditsKnown
<1>3. PatchIsLast'
  BY PatchFlies DEF PatchIsLast
<1>4. JobsAreSafe'
  BY <1>1, SafeJobsStay DEF JobsAreSafe
<1> QED BY <1>1, <1>2, <1>3, <1>4 DEF CoreInv

LEMMA Pair ==
  ASSUME NEW t \in TaskSet, NEW u \in TaskSet
  PROVE  <<t>> \o <<u>> = <<t, u>>
<1>1. <<t>> \in Seq(TaskSet) /\ <<u>> \in Seq(TaskSet) /\ <<t, u>> \in Seq(TaskSet)
  OBVIOUS
<1>2. <<t>> \o <<u>> \in Seq(TaskSet)
  BY <1>1, ConcatProperties
<1>3. /\ Len(<<t>> \o <<u>>) = 2 /\ Len(<<t, u>>) = 2
      /\ \A i \in 1 .. 2 : (<<t>> \o <<u>>)[i] = <<t, u>>[i]
  BY <1>1, ConcatProperties
<1> QED BY <1>1, <1>2, <1>3, SeqEqual

LEMMA JobStartsCore ==
  ASSUME CoreInv, JobStarts
  PROVE  CoreInv'
<1>1. /\ micro # <<>> /\ Head(micro).name = "job" /\ calling = "none"
      /\ UNCHANGED <<want, runs, active, queued, settled, reactions, calling, newest, jobs, enqueued, idlers,
                     flushers, edit, retained, typed, status, loaded, answered>>
  BY DEF JobStarts, Runs, flightVars, promiseVars, editVars, viewVars
<1>2. NoTailRuns /\ micro \in Seq(TaskSet) /\ Extends /\ EditsKnown
  BY <1>1, MicroType, WantKept DEF NoTailRuns, CoreInv
<1>3. micro[1].name = "job" /\ 1 \in 1 .. Len(micro) /\ Len(micro) \in Nat
  BY <1>1, HeadTask
<1>4. jobs # <<>> /\ ~working /\ \A j \in 1 .. Len(micro) : micro[j].name \in {"job", "tail"} => j = 1
  BY <1>3 DEF CoreInv, JobsGoOn
<1>5. CASE working' = TRUE /\ micro' = Tail(micro) \o <<>>
  <2>1. /\ micro' \in Seq(TaskSet) /\ Len(micro') \in Nat
        /\ \A i \in 1 .. Len(micro') : i + 1 \in 2 .. Len(micro) /\ micro'[i] = micro[i + 1]
    BY <1>1, <1>2, <1>5, AddedNone
  <2>2. \A i \in 1 .. Len(micro') : i + 1 \in 1 .. Len(micro) /\ micro'[i].name \notin {"job", "tail"}
    BY <1>3, <1>4, <2>1
  <2>3. Types'
    BY <1>1, <1>5, <2>1 DEF CoreInv, Types, Made
  <2>4. TasksFit'
    BY <1>2, <2>1, <2>2, OldTasksFit
  <2>5. JobsGoOn'
    BY <1>1, <1>4, <2>2 DEF JobsGoOn
  <2>6. \A i \in 1 .. Len(micro') : micro'[i].name \in {"flushed", "begin"} => edit = "none"
    BY <1>2, <2>1, <2>2 DEF EditsKnown
  <2> QED BY <1>1, <1>2, <2>3, <2>4, <2>5, <2>6, EditsStay
<1>6. CASE ~(working' = TRUE /\ micro' = Tail(micro) \o <<>>)
  <2> DEFINE c == Head(jobs)
             t == Task("tail", None, Nothing)
             u == Task("return", c, Result("superseded", c))
  <2>1. c # None /\ Leave(Result("superseded", c))
    BY <1>6 DEF JobStarts, Adding
  <2>2. c \in Nat /\ c \in runs
    BY <1>4, <2>1, HeadJob
  <2>3. /\ t \in TaskSet /\ t.name = "tail"
        /\ u \in TaskSet /\ u.name = "return" /\ u.call = c /\ u.arg.from = c
    BY <2>2, Names DEF Task, Result, Nothing, None, TaskSet, ResultSet
  <2>4. working' = FALSE /\ micro' = Tail(micro) \o <<t, u>>
    <3>1. working' = FALSE /\ micro' = Tail(micro) \o (<<t>> \o <<u>>)
      BY <2>1 DEF Leave, Adding
    <3> HIDE DEF t, u
    <3> QED BY <2>3, <3>1, Pair
  <2> HIDE DEF t, u
  <2>5. /\ micro' \in Seq(TaskSet) /\ Len(micro') \in Nat
        /\ \A i \in 1 .. Len(micro') :
             \/ i < Len(micro) /\ i + 1 \in 2 .. Len(micro) /\ micro'[i] = micro[i + 1]
             \/ i = Len(micro) /\ micro'[i] = t
             \/ i = Len(micro) + 1 /\ micro'[i] = u
    BY <1>1, <1>2, <2>3, <2>4, AddedTwo
  <2>6. ASSUME NEW i \in 1 .. Len(micro'), micro'[i] = t \/ micro'[i] = u PROVE TaskFits(micro[i])'
    BY <2>6, <1>1, <2>2, <2>3 DEF TaskFits, EarlyName, LateName
  <2>7. Types'
    BY <1>1, <2>4, <2>5 DEF CoreInv, Types, Made
  <2>8. TasksFit'
    <3>1. \A i \in 1 .. Len(micro') :
            (i + 1 \in 1 .. Len(micro) /\ micro'[i] = micro[i + 1]) \/ TaskFits(micro[i])'
      BY <2>5, <2>6
    <3> QED BY <1>2, <3>1, OldTasksFit
  <2>9. JobsGoOn'
    <3>1. \A i \in 1 .. Len(micro') : micro'[i].name \in {"job", "tail"} => i = Len(micro)
      BY <1>3, <1>4, <2>3, <2>5
    <3> QED BY <1>1, <1>4, <2>4, <3>1 DEF JobsGoOn
  <2>10. \A i \in 1 .. Len(micro') : micro'[i].name \in {"flushed", "begin"} => edit = "none"
    BY <1>2, <2>3, <2>5 DEF EditsKnown
  <2> QED BY <1>1, <1>2, <2>7, <2>8, <2>9, <2>10, EditsStay
<1> QED BY <1>5, <1>6

LEMMA TailSettlesCore ==
  ASSUME CoreInv, TailSettles
  PROVE  CoreInv'
<1> DEFINE job == Task("job", None, Nothing)
           more == IF Len(jobs) > 1 THEN <<job>> ELSE <<>>
<1>1. /\ micro # <<>> /\ Head(micro).name = "tail" /\ calling = "none" /\ jobs' = Tail(jobs)
      /\ UNCHANGED <<want, runs, active, queued, settled, reactions, calling, newest, working, enqueued,
                     flushers, edit, retained, typed, status, loaded, answered>>
  BY DEF TailSettles, Runs, flightVars, promiseVars, editVars, viewVars
<1>2. PICK n \in 0 .. Len(idlers) :
        micro' = Tail(micro) \o (SubSeq(idlers, 1, n) \o more) /\ idlers' = SubSeq(idlers, n + 1, Len(idlers))
  BY DEF TailSettles, Adding
<1>3. /\ micro \in Seq(TaskSet) /\ idlers \in Seq(TaskSet) /\ Len(idlers) \in Nat /\ n \in Nat
      /\ Extends /\ EditsKnown /\ WaitsFit /\ Types
  <2>1. micro \in Seq(TaskSet) /\ idlers \in Seq(TaskSet) /\ EditsKnown /\ WaitsFit /\ Types
    BY DEF CoreInv, Types
  <2>2. Len(idlers) \in Nat
    BY <2>1, LenProperties
  <2> QED BY <1>1, <2>1, <2>2, WantKept
<1>4. micro[1].name = "tail" /\ 1 \in 1 .. Len(micro) /\ Len(micro) \in Nat
  BY <1>1, HeadTask
<1>5. jobs # <<>> /\ ~working /\ \A j \in 1 .. Len(micro) : micro[j].name \in {"job", "tail"} => j = 1
  BY <1>4 DEF CoreInv, JobsGoOn
<1>6. job \in TaskSet /\ job.name = "job"
  BY Names, PlainTask DEF None
<1> HIDE DEF job
<1>7. more \in Seq(TaskSet) /\ Len(more) = (IF Len(jobs) > 1 THEN 1 ELSE 0)
      /\ \A i \in 1 .. Len(more) : i = 1 /\ more[i] = job /\ Len(jobs) > 1
  BY <1>6
<1> HIDE DEF more
<1>8. /\ SubSeq(idlers, 1, n) \in Seq(TaskSet) /\ Len(SubSeq(idlers, 1, n)) = n
      /\ \A i \in 1 .. n : SubSeq(idlers, 1, n)[i] = idlers[i]
  <2>1. 1 \in 1 .. Len(idlers) + 1 /\ n \in 1 - 1 .. Len(idlers) /\ 1 - 1 = 0 /\ n - 1 + 1 = n
    BY <1>2, <1>3
  <2> QED BY <1>3, <2>1, SubSeqProperties
<1>9. /\ idlers' \in Seq(TaskSet) /\ Len(idlers') = Len(idlers) - n
      /\ \A i \in 1 .. Len(idlers') : n + i \in 1 .. Len(idlers) /\ idlers'[i] = idlers[n + i]
  <2> DEFINE m == n + 1
  <2>1. m \in 1 .. Len(idlers) + 1 /\ Len(idlers) \in m - 1 .. Len(idlers)
        /\ (IF m <= Len(idlers) THEN Len(idlers) - m + 1 ELSE 0) = Len(idlers) - n
    BY <1>2, <1>3
  <2>2. \A i \in 1 .. Len(idlers) - n : n + i \in 1 .. Len(idlers) /\ m + i - 1 = n + i
    BY <1>2, <1>3
  <2>3. idlers' = SubSeq(idlers, m, Len(idlers))
    BY <1>2
  <2> HIDE DEF m
  <2> QED BY SMTT(30), <1>3, <2>1, <2>2, <2>3, SubSeqProperties
<1> DEFINE new == SubSeq(idlers, 1, n) \o more
<1>10. /\ new \in Seq(TaskSet) /\ Len(new) = n + Len(more)
       /\ \A k \in 1 .. Len(new) :
            \/ k \in 1 .. Len(idlers) /\ new[k] = idlers[k]
            \/ k = Len(new) /\ new[k] = job /\ Len(jobs) > 1
  <2>1. /\ new \in Seq(TaskSet) /\ Len(new) = n + Len(more)
        /\ \A k \in 1 .. n + Len(more) : new[k] = IF k <= n THEN SubSeq(idlers, 1, n)[k] ELSE more[k - n]
    BY <1>7, <1>8, ConcatProperties
  <2>2. ASSUME NEW k \in 1 .. Len(new), k <= n PROVE k \in 1 .. Len(idlers) /\ new[k] = idlers[k]
    BY <1>2, <1>3, <1>8, <2>1, <2>2
  <2>3. ASSUME NEW k \in 1 .. Len(new), ~(k <= n) PROVE k = Len(new) /\ new[k] = job /\ Len(jobs) > 1
    <3>1. k - n \in 1 .. Len(more)
      BY <1>3, <1>7, <2>1, <2>3
    <3>2. k - n = 1 /\ more[k - n] = job /\ Len(jobs) > 1
      BY <1>7, <3>1
    <3>3. new[k] = more[k - n]
      BY <2>1, <2>3
    <3> QED BY <1>3, <1>7, <2>1, <3>1, <3>2, <3>3
  <2> QED BY <2>1, <2>2, <2>3
<1>11. micro' = Tail(micro) \o new
  BY <1>2
<1> HIDE DEF new
<1>12. /\ micro' \in Seq(TaskSet) /\ Len(micro') \in Nat
       /\ \A i \in 1 .. Len(micro') :
            \/ i + 1 \in 2 .. Len(micro) /\ micro'[i] = micro[i + 1]
            \/ \E k \in 1 .. Len(idlers) : micro'[i] = idlers[k]
            \/ i = Len(micro') /\ micro'[i] = job /\ Len(jobs) > 1
  <2>1. /\ micro' \in Seq(TaskSet) /\ Len(micro') = Len(micro) - 1 + Len(new) /\ Len(new) \in Nat
        /\ \A i \in 1 .. Len(micro') :
             \/ i + 1 \in 2 .. Len(micro) /\ micro'[i] = micro[i + 1]
             \/ \E k \in 1 .. Len(new) : i = Len(micro) - 1 + k /\ micro'[i] = new[k]
    BY <1>1, <1>3, <1>10, <1>11, AddedMany
  <2>2. micro' \in Seq(TaskSet) /\ Len(micro') \in Nat
    BY <2>1, LenProperties
  <2>3. ASSUME NEW i \in 1 .. Len(micro'), NEW k \in 1 .. Len(new), i = Len(micro) - 1 + k, micro'[i] = new[k]
        PROVE  \/ k \in 1 .. Len(idlers) /\ micro'[i] = idlers[k]
               \/ i = Len(micro') /\ micro'[i] = job /\ Len(jobs) > 1
    BY <1>10, <2>1, <2>3
  <2> QED BY <2>1, <2>2, <2>3
<1>13. jobs \in Seq(Nat) /\ Len(jobs) \in Nat \ {0} /\ jobs' \in Seq(Nat) /\ Len(jobs') = Len(jobs) - 1
       /\ \A i \in 1 .. Len(jobs') : i + 1 \in 2 .. Len(jobs) /\ jobs'[i] = jobs[i + 1]
  <2>1. jobs \in Seq(Nat) /\ Len(jobs) \in Nat \ {0}
    BY <1>5, HeadJob
  <2> QED BY <1>1, <1>5, <2>1, HeadTailProperties
<1>14. ASSUME NEW k \in 1 .. Len(idlers)
       PROVE  idlers[k].name = "idle" /\ idlers[k].call \in runs
  BY <1>3 DEF WaitsFit
<1>15. Types'
  <2>1. Len(jobs') <= enqueued'
    BY <1>1, <1>3, <1>13 DEF Types
  <2> QED BY <1>1, <1>3, <1>9, <1>12, <1>13, <2>1 DEF Types, Made
<1>16. TasksFit'
  <2>1. ASSUME NEW i \in 1 .. Len(micro'), NEW k \in 1 .. Len(idlers), micro'[i] = idlers[k]
        PROVE  TaskFits(micro[i])'
    BY <1>1, <1>14, <2>1 DEF TaskFits, EarlyName, LateName
  <2>2. ASSUME NEW i \in 1 .. Len(micro'), micro'[i] = job PROVE TaskFits(micro[i])'
    BY <1>6, <2>2 DEF TaskFits, EarlyName, LateName
  <2> QED BY SMTT(30), <1>3, <1>12, <2>1, <2>2, OldTasksFit
<1>17. JobsGoOn'
  <2>1. ASSUME NEW i \in 1 .. Len(micro'), micro'[i].name \in {"job", "tail"}
        PROVE  i = Len(micro') /\ Len(jobs) > 1
    <3>1. ~(i + 1 \in 2 .. Len(micro) /\ micro'[i] = micro[i + 1])
      BY <1>4, <1>5, <2>1
    <3>2. ~\E k \in 1 .. Len(idlers) : micro'[i] = idlers[k]
      BY <1>14, <2>1
    <3> QED BY <1>12, <3>1, <3>2
  <2>2. Len(jobs) > 1 => jobs' # <<>>
    BY <1>13
  <2>3. ~working'
    BY <1>1, <1>5
  <2>4. \A i \in 1 .. Len(micro') : micro'[i].name \in {"job", "tail"} => jobs' # <<>> /\ i = Len(micro')
    BY <2>1, <2>2
  <2> QED BY <2>3, <2>4 DEF JobsGoOn
<1>18. PatchIsLast'
  <2>1. ASSUME NEW i \in 1 .. Len(jobs'), jobs'[i] = None PROVE i = Len(jobs') /\ edit = "flying"
    <3>1. i + 1 \in 1 .. Len(jobs) /\ i + 1 # 1 /\ jobs[i + 1] = None
      BY SMTT(30), <1>13, <2>1
    <3>2. i + 1 = Len(jobs) /\ edit = "flying"
      BY <3>1 DEF PatchIsLast, CoreInv
    <3> QED BY <1>13, <3>2
  <2> QED BY <1>1, <2>1 DEF PatchIsLast
<1>19. EditsKnown'
  <2>1. \A i \in 1 .. Len(micro') : micro'[i].name \in {"flushed", "begin"} => edit = "none"
    BY <1>3, <1>6, <1>12, <1>14 DEF EditsKnown
  <2> QED BY <1>1, <1>3, <2>1 DEF EditsKnown
<1>20. JobsAreSafe'
  <2>1. ASSUME NEW i \in 1 .. Len(jobs'), jobs'[i] # None, retained
        PROVE  want'[jobs'[i]] \in {"discard", "preserve"}
    <3>1. i + 1 \in 1 .. Len(jobs) /\ jobs'[i] = jobs[i + 1]
      BY SMTT(30), <1>13
    <3> QED BY <1>3, <2>1, <3>1, SafeJobsStay
  <2> QED BY <1>1, <2>1 DEF JobsAreSafe
<1>21. WaitsFit'
  <2>1. ASSUME NEW i \in 1 .. Len(jobs') PROVE jobs'[i] \in runs \cup {None}
    <3>1. i + 1 \in 1 .. Len(jobs) /\ jobs'[i] = jobs[i + 1]
      BY SMTT(30), <1>13
    <3> QED BY <1>3, <3>1 DEF WaitsFit
  <2>2. \A i \in 1 .. Len(idlers') : idlers'[i].name = "idle" /\ idlers'[i].call \in runs
    BY <1>9, <1>14
  <2> QED BY <1>1, <1>3, <2>1, <2>2 DEF WaitsFit
<1>22. ReactionsFit'
  BY <1>1, <1>3, ReactionsKept
<1> QED BY <1>15, <1>16, <1>17, <1>18, <1>19, <1>20, <1>21, <1>22 DEF CoreInv

\* The server's answer ends the load that is the head job.
LEMMA LoadEndsCore ==
  ASSUME CoreInv, Quiet, working, NEW c, c = Head(jobs), c # None, NEW code \in {"ok", "failed", "superseded"},
         Answered(Result(code, c)), retained' \in BOOLEAN, retained' => retained,
         status' \in {"loading", "ready", "error"}, loaded' \in BOOLEAN,
         UNCHANGED <<flightVars, promiseVars, calling, newest, jobs, enqueued, idlers, flushers, edit, typed,
                     answered>>
  PROVE  CoreInv'
<1> DEFINE t == Task("tail", None, Nothing)
           u == Task("return", c, Result(code, c))
<1>1. /\ micro = <<>> /\ calling = "none" /\ working' = FALSE /\ micro' = <<t, u>>
      /\ UNCHANGED <<want, runs, active, queued, settled, reactions, calling, newest, jobs, enqueued, idlers,
                     flushers, edit, typed, answered>>
  BY DEF Quiet, Answered, flightVars, promiseVars
<1>2. jobs # <<>> /\ NoTailRuns /\ Extends
  BY <1>1, WantKept DEF CoreInv, JobsGoOn, NoTailRuns
<1>3. c \in Nat /\ c \in runs
  BY <1>2, HeadJob
<1>4. /\ t \in TaskSet /\ t.name = "tail"
      /\ u \in TaskSet /\ u.name = "return" /\ u.call = c /\ u.arg.from = c
  BY <1>3, Names DEF Task, Result, Nothing, None, TaskSet, ResultSet
<1> HIDE DEF t, u
<1>5. /\ micro' \in Seq(TaskSet) /\ Len(micro') = 2
      /\ \A i \in 1 .. Len(micro') : (i = 1 /\ micro'[i] = t) \/ (i = 2 /\ micro'[i] = u)
  BY <1>1, <1>4
<1>6. Types'
  BY <1>1, <1>5 DEF CoreInv, Types, Made
<1>7. TasksFit'
  <2>1. ASSUME NEW i \in 1 .. Len(micro') PROVE TaskFits(micro[i])'
    BY <1>1, <1>3, <1>4, <1>5 DEF TaskFits, EarlyName, LateName
  <2> QED BY <2>1 DEF TasksFit
<1>8. JobsGoOn'
  BY <1>1, <1>2, <1>4, <1>5 DEF JobsGoOn
<1>9. \A i \in 1 .. Len(micro') : micro'[i].name \in {"flushed", "begin"} => edit = "none"
  BY <1>4, <1>5
<1> QED BY <1>1, <1>2, <1>6, <1>7, <1>8, <1>9, EditsStay

LEMMA LoadCore ==
  ASSUME CoreInv, LoadSucceeds \/ LoadFails
  PROVE  CoreInv'
<1> DEFINE c == Head(jobs)
<1>1. Quiet /\ working /\ c # None
      /\ UNCHANGED <<flightVars, promiseVars, calling, newest, jobs, enqueued, idlers, flushers, edit, typed,
                     answered>>
  BY DEF LoadSucceeds, LoadFails, editVars
<1>2. /\ retained \in BOOLEAN /\ status \in {"loading", "ready", "error"} /\ loaded \in BOOLEAN
  BY DEF CoreInv, Types
<1>3. /\ retained' \in BOOLEAN /\ (retained' => retained) /\ status' \in {"loading", "ready", "error"}
      /\ loaded' \in BOOLEAN
      /\ \E code \in {"ok", "failed", "superseded"} : Answered(Result(code, c))
  <2>1. CASE LoadSucceeds
    BY <1>2, <2>1 DEF LoadSucceeds, Applied
  <2>2. CASE LoadFails
    BY <1>2, <2>2 DEF LoadFails, editVars
  <2> QED BY <2>1, <2>2
<1> QED BY <1>1, <1>3, LoadEndsCore

\* A patch takes off.
LEMMA FliesCore ==
  ASSUME CoreInv, Quiet, edit # "flying", Flies, retained' \in BOOLEAN, retained' => retained,
         typed' \in 0 .. MaxEdits
  PROVE  CoreInv'
<1> DEFINE t == Task("job", None, Nothing)
<1>1. /\ micro = <<>> /\ calling = "none" /\ jobs' = Append(jobs, None) /\ enqueued' = enqueued + 1
      /\ edit' = "flying" /\ micro' = IF jobs = <<>> THEN <<t>> ELSE <<>>
      /\ UNCHANGED <<want, runs, active, queued, settled, reactions, calling, newest, working, idlers, flushers,
                     status, loaded, answered>>
  BY DEF Quiet, Flies, Enqueue, StartIfIdle, flightVars, promiseVars, viewVars
<1>2. /\ Types /\ jobs \in Seq(Nat) /\ Len(jobs) \in Nat /\ enqueued \in Nat /\ Len(jobs) <= enqueued
      /\ JobsGoOn /\ WaitsFit
  BY LenProperties DEF CoreInv, Types
<1>3. Extends /\ ReactionsFit' /\ NoTailRuns
  BY <1>1, WantKept, ReactionsKept DEF NoTailRuns
<1>4. t \in TaskSet /\ t.name = "job"
  BY Names, PlainTask DEF None
<1> HIDE DEF t
<1>5. /\ micro' \in Seq(TaskSet) /\ Len(micro') \in {0, 1}
      /\ \A i \in 1 .. Len(micro') : i = 1 /\ jobs = <<>> /\ micro'[i].name = "job"
  BY <1>1, <1>4
<1>6. /\ jobs' \in Seq(Nat) /\ Len(jobs') = Len(jobs) + 1 /\ jobs' # <<>>
      /\ \A i \in 1 .. Len(jobs') :
           \/ i \in 1 .. Len(jobs) /\ jobs'[i] = jobs[i]
           \/ i = Len(jobs') /\ jobs'[i] = None
  <2>1. None \in Nat
    BY DEF None
  <2> QED BY <1>1, <1>2, <2>1, JobAppended
<1>7. \A i \in 1 .. Len(jobs) : jobs[i] # None
  BY <1>3, PatchFlies
<1>8. Types'
  <2>1. enqueued' \in Nat /\ Len(jobs') <= enqueued'
    BY <1>1, <1>2, <1>6
  <2> QED BY <1>1, <1>2, <1>5, <1>6, <2>1 DEF Types, Made
<1>9. TasksFit'
  <2>1. ASSUME NEW i \in 1 .. Len(micro') PROVE TaskFits(micro[i])'
    BY <1>5 DEF TaskFits, EarlyName, LateName
  <2> QED BY <2>1 DEF TasksFit
<1>10. JobsGoOn'
  BY <1>1, <1>2, <1>5, <1>6 DEF JobsGoOn
<1>11. WaitsFit'
  <2>1. \A i \in 1 .. Len(jobs') : jobs'[i] \in runs' \cup {None}
    BY <1>1, <1>2, <1>6 DEF WaitsFit
  <2> QED BY <1>1, <1>2, <2>1 DEF WaitsFit
<1>12. PatchIsLast'
  BY <1>1, <1>6, <1>7 DEF PatchIsLast
<1>13. EditsKnown'
  BY <1>1, <1>5 DEF EditsKnown
<1>14. JobsAreSafe'
  BY <1>3, <1>6, SafeJobsStay DEF JobsAreSafe
<1> QED BY <1>3, <1>8, <1>9, <1>10, <1>11, <1>12, <1>13, <1>14 DEF CoreInv

LEMMA SentCore ==
  ASSUME CoreInv, EditTimer \/ Retry
  PROVE  CoreInv'
<1>1. retained \in BOOLEAN /\ typed \in 0 .. MaxEdits /\ MaxEdits \in Nat
  BY BoundAssumption DEF CoreInv, Types
<1>2. CASE EditTimer
  BY <1>1, <1>2, FliesCore DEF EditTimer
<1>3. CASE Retry
  <2>1. typed' \in 0 .. MaxEdits
    BY <1>1, <1>3 DEF Retry
  <2> QED BY <1>1, <1>3, <2>1, FliesCore DEF Retry
<1> QED BY <1>2, <1>3

LEMMA TypeCore ==
  ASSUME CoreInv, Type
  PROVE  CoreInv'
<1>1. /\ micro = <<>> /\ calling = "none" /\ edit = "none" /\ edit' = "pending" /\ retained' = FALSE
      /\ typed < MaxEdits /\ typed' = typed + 1
      /\ UNCHANGED <<want, runs, active, queued, settled, reactions, micro, calling, newest, jobs, working, enqueued,
                     idlers, flushers, status, loaded, answered>>
  BY DEF Type, Quiet, flightVars, promiseVars, queueVars, viewVars
<1>2. Extends /\ ReactionsFit' /\ NoTailRuns /\ Len(micro) = 0
  BY <1>1, WantKept, ReactionsKept DEF NoTailRuns
<1>3. Types'
  <2>1. typed' \in 0 .. MaxEdits
    BY <1>1, BoundAssumption DEF CoreInv, Types
  <2> QED BY <1>1, <2>1 DEF CoreInv, Types, Made
<1>4. TasksFit' /\ JobsGoOn'
  BY <1>1, <1>2 DEF TasksFit, JobsGoOn, CoreInv
<1>5. WaitsFit'
  BY <1>1 DEF WaitsFit, CoreInv
<1>6. PatchIsLast'
  <2>1. \A i \in 1 .. Len(jobs) : jobs[i] # None
    BY <1>1, <1>2, PatchFlies
  <2> QED BY <1>1, <2>1 DEF PatchIsLast
<1>7. EditsKnown' /\ JobsAreSafe'
  BY <1>1, <1>2 DEF EditsKnown, JobsAreSafe, CoreInv
<1> QED BY <1>2, <1>3, <1>4, <1>5, <1>6, <1>7 DEF CoreInv

LEMMA FlushersType ==
  ASSUME CoreInv, NEW refused \in BOOLEAN
  PROVE  /\ FlushersTold(refused) \in Seq(TaskSet)
         /\ \A i \in 1 .. Len(FlushersTold(refused)) :
              FlushersTold(refused)[i].name = "flushed" /\ FlushersTold(refused)[i].call \in runs
<1> DEFINE code == IF refused THEN "failed" ELSE "ok"
           F(i) == Task("flushed", flushers[i], Result(code, None))
<1>1. flushers \in Seq(Nat) /\ Len(flushers) \in Nat
  BY LenProperties DEF CoreInv, Types
<1>2. ASSUME NEW i \in 1 .. Len(flushers)
      PROVE  F(i) \in TaskSet /\ F(i).name = "flushed" /\ F(i).call = flushers[i] /\ flushers[i] \in runs
  <2>1. flushers[i] \in Nat /\ flushers[i] \in runs
    BY <1>1, ElementOfSeq DEF CoreInv, WaitsFit
  <2> QED BY <2>1, Names DEF Task, Result, None, TaskSet, ResultSet
<1>3. FlushersTold(refused) = [i \in 1 .. Len(flushers) |-> F(i)]
  BY DEF FlushersTold
<1> HIDE DEF F
<1>4. FlushersTold(refused) \in [1 .. Len(flushers) -> TaskSet]
  BY <1>2, <1>3
<1>5. FlushersTold(refused) \in Seq(TaskSet)
  BY <1>1, <1>4, SeqDef
<1>6. Len(FlushersTold(refused)) = Len(flushers)
  BY <1>1, <1>4, <1>5, LenProperties
<1> QED BY <1>2, <1>3, <1>5, <1>6

LEMMA EditSettlesCore ==
  ASSUME CoreInv, EditSettles
  PROVE  CoreInv'
<1> DEFINE t == Task("tail", None, Nothing)
<1>1. /\ micro = <<>> /\ calling = "none" /\ working /\ Head(jobs) = None /\ edit' = "none" /\ working' = FALSE
      /\ flushers' = <<>>
      /\ UNCHANGED <<want, runs, active, queued, settled, reactions, calling, newest, jobs, enqueued, idlers, typed,
                     status, loaded, answered>>
  BY DEF EditSettles, Quiet, flightVars, promiseVars, viewVars
<1>2. PICK refused \in BOOLEAN :
        retained' = (retained \/ refused) /\ micro' = <<t>> \o FlushersTold(refused)
  BY DEF EditSettles
<1>3. /\ Types /\ WaitsFit /\ Extends /\ ReactionsFit' /\ NoTailRuns /\ jobs # <<>> /\ retained \in BOOLEAN
  BY <1>1, WantKept, ReactionsKept DEF NoTailRuns, CoreInv, JobsGoOn, Types
<1>4. t \in TaskSet /\ t.name = "tail"
  BY Names, PlainTask DEF None
<1> HIDE DEF t
<1>5. /\ micro' \in Seq(TaskSet) /\ Len(micro') \in Nat \ {0} /\ micro' # <<>> /\ micro'[1] = t /\ Head(micro') = t
      /\ \A i \in 2 .. Len(micro') : micro'[i].name = "flushed" /\ micro'[i].call \in runs
  <2> DEFINE told == FlushersTold(refused)
  <2>1. /\ told \in Seq(TaskSet)
        /\ \A i \in 1 .. Len(told) : told[i].name = "flushed" /\ told[i].call \in runs
    BY FlushersType
  <2>2. micro' = <<t>> \o told
    BY <1>2
  <2> HIDE DEF told
  <2>3. <<t>> \in Seq(TaskSet) /\ Len(<<t>>) = 1 /\ <<t>>[1] = t /\ Len(told) \in Nat
    BY <1>4, <2>1, LenProperties
  <2>4. /\ micro' \in Seq(TaskSet) /\ Len(micro') = 1 + Len(told)
        /\ \A i \in 1 .. 1 + Len(told) : micro'[i] = IF i <= 1 THEN <<t>>[i] ELSE told[i - 1]
    BY <2>1, <2>2, <2>3, ConcatProperties
  <2>5. micro'[1] = t /\ micro' # <<>>
    BY <2>3, <2>4
  <2>6. ASSUME NEW i \in 2 .. Len(micro') PROVE micro'[i].name = "flushed" /\ micro'[i].call \in runs
    <3>1. i \in 1 .. 1 + Len(told) /\ ~(i <= 1) /\ i - 1 \in 1 .. Len(told)
      BY <2>3, <2>4
    <3> QED BY <2>1, <2>4, <3>1
  <2>7. Head(micro') = micro'[1]
    BY <2>4, <2>5
  <2> QED BY <2>3, <2>4, <2>5, <2>6, <2>7
<1>6. jobs \in Seq(Nat) /\ Len(jobs) = 1 /\ jobs[1] = None
  <2>1. jobs \in Seq(Nat) /\ 1 \in 1 .. Len(jobs) /\ Head(jobs) = jobs[1]
    BY <1>3, HeadJob
  <2> QED BY <1>1, <1>3, <2>1, PatchFlies
<1>7. Types'
  <2>1. retained' \in BOOLEAN /\ flushers' \in Seq(Nat) /\ flushers' = <<>>
    BY <1>1, <1>2, <1>3, EmptySeq
  <2> QED BY <1>1, <1>3, <1>5, <2>1 DEF Types, Made
<1>8. TasksFit'
  <2>1. ASSUME NEW i \in 1 .. Len(micro') PROVE TaskFits(micro[i])'
    <3>1. CASE i = 1
      BY <1>4, <1>5, <3>1 DEF TaskFits, EarlyName, LateName
    <3>2. CASE i # 1
      <4>1. micro'[i].name = "flushed" /\ micro'[i].call \in runs
        BY <1>5, <3>2
      <4> QED BY <1>1, <4>1 DEF TaskFits, EarlyName, LateName
    <3> QED BY <3>1, <3>2
  <2> QED BY <2>1 DEF TasksFit
<1>9. JobsGoOn'
  <2>1. \A i \in 1 .. Len(micro') : micro'[i].name \in {"job", "tail"} => i = 1
    BY <1>5
  <2> QED BY <1>1, <1>3, <2>1 DEF JobsGoOn
<1>10. WaitsFit'
  BY <1>1, <1>3 DEF WaitsFit
<1>11. PatchIsLast'
  BY <1>1, <1>4, <1>5, <1>6 DEF PatchIsLast
<1>12. EditsKnown'
  BY <1>1 DEF EditsKnown
<1>13. JobsAreSafe'
  BY <1>1, <1>6 DEF JobsAreSafe
<1> QED BY <1>3, <1>7, <1>8, <1>9, <1>10, <1>11, <1>12, <1>13 DEF CoreInv

(***************************************************************************)
(* Answers and edits                                                       *)
(***************************************************************************)
LEMMA InitCore ==
  ASSUME Init
  PROVE  CoreInv
<1>1. Types
  <2>1. <<>> \in Seq(Kind) /\ <<>> \in Seq(Nat) /\ <<>> \in Seq(TaskSet) /\ Len(<<>>) = 0
    BY EmptySeq
  <2>2. [p \in Promise |-> <<>>] \in [Promise -> Seq(TaskSet)]
    BY <2>1
  <2>3. 0 <= MaxCalls /\ 0 \in 0 .. MaxEdits
    BY BoundAssumption
  <2>4. /\ want \in Seq(Kind) /\ Made <= MaxCalls /\ Made = 0 /\ micro \in Seq(TaskSet)
        /\ jobs \in Seq(Nat) /\ flushers \in Seq(Nat) /\ idlers \in Seq(TaskSet) /\ Len(jobs) <= enqueued
    BY <2>1, <2>3 DEF Init, Made
  <2>5. /\ runs \subseteq 1 .. Made /\ settled \subseteq runs /\ answered \subseteq 1 .. Made
        /\ active \in runs \cup {None} /\ queued \in 0 .. Made /\ newest \in runs \cup {None}
    BY <2>4 DEF Init, None
  <2>6. reactions \in [Promise -> Seq(TaskSet)]
    BY <2>2 DEF Init
  <2> QED BY <2>3, <2>4, <2>5, <2>6 DEF Init, Types
<1>2. TasksFit /\ WaitsFit /\ JobsGoOn /\ PatchIsLast /\ EditsKnown /\ JobsAreSafe
  BY DEF Init, TasksFit, WaitsFit, JobsGoOn, PatchIsLast, EditsKnown, JobsAreSafe
<1>3. ReactionsFit
  BY ReactionType, <1>1 DEF Init, ReactionsFit, Types
<1> QED BY <1>1, <1>2, <1>3 DEF CoreInv

LEMMA NextCore ==
  ASSUME CoreInv, [Next]_vars
  PROVE  CoreInv'
<1>1. CASE Next
  BY <1>1, AsksCore, OperationCore, FlushedCore, IdleCore, EmptiedCore, BeginCore, JobStartsCore, TailSettlesCore,
     ReturnsCore, RunSettlesCore, EntrySettlesCore, ClearCore, AfterCore, TurnCore, FollowCore, CallerGoesOnCore,
     LoadCore, SentCore, EditSettlesCore, TypeCore, ShownCore
     DEF Next, Microtask
<1>2. CASE UNCHANGED vars
  BY <1>2 DEF vars, flightVars, promiseVars, queueVars, editVars, viewVars, CoreInv, Types, Made, TasksFit, TaskFits,
     ReactionsFit, RunFits, EntryFits, WaitsFit, JobsGoOn, PatchIsLast, EditsKnown, JobsAreSafe
<1> QED BY <1>1, <1>2

\* The promises of createDataRefreshSingleFlight, the tasks that go on with them and the
\* jobs of the ordered queue agree about the call each of them is about.
THEOREM CoreInvHolds == Spec => []CoreInv
<1>1. Init => CoreInv
  BY InitCore
<1>2. CoreInv /\ [Next]_vars => CoreInv'
  BY NextCore
<1> QED BY <1>1, <1>2, PTL DEF Spec

\* What a caller gets comes from a reload with its own options (dataRefreshSafety.js:84-90),
\* through any chain of entries that waited for each other and joined what was active then.
THEOREM OwnChoiceAnswered == Spec => []AnswersOwnChoice
<1>1. CoreInv => AnswersOwnChoice
  <2> SUFFICES ASSUME CoreInv, Runs("caller") PROVE want[Given.from] = want[Current]
    BY DEF AnswersOwnChoice
  <2>1. TaskFits(micro[1]) /\ micro[1].name = "caller" /\ Current = micro[1].call /\ Given = micro[1].arg
    BY HeadTask DEF Runs
  <2> QED BY <2>1 DEF TaskFits
<1> QED BY <1>1, CoreInvHolds, PTL

\* A reload that says nothing of unsaved edits replaces no data while a refused edit is
\* kept (dataReloadLifecycle.js), however long before its turn in the queue it looked for
\* one; and only one that discards drops it.
THEOREM RetainedEditsSurvive == Spec => RetainedSurvive
<1>1. CoreInv /\ [Next]_vars =>
        [LoadSucceeds /\ IsCurrent(Head(jobs)) =>
           LET c == Head(jobs)
           IN  /\ retained => want[c] \in {"discard", "preserve"}
               /\ retained /\ ~retained' => want[c] = "discard"]_vars
  <2> SUFFICES ASSUME CoreInv, LoadSucceeds
               PROVE  LET c == Head(jobs)
                      IN  /\ retained => want[c] \in {"discard", "preserve"}
                          /\ retained /\ ~retained' => want[c] = "discard"
    OBVIOUS
  <2>1. jobs # <<>> /\ Head(jobs) # None
    BY DEF LoadSucceeds, CoreInv, JobsGoOn
  <2>2. 1 \in 1 .. Len(jobs) /\ Head(jobs) = jobs[1]
    BY <2>1, HeadJob
  <2>3. retained => want[Head(jobs)] \in {"discard", "preserve"}
    BY <2>1, <2>2 DEF CoreInv, JobsAreSafe
  <2>4. retained /\ ~retained' => want[Head(jobs)] = "discard"
    BY DEF LoadSucceeds, Applied
  <2> QED BY <2>3, <2>4
<1> QED BY <1>1, CoreInvHolds, PTL DEF Spec, RetainedSurvive
===============================================================================
