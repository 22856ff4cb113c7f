------------------------------ MODULE DataReload ------------------------------
(***************************************************************************)
(* When the browser tab reads its data again: the single flight of         *)
(* src/src/state/dataRefreshSafety.js, the reload operation of             *)
(* dataReloadLifecycle.js, the automatic refresh of                        *)
(* automaticDataRefresh.js and the callers that ask for a reload.          *)
(*                                                                         *)
(* Everything here runs on one thread, but in pieces: a piece ends at an   *)
(* `await' or a `then', and its continuation is a task of the microtask    *)
(* queue.  `micro' is that queue, task for task, since which continuation  *)
(* of a settled promise runs first decides what the single flight does.    *)
(* A timer, a key stroke or an answer of the server comes only when it is  *)
(* empty (Quiet).                                                          *)
(*                                                                         *)
(* A call of reloadData() is a number, in the order of the calls; its kind *)
(* stands for the request key, mode and both options.  Run(c) is the       *)
(* promise of the operation started for call c, Entry(c) the promise of    *)
(* the entry queued for it.                                                *)
(***************************************************************************)
EXTENDS Naturals, FiniteSets, Sequences

CONSTANTS
  MaxCalls,  \* bound: calls of reloadData()
  MaxEdits   \* bound: edits the user types or sends again

ASSUME BoundAssumption == MaxCalls \in Nat \ {0} /\ MaxEdits \in Nat

Call == 1 .. MaxCalls
None == 0

\* initial:0:0, automatic:0:0, manual:0:0, manual:0:1 and manual:1:0
Kind == {"initial", "automatic", "plain", "preserve", "discard"}

Run(c)   == <<"run", c>>
Entry(c) == <<"entry", c>>
Promise  == {"run", "entry"} \X Call

VARIABLES
  want,       \* the kinds of the calls made so far
  runs,       \* calls an operation was started for
  active,     \* the single flight's active operation
  queued,     \* the single flight's last queued entry
  settled,    \* the calls whose operation is over
  reactions,  \* the tasks that wait for each promise
  micro,      \* the microtask queue
  calling,    \* the reload the piece of code that runs now goes on to ask for
  newest,     \* the guard: the operation that began last
  jobs,       \* the ordered mutation queue: calls, and None for a patch
  working,    \* has the head job started
  enqueued,   \* how many jobs were ever enqueued: the identity of its tail
  idlers,     \* whenIdle() calls that wait: the call and the tail they saw
  flushers,   \* flushAll() calls that wait for the patch in flight
  edit,       \* the newest edit: none, pending or flying
  retained,   \* is a refused patch kept for a retry
  typed,      \* how many edits were typed or sent again
  status,     \* state.dataStatus
  loaded,     \* state.hasLoadedOnce
  answered,   \* the calls whose caller got its answer
  visible, timer, refreshing   \* the automatic refresh

flightVars  == <<want, runs, active, queued>>
promiseVars == <<settled, reactions>>
queueVars   == <<jobs, working, enqueued, idlers, flushers>>
editVars    == <<edit, retained, typed>>
viewVars    == <<status, loaded>>
autoVars    == <<visible, timer, refreshing>>
vars == <<flightVars, promiseVars, micro, calling, newest, queueVars, editVars, viewVars, answered, autoVars>>

\* A result says how the operation it comes from ended.
Result(code, from) == [code |-> code, from |-> from]
Nothing == Result("none", None)
Good == {"ok", "superseded", "skipped"}

\* A task: what runs, for which call, and what it is given.
Task(name, c, arg) == [name |-> name, call |-> c, arg |-> arg]

Made == Len(want)

\* No code runs: something may come from outside.
Quiet == micro = <<>> /\ calling = "none"

Init ==
  /\ want = <<>> /\ runs = {} /\ active = None /\ queued = None
  /\ settled = {}
  /\ reactions = [p \in Promise |-> <<>>]
  /\ micro = <<>>
  /\ calling = "initial"                        \* the first effect loads the data
  /\ newest = None
  /\ jobs = <<>> /\ working = FALSE /\ enqueued = 0 /\ idlers = <<>> /\ flushers = <<>>
  /\ edit = "none" /\ retained = FALSE /\ typed = 0
  /\ status = "loading" /\ loaded = FALSE
  /\ answered = {}
  /\ visible = TRUE /\ timer = TRUE /\ refreshing = FALSE

(***************************************************************************)
(* The single flight                                                       *)
(***************************************************************************)
\* then() on a promise that is pending.
Then(p, task) == [reactions EXCEPT ![p] = Append(@, task)]

\* The caller of c goes on with what p settles with.
Awaits(c) == Task("caller", c, Nothing)

\* start(): the operation runs in a task; its clear is the first reaction.
StartAtOnce(c) ==
  /\ active = None
  /\ active' = c
  /\ runs' = runs \cup {c}
  /\ reactions' = [reactions EXCEPT ![Run(c)] = <<Task("clear", c, Nothing), Awaits(c)>>]
  /\ micro' = Append(micro, Task("operation", c, Nothing))
  /\ UNCHANGED queued

\* Variant for mutation checks: the automatic refresh takes its turn too.
NeverSkips(kind) == FALSE

\* skipIfBusy: the automatic refresh neither joins nor queues.
Skips(kind) == kind = "automatic"

Skip(c, kind) ==
  /\ active # None
  /\ Skips(kind)
  /\ micro' = Append(micro, Task("caller", c, Result("skipped", c)))
  /\ UNCHANGED <<runs, active, queued, reactions>>

\* Variant for mutation checks: whatever runs, its promise is handed out.
JoinsAny(kind) == active # None

\* The active operation was asked for with the same options.
Joins(kind) == active # None /\ want[active] = kind

Join(c, kind) ==
  /\ ~Skips(kind)
  /\ Joins(kind)
  /\ reactions' = Then(Run(active), Awaits(c))
  /\ UNCHANGED <<runs, active, queued, micro>>

\* queueAfterActive(): the same options wait together, others behind them.
Queue(c, kind) ==
  /\ active # None
  /\ ~Skips(kind)
  /\ ~Joins(kind)
  /\ IF queued # None /\ want[queued] = kind
       THEN reactions' = Then(Entry(queued), Awaits(c)) /\ UNCHANGED queued
       ELSE LET previous == IF queued # None THEN Entry(queued) ELSE Run(active)
            IN  /\ reactions' = [Then(previous, Task("after", c, Nothing)) EXCEPT
                     ![Entry(c)] = Append(@, Awaits(c))]
                /\ queued' = c
  /\ UNCHANGED <<runs, active, micro>>

\* reloadData(), one synchronous piece of code.
Ask(kind) ==
  /\ Made < MaxCalls
  /\ want' = Append(want, kind)
  /\ LET c == Made + 1 IN StartAtOnce(c) \/ Skip(c, kind) \/ Join(c, kind) \/ Queue(c, kind)
  /\ UNCHANGED <<settled, newest, queueVars, editVars, viewVars, answered>>

\* The code that runs asks for a reload before anything else may happen.
GoOn ==
  /\ calling # "none"
  /\ calling' = "none"
  /\ Ask(calling)
  /\ UNCHANGED autoVars

\* A view, or an action of the provider whose write the server accepted.
UserAsks ==
  /\ Quiet
  /\ \E kind \in {"plain", "preserve"} : Ask(kind)
  /\ UNCHANGED <<calling, autoVars>>

(***************************************************************************)
(* The microtasks of promises                                              *)
(***************************************************************************)
\* The head of the microtask queue is of this name; it adds tasks.
Runs(name) == calling = "none" /\ micro # <<>> /\ Head(micro).name = name
Adding(tasks) == micro' = Tail(micro) \o tasks
Current == Head(micro).call
Given   == Head(micro).arg

\* What a promise settled with is handed to its reactions.
Told(p, result) ==
  [i \in 1 .. Len(reactions[p]) |-> [reactions[p][i] EXCEPT !.arg = result]]

Settle(p) ==
  /\ reactions' = [reactions EXCEPT ![p] = <<>>]
  /\ Adding(Told(p, Given))

RunSettles ==
  /\ Runs("run")
  /\ Settle(Run(Current))
  /\ settled' = settled \cup {Current}
  /\ UNCHANGED <<flightVars, calling, newest, queueVars, editVars, viewVars, answered, autoVars>>

EntrySettles ==
  /\ Runs("entry")
  /\ Settle(Entry(Current))
  /\ UNCHANGED <<flightVars, settled, calling, newest, queueVars, editVars, viewVars, answered, autoVars>>

\* Variant for mutation checks: a reload that failed keeps the place.
ClearedOnSuccess == IF active = Current /\ Given.code \in Good THEN None ELSE active

\* The operation is active no longer, unless another one took its place.
Cleared == IF active = Current THEN None ELSE active

Clear ==
  /\ Runs("clear")
  /\ active' = Cleared
  /\ Adding(<<>>)
  /\ UNCHANGED <<want, runs, queued, promiseVars, calling, newest, queueVars, editVars, viewVars,
                 answered, autoVars>>

\* The first then() of an entry only drops the result it waited for.
After ==
  /\ Runs("after")
  /\ Adding(<<Task("turn", Current, Nothing)>>)
  /\ UNCHANGED <<flightVars, promiseVars, calling, newest, queueVars, editVars, viewVars, answered, autoVars>>

\* The second: the entry's turn.  It joins an active operation with the same
\* options and starts its own otherwise, whatever else is active by now.
Turn ==
  /\ Runs("turn")
  /\ queued' = IF queued = Current THEN None ELSE queued
  /\ IF active # None /\ want[active] = want[Current]
       THEN /\ Adding(<<Task("follow", Current, Result("none", active))>>)
            /\ UNCHANGED <<active, runs, reactions>>
       ELSE /\ active' = Current
            /\ runs' = runs \cup {Current}
            /\ reactions' = [reactions EXCEPT ![Run(Current)] = <<Task("clear", Current, Nothing)>>]
            /\ Adding(<<Task("operation", Current, Nothing),
                        Task("follow", Current, Result("none", Current))>>)
  /\ UNCHANGED <<want, settled, calling, newest, queueVars, editVars, viewVars, answered, autoVars>>

\* The entry's promise follows the one its turn returned, whose operation takes
\* more tasks than one and cannot be over yet.
Follow ==
  /\ Runs("follow")
  /\ reactions' = Then(Run(Given.from), Task("entry", Current, Nothing))
  /\ Adding(<<>>)
  /\ UNCHANGED <<flightVars, settled, calling, newest, queueVars, editVars, viewVars, answered, autoVars>>

(***************************************************************************)
(* The callers                                                             *)
(***************************************************************************)
HasUnsavedChanges == edit # "none" \/ retained

\* PersistenceStatus: the reload was refused, and the user may decide there and
\* then, in a dialogue that stops the thread, to give the unsaved edits up.
MayDiscard == want[Current] = "plain" /\ Given.code \notin Good /\ HasUnsavedChanges

\* Variant for mutation checks: the flag is set, and nothing arms a timer again.
AutomaticEndsUnarmed ==
  IF want[Current] = "automatic" THEN refreshing' = FALSE /\ UNCHANGED timer ELSE UNCHANGED <<refreshing, timer>>

\* The automatic refresh is over; the timer is armed if the tab is visible.
AutomaticEnds ==
  IF want[Current] = "automatic"
    THEN refreshing' = FALSE /\ timer' = visible
    ELSE UNCHANGED <<refreshing, timer>>

CallerGoesOn ==
  /\ Runs("caller")
  /\ answered' = answered \cup {Current}
  /\ Adding(<<>>)
  /\ \/ UNCHANGED calling
     \/ MayDiscard /\ Made < MaxCalls /\ calling' = "discard"
  /\ AutomaticEnds
  /\ UNCHANGED <<flightVars, promiseVars, newest, queueVars, editVars, viewVars, visible>>

(***************************************************************************)
(* The ordered queue and flush()                                           *)
(***************************************************************************)
Finished == enqueued - Len(jobs)

\* enqueue(): an idle queue starts the job in a task.
Enqueue(job) ==
  /\ jobs' = Append(jobs, job)
  /\ enqueued' = enqueued + 1

StartIfIdle == IF jobs = <<>> THEN <<Task("job", None, Nothing)>> ELSE <<>>

\* The head job is done: its tail settles, and so does what it returned.
Leave(result) ==
  /\ working' = FALSE
  /\ Adding(<<Task("tail", None, Nothing)>> \o
            (IF Head(jobs) = None THEN <<>> ELSE <<Task("return", Head(jobs), result)>>))

\* Who waits for the tail looks again, in order, before the next job starts; `idlers'
\* is in the order of the tails, so that these are its first.
TailSettles ==
  /\ Runs("tail")
  /\ jobs' = Tail(jobs)
  /\ \E n \in 0 .. Len(idlers) :
       /\ \A i \in 1 .. Len(idlers) : i <= n <=> idlers[i].arg.from = Finished + 1
       /\ Adding(SubSeq(idlers, 1, n) \o (IF Len(jobs) > 1 THEN <<Task("job", None, Nothing)>> ELSE <<>>))
       /\ idlers' = SubSeq(idlers, n + 1, Len(idlers))
  /\ UNCHANGED <<flightVars, promiseVars, calling, newest, working, enqueued, flushers, editVars,
                 viewVars, answered, autoVars>>

\* An async function that returned a promise settles a task after it.
Returns ==
  /\ Runs("return")
  /\ Adding(<<Task("run", Current, Given)>>)
  /\ UNCHANGED <<flightVars, promiseVars, calling, newest, queueVars, editVars, viewVars, answered, autoVars>>

\* flushAll(): a pending patch is taken out, and a patch in flight waited for.
FlushAll ==
  IF edit = "none"
    THEN /\ Adding(<<Task("flushed", Current, Result("ok", None))>>)
         /\ UNCHANGED <<jobs, enqueued, flushers, edit>>
    ELSE /\ flushers' = Append(flushers, Current)
         /\ edit' = "flying"
         /\ IF edit = "pending"
              THEN Enqueue(None) /\ Adding(StartIfIdle)
              ELSE Adding(<<>>) /\ UNCHANGED <<jobs, enqueued>>

\* runDataReload() begins with persistence.flush().
Operation ==
  /\ Runs("operation")
  /\ FlushAll
  /\ UNCHANGED <<flightVars, promiseVars, calling, newest, working, idlers, retained, typed, viewVars,
                 answered, autoVars>>

\* whenIdle(): wait for the tail as it is now.
AwaitTail ==
  LET look == Task("idle", Current, Result("none", enqueued))
  IN  IF jobs = <<>>
        THEN Adding(<<look>>) /\ UNCHANGED idlers
        ELSE Adding(<<>>) /\ idlers' = Append(idlers, look)

\* flush() after flushAll(): a refused patch ends the reload.
Flushed ==
  /\ Runs("flushed")
  /\ IF Given.code = "ok"
       THEN AwaitTail
       ELSE Adding(<<Task("run", Current, Result("failed", Current))>>) /\ UNCHANGED idlers
  /\ UNCHANGED <<flightVars, promiseVars, calling, newest, jobs, working, enqueued, flushers, editVars,
                 viewVars, answered, autoVars>>

\* whenIdle() after its await: again, if a job was enqueued meanwhile.
Idle ==
  /\ Runs("idle")
  /\ IF Given.from = enqueued
       THEN Adding(<<Task("emptied", Current, Nothing)>>) /\ UNCHANGED idlers
       ELSE AwaitTail
  /\ UNCHANGED <<flightVars, promiseVars, calling, newest, jobs, working, enqueued, flushers, editVars,
                 viewVars, answered, autoVars>>

\* flush() after whenIdle(): again, if the user typed meanwhile.
Emptied ==
  /\ Runs("emptied")
  /\ IF edit = "none"
       THEN Adding(<<Task("begin", Current, Nothing)>>) /\ UNCHANGED <<jobs, enqueued, flushers, edit>>
       ELSE FlushAll
  /\ UNCHANGED <<flightVars, promiseVars, calling, newest, working, idlers, retained, typed, viewVars,
                 answered, autoVars>>

(***************************************************************************)
(* The operation                                                           *)
(***************************************************************************)
\* Variant for mutation checks: only the automatic refresh respects the edits.
SafeUnlessAutomatic(c) == ~retained \/ want[c] # "automatic"

\* Variant for mutation checks: a background refresh does not look at the edits.
SafeInBackground(c) == ~retained \/ want[c] \in {"automatic", "discard", "preserve"}

\* resolveDataRefreshSafety(): a reload that says nothing of them must not
\* overwrite retained edits.
Safe(c) == ~retained \/ want[c] \in {"discard", "preserve"}

Background(c) == want[c] = "automatic" /\ loaded

\* Variant for mutation checks: the loading is announced before the edits are looked at.
AnnouncedFirst(c) == IF Background(c) THEN status ELSE "loading"

\* data/load-start
Announced(c) == IF Background(c) \/ ~Safe(c) THEN status ELSE "loading"

Begin ==
  /\ Runs("begin")
  /\ status' = Announced(Current)
  /\ IF Safe(Current)
       THEN /\ newest' = Current
            /\ Enqueue(Current)
            /\ Adding(StartIfIdle)
       ELSE /\ Adding(<<Task("run", Current, Result("refused", Current))>>)
            /\ UNCHANGED <<newest, jobs, enqueued>>
  /\ UNCHANGED <<flightVars, promiseVars, calling, working, idlers, flushers, editVars, loaded, answered, autoVars>>

\* request.isCurrent()
IsCurrent(c) == c = newest

JobStarts ==
  /\ Runs("job")
  /\ LET job == Head(jobs)
     IN  IF job = None \/ IsCurrent(job)
           THEN working' = TRUE /\ Adding(<<>>)
           ELSE Leave(Result("superseded", job))
  /\ UNCHANGED <<flightVars, promiseVars, calling, newest, jobs, enqueued, idlers, flushers, editVars,
                 viewVars, answered, autoVars>>

\* Leave for a job that the server's answer ends: no other task is queued.
Answered(result) ==
  /\ working' = FALSE
  /\ micro' = <<Task("tail", None, Nothing), Task("return", Head(jobs), result)>>

\* discardFailedTaskUpdates(), if that was chosen.
Applied(c) == IF want[c] = "discard" THEN FALSE ELSE retained

\* The snapshot arrives.  A preserving reload reports a retained edit whose task
\* is gone, after it has applied the snapshot.
LoadSucceeds ==
  /\ Quiet
  /\ working
  /\ \E missing \in BOOLEAN :
       LET c == Head(jobs)
       IN  /\ c # None
           /\ missing => want[c] = "preserve" /\ retained
           /\ IF IsCurrent(c)
                THEN /\ Answered(Result(IF missing THEN "failed" ELSE "ok", c))
                     /\ retained' = Applied(c)
                     /\ status' = "ready" /\ loaded' = TRUE
                ELSE /\ Answered(Result("superseded", c))
                     /\ UNCHANGED <<retained, status, loaded>>
  /\ UNCHANGED <<flightVars, promiseVars, calling, newest, jobs, enqueued, idlers, flushers, edit, typed,
                 answered, autoVars>>

\* It does not.  A background refresh is silent about it, unless the session is
\* over or the right was lost (shouldSurfaceAutomaticRefreshFailure).
LoadFails ==
  /\ Quiet
  /\ working
  /\ \E surfaces \in BOOLEAN :
       LET c == Head(jobs)
       IN  /\ c # None
           /\ IF IsCurrent(c)
                THEN /\ Answered(Result("failed", c))
                     /\ status' = IF Background(c) /\ ~surfaces THEN status ELSE "error"
                ELSE /\ Answered(Result("superseded", c))
                     /\ UNCHANGED status
  /\ UNCHANGED <<flightVars, promiseVars, calling, newest, jobs, enqueued, idlers, flushers, editVars,
                 loaded, answered, autoVars>>

(***************************************************************************)
(* The user's edits, as far as a reload sees them                          *)
(***************************************************************************)
\* A new edit takes the retained patch with it.
Type ==
  /\ Quiet
  /\ edit = "none" /\ typed < MaxEdits
  /\ edit' = "pending" /\ retained' = FALSE /\ typed' = typed + 1
  /\ UNCHANGED <<flightVars, promiseVars, micro, calling, newest, queueVars, viewVars, answered, autoVars>>

Flies ==
  /\ edit' = "flying"
  /\ Enqueue(None)
  /\ micro' = StartIfIdle
  /\ UNCHANGED <<flightVars, promiseVars, calling, newest, working, idlers, flushers, viewVars, answered,
                 autoVars>>

\* The 250 ms of a pending patch are over.
EditTimer == Quiet /\ edit = "pending" /\ Flies /\ UNCHANGED <<retained, typed>>

\* `Yeniden dene': the retained patch is sent again.
Retry ==
  /\ Quiet
  /\ edit = "none" /\ retained /\ typed < MaxEdits
  /\ Flies
  /\ retained' = FALSE /\ typed' = typed + 1

\* Variant for mutation checks: only a patch that was stored ends the waiting.
FlushersToldOfSuccess(refused) ==
  IF refused THEN <<>> ELSE [i \in 1 .. Len(flushers) |-> Task("flushed", flushers[i], Result("ok", None))]

FlushersTold(refused) ==
  [i \in 1 .. Len(flushers) |->
     Task("flushed", flushers[i], Result(IF refused THEN "failed" ELSE "ok", None))]

\* The patch is answered; what the answer says is told to every flushAll().
EditSettles ==
  /\ Quiet
  /\ working /\ Head(jobs) = None
  /\ edit' = "none"
  /\ working' = FALSE
  /\ flushers' = <<>>
  /\ \E refused \in BOOLEAN :
       /\ retained' = (retained \/ refused)
       /\ micro' = <<Task("tail", None, Nothing)>> \o FlushersTold(refused)
  /\ UNCHANGED <<flightVars, promiseVars, calling, newest, jobs, enqueued, idlers, typed, viewVars,
                 answered, autoVars>>

(***************************************************************************)
(* The automatic refresh                                                   *)
(***************************************************************************)
Attempt ==
  /\ timer' = FALSE
  /\ refreshing' = TRUE
  /\ Ask("automatic")

\* The timer fires and a refresh is due; if it is not, the timer is armed again.
TimerFires ==
  /\ Quiet
  /\ timer
  /\ Attempt
  /\ UNCHANGED <<calling, visible>>

Hide ==
  /\ Quiet
  /\ visible
  /\ visible' = FALSE /\ timer' = FALSE
  /\ UNCHANGED <<flightVars, promiseVars, micro, calling, newest, queueVars, editVars, viewVars, answered,
                 refreshing>>

\* A tab shown again refreshes at once if that is due, unless a refresh runs.
Show ==
  /\ Quiet
  /\ ~visible
  /\ visible' = TRUE
  /\ \/ ~refreshing /\ Attempt /\ UNCHANGED calling
     \/ /\ timer' = ~refreshing
        /\ UNCHANGED <<flightVars, promiseVars, micro, calling, newest, queueVars, editVars, viewVars,
                       answered, refreshing>>

Microtask ==
  \/ GoOn \/ Operation \/ Flushed \/ Idle \/ Emptied \/ Begin
  \/ JobStarts \/ TailSettles \/ Returns \/ RunSettles \/ EntrySettles
  \/ Clear \/ After \/ Turn \/ Follow \/ CallerGoesOn

Next ==
  \/ Microtask
  \/ LoadSucceeds \/ LoadFails \/ EditTimer \/ EditSettles
  \/ UserAsks \/ Type \/ Retry \/ TimerFires \/ Hide \/ Show

Spec == Init /\ [][Next]_vars

\* The event loop runs its tasks, and every request is answered or times out.
Fairness ==
  /\ WF_vars(Microtask)
  /\ WF_vars(LoadSucceeds \/ LoadFails)
  /\ WF_vars(EditTimer)
  /\ WF_vars(EditSettles)

FairSpec == Spec /\ Fairness

(***************************************************************************)
(* Properties                                                              *)
(***************************************************************************)
\* The state of the tab's single thread; when it comes to rest, the single flight
\* is not occupied by a reload that is over.
TypeOK ==
  /\ want \in Seq(Kind) /\ Made <= MaxCalls
  /\ runs \subseteq 1 .. Made /\ active \in runs \cup {None} /\ queued \in 0 .. Made
  /\ settled \subseteq runs /\ answered \subseteq 1 .. Made
  /\ (Quiet => active \notin settled)
  /\ newest \in runs \cup {None}
  /\ jobs \in Seq(runs \cup {None}) /\ (working => jobs # <<>>)
  /\ edit \in {"none", "pending", "flying"} /\ typed \in 0 .. MaxEdits
  /\ retained \in BOOLEAN /\ loaded \in BOOLEAN
  /\ status \in {"loading", "ready", "error"}

\* What a caller gets comes from a reload with its own options: a reload that
\* preserves or discards is not swallowed by one that does neither
\* (dataRefreshSafety.js:84-90), through any chain of entries.
AnswersOwnChoice ==
  Runs("caller") => want[Given.from] = want[Current]

\* A reload that says nothing of unsaved edits, a background refresh of a view
\* that is shown included, never replaces the data while a refused edit is
\* retained, although it looks at them long before its turn in the queue comes;
\* and only one that discards drops them (dataReloadLifecycle.js:42-66).
RetainedSurvive ==
  [][LoadSucceeds /\ IsCurrent(Head(jobs)) =>
       LET c == Head(jobs)
       IN  /\ retained => want[c] \in {"discard", "preserve"}
           /\ retained /\ ~retained' => want[c] = "discard"]_vars

\* Nobody is shown a spinner for ever: with no reload on its way, and none about
\* to be asked for, the view is not loading, whatever was superseded or refused.
LoadingEnds ==
  status = "loading" => calling # "none" \/ runs # settled

\* The background refresh never makes a reload the user asked for void.
UserOutranksAutomatic ==
  \A i \in 1 .. Len(jobs) :
    jobs[i] # None /\ jobs[i] # newest => want[newest] # "automatic"

\* The automatic refresh never dies: in a visible tab it runs or its timer is armed.
RefreshGoesOn == visible => refreshing \/ timer

\* Every caller is answered: no flush, queue and entry wait for each other.
EveryCallAnswered ==
  \A c \in Call : Made >= c ~> c \in answered

\* `yeniden yükle ve kaydedilmemiş değişiklikleri at' (dataRefreshSafety.js:87-90):
\* a caller that chose to discard and is told it went well has discarded.
\* The code does not keep this (README, section 6), so that no run asserts it.
DiscardHonoured ==
  Runs("caller") /\ want[Current] = "discard" /\ Given.code \in Good => ~retained

\* Whatever reloads supersede, refuse or outlive each other (dataReloadLifecycle.js and
\* automaticDataRefresh.js): the view does not load for ever, the background refresh
\* never ends and never voids a reload the user asked for.
ViewGoesOn == TypeOK /\ LoadingEnds /\ RefreshGoesOn /\ UserOutranksAutomatic
=============================================================================
