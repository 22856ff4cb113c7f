---------------------------- MODULE CorporateCatalog ----------------------------
(***************************************************************************)
(* When a server process synchronises the corporate catalogue:             *)
(* runCorporateWbsSync of                                                  *)
(* src/src/server/repository/corporateWbsSyncSchedule.js over the runs of  *)
(* CorporateWbs.                                                           *)
(*                                                                         *)
(* Opening the application waits for a run while the store holds no tree,  *)
(* and afterwards leaves it to the background; a manual refresh never      *)
(* waits.  The process remembers its last success (`fresh' while the       *)
(* window lasts) and its failures (`backoff'), asks the store once whether *)
(* a tree is there (`warm'), and keeps one flight.  It forgets all of that *)
(* in a restart.  The run of the administrator does not go through the     *)
(* schedule; it also stands for the runs of other processes.               *)
(***************************************************************************)
EXTENDS CorporateWbs

CONSTANTS
  Request,     \* requests that open the application
  Scheduled,   \* the runs of the schedule
  NoRun,
  Windowed     \* is MERGEN_ROTA_WBS_SYNC_TTL_MS above zero

ASSUME ScheduleAssumption ==
  /\ Scheduled \subseteq Run /\ Scheduled # {} /\ Windowed \in BOOLEAN /\ NoRun \notin Run

VARIABLES
  fresh,      \* is lastSuccessAt within the window
  backoff,    \* is lastFailureAt within the back-off
  succeeded,  \* lastSuccessAt is set
  warm,       \* durableWarmth
  probed,     \* durableWarmthProbed
  inFlight,
  request     \* where each request is

schedule == <<fresh, backoff, succeeded, warm, probed, inFlight>>
catalogVars == <<storeVars, schedule, request>>

\* `hot' is isCorporateWbsSyncBackedOff as the start of the request sees it: no
\* time passes for the request, while the failures are read anew.
Asking(phase, hot) == [phase |-> phase, hot |-> hot, value |-> FALSE, flight |-> NoRun]

\* With skipped('FRESH'), ('BACKOFF') or ('REVALIDATING'), or with what a flight
\* came to, be it a result or an error.
SentAway == Asking("skipped", FALSE)
Answered == Asking("answered", FALSE)

CatalogInit ==
  /\ StoreInit
  /\ fresh = FALSE /\ backoff = FALSE /\ succeeded = FALSE
  /\ warm = FALSE /\ probed = FALSE
  /\ inFlight = NoRun
  /\ request = [q \in Request |-> Answered]

(***************************************************************************)
(* Flights                                                                 *)
(***************************************************************************)
\* A run the process can start: any that is idle.
FreeRun == CHOOSE r \in Scheduled : RunAt(r, "idle")

\* startJob
StartsFlight(r, phase) ==
  /\ RunAt(r, "idle")
  /\ RunMoves(r, phase)
  /\ inFlight' = r

Open(q) == request[q].phase \notin {"answered", "skipped"}

\* Variant: nobody is told of a flight that failed.
FlightEndsUnlessFailed(r, ok) ==
  /\ inFlight' = NoRun
  /\ request' = [q \in Request |->
       IF request[q].phase = "waiting"
       THEN IF ok THEN Answered ELSE request[q]
       ELSE IF ~Open(q) THEN request[q]
       ELSE [request[q] EXCEPT !.hot = ~ok]]

\* Those who wait are answered; those who have asked see the failures anew.
FlightEnds(r, ok) ==
  /\ inFlight' = NoRun
  /\ request' = [q \in Request |->
       IF request[q].phase = "waiting" /\ request[q].flight = r
       THEN Answered
       ELSE IF ~Open(q) THEN request[q]
       ELSE [request[q] EXCEPT !.hot = ~ok]]

FlightProbes(r) ==
  /\ r \in Scheduled /\ RunAt(r, "probe")
  /\ RunMoves(r, "record")
  /\ IF warm \/ probed
     THEN UNCHANGED <<warm, probed>>
     ELSE \/ up /\ probed' = TRUE /\ warm' = (record # NoRecord)
          \/ ~up /\ UNCHANGED <<warm, probed>>
  /\ UNCHANGED <<source, tree, record, task, up, events, fresh, backoff, succeeded>>
  /\ UNCHANGED <<inFlight, request>>

FlightSteps(r) ==
  /\ RunSteps(r)
  /\ UNCHANGED <<schedule, request>>

FlightSucceeds(r) ==
  /\ r \in Scheduled /\ Succeeds(r)
  /\ fresh' = Windowed /\ succeeded' = TRUE
  /\ backoff' = FALSE
  /\ warm' = TRUE
  /\ FlightEnds(r, TRUE)
  /\ UNCHANGED <<probed>>

FlightFails(r) ==
  /\ r \in Scheduled /\ Fails(r)
  /\ backoff' = TRUE
  /\ FlightEnds(r, FALSE)
  /\ UNCHANGED <<fresh, succeeded, warm, probed>>

(***************************************************************************)
(* Requests                                                                *)
(***************************************************************************)
\* Up to the await of the probe.
Asks(q) ==
  /\ ~Open(q)
  /\ IF fresh
     THEN /\ request' = [request EXCEPT ![q] = SentAway]
          /\ UNCHANGED probed
     ELSE IF warm \/ probed
     THEN /\ request' = [request EXCEPT ![q] = Asking("decides", backoff)]
          /\ UNCHANGED probed
     ELSE /\ request' = [request EXCEPT ![q] = Asking("probes", backoff)]
          /\ probed' = TRUE
  /\ UNCHANGED <<storeVars, fresh, backoff, succeeded, warm, inFlight>>

\* readDurableSyncState, between the await and its return
ProbeReads(q) ==
  /\ request[q].phase = "probes"
  /\ up
  /\ request' = [request EXCEPT ![q].phase = "probed", ![q].value = (record # NoRecord)]
  /\ UNCHANGED <<storeVars, schedule>>

ProbeReturns(q) ==
  /\ request[q].phase = "probed"
  /\ warm' = request[q].value
  /\ request' = [request EXCEPT ![q] = Asking("decides", request[q].hot)]
  /\ UNCHANGED <<storeVars, fresh, backoff, succeeded, probed, inFlight>>

ProbeFails(q) ==
  /\ request[q].phase = "probes" /\ ~up
  /\ probed' = FALSE
  /\ request' = [request EXCEPT ![q].phase = "decides"]
  /\ UNCHANGED <<storeVars, fresh, backoff, succeeded, warm, inFlight>>

BackedOff(q) == request[q].hot /\ warm

\* Variant: a store that was asked counts as one that has a tree.
CanRevalidateOnceProbed == Windowed /\ (succeeded \/ probed)

CanRevalidate == Windowed /\ (succeeded \/ warm)

HeldBack(q) ==
  /\ request[q].phase = "decides"
  /\ BackedOff(q)
  /\ request' = [request EXCEPT ![q] = SentAway]
  /\ UNCHANGED <<storeVars, schedule>>

\* The answer of a request that meets the flight f.
Meets(q, f) ==
  IF CanRevalidate THEN SentAway
  ELSE [Asking("waiting", FALSE) EXCEPT !.flight = f]

JoinsFlight(q) ==
  /\ request[q].phase = "decides"
  /\ ~BackedOff(q)
  /\ inFlight # NoRun
  /\ request' = [request EXCEPT ![q] = Meets(q, inFlight)]
  /\ UNCHANGED <<storeVars, schedule>>

\* Variant: whether there is a flight was read before the await.
OpensFlightUnchecked(q) ==
  /\ request[q].phase = "decides"
  /\ ~BackedOff(q)
  /\ StartsFlight(FreeRun, "record")
  /\ request' = [request EXCEPT ![q] = Meets(q, FreeRun)]
  /\ UNCHANGED <<source, tree, record, task, up, events, fresh, backoff>>
  /\ UNCHANGED <<succeeded, warm, probed>>

OpensFlight(q) ==
  /\ request[q].phase = "decides"
  /\ ~BackedOff(q)
  /\ inFlight = NoRun
  /\ StartsFlight(FreeRun, "record")
  /\ request' = [request EXCEPT ![q] = Meets(q, FreeRun)]
  /\ UNCHANGED <<source, tree, record, task, up, events, fresh, backoff>>
  /\ UNCHANGED <<succeeded, warm, probed>>

\* A manual refresh, after its snapshot was read: in one go.
RefreshesManually ==
  /\ ~fresh /\ ~backoff /\ inFlight = NoRun
  /\ StartsFlight(FreeRun, "probe")
  /\ UNCHANGED <<source, tree, record, task, up, events, fresh, backoff>>
  /\ UNCHANGED <<succeeded, warm, probed, request>>

(***************************************************************************)
(* The administrator, time and restarts                                    *)
(***************************************************************************)
AdminStarts(r) ==
  /\ Event
  /\ r \notin Scheduled /\ RunAt(r, "idle")
  /\ RunMoves(r, "record")
  /\ UNCHANGED <<source, tree, record, task, up, schedule, request>>

AdminEnds(r) ==
  /\ r \notin Scheduled /\ (Succeeds(r) \/ Fails(r))
  /\ UNCHANGED <<schedule, request>>

WindowCloses ==
  /\ fresh /\ fresh' = FALSE
  /\ UNCHANGED <<storeVars, backoff, succeeded, warm, probed, inFlight, request>>

BackoffEnds ==
  /\ backoff /\ backoff' = FALSE
  /\ UNCHANGED <<storeVars, fresh, succeeded, warm, probed, inFlight, request>>

\* The process loses its memory and its flight.
Restarts ==
  /\ Event
  /\ fresh' = FALSE /\ backoff' = FALSE /\ succeeded' = FALSE
  /\ warm' = FALSE /\ probed' = FALSE /\ inFlight' = NoRun
  /\ request' = [q \in Request |-> Answered]
  /\ run' = [r \in Run |-> IF r \in Scheduled THEN IdleRun ELSE run[r]]
  /\ UNCHANGED <<source, tree, record, task, up>>

Around ==
  /\ StoreChanges
  /\ UNCHANGED <<schedule, request>>

Flies(r) == FlightProbes(r) \/ FlightSteps(r) \/ FlightSucceeds(r) \/ FlightFails(r)

Answers(q) ==
  \/ ProbeReads(q) \/ ProbeReturns(q) \/ ProbeFails(q)
  \/ HeldBack(q) \/ JoinsFlight(q) \/ OpensFlight(q)

CatalogNext ==
  \/ \E r \in Run : Flies(r) \/ AdminStarts(r) \/ AdminEnds(r)
  \/ \E q \in Request : Asks(q) \/ Answers(q)
  \/ RefreshesManually \/ WindowCloses \/ BackoffEnds \/ Restarts \/ Around

CatalogSpec == CatalogInit /\ [][CatalogNext]_catalogVars

\* A run and a request go on until they end: the statements of both databases have
\* time limits.  Windows and back-offs are spans of time.  Nothing is assumed of
\* how often somebody asks, of the administrator, or of restarts.
FairCatalogSpec ==
  /\ CatalogSpec
  /\ \A r \in Run : WF_catalogVars(Flies(r)) /\ WF_catalogVars(AdminEnds(r))
  /\ \A q \in Request : WF_catalogVars(Answers(q))
  /\ WF_catalogVars(WindowCloses) /\ WF_catalogVars(BackoffEnds)

(***************************************************************************)
(* Properties                                                              *)
(***************************************************************************)
CatalogTypeOK ==
  /\ source \in Plan /\ tree \in Tree /\ record \in Plan \cup {NoRecord}
  /\ task \subseteq Node /\ {up, fresh, backoff, succeeded, warm, probed} \subseteq BOOLEAN
  /\ run \in [Run -> [phase : RunPhase, seen : Plan \cup {NoRecord},
                      stored : 0..Cardinality(Node), read : Plan]]
  /\ inFlight \in Scheduled \cup {NoRun}
  /\ request \in [Request -> [phase : {"probes", "probed", "decides", "waiting", "answered", "skipped"},
                              hot : BOOLEAN, value : BOOLEAN, flight : Scheduled \cup {NoRun}]]
  /\ events \in 0..MaxEvents

\* However requests overlap while they wait for the probe, the process has one
\* flight at most, it remembers the one it has, and everybody who waits waits for
\* that one.
SingleFlight ==
  /\ {r \in Scheduled : ~RunAt(r, "idle")} = {inFlight} \ {NoRun}
  /\ \A q \in Request : request[q].phase = "waiting" => request[q].flight = inFlight

\* A request that opens the application is sent away without a run only over a
\* tree that is there, or after a run of this process that found none to build.
AnsweredOverTree ==
  \A q \in Request : request[q].phase = "skipped" => tree # Empty \/ succeeded

\* What lets later runs pass over the project is true: with as many nodes as the
\* recorded plan has, the tree is that plan.
SkipIsSound ==
  record # NoRecord /\ Cardinality(DOMAIN tree) = Cardinality(DOMAIN record) => tree = record

\* No merge takes away the parent of a node that stays or the node of a task.
TreeStaysWhole ==
  /\ \A node \in DOMAIN tree : tree[node] \in DOMAIN tree \cup {Root}
  /\ task \subseteq DOMAIN tree

\* A request is answered, whatever fails and whoever else waits.
EveryRequestAnswered ==
  \A q \in Request : Open(q) ~> ~Open(q)

\* Whatever stale reads, failures and restarts came before: once the source has
\* rows and is reachable and no task holds a node that has left it, and as long as
\* requests keep coming, the tree becomes what the source says and stays so.
Settled == up /\ source # Empty /\ task \subseteq DOMAIN source

CatalogConverges ==
  <>[]Settled /\ []<>(\E q \in Request : request[q].phase = "decides")
    => <>[](tree = source)

\* What the database keeps of the catalogue is right between any two statements of any
\* two runs (CORPORATE_WBS_MERGE_SQL and the record that lets runs skip it).
TreeIsSound == CatalogTypeOK /\ SkipIsSound /\ TreeStaysWhole

\* A request that opens the application is answered in the end, and not over nothing
\* (corporateWbsSyncSchedule.js:138-206).
RequestsAreServed == []AnsweredOverTree /\ EveryRequestAnswered
=============================================================================
