------------------------------ MODULE AiAdmission ------------------------------
(***************************************************************************)
(* Bounded admission of AI requests in one server process.                 *)
(*                                                                         *)
(* Every call of the AI gateway asks for a lease before it talks to the    *)
(* provider.  A call starts at once while the process, its user and its    *)
(* model have room; otherwise it waits, or is refused with AI_BUSY if the  *)
(* queue has no room either.  A release scans the whole queue in order, so *)
(* that a waiter held up by its own limit does not hold up those behind it.*)
(*                                                                         *)
(* Sources: src/src/server/ai/admissionController.js, aiGateway.js.        *)
(***************************************************************************)
EXTENDS Integers, FiniteSets

CONSTANTS
  Call,              \* the calls of the gateway; one of them may be made again and again
  User, Model,
  Server,            \* owner of calls made for the server itself (serverOwned)
  NoModel,           \* model of the calls that are about no model (key validation)
  UserOf, ModelOf,   \* what each call is about
  ModelLimit,        \* maxConcurrency of the models that have one
  MaxActive, MaxQueued, MaxActivePerUser, MaxQueuedPerUser

ASSUME CallAssumption ==
  /\ IsFiniteSet(Call)
  /\ Server \notin User /\ UserOf \in [Call -> User \cup {Server}]
  /\ NoModel \notin Model /\ ModelOf \in [Call -> Model \cup {NoModel}]

ASSUME LimitAssumption ==
  /\ MaxActive \in Nat \ {0} /\ MaxActivePerUser \in Nat \ {0}
  /\ MaxQueued \in Nat /\ MaxQueuedPerUser \in Nat
  /\ DOMAIN ModelLimit \subseteq Model
  /\ \A m \in DOMAIN ModelLimit : ModelLimit[m] \in Nat \ {0}

VARIABLES
  waiting,       \* the calls in the queue
  ahead,         \* the order of the queue: who waits in front of each call
  holding,       \* the calls whose lease is not released yet
  used,          \* the counters active, activeByUser and activeByModel
  queuedByUser

vars == <<waiting, ahead, holding, used, queuedByUser>>

Counters == [total : Int, user : [User -> Int], model : [Model -> Int]]

Zero == [total |-> 0, user |-> [u \in User |-> 0], model |-> [m \in Model |-> 0]]

OfUser(calls, u)  == {c \in calls : UserOf[c] = u}
OfModel(calls, m) == {c \in calls : ModelOf[c] = m}

\* The counters after these calls started: the server's own calls count for no
\* user, calls without a model for no model.
Plus(load, calls) ==
  [total |-> load.total + Cardinality(calls),
   user  |-> [u \in User  |-> load.user[u] + Cardinality(OfUser(calls, u))],
   model |-> [m \in Model |-> load.model[m] + Cardinality(OfModel(calls, m))]]

\* The counters after a release.
Minus(load, call) ==
  [total |-> load.total - 1,
   user  |-> [u \in User  |-> load.user[u] - Cardinality(OfUser({call}, u))],
   model |-> [m \in Model |-> load.model[m] - Cardinality(OfModel({call}, m))]]

UserFull(load, call)  == UserOf[call] # Server /\ load.user[UserOf[call]] >= MaxActivePerUser
ModelFull(load, call) == ModelOf[call] \in DOMAIN ModelLimit
                         /\ load.model[ModelOf[call]] >= ModelLimit[ModelOf[call]]

\* Variant for mutation checks: the limit of the user is looked at too late.
HasCapacityOneMore(load, call) ==
  load.total < MaxActive /\ ~ModelFull(load, call)
  /\ (UserOf[call] # Server => load.user[UserOf[call]] <= MaxActivePerUser)

HasCapacity(load, call) ==
  load.total < MaxActive /\ ~UserFull(load, call) /\ ~ModelFull(load, call)

Init ==
  /\ waiting = {} /\ ahead = [c \in Call |-> {}]
  /\ holding = {}
  /\ used = Zero
  /\ queuedByUser = [u \in User |-> 0]

(***************************************************************************)
(* Asking for a lease                                                      *)
(***************************************************************************)
Idle(call) == call \notin waiting \cup holding

\* There is room: the lease is given at once, past whoever waits.
StartAtOnce(call) ==
  /\ Idle(call)
  /\ HasCapacity(used, call)
  /\ used' = Plus(used, {call})
  /\ holding' = holding \cup {call}
  /\ UNCHANGED <<waiting, ahead, queuedByUser>>

\* There is none, but the queue has room for this user and at all; else the
\* call is refused with AI_BUSY and nothing changes.
Enqueue(call) ==
  /\ Idle(call)
  /\ ~HasCapacity(used, call)
  /\ UserOf[call] # Server => queuedByUser[UserOf[call]] < MaxQueuedPerUser
  /\ Cardinality(waiting) < MaxQueued
  /\ waiting' = waiting \cup {call}
  /\ ahead' = [ahead EXCEPT ![call] = waiting]
  /\ queuedByUser' = [u \in User |-> queuedByUser[u] + Cardinality(OfUser({call}, u))]
  /\ UNCHANGED <<holding, used>>

\* Variant for mutation checks: the per-user counter is forgotten.
LeaveQueueUncounted(calls) ==
  /\ waiting' = waiting \ calls
  /\ ahead' = [c \in Call |-> IF c \in calls THEN {} ELSE ahead[c] \ calls]
  /\ UNCHANGED queuedByUser

LeaveQueue(calls) ==
  /\ waiting' = waiting \ calls
  /\ ahead' = [c \in Call |-> IF c \in calls THEN {} ELSE ahead[c] \ calls]
  /\ queuedByUser' = [u \in User |-> queuedByUser[u] - Cardinality(OfUser(calls, u))]

\* The caller's signal aborts, or the queue timeout passes: the promise is
\* rejected.
GiveUp(call) ==
  /\ call \in waiting
  /\ LeaveQueue({call})
  /\ UNCHANGED <<holding, used>>

(***************************************************************************)
(* Releasing it                                                            *)
(***************************************************************************)
\* Variant for mutation checks: the scan stops at the first waiter without room.
StartedInOrder(load, calls) ==
  \A w \in waiting :
    w \in calls <=> ahead[w] \subseteq calls /\ HasCapacity(Plus(load, ahead[w]), w)

\* Variant for mutation checks: any waiters that fill the room are started.
StartedInAnyOrder(load, calls) ==
  \A w \in waiting : w \in calls <=> HasCapacity(Plus(load, calls \ {w}), w)

\* The scan of the queue from its head starts exactly these waiters: each that
\* has room beside those the scan started before it.
Started(load, calls) ==
  \A w \in waiting : w \in calls <=> HasCapacity(Plus(load, calls \cap ahead[w]), w)

\* release(): the counters go down and the queue is scanned.
Release(call) ==
  /\ call \in holding
  /\ \E calls \in SUBSET waiting :
       /\ Started(Minus(used, call), calls)
       /\ LeaveQueue(calls)
       /\ used' = Plus(Minus(used, call), calls)
       /\ holding' = (holding \ {call}) \cup calls

Next == \E c \in Call : StartAtOnce(c) \/ Enqueue(c) \/ GiveUp(c) \/ Release(c)

Spec == Init /\ [][Next]_vars

(***************************************************************************)
(* Properties                                                              *)
(***************************************************************************)
\* The state is well formed and the queue is in a total order.
TypeOK ==
  /\ waiting \subseteq Call /\ holding \subseteq Call /\ waiting \cap holding = {}
  /\ used \in Counters
  /\ queuedByUser \in [User -> Int]
  /\ ahead \in [Call -> SUBSET Call]
  /\ \A c \in Call : ahead[c] \subseteq waiting /\ c \notin ahead[c]
  /\ \A c, d \in waiting : c # d => (c \in ahead[d] <=> d \notin ahead[c])
  /\ \A c \in waiting : \A d \in ahead[c] : ahead[d] \subseteq ahead[c]

\* No order of starting, queueing, giving up and releasing makes a counter drift
\* from the calls it counts: a drifting one would shrink the capacity for good.
CountersExact ==
  /\ used = Plus(Zero, holding)
  /\ queuedByUser = [u \in User |-> Cardinality(OfUser(waiting, u))]

\* At no time do more calls run or wait than the process, a user or a model may
\* have, also when one release starts several waiters.
WithinLimits ==
  /\ Cardinality(holding) <= MaxActive /\ Cardinality(waiting) <= MaxQueued
  /\ \A u \in User : /\ Cardinality(OfUser(holding, u)) <= MaxActivePerUser
                     /\ Cardinality(OfUser(waiting, u)) <= MaxQueuedPerUser
  /\ \A m \in DOMAIN ModelLimit : Cardinality(OfModel(holding, m)) <= ModelLimit[m]

\* What the counters say, what runs and waits, and the limits agree.
CapacityKept == TypeOK /\ CountersExact /\ WithinLimits

\* Nobody waits for room that is there, though a call that gives up, unlike one
\* that is released, does not rescan the queue.
NobodyWaitsForNothing == \A w \in waiting : ~HasCapacity(used, w)

\* The queue is first in, first out, except for waiters held up by a limit of
\* their own: one that another overtakes at a release has its user or model full.
OvertakenByOwnLimitOnly ==
  [][\A w \in waiting \cap waiting', v \in waiting \cap holding' :
       w \in ahead[v] => UserFull(used', w) \/ ModelFull(used', w)]_vars

\* A waiter gets its lease as soon as there is room, and in its turn.
QueueIsFair == []NobodyWaitsForNothing /\ OvertakenByOwnLimitOnly
================================================================================
