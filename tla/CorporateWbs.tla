------------------------------ MODULE CorporateWbs ------------------------------
(***************************************************************************)
(* The work breakdown tree of a corporate project and the runs that bring  *)
(* it into line with the source CN43N:                                     *)
(* src/src/server/repository/corporateWbsSync.js with the statements of    *)
(* corporateWbsQueries.js and the decision of corporateWbsSyncState.js.    *)
(*                                                                         *)
(* One project stands for all: a run treats each of them alike, in a       *)
(* transaction of its own.  A tree is a function from its nodes to their   *)
(* parents; the fingerprint of a plan is the plan itself, as SHA-256 tells *)
(* plans apart.  Runs of several processes, and the one an administrator   *)
(* starts, interleave at every statement; the merge locks the root row     *)
(* until its transaction ends, so that merges of a project exclude each    *)
(* other.                                                                  *)
(***************************************************************************)
EXTENDS FiniteSets, Naturals

CONSTANTS
  Node,        \* source keys of the elements of the project
  TaskNode,    \* those a task may be placed on
  Root,        \* the root node, which the source does not list
  Plan,        \* the plans the source may yield
  Run,         \* runs that may be under way together
  NoRecord,    \* no row in MR_CorporateWbsSyncState, or an unreadable one
  MaxEvents    \* bound: what happens around the runs

\* The plan of a source that returns no row, the tree before the first merge.
Empty == [node \in {} |-> Root]

Tree == UNION {[nodes -> Node \cup {Root}] : nodes \in SUBSET Node}

\* The projection resolves every parent within the plan it belongs to.
ASSUME PlanAssumption ==
  /\ IsFiniteSet(Node)
  /\ Plan \subseteq Tree /\ Empty \in Plan
  /\ \A plan \in Plan : \A node \in DOMAIN plan : plan[node] \in DOMAIN plan \cup {Root}
  /\ TaskNode \subseteq Node
  /\ NoRecord \notin Tree /\ Root \notin Node /\ MaxEvents \in Nat

VARIABLES
  source,   \* the plan the source would yield now
  tree,     \* MR_WBS, without the root
  record,   \* MR_CorporateWbsSyncState: the plan merged last
  task,     \* the nodes that tasks refer to
  up,       \* are the source and the database reachable
  run,      \* where each run is
  events    \* how much has happened around the runs

storeVars == <<source, tree, record, task, up, run, events>>

RunPhase == {"idle", "probe", "record", "count", "source", "merge", "finish"}

IdleRun == [phase |-> "idle", seen |-> NoRecord, stored |-> 0, read |-> Empty]

\* The project is new, or earlier processes have brought it here.
StoreInit ==
  /\ source \in Plan
  /\ \/ tree = Empty /\ record = NoRecord /\ task = {}
     \/ /\ tree \in Plan \ {Empty} /\ record = tree
        /\ task \in SUBSET (DOMAIN tree \cap TaskNode)
  /\ up = TRUE
  /\ run = [r \in Run |-> IdleRun]
  /\ events = 0

(***************************************************************************)
(* The merge                                                               *)
(***************************************************************************)
\* Variant: the number of stored nodes is not looked at.
CanSkipByHash(seen, stored, plan) ==
  seen = plan

\* canSkipCorporateWbsMerge
CanSkip(seen, stored, plan) ==
  /\ seen = plan
  /\ stored = Cardinality(DOMAIN plan)

\* Nodes of the plan are inserted or moved, the others stay where they are.
Updated(stored, plan) ==
  [node \in DOMAIN stored \cup DOMAIN plan |->
     IF node \in DOMAIN plan THEN plan[node] ELSE stored[node]]

\* Variant: a node is removed under its children.
SuperfluousDespiteChildren(stored, plan, tasks) ==
  (DOMAIN stored \ DOMAIN plan) \ tasks

\* The last statement looks at the tree as it finds it: a subtree that has left
\* the source goes leaf by leaf, one level in each run.
Superfluous(stored, plan, tasks) ==
  {node \in DOMAIN stored \ DOMAIN plan :
     node \notin tasks /\ \A child \in DOMAIN stored : stored[child] # node}

Merged(stored, plan, tasks) ==
  LET updated == Updated(stored, plan)
  IN  [node \in DOMAIN updated \ Superfluous(updated, plan, tasks) |-> updated[node]]

(***************************************************************************)
(* One run                                                                 *)
(***************************************************************************)
RunAt(r, phase) == run[r].phase = phase

RunMoves(r, phase) == run' = [run EXCEPT ![r].phase = phase]

\* loadSyncState: without a readable state every project is merged
ReadsRecord(r) ==
  /\ RunAt(r, "record")
  /\ \/ /\ up
        /\ run' = [run EXCEPT ![r].phase = "count", ![r].seen = record]
     \/ /\ ~up
        /\ run' = [run EXCEPT ![r].phase = "source", ![r].seen = NoRecord]
  /\ UNCHANGED <<source, tree, record, task, up, events>>

\* Variant: the root is counted with the others.
CountsNodesAndRoot(r) ==
  /\ RunAt(r, "count")
  /\ run' = [run EXCEPT ![r].phase = "source", ![r].stored = Cardinality(DOMAIN tree) + 1]
  /\ UNCHANGED <<source, tree, record, task, up, events>>

\* The nodes are counted by the same statement, but not at the same instant.
CountsNodes(r) ==
  /\ RunAt(r, "count")
  /\ run' = [run EXCEPT ![r].phase = "source", ![r].stored = Cardinality(DOMAIN tree)]
  /\ UNCHANGED <<source, tree, record, task, up, events>>

\* loadSourceRows and planCorporateWbsSyncBatch: an empty plan is not merged
ReadsSource(r) ==
  /\ RunAt(r, "source") /\ up
  /\ run' = [run EXCEPT ![r] =
       IF source = Empty \/ CanSkip(run[r].seen, run[r].stored, source)
       THEN [IdleRun EXCEPT !.phase = "finish"]
       ELSE [IdleRun EXCEPT !.phase = "merge", !.read = source]]
  /\ UNCHANGED <<source, tree, record, task, up, events>>

\* Variant: two transactions, the first of which may fail alone.
MergesPlanRecordsAnyway(r) ==
  /\ RunAt(r, "merge")
  /\ tree' = IF up THEN Merged(tree, run[r].read, task) ELSE tree
  /\ record' = run[r].read
  /\ run' = [run EXCEPT ![r] = [IdleRun EXCEPT !.phase = "finish"]]
  /\ UNCHANGED <<source, task, up, events>>

\* mergeProjectNodes and recordSyncState in one transaction
MergesPlan(r) ==
  /\ RunAt(r, "merge")
  /\ tree' = Merged(tree, run[r].read, task)
  /\ record' = run[r].read
  /\ run' = [run EXCEPT ![r] = [IdleRun EXCEPT !.phase = "finish"]]
  /\ UNCHANGED <<source, task, up, events>>

\* recordSuccessfulRun, and the result synchronized: true
Succeeds(r) ==
  /\ RunAt(r, "finish")
  /\ run' = [run EXCEPT ![r] = IdleRun]
  /\ UNCHANGED <<source, tree, record, task, up, events>>

\* A statement fails; what its transaction wrote is undone.
Fails(r) ==
  /\ ~RunAt(r, "idle") /\ ~RunAt(r, "probe") /\ ~up
  /\ run' = [run EXCEPT ![r] = IdleRun]
  /\ UNCHANGED <<source, tree, record, task, up, events>>

RunSteps(r) == ReadsRecord(r) \/ CountsNodes(r) \/ ReadsSource(r) \/ MergesPlan(r)

(***************************************************************************)
(* Around the runs                                                         *)
(***************************************************************************)
Event == events < MaxEvents /\ events' = events + 1

SourceChanges ==
  /\ Event
  /\ source' \in Plan \ {source}
  /\ UNCHANGED <<tree, record, task, up, run>>

\* Tasks are placed on nodes of the tree, one at a time, and taken off.
TaskChanges ==
  /\ Event
  /\ \/ \E node \in (DOMAIN tree \cap TaskNode) \ task : task' = task \cup {node}
     \/ \E node \in task : task' = task \ {node}
  /\ UNCHANGED <<source, tree, record, up, run>>

ReachabilityChanges ==
  /\ Event
  /\ up' = ~up
  /\ UNCHANGED <<source, tree, record, task, run>>

StoreChanges == SourceChanges \/ TaskChanges \/ ReachabilityChanges
=============================================================================
