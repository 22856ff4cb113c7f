------------------------------ MODULE CreationIds ------------------------------
(***************************************************************************)
(* How a draft made in the browser gets the identity of a server object.   *)
(*                                                                         *)
(* The client asks the server for an identity and a one-use proof, keeps   *)
(* both in the storage that the tabs of the browser share, and sends the   *)
(* creation with the proof.  The outcome of any request may stay unknown;  *)
(* the server may carry out a request that the client has given up.        *)
(*                                                                         *)
(* Every storage step is one locked read-modify-write, every request one   *)
(* transaction.  The identities of a draft are numbered; a proof belongs   *)
(* to one identity and is not told apart from it.                          *)
(*                                                                         *)
(* Sources: src/src/data/api/creationIdStorage.js, createApiRepository.js, *)
(* src/src/server/repository/creationAllocations.js.                       *)
(***************************************************************************)
EXTENDS Integers, FiniteSets

CONSTANTS
  Tab,           \* the tabs of one browser and account
  Draft,         \* the client's identities of objects to be created
  ProjectDraft,  \* those that are projects; the others are tasks or WBS nodes
  Project,       \* the projects there are already
  None,
  ClientTTL,     \* age at which the client no longer uses a proof
  ServerTTL,     \* age at which the server no longer takes it
  ReceiptTTL,    \* how long the server keeps the row of a spent time
  PendingLimit,  \* the usable proofs of one user
  Plan,          \* the commits users try
  MaxIds, MaxTime, MaxLate, MaxTries   \* bounds

ASSUME DraftAssumption ==
  /\ ProjectDraft \subseteq Draft
  /\ MaxIds \in Nat /\ MaxTries \in Nat /\ PendingLimit \in Nat

\* A commit: its drafts, each with the project it goes to.
ASSUME PlanAssumption ==
  \A w \in Plan : /\ DOMAIN w \subseteq Draft
                  /\ \A d \in DOMAIN w : w[d] \in Project \cup ProjectDraft
                  /\ \A d \in DOMAIN w \cap ProjectDraft : w[d] = d

ASSUME TimeAssumption ==
  /\ ClientTTL \in Nat /\ ServerTTL \in Nat /\ ReceiptTTL \in Nat
  /\ ClientTTL <= ServerTTL

Ids == Draft \X (1..MaxIds)

\* What stands in the project field of an entry.
Ref == Project \cup Draft \cup Ids

\* The entries of a request, the requests, and the rows of the server's table.
Bodies  == UNION {[entries -> Ref] : entries \in SUBSET (Ids \cup Draft)}
Message == [kind : {"allocate", "release", "commit"}, body : Bodies]
RowOf   == [project : Project \cup Ids, expires : Int]

ASSUME NamesAssumption ==
  /\ None \notin Ids /\ None \notin Draft /\ None \notin Message /\ None \notin RowOf
  /\ Draft \cap Project = {} /\ Ids \cap (Project \cup Draft) = {}

VARIABLES
  now,
  tries,     \* how many commits have been begun
  issued,    \* per draft: how many identities the server has made
  row,       \* MR_CreationAllocations, by identity
  created,   \* the objects the server has
  released,  \* observer: identities the server has said were never used
  records,   \* shared storage: the proofs kept for a retry
  aliases,   \* shared storage: the identities that stand for a draft
  live,      \* per tab: the aliases in its memory
  stage, want, call, answer,   \* per tab: how far its commit is
  since,     \* per tab: when it asked for identities or sent the creation
  late       \* requests that were given up and may still reach the server

server == <<issued, row, created, released>>
local  == <<stage, want, call, answer, since>>
vars   == <<now, tries, server, records, aliases, live, local, late>>

Stages == {"idle", "releasing", "retiring", "preparing", "allocating",
           "returning", "checking", "discarding", "committing"}

Request(kind, body) == [kind |-> kind, body |-> body]

-----------------------------------------------------------------------------
\* The identity that stands for ref among the aliases A; ref itself if there is none.
Translate(A, ref) ==
  IF \E i \in A : i[1] = ref THEN CHOOSE i \in A : i[1] = ref ELSE ref

\* The aliases tab t works with: those of the storage before those in memory.
Mapping(t) == aliases \cup {i \in live[t] : \A j \in aliases : j[1] # i[1]}

\* Every storage step ends by bringing the memory of the tab up to date.
Publish(t, A, gone) ==
  live' = [live EXCEPT ![t] =
             A \cup {i \in live[t] \ gone : \A j \in A : j[1] = i[1] => j = i}]

OfWant(w) == {r \in records : r.id[1] \in DOMAIN w}

\* Variants for mutation checks: a proof is used until the server forgets it; a moved
\* draft keeps its proof.
UsedToTheEnd(r, w) ==
  \/ now - r.at >= ServerTTL
  \/ /\ r.id[1] \notin ProjectDraft
     /\ r.project # Translate(aliases, w[r.id[1]])

MovedWithProof(r, w) == now - r.at >= ClientTTL

OutOfDate(r, w) ==
  \/ now - r.at >= ClientTTL
  \/ /\ r.id[1] \notin ProjectDraft
     /\ r.project # Translate(aliases, w[r.id[1]])

\* The kept proofs that the server must be asked about before they are replaced:
\* too old, or bound to another project, or bound to a project that is replaced.
Reconciled(w) ==
  LET own == {r \in OfWant(w) : OutOfDate(r, w)}
      gone == {r.id : r \in {x \in own : x.id[1] \in ProjectDraft}}
  IN  own \cup {r \in OfWant(w) : r.project \in gone}

-----------------------------------------------------------------------------
Goes(t, s, w, c) ==
  /\ stage'  = [stage  EXCEPT ![t] = s]
  /\ want'   = [want   EXCEPT ![t] = w]
  /\ call'   = [call   EXCEPT ![t] = c]
  /\ answer' = [answer EXCEPT ![t] = None]
  /\ since'  = [since  EXCEPT ![t] = IF s \in {"allocating", "committing"} THEN now ELSE 0]

Answered(t, s) == stage[t] = s /\ answer[t] # None

\* commitChanges: the kept proofs of the entries are looked at first.
Begin(t, w) ==
  LET R == Reconciled(w)
      body == [i \in {r.id : r \in R} |-> (CHOOSE r \in R : r.id = i).project]
  IN  /\ stage[t] = "idle"
      /\ tries < MaxTries
      /\ tries' = tries + 1
      /\ IF R = {} THEN Goes(t, "preparing", w, None)
                   ELSE Goes(t, "releasing", w, Request("release", body))
      /\ Publish(t, aliases, {})
      /\ UNCHANGED <<now, server, records, aliases, late>>

\* The server has proved which identities were never used: these are forgotten.
Abandon(t) ==
  LET gone == {r \in records : r.id \in DOMAIN answer[t]}
      ids == {r.id : r \in gone}
  IN  /\ Answered(t, "releasing")
      /\ records' = records \ gone
      /\ aliases' = aliases \ ids
      /\ Publish(t, aliases \ ids, ids)
      /\ IF DOMAIN call[t].body \subseteq DOMAIN answer[t]
         THEN Goes(t, "preparing", want[t], None)
         ELSE /\ stage' = [stage EXCEPT ![t] = "retiring"]
              /\ UNCHANGED <<want, call, answer, since>>
      /\ UNCHANGED <<now, tries, server, late>>

\* Variant for mutation checks: what may have been used is forgotten altogether.
RetireAll(t) ==
  LET ids == DOMAIN call[t].body \ DOMAIN answer[t]
  IN  /\ stage[t] = "retiring"
      /\ records' = {r \in records : r.id \notin ids}
      /\ aliases' = aliases \ ids
      /\ Publish(t, aliases \ ids, ids)
      /\ Goes(t, "idle", None, None)
      /\ UNCHANGED <<now, tries, server, late>>

\* The others may have been used: their proofs go, their aliases stay, and the
\* commit fails.
Retire(t) ==
  /\ stage[t] = "retiring"
  /\ records' = {r \in records : r.id \notin DOMAIN call[t].body \ DOMAIN answer[t]}
  /\ Publish(t, aliases, {})
  /\ Goes(t, "idle", None, None)
  /\ UNCHANGED <<now, tries, server, aliases, late>>

-----------------------------------------------------------------------------
\* Nothing to reconcile, and every draft with an alias has its proof.
Ready(t) ==
  /\ Reconciled(want[t]) = {}
  /\ \A d \in DOMAIN want[t] : \A i \in Mapping(t) :
       i[1] = d => \E r \in records : r.id = i

New(t) == {d \in DOMAIN want[t] : \A i \in Mapping(t) : i[1] # d}

\* The proofs the server has forgotten, unless this commit speaks of their objects.
Expired(t) ==
  LET named == {Translate(Mapping(t), d) : d \in DOMAIN want[t]}
               \cup {Translate(Mapping(t), want[t][d]) : d \in DOMAIN want[t]}
  IN  {r \in records : now - r.at >= ServerTTL /\ r.id \notin named}

\* The entries of the commit under the identities they have, each with its project.
DraftOf(x) == IF x \in Draft THEN x ELSE x[1]

Entries(t) ==
  [x \in {Translate(Mapping(t), d) : d \in DOMAIN want[t]} |->
     IF DraftOf(x) \in ProjectDraft THEN x
     ELSE Translate(Mapping(t), want[t][DraftOf(x)])]

Prepare(t) ==
  /\ Ready(t)
  /\ records' = records \ Expired(t)
  /\ Publish(t, aliases, {})
  /\ UNCHANGED <<now, tries, server, aliases, late>>

Allocate(t) ==
  /\ stage[t] = "preparing"
  /\ New(t) # {}
  /\ Prepare(t)
  /\ Goes(t, "allocating", want[t], Request("allocate", Entries(t)))

Send(t) ==
  /\ stage[t] \in {"preparing", "checking"}
  /\ New(t) = {}
  /\ Prepare(t)
  /\ Goes(t, "committing", None, Request("commit", Entries(t)))

\* Variant for mutation checks: the last answer wins over the tab that was faster.
RememberLast(t) ==
  /\ Answered(t, "allocating")
  /\ records' = {r \in records : \A i \in DOMAIN answer[t] : r.id[1] # i[1]} \cup
       {[id |-> i, project |-> answer[t][i], at |-> since[t]] : i \in DOMAIN answer[t]}
  /\ aliases' = {j \in aliases : \A i \in DOMAIN answer[t] : j[1] # i[1]}
                \cup DOMAIN answer[t]
  /\ Publish(t, aliases', {})
  /\ Goes(t, "checking", want[t], None)
  /\ UNCHANGED <<now, tries, server, late>>

\* The answer of an allocation: a draft that another tab has meanwhile given a
\* proof keeps that one, and the new one goes back to the server.
Remember(t) ==
  LET kept == {i \in DOMAIN answer[t] : \A r \in records : r.id[1] # i[1]}
      unused == DOMAIN answer[t] \ kept
  IN  /\ Answered(t, "allocating")
      /\ \A i \in kept : \A j \in aliases \cup live[t] : j[1] # i[1]
      /\ records' = records \cup
           {[id |-> i, project |-> answer[t][i], at |-> since[t]] : i \in kept}
      /\ aliases' = aliases \cup kept
      /\ Publish(t, aliases \cup kept, {})
      /\ IF unused = {}
         THEN Goes(t, "checking", want[t], None)
         ELSE Goes(t, "returning", want[t],
                   Request("release", [i \in unused |-> answer[t][i]]))
      /\ UNCHANGED <<now, tries, server, late>>

\* The storage refuses, or the draft has an alias already: nothing is kept.
Discard(t) ==
  /\ Answered(t, "allocating")
  /\ Goes(t, "discarding", None, Request("release", answer[t]))
  /\ UNCHANGED <<now, tries, server, records, aliases, live, late>>

Returned(t) ==
  /\ Answered(t, "returning")
  /\ Goes(t, "checking", want[t], None)
  /\ UNCHANGED <<now, tries, server, records, aliases, live, late>>

\* The server has created the objects: their proofs are done with.
Complete(t) ==
  /\ Answered(t, "committing")
  /\ records' = {r \in records : r.id \notin DOMAIN call[t].body}
  /\ Publish(t, aliases, {})
  /\ Goes(t, "idle", None, None)
  /\ UNCHANGED <<now, tries, server, aliases, late>>

\* A request that was sent and not answered is lost, or still on its way.
Loses(t) ==
  \/ late' = late
  \/ /\ call[t] # None /\ answer[t] = None
     /\ Cardinality(late) < MaxLate
     /\ late' = late \cup {call[t]}

\* A rejection, a time-out, a lost answer, or a storage step that throws.
Fail(t) ==
  /\ stage[t] # "idle"
  /\ Goes(t, "idle", None, None)
  /\ Loses(t)
  /\ UNCHANGED <<now, tries, server, records, aliases, live>>

\* The page is closed or loaded anew: the memory of the tab is that of the storage.
\* Where it was so before, this is Fail.
Reload(t) ==
  /\ live[t] # aliases
  /\ Goes(t, "idle", None, None)
  /\ Loses(t)
  /\ live' = [live EXCEPT ![t] = aliases]
  /\ UNCHANGED <<now, tries, server, records, aliases>>

-----------------------------------------------------------------------------
Usable(i) == row[i] # None /\ row[i].expires > now

\* The row that the identity and the project of a request name.
Matches(q, i) == row[i] # None /\ row[i].project = q.body[i]

\* The authorization of a creation: its project is there or is created with it.
Authorized(q) ==
  \A x \in DOMAIN q.body : q.body[x] \in Project \cup created \cup DOMAIN q.body

\* allocateCreationIds: one new identity for each entry without one; an entry that
\* goes into a project of the same request is bound to its new identity.
Fresh(d) == <<d, issued[d] + 1>>

Asked(q) == DOMAIN q.body \cap Draft

\* Variant for mutation checks: an entry keeps the client's name of its new project.
IssueUnresolved(q) ==
  [i \in {Fresh(d) : d \in Asked(q)} |-> q.body[i[1]]]

Issue(q) ==
  [i \in {Fresh(d) : d \in Asked(q)} |->
     IF q.body[i[1]] \in Draft THEN Fresh(q.body[i[1]]) ELSE q.body[i[1]]]

\* The rows the server no longer keeps.
Pruned == {i \in Ids : row[i] # None /\ row[i].expires <= now - ReceiptTTL}

Reserve(q) ==
  /\ q.kind = "allocate"
  /\ Authorized(q)
  /\ \A d \in Asked(q) : issued[d] < MaxIds
  /\ Cardinality({i \in Ids : Usable(i)}) + Cardinality(Asked(q)) <= PendingLimit
  /\ Cardinality({i \in Ids \ Pruned : row[i] # None}) + Cardinality(Asked(q))
       <= PendingLimit * 4
  /\ issued' = [d \in Draft |-> IF d \in Asked(q) THEN issued[d] + 1 ELSE issued[d]]
  /\ row' = [i \in Ids |->
               IF i \in DOMAIN Issue(q)
               THEN [project |-> Issue(q)[i], expires |-> now + ServerTTL]
               ELSE IF i \in Pruned THEN None ELSE row[i]]
  /\ UNCHANGED <<created, released>>

\* Variant for mutation checks: the release is reported, the proof stays usable.
ReleaseInName(q) ==
  /\ q.kind = "release"
  /\ released' = released \cup {i \in DOMAIN q.body : Matches(q, i)}
  /\ UNCHANGED <<issued, row, created>>

\* releaseCreationIds: a proof that is still there is made unusable and reported.
Release(q) ==
  /\ q.kind = "release"
  /\ row' = [i \in Ids |->
               IF i \in DOMAIN q.body /\ Matches(q, i) /\ Usable(i)
               THEN [project |-> row[i].project, expires |-> now] ELSE row[i]]
  /\ released' = released \cup {i \in DOMAIN q.body : Matches(q, i)}
  /\ UNCHANGED <<issued, created>>

\* consumeCreationAllocations and the commit around it: all proofs or nothing.
Consume(q) ==
  /\ q.kind = "commit"
  /\ \A i \in DOMAIN q.body : Matches(q, i) /\ Usable(i)
  /\ Authorized(q)
  /\ row' = [i \in Ids |-> IF i \in DOMAIN q.body THEN None ELSE row[i]]
  /\ created' = created \cup DOMAIN q.body
  /\ UNCHANGED <<issued, released>>

Handle(q) == Reserve(q) \/ Release(q) \/ Consume(q)

AnswerTo(q) ==
  CASE q.kind = "allocate" -> Issue(q)
    [] q.kind = "release"  -> [i \in {j \in DOMAIN q.body : Matches(q, j)} |-> q.body[i]]
    [] q.kind = "commit"   -> q.body

Serve(t) ==
  /\ call[t] # None /\ answer[t] = None
  /\ Handle(call[t])
  /\ answer' = [answer EXCEPT ![t] = AnswerTo(call[t])]
  /\ UNCHANGED <<now, tries, records, aliases, live, stage, want, call, since, late>>

ServeLate(q) ==
  /\ Handle(q)
  /\ late' = late \ {q}
  /\ UNCHANGED <<now, tries, records, aliases, live, local>>

Tick ==
  /\ now < MaxTime
  /\ now' = now + 1
  /\ UNCHANGED <<tries, server, records, aliases, live, local, late>>

-----------------------------------------------------------------------------
Init ==
  /\ now = 0 /\ tries = 0
  /\ issued = [d \in Draft |-> 0]
  /\ row = [i \in Ids |-> None]
  /\ created = {} /\ released = {}
  /\ records = {} /\ aliases = {}
  /\ live = [t \in Tab |-> {}]
  /\ stage = [t \in Tab |-> "idle"]
  /\ want = [t \in Tab |-> None]
  /\ call = [t \in Tab |-> None]
  /\ answer = [t \in Tab |-> None]
  /\ since = [t \in Tab |-> 0]
  /\ late = {}

TabStep(t) ==
  \/ \E w \in Plan : Begin(t, w)
  \/ Abandon(t) \/ Retire(t) \/ Allocate(t) \/ Send(t) \/ Remember(t)
  \/ Discard(t) \/ Returned(t) \/ Complete(t) \/ Fail(t) \/ Reload(t)

Next ==
  \/ \E t \in Tab : TabStep(t) \/ Serve(t)
  \/ \E q \in late : ServeLate(q)
  \/ Tick

Spec == Init /\ [][Next]_vars
-----------------------------------------------------------------------------
UnderWay == late \cup {call[t] : t \in {s \in Tab : call[s] # None /\ answer[s] = None}}
Commits  == {q \in UnderWay : q.kind = "commit"}

BodyOK(b) == DOMAIN b \subseteq Ids \cup Draft /\ \A x \in DOMAIN b : b[x] \in Ref

RequestOK(q) ==
  /\ q.kind \in {"allocate", "release", "commit"}
  /\ BodyOK(q.body)
  /\ q.kind # "allocate" => DOMAIN q.body \subseteq Ids

\* Types, and which stages wait for an answer to a request.
TypeOK ==
  /\ now \in Nat /\ tries \in Nat
  /\ issued \in [Draft -> 0..MaxIds]
  /\ row \in [Ids -> RowOf \cup {None}]
  /\ created \subseteq Ids /\ released \subseteq Ids
  /\ records \subseteq [id : Ids, project : Project \cup Ids, at : Nat]
  /\ aliases \subseteq Ids
  /\ live \in [Tab -> SUBSET Ids]
  /\ stage \in [Tab -> Stages] /\ since \in [Tab -> Nat]
  /\ \A t \in Tab : stage[t] \notin {"idle", "committing", "discarding"} => want[t] \in Plan
  /\ \A t \in Tab : call[t] # None => RequestOK(call[t])
  /\ \A t \in Tab : (call[t] = None) = (stage[t] \in {"idle", "preparing", "checking"})
  /\ \A t \in Tab : answer[t] # None => call[t] # None /\ BodyOK(answer[t])
  /\ \A q \in late : RequestOK(q)

\* A draft becomes at most one object of the server, however many tabs try, and
\* whatever answers are lost (the proofs kept by prepare and remember, spent by
\* consumeCreationAllocations).
DraftCreatedOnce ==
  \A i, j \in created : i[1] = j[1] => i = j

\* What the server has reported as never used is not used afterwards: a commit that
\* was on its way when its proof was released fails (releaseCreationIds).
ReleaseIsFinal ==
  \A i \in released : i \notin created /\ ~Usable(i)

\* A draft that was created, or that a request on its way may still create, keeps the
\* alias that bars it from a second identity (prepare and retireProofs keep
\* aliases; only a proof the server has released loses its own).
UncertainKeepsAlias ==
  /\ created \subseteq aliases
  /\ \A q \in Commits : DOMAIN q.body \subseteq aliases \cup released

\* No commit names another project than the one its proof is bound to, also after the
\* draft was moved, or the identity of its project was replaced (reconciliationRecords).
BoundToDestination ==
  \A q \in Commits : \A i \in DOMAIN q.body : row[i] # None => Matches(q, i)

\* The margin between the two lifetimes: a commit that reaches the server within it is
\* not turned away because the proof has run out on the way.
MarginSuffices ==
  \A t \in Tab :
    stage[t] = "committing" /\ answer[t] = None /\ now - since[t] <= ServerTTL - ClientTTL =>
      \A i \in DOMAIN call[t].body : Usable(i) \/ i \in created \/ i \in released

\* A proof on its way is what the server expects (reconciliationRecords,
\* creationIdStorage.js:92-112): bound to the project the commit names, not run out
\* within the margin, and bound to identities, never to the names drafts have.
ProofsHoldOnTheWay == TypeOK /\ BoundToDestination /\ MarginSuffices
=============================================================================
