--------------------------- MODULE CreationIdsProofs ---------------------------
(***************************************************************************)
(* Invariance of CreationIds for any tabs, drafts, projects, lifetimes and *)
(* bounds.                                                                 *)
(*                                                                         *)
(* The argument: an alias is removed only when the server has reported its *)
(* identity as unused, and what was so reported can no longer be spent.    *)
(* A commit carries only identities that had an alias when it was sent, so *)
(* each of them has one still or can do nothing.  A draft never has two    *)
(* aliases; therefore it never becomes two objects.                        *)
(*                                                                         *)
(* The second part follows a proof: the server binds it to a project and a *)
(* time when it gives it out, and never to others afterwards.  What a tab  *)
(* awaits, what the storage keeps and what a request names is either still *)
(* what the server has, or the server has it no more.  A commit is sent    *)
(* only with proofs that name its project and were young enough.           *)
(***************************************************************************)
EXTENDS CreationIds, TLAPS

Types ==
  /\ now \in Nat
  /\ issued \in [Draft -> Nat]
  /\ created \subseteq Ids /\ released \subseteq Ids /\ aliases \subseteq Ids

\* The numbers of an identity that is or was in the table have been given out.
Numbered ==
  \A i \in Ids : row[i] # None \/ i \in created \/ i \in released => i[2] <= issued[i[1]]

RowTimes == \A i \in Ids : row[i] # None => row[i].expires \in Int

Spent ==
  \A i \in Ids : /\ i \in created => row[i] = None /\ i \notin released
                 /\ i \in released => ~Usable(i)

OneAlias == \A i, j \in aliases : i[1] = j[1] => i = j

Kept == created \subseteq aliases /\ \A r \in records : r.id \in aliases

Domains ==
  DOMAIN stage = Tab /\ DOMAIN call = Tab /\ DOMAIN answer = Tab /\ DOMAIN since = Tab

Carries(q) ==
  /\ q.kind = "commit" => DOMAIN q.body \subseteq aliases \cup released
  /\ q.kind = "release" => DOMAIN q.body \subseteq Ids

Requests ==
  /\ \A q \in late : Carries(q)
  /\ \A t \in Tab : call[t] # None => Carries(call[t])

\* A tab waits for the answer to the request of its stage.
Kinds ==
  \A t \in Tab : /\ stage[t] = "releasing" => call[t].kind = "release"
                 /\ stage[t] = "allocating" => call[t].kind = "allocate"

OnePerDraft(S) == S \subseteq Ids /\ \A i, j \in S : i[1] = j[1] => i = j

Answers ==
  \A t \in Tab : answer[t] # None =>
    /\ stage[t] = "releasing" => DOMAIN answer[t] \subseteq released
    /\ stage[t] = "allocating" => OnePerDraft(DOMAIN answer[t])

ServerInv == Types /\ Numbered /\ RowTimes /\ Spent
ClientInv == OneAlias /\ Kept /\ Domains /\ Requests /\ Kinds /\ Answers

\* The strengthened invariant.
IInv == ServerInv /\ ClientInv

-----------------------------------------------------------------------------
LEMMA Typing ==
  /\ \A i \in Ids : i[1] \in Draft /\ i[2] \in Nat
  /\ \A d \in Draft, n \in 1..MaxIds : <<d, n>> \in Ids
BY DraftAssumption DEF Ids

\* What a tab's step to another stage does to the per-tab variables.
LEMMA StageStep ==
  ASSUME NEW t \in Tab, NEW s, NEW w, NEW c, Goes(t, s, w, c), Domains
  PROVE  /\ Domains'
         /\ stage'[t] = s /\ call'[t] = c /\ answer'[t] = None
         /\ \A u \in Tab : u # t => /\ stage'[u] = stage[u]
                                    /\ call'[u] = call[u]
                                    /\ answer'[u] = answer[u]
BY DEF Goes, Domains

\* allocateCreationIds gives out identities that were never in the table, one for
\* each draft.
LEMMA ReserveStep ==
  ASSUME ServerInv, NEW q, Reserve(q), now' = now, aliases' = aliases
  PROVE  /\ ServerInv'
         /\ OnePerDraft(DOMAIN Issue(q))
<1> DEFINE new == {Fresh(d) : d \in Asked(q)}
<1>1. DOMAIN Issue(q) = new
  BY DEF Issue
<1>2. \A d \in Asked(q) : d \in Draft /\ issued[d] \in Nat /\ issued[d] < MaxIds
  BY DEF Reserve, Asked, ServerInv, Types
<1>3. \A d \in Asked(q) : Fresh(d) \in Ids /\ Fresh(d)[1] = d /\ Fresh(d)[2] = issued[d] + 1
  BY <1>2, DraftAssumption DEF Fresh, Ids
<1>4. OnePerDraft(DOMAIN Issue(q))
  BY <1>1, <1>3 DEF OnePerDraft
<1>5. \A i \in new : row[i] = None /\ i \notin created /\ i \notin released
  BY <1>2, <1>3, Typing DEF ServerInv, Numbered
<1>6. issued' \in [Draft -> Nat] /\ \A d \in Draft : issued[d] <= issued'[d]
  BY DEF Reserve, ServerInv, Types
<1>7. \A i \in new : i[2] <= issued'[i[1]]
  BY <1>2, <1>3 DEF Reserve
<1>8. \A i \in Ids \ new : row'[i] = None \/ row'[i] = row[i]
  BY <1>1 DEF Reserve
<1>9. \A i \in new : row'[i].expires = now + ServerTTL
  BY <1>1, <1>3 DEF Reserve
<1>10. Types'
  BY <1>6 DEF Reserve, ServerInv, Types
<1>11. Numbered'
  <2> SUFFICES ASSUME NEW i \in Ids, row'[i] # None \/ i \in created \/ i \in released
               PROVE  i[2] <= issued'[i[1]]
    BY DEF Numbered, Reserve
  <2>1. CASE i \in new
    BY <2>1, <1>7
  <2>2. CASE i \notin new
    <3>1. i[2] <= issued[i[1]]
      BY <2>2, <1>8 DEF ServerInv, Numbered
    <3>2. QED BY <3>1, <1>6, Typing DEF ServerInv, Types
  <2>3. QED BY <2>1, <2>2
<1>12. RowTimes'
  BY <1>8, <1>9, TimeAssumption DEF RowTimes, ServerInv, Types
<1>13. Spent'
  <2> SUFFICES ASSUME NEW i \in Ids
               PROVE  /\ i \in created => row'[i] = None /\ i \notin released
                      /\ i \in released => ~Usable(i)'
    BY DEF Spent, Reserve
  <2>1. i \in new => i \notin created /\ i \notin released
    BY <1>5
  <2>2. i \notin new => row'[i] = None \/ row'[i] = row[i]
    BY <1>8
  <2>3. QED BY <2>1, <2>2 DEF ServerInv, Spent, Usable
<1>14. QED BY <1>4, <1>10, <1>11, <1>12, <1>13 DEF ServerInv

\* releaseCreationIds: what it reports cannot have been used, nor be used later.
LEMMA ReleaseStep ==
  ASSUME ServerInv, NEW q, Release(q), DOMAIN q.body \subseteq Ids,
         now' = now, aliases' = aliases
  PROVE  /\ ServerInv'
         /\ released \subseteq released'
         /\ \A i \in DOMAIN q.body : Matches(q, i) => i \in released'
<1>1. \A i \in Ids : \/ row'[i] = row[i] /\ ~(i \in DOMAIN q.body /\ Matches(q, i) /\ Usable(i))
                     \/ row[i] # None /\ row'[i].expires = now
  BY DEF Release, Matches
<1>2. \A i \in released' : i \in Ids /\ (i \in released \/ row[i] # None)
  BY DEF Release, Matches, ServerInv, Types
<1>3. \A i \in Ids : row[i] = None => row'[i] = None
  BY DEF Release, Matches
<1>4. \A i \in Ids : i \in released' => ~Usable(i)'
  <2> SUFFICES ASSUME NEW i \in Ids, i \in released', Usable(i)'
               PROVE  FALSE
    OBVIOUS
  <2>1. row'[i] = row[i] /\ ~(i \in DOMAIN q.body /\ Matches(q, i) /\ Usable(i))
    BY <1>1 DEF Usable, ServerInv, Types
  <2>2. Usable(i)
    BY <2>1 DEF Usable
  <2>3. i \notin released
    BY <2>2 DEF ServerInv, Spent
  <2>4. i \in DOMAIN q.body /\ Matches(q, i)
    BY <2>3 DEF Release
  <2>5. QED BY <2>1, <2>2, <2>4
<1>5. Types'
  BY <1>2 DEF Release, ServerInv, Types
<1>6. Numbered'
  BY <1>2, <1>3 DEF Release, ServerInv, Numbered
<1>7. RowTimes'
  BY <1>1 DEF RowTimes, ServerInv, Types
<1>8. Spent'
  <2>1. \A i \in Ids : i \in created' => row'[i] = None /\ i \notin released'
    BY <1>2, <1>3 DEF Release, ServerInv, Spent
  <2>2. QED BY <2>1, <1>4 DEF Spent
<1>9. QED BY <1>5, <1>6, <1>7, <1>8 DEF ServerInv, Release

\* consumeCreationAllocations: what it spends had a usable proof, so was not released.
LEMMA ConsumeStep ==
  ASSUME ServerInv, NEW q, Consume(q), DOMAIN q.body \subseteq aliases \cup released,
         now' = now, aliases' = aliases
  PROVE  /\ ServerInv'
         /\ released' = released
         /\ created' \subseteq created \cup aliases
<1>1. \A i \in DOMAIN q.body : i \in Ids /\ i \notin released /\ row[i] # None
  BY DEF Consume, ServerInv, Types, Spent, Usable
<1>2. \A i \in Ids : row'[i] = IF i \in DOMAIN q.body THEN None ELSE row[i]
  BY DEF Consume
<1>3. created' = created \cup DOMAIN q.body /\ released' = released /\ issued' = issued
  BY DEF Consume
<1>4. Types'
  BY <1>1, <1>3 DEF ServerInv, Types
<1>5. Numbered'
  BY <1>1, <1>2, <1>3 DEF ServerInv, Numbered
<1>6. RowTimes'
  BY <1>2 DEF ServerInv, RowTimes
<1>7. Spent'
  BY <1>1, <1>2, <1>3 DEF ServerInv, Spent, Usable
<1>8. QED BY <1>1, <1>3, <1>4, <1>5, <1>6, <1>7 DEF ServerInv

-----------------------------------------------------------------------------
LEMMA ServerQuiet ==
  ASSUME ServerInv, UNCHANGED <<now, server>>, aliases' \subseteq Ids
  PROVE  ServerInv'
BY DEF ServerInv, server, Types, Numbered, RowTimes, Spent, Usable

\* A step that takes tab t to stage s with call c, and takes no alias from what has
\* not been released.
LEMMA GoesStep ==
  ASSUME ClientInv, NEW t \in Tab, NEW s, NEW w, NEW c, Goes(t, s, w, c),
         released' = released,
         aliases \subseteq aliases' \cup released,
         \A q \in late' : q \in late \/ (call[t] # None /\ q = call[t]),
         c # None => /\ c.kind = "commit" => DOMAIN c.body \subseteq aliases' \cup released
                     /\ c.kind = "release" => DOMAIN c.body \subseteq Ids,
         s = "releasing" => c.kind = "release",
         s = "allocating" => c.kind = "allocate"
  PROVE  Domains' /\ Requests' /\ Kinds' /\ Answers'
<1>1. /\ Domains'
      /\ stage'[t] = s /\ call'[t] = c /\ answer'[t] = None
      /\ \A u \in Tab : u # t => /\ stage'[u] = stage[u]
                                 /\ call'[u] = call[u]
                                 /\ answer'[u] = answer[u]
  BY StageStep DEF ClientInv
<1>2. \A q \in late : Carries(q)'
  BY DEF ClientInv, Requests, Carries
<1>3. \A u \in Tab : call[u] # None => Carries(call[u]) /\ (Carries(call[u]) =>
           /\ call[u].kind = "commit" => DOMAIN call[u].body \subseteq aliases' \cup released
           /\ call[u].kind = "release" => DOMAIN call[u].body \subseteq Ids)
  BY DEF ClientInv, Requests, Carries
<1>4. \A q \in late' : Carries(q)'
  BY <1>2, <1>3 DEF Carries
<1>5. \A u \in Tab : call'[u] # None => Carries(call[u])'
  <2> SUFFICES ASSUME NEW u \in Tab, call'[u] # None
               PROVE  /\ call'[u].kind = "commit" => DOMAIN call'[u].body \subseteq aliases' \cup released'
                      /\ call'[u].kind = "release" => DOMAIN call'[u].body \subseteq Ids
    BY DEF Carries
  <2>1. CASE u = t
    BY <2>1, <1>1
  <2>2. CASE u # t
    BY <2>2, <1>1, <1>3
  <2>3. QED BY <2>1, <2>2
<1>6. Requests'
  BY <1>4, <1>5 DEF Requests
<1>7. Kinds'
  BY <1>1 DEF Kinds, ClientInv
<1>8. Answers'
  BY <1>1 DEF Answers, ClientInv
<1>9. QED BY <1>1, <1>6, <1>7, <1>8

\* The commits of a tab carry identities that have an alias.
LEMMA EntriesHaveAlias ==
  ASSUME IInv, NEW t \in Tab, Ready(t), New(t) = {}
  PROVE  DOMAIN Entries(t) \subseteq aliases
<1> SUFFICES ASSUME NEW d \in DOMAIN want[t]
             PROVE  Translate(Mapping(t), d) \in aliases
  BY DEF Entries
<1>1. PICK i \in Mapping(t) : i[1] = d
  BY DEF New
<1>2. Translate(Mapping(t), d) \in Mapping(t) /\ Translate(Mapping(t), d)[1] = d
  BY <1>1 DEF Translate
<1>3. PICK r \in records : r.id = Translate(Mapping(t), d)
  BY <1>2 DEF Ready
<1>4. QED BY <1>3 DEF IInv, ClientInv, Kept

\* A step that leaves the aliases alone and takes tab t to another stage.
LEMMA AliasesKept ==
  ASSUME IInv, NEW t \in Tab, NEW s, NEW w, NEW c, Goes(t, s, w, c),
         UNCHANGED <<now, server, aliases>>,
         \A r \in records' : r \in records,
         \A q \in late' : q \in late \/ (call[t] # None /\ q = call[t]),
         c # None => /\ c.kind = "commit" => DOMAIN c.body \subseteq aliases
                     /\ c.kind = "release" => DOMAIN c.body \subseteq Ids,
         s = "releasing" => c.kind = "release",
         s = "allocating" => c.kind = "allocate"
  PROVE  IInv'
<1>1. ServerInv'
  BY ServerQuiet DEF IInv, ServerInv, Types
<1>2. Domains' /\ Requests' /\ Kinds' /\ Answers'
  BY GoesStep DEF IInv, server
<1>3. OneAlias' /\ Kept'
  BY DEF IInv, ClientInv, OneAlias, Kept, server
<1>4. QED BY <1>1, <1>2, <1>3 DEF IInv, ClientInv

LEMMA BeginStep ==
  ASSUME IInv, NEW t \in Tab, NEW w, Begin(t, w)
  PROVE  IInv'
<1> DEFINE R == Reconciled(w)
           body == [i \in {r.id : r \in R} |-> (CHOOSE r \in R : r.id = i).project]
<1>1. UNCHANGED <<now, server, records, aliases, late>>
  BY DEF Begin
<1>2. DOMAIN body \subseteq Ids
  BY DEF Reconciled, OfWant, IInv, ClientInv, Kept, ServerInv, Types
<1>3. CASE R = {}
  <2>1. Goes(t, "preparing", w, None)
    BY <1>3 DEF Begin
  <2>2. QED BY <1>1, <2>1, AliasesKept
<1>4. CASE R # {}
  <2>1. Goes(t, "releasing", w, Request("release", body))
    BY <1>4 DEF Begin
  <2>2. /\ Request("release", body).kind = "release"
        /\ Request("release", body).body = body
    BY DEF Request
  <2> HIDE DEF body
  <2>3. QED BY <1>1, <1>2, <2>1, <2>2, AliasesKept
<1>5. QED BY <1>3, <1>4

\* Only what the server has released loses its alias.
LEMMA AbandonStep ==
  ASSUME IInv, NEW t \in Tab, Abandon(t)
  PROVE  IInv'
<1> DEFINE gone == {r \in records : r.id \in DOMAIN answer[t]}
           ids  == {r.id : r \in gone}
<1>1. /\ stage[t] = "releasing" /\ answer[t] # None
      /\ records' = records \ gone /\ aliases' = aliases \ ids
      /\ UNCHANGED <<now, server, late>>
  BY DEF Abandon, Answered
<1>2. ids \subseteq released
  BY <1>1 DEF IInv, ClientInv, Answers
<1>3. ServerInv'
  BY <1>1, ServerQuiet DEF IInv, ServerInv, Types
<1>4. OneAlias'
  BY <1>1 DEF IInv, ClientInv, OneAlias
<1>5. created \subseteq aliases'
  BY <1>1, <1>2 DEF IInv, ClientInv, Kept, ServerInv, Spent, Types
<1>6. ASSUME NEW r \in records'
      PROVE  r.id \in aliases'
  BY <1>1 DEF IInv, ClientInv, Kept
<1>7. Kept'
  BY <1>1, <1>5, <1>6 DEF Kept, server
<1>8. aliases \subseteq aliases' \cup released /\ released' = released
  BY <1>1, <1>2 DEF server
<1>9. Domains' /\ Requests' /\ Kinds' /\ Answers'
  <2>1. CASE Goes(t, "preparing", want[t], None)
    BY <2>1, <1>1, <1>8, GoesStep DEF IInv
  <2>2. CASE stage' = [stage EXCEPT ![t] = "retiring"] /\ UNCHANGED <<want, call, answer, since>>
    <3>1. Domains'
      BY <2>2 DEF IInv, ClientInv, Domains
    <3>2. \A u \in Tab : stage'[u] = stage[u] \/ stage'[u] = "retiring"
      BY <2>2 DEF IInv, ClientInv, Domains
    <3>3. Requests'
      BY <2>2, <1>1, <1>8 DEF IInv, ClientInv, Requests, Carries
    <3>4. Kinds'
      BY <2>2, <3>2 DEF IInv, ClientInv, Kinds
    <3>5. Answers'
      BY <2>2, <3>2, <1>8 DEF IInv, ClientInv, Answers
    <3>6. QED BY <3>1, <3>3, <3>4, <3>5
  <2>3. QED BY <2>1, <2>2 DEF Abandon
<1>10. QED BY <1>3, <1>4, <1>7, <1>9 DEF IInv, ClientInv

\* An identity is kept only for a draft that has no alias, so that it gets one.
LEMMA RememberStep ==
  ASSUME IInv, NEW t \in Tab, Remember(t)
  PROVE  IInv'
<1> DEFINE kept   == {i \in DOMAIN answer[t] : \A r \in records : r.id[1] # i[1]}
           unused == DOMAIN answer[t] \ kept
           back   == [i \in unused |-> answer[t][i]]
<1>1. /\ stage[t] = "allocating" /\ answer[t] # None
      /\ \A i \in kept : \A j \in aliases \cup live[t] : j[1] # i[1]
      /\ records' = records \cup
           {[id |-> i, project |-> answer[t][i], at |-> since[t]] : i \in kept}
      /\ aliases' = aliases \cup kept
      /\ UNCHANGED <<now, server, late>>
  BY DEF Remember, Answered
<1>2. OnePerDraft(DOMAIN answer[t])
  BY <1>1 DEF IInv, ClientInv, Answers
<1>3. ServerInv'
  BY <1>1, <1>2, ServerQuiet DEF IInv, ServerInv, Types, OnePerDraft
<1>4. OneAlias'
  <2> SUFFICES ASSUME NEW i \in aliases', NEW j \in aliases', i[1] = j[1]
               PROVE  i = j
    BY DEF OneAlias
  <2>1. CASE i \in aliases /\ j \in aliases
    BY <2>1 DEF IInv, ClientInv, OneAlias
  <2>2. CASE i \in kept /\ j \in kept
    BY <2>2, <1>2 DEF OnePerDraft
  <2>3. ~(i \in kept /\ j \in aliases) /\ ~(j \in kept /\ i \in aliases)
    BY <1>1
  <2>4. QED BY <1>1, <2>1, <2>2, <2>3
<1>5. Kept'
  <2>1. \A r \in records' : r.id \in aliases'
    BY <1>1 DEF IInv, ClientInv, Kept
  <2>2. QED BY <1>1, <2>1 DEF IInv, ClientInv, Kept, server
<1>6. DOMAIN back \subseteq Ids
  BY <1>2 DEF OnePerDraft
<1>7. aliases \subseteq aliases' \cup released /\ released' = released
  BY <1>1 DEF server
<1>8. Domains' /\ Requests' /\ Kinds' /\ Answers'
  <2>1. CASE unused = {}
    <3>1. Goes(t, "checking", want[t], None)
      BY <2>1 DEF Remember
    <3>2. QED BY <3>1, <1>1, <1>7, GoesStep DEF IInv
  <2>2. CASE unused # {}
    <3>1. Goes(t, "returning", want[t], Request("release", back))
      BY <2>2 DEF Remember
    <3>2. Request("release", back).kind = "release" /\ Request("release", back).body = back
      BY DEF Request
    <3> HIDE DEF back
    <3>3. QED BY <3>1, <3>2, <1>1, <1>6, <1>7, GoesStep DEF IInv
  <2>3. QED BY <2>1, <2>2
<1>9. QED BY <1>3, <1>4, <1>5, <1>8 DEF IInv, ClientInv

LEMMA TabStepInv ==
  ASSUME IInv, NEW t \in Tab, TabStep(t)
  PROVE  IInv'
<1>1. CASE \E w \in Plan : Begin(t, w)
  BY <1>1, BeginStep
<1>2. CASE Abandon(t)
  BY <1>2, AbandonStep
<1>3. CASE Retire(t)
  <2>1. Goes(t, "idle", None, None)
    BY <1>3 DEF Retire
  <2>2. UNCHANGED <<now, server, aliases, late>> /\ \A r \in records' : r \in records
    BY <1>3 DEF Retire
  <2>3. QED BY <2>1, <2>2, AliasesKept
<1>4. CASE Allocate(t)
  <2>1. Goes(t, "allocating", want[t], Request("allocate", Entries(t)))
    BY <1>4 DEF Allocate
  <2>2. UNCHANGED <<now, server, aliases, late>> /\ \A r \in records' : r \in records
    BY <1>4 DEF Allocate, Prepare
  <2>3. Request("allocate", Entries(t)).kind = "allocate"
    BY DEF Request
  <2>4. QED BY <2>1, <2>2, <2>3, AliasesKept
<1>5. CASE Send(t)
  <2>1. Goes(t, "committing", None, Request("commit", Entries(t)))
    BY <1>5 DEF Send
  <2>2. UNCHANGED <<now, server, aliases, late>> /\ \A r \in records' : r \in records
    BY <1>5 DEF Send, Prepare
  <2>3. DOMAIN Entries(t) \subseteq aliases
    BY <1>5, EntriesHaveAlias DEF Send, Prepare
  <2>4. /\ Request("commit", Entries(t)).kind = "commit"
        /\ Request("commit", Entries(t)).body = Entries(t)
    BY DEF Request
  <2>5. QED BY <2>1, <2>2, <2>3, <2>4, AliasesKept
<1>6. CASE Remember(t)
  BY <1>6, RememberStep
<1>7. CASE Discard(t)
  <2>1. Goes(t, "discarding", None, Request("release", answer[t]))
    BY <1>7 DEF Discard
  <2>2. UNCHANGED <<now, server, records, aliases, late>>
    BY <1>7 DEF Discard
  <2>3. /\ Request("release", answer[t]).kind = "release"
        /\ Request("release", answer[t]).body = answer[t]
    BY DEF Request
  <2>4. DOMAIN answer[t] \subseteq Ids
    BY <1>7 DEF Discard, Answered, IInv, ClientInv, Answers, OnePerDraft
  <2>5. QED BY <2>1, <2>2, <2>3, <2>4, AliasesKept
<1>8. CASE Returned(t)
  <2>1. Goes(t, "checking", want[t], None)
    BY <1>8 DEF Returned
  <2>2. UNCHANGED <<now, server, records, aliases, late>>
    BY <1>8 DEF Returned
  <2>3. QED BY <2>1, <2>2, AliasesKept
<1>9. CASE Complete(t)
  <2>1. Goes(t, "idle", None, None)
    BY <1>9 DEF Complete
  <2>2. UNCHANGED <<now, server, aliases, late>> /\ \A r \in records' : r \in records
    BY <1>9 DEF Complete
  <2>3. QED BY <2>1, <2>2, AliasesKept
<1>10. CASE Fail(t) \/ Reload(t)
  <2>1. Goes(t, "idle", None, None) /\ Loses(t)
    BY <1>10 DEF Fail, Reload
  <2>2. UNCHANGED <<now, server, records, aliases>>
    BY <1>10 DEF Fail, Reload
  <2>3. \A q \in late' : q \in late \/ (call[t] # None /\ q = call[t])
    BY <2>1 DEF Loses
  <2>4. QED BY <2>1, <2>2, <2>3, AliasesKept
<1>11. QED
  BY <1>1, <1>2, <1>3, <1>4, <1>5, <1>6, <1>7, <1>8, <1>9, <1>10 DEF TabStep

\* What the server does with a request keeps the tabs' part of the invariant.
LEMMA HandleStep ==
  ASSUME IInv, NEW q, Carries(q), Handle(q), UNCHANGED <<now, records, aliases>>
  PROVE  /\ ServerInv' /\ OneAlias' /\ Kept'
         /\ released \subseteq released'
         /\ q.kind = "release" => DOMAIN AnswerTo(q) \subseteq released'
         /\ q.kind = "allocate" => OnePerDraft(DOMAIN AnswerTo(q))
<1>1. CASE Reserve(q)
  <2>1. ServerInv' /\ OnePerDraft(DOMAIN Issue(q))
    BY <1>1, ReserveStep DEF IInv
  <2>2. q.kind = "allocate" /\ AnswerTo(q) = Issue(q)
    BY <1>1 DEF Reserve, AnswerTo
  <2>3. UNCHANGED <<created, released>>
    BY <1>1 DEF Reserve
  <2>4. QED BY <2>1, <2>2, <2>3 DEF IInv, ClientInv, OneAlias, Kept
<1>2. CASE Release(q)
  <2>1. q.kind = "release" /\ created' = created
    BY <1>2 DEF Release
  <2>2. /\ ServerInv' /\ released \subseteq released'
        /\ \A i \in DOMAIN q.body : Matches(q, i) => i \in released'
    BY <1>2, <2>1, ReleaseStep DEF IInv, Carries
  <2>3. AnswerTo(q) = [i \in {j \in DOMAIN q.body : Matches(q, j)} |-> q.body[i]]
    BY <2>1 DEF AnswerTo
  <2>4. DOMAIN AnswerTo(q) \subseteq released'
    BY <2>2, <2>3
  <2>5. QED BY <2>1, <2>2, <2>4 DEF IInv, ClientInv, OneAlias, Kept
<1>3. CASE Consume(q)
  <2>1. q.kind = "commit"
    BY <1>3 DEF Consume
  <2>2. ServerInv' /\ released' = released /\ created' \subseteq created \cup aliases
    BY <1>3, <2>1, ConsumeStep DEF IInv, Carries
  <2>3. QED BY <2>1, <2>2 DEF IInv, ClientInv, OneAlias, Kept
<1>4. QED BY <1>1, <1>2, <1>3 DEF Handle

LEMMA ServeStep ==
  ASSUME IInv, NEW t \in Tab, Serve(t)
  PROVE  IInv'
<1> DEFINE q == call[t]
<1>1. /\ q # None /\ answer[t] = None /\ Handle(q)
      /\ answer' = [answer EXCEPT ![t] = AnswerTo(q)]
      /\ UNCHANGED <<now, records, aliases, live, stage, want, call, since, late>>
  BY DEF Serve
<1>2. Carries(q)
  BY <1>1 DEF IInv, ClientInv, Requests
<1> HIDE DEF q
<1>3. /\ ServerInv' /\ OneAlias' /\ Kept'
      /\ released \subseteq released'
      /\ q.kind = "release" => DOMAIN AnswerTo(q) \subseteq released'
      /\ q.kind = "allocate" => OnePerDraft(DOMAIN AnswerTo(q))
  BY <1>1, <1>2, HandleStep
<1>4. Domains'
  BY <1>1 DEF IInv, ClientInv, Domains
<1>5. Requests' /\ Kinds'
  BY <1>1, <1>3 DEF IInv, ClientInv, Requests, Carries, Kinds
<1>6. answer'[t] = AnswerTo(q) /\ \A u \in Tab : u # t => answer'[u] = answer[u]
  BY <1>1 DEF IInv, ClientInv, Domains
<1>7. /\ stage[t] = "releasing" => q.kind = "release"
      /\ stage[t] = "allocating" => q.kind = "allocate"
  BY DEF q, IInv, ClientInv, Kinds
<1>8. Answers'
  <2> SUFFICES ASSUME NEW u \in Tab, answer'[u] # None
               PROVE  /\ stage[u] = "releasing" => DOMAIN answer'[u] \subseteq released'
                      /\ stage[u] = "allocating" => OnePerDraft(DOMAIN answer'[u])
    BY <1>1 DEF Answers, OnePerDraft
  <2>1. CASE u = t
    BY <2>1, <1>3, <1>6, <1>7
  <2>2. CASE u # t
    BY <2>2, <1>3, <1>6 DEF IInv, ClientInv, Answers
  <2>3. QED BY <2>1, <2>2
<1>9. QED BY <1>3, <1>4, <1>5, <1>8 DEF IInv, ClientInv

LEMMA ServeLateStep ==
  ASSUME IInv, NEW q \in late, ServeLate(q)
  PROVE  IInv'
<1>1. /\ Handle(q) /\ late' = late \ {q}
      /\ UNCHANGED <<now, records, aliases, live, local>>
  BY DEF ServeLate
<1>2. Carries(q)
  BY DEF IInv, ClientInv, Requests
<1>3. ServerInv' /\ OneAlias' /\ Kept' /\ released \subseteq released'
  BY <1>1, <1>2, HandleStep
<1>4. Domains' /\ Requests' /\ Kinds' /\ Answers'
  BY <1>1, <1>3
  DEF local, IInv, ClientInv, Domains, Requests, Carries, Kinds, Answers, OnePerDraft
<1>5. QED BY <1>3, <1>4 DEF IInv, ClientInv

\* A proof that has run out does not come back.
LEMMA TickStep ==
  ASSUME IInv, Tick
  PROVE  IInv'
<1>1. now' = now + 1 /\ UNCHANGED <<tries, server, records, aliases, live, local, late>>
  BY DEF Tick
<1>2. \A i \in Ids : Usable(i)' => Usable(i)
  BY <1>1 DEF server, Usable, IInv, ServerInv, Types, RowTimes
<1>3. ServerInv'
  BY <1>1, <1>2 DEF server, IInv, ServerInv, Types, Numbered, RowTimes, Spent
<1>4. ClientInv'
  BY <1>1 DEF server, local, IInv, ClientInv, OneAlias, Kept, Domains, Requests, Carries,
              Kinds, Answers, OnePerDraft
<1>5. QED BY <1>3, <1>4 DEF IInv

LEMMA InitInv == Init => IInv
<1> SUFFICES ASSUME Init PROVE IInv
  OBVIOUS
<1>1. ServerInv
  BY DraftAssumption DEF Init, ServerInv, Types, Numbered, RowTimes, Spent, Ids
<1>2. ClientInv
  BY DEF Init, ClientInv, OneAlias, Kept, Domains, Requests, Kinds, Answers
<1>3. QED BY <1>1, <1>2 DEF IInv

LEMMA NextInv == IInv /\ [Next]_vars => IInv'
<1> SUFFICES ASSUME IInv, [Next]_vars
             PROVE  IInv'
  OBVIOUS
<1>1. CASE \E t \in Tab : TabStep(t) \/ Serve(t)
  BY <1>1, TabStepInv, ServeStep
<1>2. CASE \E q \in late : ServeLate(q)
  BY <1>2, ServeLateStep
<1>3. CASE Tick
  BY <1>3, TickStep
<1>4. CASE UNCHANGED vars
  BY <1>4 DEF vars, server, local, IInv, ServerInv, Types, Numbered, RowTimes, Spent, Usable,
     ClientInv, OneAlias, Kept, Domains, Requests, Carries, Kinds, Answers, OnePerDraft
<1>5. QED BY <1>1, <1>2, <1>3, <1>4 DEF Next

\* The strengthened invariant holds throughout.
THEOREM CreationInvariant == Spec => []IInv
BY InitInv, NextInv, PTL DEF Spec

\* A draft becomes at most one object, for any tabs, drafts, lifetimes and bounds
\* (creationIdStorage.js, creationAllocations.js).
THEOREM OneObjectPerDraft == Spec => []DraftCreatedOnce
<1>1. IInv => DraftCreatedOnce
  BY DEF IInv, ClientInv, OneAlias, Kept, DraftCreatedOnce
<1>2. QED BY <1>1, CreationInvariant, PTL

\* What the server has reported as unused stays unused (releaseCreationIds).
THEOREM ReleasedStaysUnused == Spec => []ReleaseIsFinal
<1>1. IInv => ReleaseIsFinal
  BY DEF IInv, ServerInv, Types, Spent, ReleaseIsFinal
<1>2. QED BY <1>1, CreationInvariant, PTL

\* A draft whose creation is done or still possible keeps the alias that bars a second
\* identity (prepare, retireProofs).
THEOREM UncertainDraftsBarred == Spec => []UncertainKeepsAlias
<1>1. IInv => UncertainKeepsAlias
  BY DEF IInv, ClientInv, Kept, Requests, Carries, UncertainKeepsAlias, Commits, UnderWay
<1>2. QED BY <1>1, CreationInvariant, PTL

-----------------------------------------------------------------------------
\* The identities whose numbers have been given out, so that no row is made for them.
Given(i) == i[2] <= issued[i[1]]

\* The row of i does not run out before the time, unless it was spent or released.
Lasts(i, time) ==
  \/ row[i] # None /\ row[i].expires >= time
  \/ i \in created \cup released
  \/ now >= time

\* A proof for the project is, if the server still has it, the one the server has.
Bound(i, project) == row[i] # None => row[i].project = project

\* A new project is its own destination.
RowsTrue == \A i \in Ids : i[1] \in ProjectDraft => Bound(i, i)

RecordsTrue == \A r \in records : Bound(r.id, r.project) /\ Lasts(r.id, r.at + ServerTTL)

IsBody(b) == BodyOK(b) /\ b = [x \in DOMAIN b |-> b[x]]

RequestTrue(q) ==
  /\ IsBody(q.body)
  /\ q.kind = "allocate" => \A x \in DOMAIN q.body \cap ProjectDraft : q.body[x] = x
  /\ q.kind = "commit" => \A i \in DOMAIN q.body : Bound(i, q.body[i])

RequestsTrue ==
  /\ \A q \in late : RequestTrue(q)
  /\ \A t \in Tab : call[t] # None => RequestTrue(call[t])

\* What a tab waits for, or has got and not yet put into the storage.
TabTrue(t) ==
  /\ stage[t] \in {"allocating", "committing"} => since[t] <= now
  /\ answer[t] # None => IsBody(answer[t])
  /\ stage[t] = "allocating" /\ answer[t] # None =>
       \A i \in DOMAIN answer[t] :
         /\ answer[t][i] \in Project \cup Ids /\ Given(i)
         /\ Bound(i, answer[t][i]) /\ Lasts(i, since[t] + ServerTTL)
  /\ stage[t] = "committing" =>
       \A i \in DOMAIN call[t].body : i \in Ids /\ Lasts(i, since[t] + (ServerTTL - ClientTTL) + 1)

Wanted == want = [t \in Tab |-> want[t]]

\* The strengthened invariant of the proofs on their way, beside that of the identities.
ProofInv ==
  /\ TypeOK /\ Wanted
  /\ \A i \in aliases : Given(i)
  /\ RowsTrue /\ RecordsTrue /\ RequestsTrue /\ \A t \in Tab : TabTrue(t)

TableTyped ==
  /\ issued \in [Draft -> 0..MaxIds] /\ row \in [Ids -> RowOf \cup {None}]
  /\ created \subseteq Ids /\ released \subseteq Ids

\* What the server does takes no promise back.
PromisesKept ==
  /\ \A i \in Ids : Given(i) => Given(i)'
  /\ \A i \in Ids, project \in Project \cup Ids \cup Draft : Given(i) /\ Bound(i, project) => Bound(i, project)'
  /\ \A i \in Ids, time \in Int : Lasts(i, time) => Lasts(i, time)'

\* What an allocation gives out is bound as it says, and lasts from now on.
LEMMA IssueTrue ==
  ASSUME IInv, ProofInv, NEW q, RequestTrue(q), Reserve(q), now' = now
  PROVE  /\ TableTyped' /\ RowsTrue' /\ PromisesKept
         /\ IsBody(Issue(q))
         /\ \A i \in DOMAIN Issue(q) :
              /\ Issue(q)[i] \in Project \cup Ids /\ Given(i)'
              /\ \A project : project = Issue(q)[i] => Bound(i, project)'
              /\ \A time \in Int : time <= now + ServerTTL => Lasts(i, time)'
<1> DEFINE new == {Fresh(d) : d \in Asked(q)}
<1>1. DOMAIN Issue(q) = new /\ Issue(q) = [i \in new |-> Issue(q)[i]]
  BY DEF Issue
<1>2. \A d \in Asked(q) : d \in Draft /\ issued[d] \in Nat /\ issued[d] < MaxIds
  BY DEF Reserve, Asked, IInv, ServerInv, Types
<1>3. \A d \in Asked(q) : Fresh(d) \in Ids /\ Fresh(d)[1] = d /\ Fresh(d)[2] = issued[d] + 1
  BY <1>2, DraftAssumption DEF Fresh, Ids
<1>4. \A x \in DOMAIN q.body : q.body[x] \in Draft => q.body[x] \in Asked(q)
  <2> SUFFICES ASSUME NEW x \in DOMAIN q.body, q.body[x] \in Draft
               PROVE  q.body[x] \in DOMAIN q.body
    BY DEF Asked
  <2>1. q.body[x] \notin Project /\ q.body[x] \notin Ids /\ created \subseteq Ids
    BY NamesAssumption DEF IInv, ServerInv, Types
  <2> QED BY <2>1 DEF Reserve, Authorized
<1>5. \A d \in Asked(q) : Issue(q)[Fresh(d)] = IF q.body[d] \in Draft THEN Fresh(q.body[d]) ELSE q.body[d]
  BY <1>3 DEF Issue
<1>6. \A i \in new : Issue(q)[i] \in Project \cup Ids
  <2> SUFFICES ASSUME NEW d \in Asked(q) PROVE Issue(q)[Fresh(d)] \in Project \cup Ids
    OBVIOUS
  <2>1. d \in DOMAIN q.body /\ q.body[d] \in Ref
    BY DEF Asked, RequestTrue, IsBody, BodyOK
  <2> QED BY <1>3, <1>4, <1>5, <2>1 DEF Ref
<1>7. \A i \in new : i[1] \in ProjectDraft => Issue(q)[i] = i
  <2> SUFFICES ASSUME NEW d \in Asked(q), d \in ProjectDraft PROVE Issue(q)[Fresh(d)] = Fresh(d)
    BY <1>3
  <2>1. q.body[d] = d /\ d \in Draft
    BY <1>2 DEF Asked, RequestTrue, Reserve
  <2> QED BY <1>5, <2>1
<1>8. \A i \in new : i \in Ids /\ ~Given(i) /\ row[i] = None
  BY <1>2, <1>3 DEF Given, IInv, ServerInv, Numbered
<1> DEFINE got(i) == [project |-> Issue(q)[i], expires |-> now + ServerTTL]
<1>9. /\ \A i \in new : row'[i] = got(i)
      /\ \A i \in Ids \ new : row'[i] = IF i \in Pruned THEN None ELSE row[i]
      /\ row' = [i \in Ids |-> row'[i]]
  BY <1>1, <1>3 DEF Reserve
<1>10. now \in Nat /\ now + ServerTTL \in Int
  BY TimeAssumption DEF IInv, ServerInv, Types
<1>11. \A i \in new : got(i) \in RowOf /\ got(i).project = Issue(q)[i] /\ got(i).expires = now + ServerTTL
  BY <1>6, <1>10 DEF RowOf
<1> HIDE DEF got, new
<1>12. \A i \in new : row'[i] # None /\ row'[i].project = Issue(q)[i] /\ row'[i].expires = now + ServerTTL
  BY <1>9, <1>11, NamesAssumption
<1>13. /\ issued' = [d \in Draft |-> IF d \in Asked(q) THEN issued[d] + 1 ELSE issued[d]]
       /\ created' = created /\ released' = released
  BY DEF Reserve
<1>14. \A d \in Draft : issued[d] \in 0..MaxIds /\ issued'[d] \in 0..MaxIds /\ issued[d] <= issued'[d]
  BY <1>2, <1>13, DraftAssumption DEF ProofInv, TypeOK
<1>15. \A i \in new : Given(i)'
  <2> SUFFICES ASSUME NEW i \in new PROVE Given(i)'
    OBVIOUS
  <2>1. PICK d \in Asked(q) : i = Fresh(d)
    BY DEF new
  <2>2. issued'[d] = issued[d] + 1
    BY <1>2, <1>13
  <2>3. i[1] = d /\ i[2] = issued[d] + 1
    BY <1>3, <2>1
  <2> QED BY <1>2, <2>2, <2>3 DEF Given
<1>16. TableTyped'
  <2>1. issued' \in [Draft -> 0..MaxIds]
    BY <1>13, <1>14
  <2>2. row' \in [Ids -> RowOf \cup {None}]
    BY <1>9, <1>11 DEF ProofInv, TypeOK
  <2> QED BY <1>13, <2>1, <2>2 DEF TableTyped, ProofInv, TypeOK
<1>17. RowsTrue'
  <2> SUFFICES ASSUME NEW i \in Ids, i[1] \in ProjectDraft PROVE Bound(i, i)'
    BY DEF RowsTrue
  <2>1. CASE i \in new
    BY <1>7, <1>12, <2>1 DEF Bound
  <2>2. CASE i \notin new
    BY <1>9, <2>2 DEF ProofInv, RowsTrue, Bound
  <2> QED BY <2>1, <2>2
<1>18. PromisesKept
  <2>1. \A i \in Ids : Given(i) => Given(i)'
    BY <1>14, Typing DEF Given
  <2>2. \A i \in Ids, project \in Project \cup Ids \cup Draft : Given(i) /\ Bound(i, project) => Bound(i, project)'
    BY <1>8, <1>9 DEF Bound
  <2>3. ASSUME NEW i \in Ids, NEW time \in Int, Lasts(i, time) PROVE Lasts(i, time)'
    <3>1. CASE i \in new
      BY <1>8, <1>13, <2>3, <3>1 DEF Lasts
    <3>2. CASE i \notin new /\ i \in Pruned
      <4>1. row[i] # None => row[i].expires <= now - ReceiptTTL /\ row[i].expires \in Int
        BY <3>2 DEF Pruned, IInv, ServerInv, RowTimes
      <4> QED BY <1>10, <1>13, <2>3, <4>1, TimeAssumption DEF Lasts
    <3>3. CASE i \notin new /\ i \notin Pruned
      BY <1>9, <1>13, <2>3, <3>3 DEF Lasts
    <3> QED BY <3>1, <3>2, <3>3
  <2> QED BY <2>1, <2>2, <2>3 DEF PromisesKept
<1>19. IsBody(Issue(q))
  BY <1>1, <1>6, <1>8 DEF IsBody, BodyOK, Ref
<1>20. \A i \in new : /\ \A project : project = Issue(q)[i] => Bound(i, project)'
                     /\ \A time \in Int : time <= now + ServerTTL => Lasts(i, time)'
  BY <1>10, <1>12 DEF Bound, Lasts
<1> QED BY <1>1, <1>6, <1>15, <1>16, <1>17, <1>18, <1>19, <1>20

\* What is released keeps its destination, and so does what stays when others are spent.
LEMMA ServedTrue ==
  ASSUME IInv, ProofInv, NEW q, RequestOK(q), RequestTrue(q), Release(q) \/ Consume(q), now' = now
  PROVE  TableTyped' /\ RowsTrue' /\ PromisesKept
<1>1. issued' = issued /\ created \subseteq created' /\ released \subseteq released' /\ now \in Nat
  BY DEF Release, Consume, IInv, ServerInv, Types
<1>2. DOMAIN q.body \subseteq Ids
  BY DEF RequestOK, Release, Consume
<1>3. \A i \in Ids : \/ row'[i] = row[i]
                     \/ row'[i] = None /\ i \in created'
                     \/ /\ row[i] # None /\ i \in released'
                        /\ row'[i] = [project |-> row[i].project, expires |-> now]
  BY DEF Release, Consume, Matches
<1>4. row' = [i \in Ids |-> row'[i]] /\ created' \subseteq Ids /\ released' \subseteq Ids
  BY <1>2 DEF Release, Consume, IInv, ServerInv, Types
<1>5. \A i \in Ids : row[i] # None => [project |-> row[i].project, expires |-> now] \in RowOf
  BY <1>1 DEF ProofInv, TypeOK, RowOf
<1>6. row' \in [Ids -> RowOf \cup {None}]
  BY <1>3, <1>4, <1>5 DEF ProofInv, TypeOK
<1>7. TableTyped'
  BY <1>1, <1>4, <1>6 DEF TableTyped, ProofInv, TypeOK
<1>8. ASSUME NEW i \in Ids, row'[i] # None PROVE row[i] # None /\ row'[i].project = row[i].project
  <2>1. CASE row'[i] = row[i]
    BY <1>8, <2>1
  <2>2. CASE row[i] # None /\ row'[i] = [project |-> row[i].project, expires |-> now]
    BY <2>2
  <2> QED BY <1>3, <1>8, <2>1, <2>2
<1>9. RowsTrue'
  BY <1>8 DEF RowsTrue, Bound, ProofInv
<1>10. PromisesKept
  <2>1. \A i \in Ids : Given(i) => Given(i)'
    BY <1>1 DEF Given
  <2>2. \A i \in Ids, project \in Project \cup Ids \cup Draft : Given(i) /\ Bound(i, project) => Bound(i, project)'
    BY <1>8 DEF Bound
  <2>3. \A i \in Ids, time \in Int : Lasts(i, time) => Lasts(i, time)'
    BY <1>1, <1>3 DEF Lasts
  <2> QED BY <2>1, <2>2, <2>3 DEF PromisesKept
<1> QED BY <1>7, <1>9, <1>10

\* While the server's promises are kept, what is stored, on its way and awaited stays true.
LEMMA StaysTrue ==
  ASSUME IInv, ProofInv, PromisesKept, now' \in Nat, now <= now'
  PROVE  /\ \A q : Carries(q) /\ RequestTrue(q) => RequestTrue(q)'
         /\ \A r \in records : Bound(r.id, r.project)' /\ Lasts(r.id, r.at + ServerTTL)'
         /\ \A i \in aliases : Given(i)'
         /\ \A t \in Tab : /\ stage'[t] = stage[t] /\ call'[t] = call[t]
                           /\ answer'[t] = answer[t] /\ since'[t] = since[t]
                           => TabTrue(t)'
<1>1. \A i \in aliases \cup released : i \in Ids /\ Given(i)
  BY DEF ProofInv, IInv, ServerInv, Types, Numbered, Given
<1>2. ASSUME NEW q, Carries(q), RequestTrue(q) PROVE RequestTrue(q)'
  <2>1. ASSUME q.kind = "commit", NEW i \in DOMAIN q.body PROVE Bound(i, q.body[i])'
    <3>1. i \in Ids /\ Given(i) /\ Bound(i, q.body[i]) /\ q.body[i] \in Project \cup Ids \cup Draft
      BY <1>1, <1>2, <2>1 DEF Carries, RequestTrue, IsBody, BodyOK, Ref
    <3> QED BY <3>1 DEF PromisesKept
  <2> QED BY <1>2, <2>1 DEF RequestTrue, IsBody, BodyOK
<1>3. ASSUME NEW r \in records PROVE Bound(r.id, r.project)' /\ Lasts(r.id, r.at + ServerTTL)'
  <2>1. r.id \in Ids /\ r.project \in Project \cup Ids /\ r.at \in Nat
    BY DEF ProofInv, TypeOK
  <2>2. Given(r.id)
    BY <1>1 DEF IInv, ClientInv, Kept
  <2>3. Bound(r.id, r.project) /\ Lasts(r.id, r.at + ServerTTL) /\ r.at + ServerTTL \in Int
    BY <2>1, TimeAssumption DEF ProofInv, RecordsTrue
  <2> QED BY <2>1, <2>2, <2>3 DEF PromisesKept
<1>4. \A i \in aliases : Given(i)'
  BY <1>1 DEF PromisesKept
<1>5. ASSUME NEW t \in Tab, stage'[t] = stage[t], call'[t] = call[t],
             answer'[t] = answer[t], since'[t] = since[t]
      PROVE  TabTrue(t)'
  <2>1. /\ since[t] \in Nat /\ since[t] + ServerTTL \in Int
        /\ since[t] + (ServerTTL - ClientTTL) + 1 \in Int
    BY TimeAssumption DEF ProofInv, TypeOK
  <2>2. stage[t] \in {"allocating", "committing"} => since'[t] <= now'
    BY <1>5, <2>1 DEF ProofInv, TabTrue, TypeOK
  <2>3. answer[t] # None => IsBody(answer[t])'
    BY <1>5 DEF ProofInv, TabTrue, IsBody, BodyOK
  <2>4. ASSUME stage[t] = "allocating", answer[t] # None, NEW i \in DOMAIN answer[t]
        PROVE  /\ answer[t][i] \in Project \cup Ids /\ Given(i)'
               /\ Bound(i, answer[t][i])' /\ Lasts(i, since[t] + ServerTTL)'
    <3>1. i \in Ids
      BY <2>4 DEF IInv, ClientInv, Answers, OnePerDraft
    <3>2. /\ answer[t][i] \in Project \cup Ids /\ Given(i)
          /\ Bound(i, answer[t][i]) /\ Lasts(i, since[t] + ServerTTL)
      BY <2>4 DEF ProofInv, TabTrue
    <3>3. \A project : project = answer[t][i] => Bound(i, project)'
      BY <3>1, <3>2 DEF PromisesKept
    <3>4. \A time : time = since[t] + ServerTTL => Lasts(i, time)'
      BY <2>1, <3>1, <3>2 DEF PromisesKept
    <3> QED BY <1>5, <3>1, <3>2, <3>3, <3>4 DEF PromisesKept
  <2>5. ASSUME stage[t] = "committing", NEW i \in DOMAIN call[t].body
        PROVE  i \in Ids /\ Lasts(i, since[t] + (ServerTTL - ClientTTL) + 1)'
    <3>1. i \in Ids /\ Lasts(i, since[t] + (ServerTTL - ClientTTL) + 1)
      BY <2>5 DEF ProofInv, TabTrue
    <3>2. \A time : time = since[t] + (ServerTTL - ClientTTL) + 1 => Lasts(i, time)'
      BY <2>1, <3>1 DEF PromisesKept
    <3> QED BY <1>5, <3>1, <3>2
  <2> QED BY <1>5, <2>2, <2>3, <2>4, <2>5 DEF TabTrue
<1> QED BY <1>2, <1>3, <1>4, <1>5

LEMMA QuietKeeps ==
  ASSUME UNCHANGED <<now, server>>
  PROVE  PromisesKept
BY DEF PromisesKept, server, Given, Bound, Lasts

\* What the server does with a request.
LEMMA HandleTrue ==
  ASSUME IInv, ProofInv, NEW q, RequestOK(q), RequestTrue(q), Handle(q), now' = now
  PROVE  TableTyped' /\ RowsTrue' /\ PromisesKept /\ IsBody(AnswerTo(q))
<1>1. CASE Reserve(q)
  BY <1>1, IssueTrue DEF Reserve, AnswerTo
<1>2. CASE Release(q)
  <2>1. AnswerTo(q) = [i \in {j \in DOMAIN q.body : Matches(q, j)} |-> q.body[i]]
    BY <1>2 DEF Release, AnswerTo
  <2>2. IsBody(AnswerTo(q))
    BY <2>1 DEF IsBody, BodyOK, RequestTrue
  <2> QED BY <1>2, <2>2, ServedTrue
<1>3. CASE Consume(q)
  <2>1. AnswerTo(q) = q.body
    BY <1>3 DEF Consume, AnswerTo
  <2> QED BY <1>3, <2>1, ServedTrue DEF RequestTrue
<1> QED BY <1>1, <1>2, <1>3 DEF Handle

LEMMA ServeTrue ==
  ASSUME IInv, ProofInv, NEW t \in Tab, Serve(t)
  PROVE  ProofInv'
<1>1. PICK q : q = call[t]
  OBVIOUS
<1>2. /\ q # None /\ answer[t] = None /\ Handle(q)
      /\ answer' = [answer EXCEPT ![t] = AnswerTo(q)]
      /\ UNCHANGED <<now, tries, records, aliases, live, stage, want, call, since, late>>
  BY <1>1 DEF Serve
<1>3. RequestOK(q) /\ RequestTrue(q) /\ now \in Nat
  BY <1>1, <1>2 DEF ProofInv, TypeOK, RequestsTrue
<1>4. TableTyped' /\ RowsTrue' /\ PromisesKept /\ IsBody(AnswerTo(q))
  BY <1>2, <1>3, HandleTrue
<1>5. /\ answer'[t] = AnswerTo(q) /\ \A u \in Tab : u # t => answer'[u] = answer[u]
  BY <1>2 DEF IInv, ClientInv, Domains
<1>6. /\ \A p : Carries(p) /\ RequestTrue(p) => RequestTrue(p)'
      /\ \A r \in records : Bound(r.id, r.project)' /\ Lasts(r.id, r.at + ServerTTL)'
      /\ \A i \in aliases : Given(i)'
      /\ \A u \in Tab : u # t => TabTrue(u)'
  BY <1>2, <1>3, <1>4, <1>5, StaysTrue
<1>7. TypeOK'
  <2>1. \A u \in Tab : answer'[u] # None => call[u] # None /\ BodyOK(answer'[u])
    BY <1>1, <1>2, <1>4, <1>5 DEF ProofInv, TypeOK, IsBody
  <2> QED BY <1>2, <1>4, <2>1 DEF ProofInv, TypeOK, TableTyped, RequestOK, BodyOK
<1>8. RequestsTrue'
  <2>1. \A p \in late : RequestTrue(p)'
    BY <1>6 DEF ProofInv, RequestsTrue, IInv, ClientInv, Requests
  <2>2. \A u \in Tab : call[u] # None => \A p : p = call[u] => RequestTrue(p)'
    BY <1>6 DEF ProofInv, RequestsTrue, IInv, ClientInv, Requests
  <2> QED BY <1>2, <2>1, <2>2 DEF RequestsTrue, RequestTrue
<1>9. TabTrue(t)'
  <2>1. stage[t] \in {"allocating", "committing"} => since[t] <= now
    BY DEF ProofInv, TabTrue
  <2>2. ASSUME stage[t] = "allocating", NEW i \in DOMAIN AnswerTo(q)
        PROVE  /\ AnswerTo(q)[i] \in Project \cup Ids /\ Given(i)'
               /\ \A project : project = AnswerTo(q)[i] => Bound(i, project)'
               /\ \A time : time = since[t] + ServerTTL => Lasts(i, time)'
    <3>1. q.kind = "allocate"
      BY <1>1, <2>2 DEF IInv, ClientInv, Kinds
    <3>2. Reserve(q) /\ AnswerTo(q) = Issue(q)
      BY <1>2, <3>1 DEF Handle, Release, Consume, AnswerTo
    <3>3. since[t] \in Nat /\ since[t] + ServerTTL <= now + ServerTTL /\ since[t] + ServerTTL \in Int
      BY <1>3, <2>1, <2>2, TimeAssumption DEF ProofInv, TypeOK
    <3> QED BY <1>2, <1>3, <2>2, <3>2, <3>3, IssueTrue
  <2>3. ASSUME stage[t] = "committing", NEW i \in DOMAIN call[t].body
        PROVE  i \in Ids /\ \A time : time = since[t] + (ServerTTL - ClientTTL) + 1 => Lasts(i, time)'
    <3>1. i \in Ids /\ Lasts(i, since[t] + (ServerTTL - ClientTTL) + 1)
      BY <2>3 DEF ProofInv, TabTrue
    <3>2. since[t] + (ServerTTL - ClientTTL) + 1 \in Int
      BY TimeAssumption DEF ProofInv, TypeOK
    <3> QED BY <1>4, <3>1, <3>2 DEF PromisesKept
  <2>4. IsBody(answer[t])'
    BY <1>4, <1>5 DEF IsBody, BodyOK
  <2> QED BY <1>2, <1>5, <2>1, <2>2, <2>3, <2>4 DEF TabTrue
<1>10. RecordsTrue'
  BY <1>2, <1>6 DEF RecordsTrue
<1> QED BY <1>2, <1>4, <1>5, <1>6, <1>7, <1>8, <1>9, <1>10 DEF ProofInv, Wanted

\* A step that leaves the tabs and the storage as they are.
LEMMA TabsRestTrue ==
  ASSUME IInv, ProofInv, PromisesKept, TableTyped', RowsTrue', now' \in Nat, now <= now',
         late' \subseteq late, UNCHANGED <<tries, records, aliases, live, local>>
  PROVE  ProofInv'
<1>1. /\ \A p : Carries(p) /\ RequestTrue(p) => RequestTrue(p)'
      /\ \A r \in records : Bound(r.id, r.project)' /\ Lasts(r.id, r.at + ServerTTL)'
      /\ \A i \in aliases : Given(i)'
      /\ \A u \in Tab : TabTrue(u)'
  BY StaysTrue DEF local
<1>2. TypeOK'
  BY DEF ProofInv, TypeOK, TableTyped, local, RequestOK, BodyOK
<1>3. RequestsTrue'
  <2>1. \A p \in late' : RequestTrue(p)'
    BY <1>1 DEF ProofInv, RequestsTrue, IInv, ClientInv, Requests
  <2>2. \A u \in Tab : call[u] # None => \A p : p = call[u] => RequestTrue(p)'
    BY <1>1 DEF ProofInv, RequestsTrue, IInv, ClientInv, Requests
  <2> QED BY <2>1, <2>2 DEF RequestsTrue, RequestTrue, local
<1>4. RecordsTrue'
  BY <1>1 DEF RecordsTrue
<1> QED BY <1>1, <1>2, <1>3, <1>4 DEF ProofInv, Wanted, local

LEMMA ServeLateTrue ==
  ASSUME IInv, ProofInv, NEW q \in late, ServeLate(q)
  PROVE  ProofInv'
<1>1. /\ Handle(q) /\ late' = late \ {q}
      /\ UNCHANGED <<now, tries, records, aliases, live, local>>
  BY DEF ServeLate
<1>2. RequestOK(q) /\ RequestTrue(q) /\ now \in Nat
  BY DEF ProofInv, TypeOK, RequestsTrue
<1> QED BY <1>1, <1>2, HandleTrue, TabsRestTrue

LEMMA TickTrue ==
  ASSUME IInv, ProofInv, Tick \/ UNCHANGED vars
  PROVE  ProofInv'
<1>1. /\ now \in Nat /\ now' \in {now, now + 1} /\ late' = late
      /\ UNCHANGED <<tries, server, records, aliases, live, local>>
  BY DEF Tick, vars, ProofInv, TypeOK
<1>2. PromisesKept
  BY <1>1 DEF PromisesKept, server, Given, Bound, Lasts
<1>3. TableTyped' /\ RowsTrue'
  BY <1>1 DEF server, ProofInv, TypeOK, TableTyped, RowsTrue, Bound
<1> QED BY <1>1, <1>2, <1>3, TabsRestTrue

-----------------------------------------------------------------------------
\* A step of a tab to another stage, with a request that is true.
LEMMA TabMoves ==
  ASSUME IInv, ProofInv, NEW t \in Tab, NEW s \in Stages, NEW w, NEW c, Goes(t, s, w, c),
         UNCHANGED <<now, server>>, tries' \in Nat,
         records' \subseteq [id : Ids, project : Project \cup Ids, at : Nat],
         \A r \in records' : Bound(r.id, r.project) /\ Lasts(r.id, r.at + ServerTTL),
         aliases' \subseteq Ids, \A i \in aliases' : Given(i),
         live' \in [Tab -> SUBSET Ids],
         s \notin {"idle", "committing", "discarding"} => w \in Plan,
         (c = None) = (s \in {"idle", "preparing", "checking"}),
         c # None => RequestOK(c) /\ RequestTrue(c),
         s = "committing" => \A i \in DOMAIN c.body :
                               i \in Ids /\ Lasts(i, now + (ServerTTL - ClientTTL) + 1),
         \A q \in late' : q \in late \/ (call[t] # None /\ q = call[t])
  PROVE  ProofInv'
<1>1. /\ UNCHANGED <<issued, row, created, released>> /\ now \in Nat
      /\ \A i, project : Bound(i, project) => Bound(i, project)'
      /\ \A i, time : Lasts(i, time) => Lasts(i, time)'
      /\ \A i : Given(i) => Given(i)'
  BY DEF server, Bound, Lasts, Given, ProofInv, TypeOK
<1>2. /\ stage' \in [Tab -> Stages] /\ since' \in [Tab -> Nat]
      /\ stage'[t] = s /\ want'[t] = w /\ call'[t] = c /\ answer'[t] = None
      /\ since'[t] = IF s \in {"allocating", "committing"} THEN now ELSE 0
      /\ \A u \in Tab \ {t} : /\ stage'[u] = stage[u] /\ call'[u] = call[u]
                              /\ answer'[u] = answer[u] /\ since'[u] = since[u]
  <2>1. /\ stage' = [stage EXCEPT ![t] = s] /\ call' = [call EXCEPT ![t] = c]
        /\ answer' = [answer EXCEPT ![t] = None]
        /\ since' = [since EXCEPT ![t] = IF s \in {"allocating", "committing"} THEN now ELSE 0]
    BY DEF Goes
  <2>2. /\ stage \in [Tab -> Stages] /\ since \in [Tab -> Nat]
        /\ DOMAIN call = Tab /\ DOMAIN answer = Tab
    BY DEF ProofInv, TypeOK, IInv, ClientInv, Domains
  <2>3. want'[t] = w
    BY DEF Goes, ProofInv, Wanted
  <2> QED BY <1>1, <2>1, <2>2, <2>3
<1>3. \A u \in Tab \ {t} : want'[u] = want[u]
  BY DEF Goes, ProofInv, Wanted
<1>4. \A u \in Tab : call[u] # None => RequestOK(call[u]) /\ RequestTrue(call[u])
  BY DEF ProofInv, TypeOK, RequestsTrue
<1>5. \A q \in late' : RequestOK(q) /\ RequestTrue(q)
  BY <1>4 DEF ProofInv, TypeOK, RequestsTrue
<1>6. TypeOK'
  <2>1. \A u \in Tab : /\ stage'[u] \notin {"idle", "committing", "discarding"} => want'[u] \in Plan
                       /\ call'[u] # None => RequestOK(call'[u])
                       /\ (call'[u] = None) = (stage'[u] \in {"idle", "preparing", "checking"})
                       /\ answer'[u] # None => call'[u] # None /\ BodyOK(answer'[u])
    <3> SUFFICES ASSUME NEW u \in Tab
                 PROVE  /\ stage'[u] \notin {"idle", "committing", "discarding"} => want'[u] \in Plan
                        /\ call'[u] # None => RequestOK(call'[u])
                        /\ (call'[u] = None) = (stage'[u] \in {"idle", "preparing", "checking"})
                        /\ answer'[u] # None => call'[u] # None /\ BodyOK(answer'[u])
      OBVIOUS
    <3>1. CASE u = t
      BY <1>2, <3>1
    <3>2. CASE u # t
      BY <1>2, <1>3, <3>2 DEF ProofInv, TypeOK
    <3> QED BY <3>1, <3>2
  <2> QED BY <1>1, <1>2, <1>5, <2>1 DEF ProofInv, TypeOK, RequestOK, BodyOK
<1>7. RequestsTrue'
  <2>1. \A q : RequestTrue(q) => RequestTrue(q)'
    BY <1>1 DEF RequestTrue, IsBody, BodyOK
  <2>2. \A u \in Tab : call'[u] # None => \A q : q = call'[u] => RequestTrue(q)
    BY <1>2, <1>4
  <2>3. \A u \in Tab : call'[u] # None => \A q : q = call'[u] => RequestTrue(q)'
    BY <2>1, <2>2
  <2>4. \A u \in Tab : call'[u] # None => RequestTrue(call[u])'
    BY <2>3 DEF RequestTrue
  <2> QED BY <1>5, <2>1, <2>4 DEF RequestsTrue
<1>8. ASSUME NEW u \in Tab PROVE TabTrue(u)'
  <2>1. CASE u = t
    <3>1. since'[t] <= now
      BY <1>1, <1>2
    <3>2. s = "committing" => \A i \in DOMAIN c.body : 
            i \in Ids /\ \A time : time = now + (ServerTTL - ClientTTL) + 1 => Lasts(i, time)'
      BY <1>1
    <3> QED BY <1>2, <2>1, <3>1, <3>2 DEF TabTrue
  <2>2. CASE u # t
    <3>1. PromisesKept
      BY QuietKeeps
    <3>2. now' \in Nat /\ now <= now'
      BY <1>1
    <3> QED BY <1>2, <2>2, <3>1, <3>2, StaysTrue
  <2> QED BY <2>1, <2>2
<1>9. RowsTrue' /\ RecordsTrue' /\ \A i \in aliases' : Given(i)'
  BY <1>1 DEF ProofInv, RowsTrue, RecordsTrue
<1>10. Wanted'
  BY DEF Goes, ProofInv, Wanted
<1> QED BY <1>6, <1>7, <1>8, <1>9, <1>10 DEF ProofInv

-----------------------------------------------------------------------------
LEMMA RequestIs ==
  ASSUME NEW kind \in {"allocate", "release", "commit"}, NEW b, IsBody(b),
         kind # "allocate" => DOMAIN b \subseteq Ids
  PROVE  /\ Request(kind, b).kind = kind /\ Request(kind, b).body = b
         /\ Request(kind, b) # None /\ RequestOK(Request(kind, b))
<1>1. b \in [DOMAIN b -> Ref] /\ DOMAIN b \in SUBSET (Ids \cup Draft)
  BY DEF IsBody, BodyOK
<1>2. b \in Bodies
  BY <1>1 DEF Bodies
<1>3. Request(kind, b) \in Message
  BY <1>2 DEF Message, Request
<1>4. Request(kind, b).kind = kind /\ Request(kind, b).body = b
  BY DEF Request
<1> QED BY <1>3, <1>4, NamesAssumption DEF RequestOK, IsBody

LEMMA PublishTyped ==
  ASSUME TypeOK, NEW t \in Tab, NEW A \in SUBSET Ids, NEW gone, Publish(t, A, gone)
  PROVE  live' \in [Tab -> SUBSET Ids]
BY DEF TypeOK, Publish

\* What stands for a reference is an identity of it, or itself where it has none.
LEMMA TranslateIs ==
  ASSUME NEW A \in SUBSET Ids, NEW ref
  PROVE  \/ /\ Translate(A, ref) \in A /\ Translate(A, ref)[1] = ref
         \/ /\ Translate(A, ref) = ref
            /\ \A i \in A : i[1] # ref
BY DEF Translate

LEMMA MappingTyped ==
  ASSUME ProofInv, NEW t \in Tab
  PROVE  Mapping(t) \in SUBSET Ids
BY DEF ProofInv, TypeOK, Mapping

\* The aliases of the storage go before those in memory.
LEMMA StoredFirst ==
  ASSUME IInv, ProofInv, NEW t \in Tab, NEW ref, Translate(aliases, ref) \in Ids, ref \notin Ids
  PROVE  Translate(Mapping(t), ref) = Translate(aliases, ref)
<1>1. Mapping(t) \in SUBSET Ids /\ aliases \in SUBSET Ids
  BY MappingTyped DEF ProofInv, TypeOK
<1>2. Translate(aliases, ref) \in aliases /\ Translate(aliases, ref)[1] = ref
  BY <1>1, TranslateIs
<1>3. Translate(aliases, ref) \in Mapping(t)
  BY <1>2 DEF Mapping
<1>4. Translate(Mapping(t), ref) \in Mapping(t) /\ Translate(Mapping(t), ref)[1] = ref
  BY <1>1, <1>2, <1>3, TranslateIs
<1>5. Translate(Mapping(t), ref) \in aliases
  BY <1>2, <1>4 DEF Mapping
<1> QED BY <1>2, <1>4, <1>5 DEF IInv, ClientInv, OneAlias

LEMMA EntriesTrue ==
  ASSUME IInv, ProofInv, NEW t \in Tab, want[t] \in Plan
  PROVE  /\ IsBody(Entries(t))
         /\ \A x \in DOMAIN Entries(t) \cap ProjectDraft : Entries(t)[x] = x
         /\ \A d \in DOMAIN want[t] : DraftOf(Translate(Mapping(t), d)) = d
<1> DEFINE w == want[t]
           name(d) == Translate(Mapping(t), d)
<1>1. /\ DOMAIN w \subseteq Draft
      /\ \A d \in DOMAIN w : w[d] \in Project \cup ProjectDraft
  BY PlanAssumption
<1>2. Mapping(t) \in SUBSET Ids
  BY MappingTyped
<1>3. \A ref : \/ name(ref) \in Ids /\ name(ref)[1] = ref
               \/ name(ref) = ref
  BY <1>2, TranslateIs
<1> HIDE DEF name
<1>4. \A d \in DOMAIN w : name(d) \in Ids \cup Draft /\ DraftOf(name(d)) = d
  BY <1>1, <1>3, NamesAssumption DEF DraftOf
<1>5. \A d \in DOMAIN w : name(w[d]) \in Ref
  BY <1>1, <1>3, DraftAssumption DEF Ref
<1>6. /\ DOMAIN Entries(t) = {name(d) : d \in DOMAIN w}
      /\ \A d \in DOMAIN w : Entries(t)[name(d)] = IF d \in ProjectDraft THEN name(d) ELSE name(w[d])
      /\ Entries(t) = [x \in DOMAIN Entries(t) |-> Entries(t)[x]]
  BY <1>4 DEF Entries, name
<1>7. \A d \in DOMAIN w : Entries(t)[name(d)] \in Ref
  BY <1>4, <1>5, <1>6 DEF Ref
<1>8. IsBody(Entries(t))
  BY <1>4, <1>6, <1>7 DEF IsBody, BodyOK
<1>9. \A x \in DOMAIN Entries(t) \cap ProjectDraft : Entries(t)[x] = x
  <2> SUFFICES ASSUME NEW d \in DOMAIN w, name(d) \in ProjectDraft
               PROVE  Entries(t)[name(d)] = name(d)
    BY <1>6
  <2>1. name(d) = d
    BY <1>3, DraftAssumption, NamesAssumption
  <2> QED BY <1>6, <2>1
<1> QED BY <1>4, <1>8, <1>9 DEF name

\* What a commit sends is bound as it says, and lasts for the margin.
LEMMA SentTrue ==
  ASSUME IInv, ProofInv, NEW t \in Tab, want[t] \in Plan, Ready(t), New(t) = {}
  PROVE  \A x \in DOMAIN Entries(t) :
           /\ x \in Ids /\ Bound(x, Entries(t)[x])
           /\ Lasts(x, now + (ServerTTL - ClientTTL) + 1)
<1>1. SUFFICES ASSUME NEW d \in DOMAIN want[t], NEW x, x = Translate(Mapping(t), d)
               PROVE  /\ x \in Ids /\ Bound(x, Entries(t)[x])
                      /\ Lasts(x, now + (ServerTTL - ClientTTL) + 1)
  BY DEF Entries
<1>2. /\ d \in Draft /\ want[t][d] \in Project \cup ProjectDraft
      /\ Mapping(t) \in SUBSET Ids /\ aliases \in SUBSET Ids
  BY PlanAssumption, MappingTyped DEF ProofInv, TypeOK
<1>3. PICK j \in Mapping(t) : j[1] = d
  BY DEF New
<1>4. x \in Mapping(t) /\ x[1] = d /\ x \in Ids
  BY <1>1, <1>2, <1>3, TranslateIs
<1>5. PICK r \in records : r.id = x
  BY <1>4 DEF Ready
<1>6. /\ r.project \in Project \cup Ids /\ r.at \in Nat /\ now \in Nat
      /\ Bound(x, r.project) /\ Lasts(x, r.at + ServerTTL)
  BY <1>5 DEF ProofInv, TypeOK, RecordsTrue
<1>7. ~OutOfDate(r, want[t])
  BY <1>4, <1>5 DEF Ready, Reconciled, OfWant
<1>8. Lasts(x, now + (ServerTTL - ClientTTL) + 1)
  <2>1. r.at + ServerTTL >= now + (ServerTTL - ClientTTL) + 1
    BY <1>6, <1>7, TimeAssumption DEF OutOfDate
  <2>2. row[x] # None => row[x].expires \in Int
    BY <1>4 DEF IInv, ServerInv, RowTimes
  <2>3. r.at + ServerTTL \in Int /\ now + (ServerTTL - ClientTTL) + 1 \in Int
    BY <1>6, TimeAssumption
  <2> QED BY <1>6, <2>1, <2>2, <2>3 DEF Lasts
<1>9. Entries(t)[x] = IF d \in ProjectDraft THEN x ELSE Translate(Mapping(t), want[t][d])
  <2>1. DraftOf(x) = d
    BY <1>1, EntriesTrue
  <2>2. Entries(t)[x] = IF DraftOf(x) \in ProjectDraft THEN x
                        ELSE Translate(Mapping(t), want[t][DraftOf(x)])
    BY <1>1 DEF Entries
  <2> QED BY <2>1, <2>2
<1>10. CASE d \in ProjectDraft
  <2>1. Bound(x, x)
    BY <1>4, <1>10 DEF ProofInv, RowsTrue
  <2> QED BY <1>4, <1>8, <1>9, <1>10, <2>1
<1>11. CASE d \notin ProjectDraft
  <2>1. r.project = Translate(aliases, want[t][d])
    BY <1>4, <1>5, <1>7, <1>11 DEF OutOfDate
  <2>2. want[t][d] \notin Ids
    BY <1>2, DraftAssumption, NamesAssumption
  <2>3. CASE r.project \in Ids
    <3>1. Translate(Mapping(t), want[t][d]) = r.project
      BY <2>1, <2>2, <2>3, StoredFirst
    <3> QED BY <1>4, <1>6, <1>8, <1>9, <1>11, <3>1
  <2>4. CASE r.project \in Project
    <3>1. r.project \notin Ids
      BY <2>4, NamesAssumption
    <3>2. r.project = want[t][d]
      BY <1>2, <2>1, <3>1, TranslateIs
    <3>3. \A i \in Ids : i[1] # want[t][d]
      BY <2>4, <3>2, Typing, NamesAssumption
    <3>4. Translate(Mapping(t), want[t][d]) = want[t][d]
      BY <1>2, <3>3, TranslateIs
    <3> QED BY <1>4, <1>6, <1>8, <1>9, <1>11, <3>2, <3>4
  <2> QED BY <1>6, <2>3, <2>4
<1> QED BY <1>10, <1>11

\* Where the storage is left alone or only loses proofs.
LEMMA StorageStill ==
  ASSUME IInv, ProofInv, records' \subseteq records, aliases' \subseteq aliases
  PROVE  /\ records' \subseteq [id : Ids, project : Project \cup Ids, at : Nat]
         /\ \A r \in records' : Bound(r.id, r.project) /\ Lasts(r.id, r.at + ServerTTL)
         /\ aliases' \subseteq Ids /\ \A i \in aliases' : Given(i)
         /\ live \in [Tab -> SUBSET Ids] /\ aliases \in SUBSET Ids /\ tries \in Nat
BY DEF ProofInv, TypeOK, RecordsTrue

LEMMA BeginTrue ==
  ASSUME IInv, ProofInv, NEW t \in Tab, NEW w \in Plan, Begin(t, w)
  PROVE  ProofInv'
<1> DEFINE R == Reconciled(w)
           body == [i \in {r.id : r \in R} |-> (CHOOSE r \in R : r.id = i).project]
<1>1. /\ UNCHANGED <<now, server, records, aliases, late>> /\ tries' = tries + 1
      /\ Publish(t, aliases, {})
      /\ IF R = {} THEN Goes(t, "preparing", w, None)
                   ELSE Goes(t, "releasing", w, Request("release", body))
  BY DEF Begin
<1>2. live' \in [Tab -> SUBSET Ids] /\ tries' \in Nat
  <2>1. TypeOK /\ aliases \in SUBSET Ids /\ tries \in Nat /\ Publish(t, aliases, {})
    BY <1>1 DEF ProofInv, TypeOK
  <2>2. tries' = tries + 1
    BY <1>1
  <2>3. live' \in [Tab -> SUBSET Ids]
    BY <2>1, PublishTyped
  <2> QED BY <2>1, <2>2, <2>3
<1>3. R \subseteq records
  BY DEF Reconciled, OfWant
<1>4. \A r \in R : r.id \in Ids /\ r.project \in Project \cup Ids
  BY <1>3 DEF ProofInv, TypeOK
<1> HIDE DEF R
<1>5. IsBody(body) /\ DOMAIN body \subseteq Ids
  <2>1. \A i \in {r.id : r \in R} : body[i] \in Ref
    <3> SUFFICES ASSUME NEW i \in {r.id : r \in R}
                 PROVE  (CHOOSE r \in R : r.id = i).project \in Ref
      OBVIOUS
    <3>1. (CHOOSE r \in R : r.id = i) \in R
      OBVIOUS
    <3> QED BY <1>4, <3>1 DEF Ref
  <2>2. DOMAIN body = {r.id : r \in R} /\ body = [x \in DOMAIN body |-> body[x]]
    OBVIOUS
  <2> HIDE DEF body
  <2> QED BY <1>4, <2>1, <2>2 DEF IsBody, BodyOK
<1> HIDE DEF body
<1>6. /\ RequestOK(Request("release", body)) /\ RequestTrue(Request("release", body))
      /\ Request("release", body) # None
  BY <1>5, RequestIs DEF RequestTrue
<1>7. CASE R = {}
  <2>1. Goes(t, "preparing", w, None)
    BY <1>1, <1>7
  <2>2. "preparing" \in Stages
    BY DEF Stages
  <2> QED BY <1>1, <1>2, <2>1, <2>2, StorageStill, TabMoves
<1>8. CASE R # {}
  <2>1. Goes(t, "releasing", w, Request("release", body))
    BY <1>1, <1>8
  <2>2. "releasing" \in Stages
    BY DEF Stages
  <2> QED BY <1>1, <1>2, <1>6, <2>1, <2>2, StorageStill, TabMoves
<1> QED BY <1>7, <1>8

LEMMA AbandonTrue ==
  ASSUME IInv, ProofInv, NEW t \in Tab, Abandon(t)
  PROVE  ProofInv'
<1> DEFINE gone == {r \in records : r.id \in DOMAIN answer[t]}
           ids == {r.id : r \in gone}
<1>1. /\ stage[t] = "releasing" /\ answer[t] # None
      /\ records' = records \ gone /\ aliases' = aliases \ ids
      /\ Publish(t, aliases \ ids, ids)
      /\ UNCHANGED <<now, tries, server, late>>
      /\ \/ Goes(t, "preparing", want[t], None)
         \/ stage' = [stage EXCEPT ![t] = "retiring"] /\ UNCHANGED <<want, call, answer, since>>
  BY DEF Abandon, Answered
<1> HIDE DEF ids
<1>2. records' \subseteq records /\ aliases' \subseteq aliases
  BY <1>1
<1>3. live' \in [Tab -> SUBSET Ids] /\ tries' \in Nat /\ want[t] \in Plan
  BY <1>1, StorageStill, PublishTyped DEF ProofInv, TypeOK
<1>4. CASE Goes(t, "preparing", want[t], None)
  <2>1. "preparing" \in Stages
    BY DEF Stages
  <2> QED BY <1>1, <1>2, <1>3, <1>4, <2>1, StorageStill, TabMoves
<1>5. CASE stage' = [stage EXCEPT ![t] = "retiring"] /\ UNCHANGED <<want, call, answer, since>>
  <2>1. /\ stage' \in [Tab -> Stages] /\ stage'[t] = "retiring"
        /\ \A u \in Tab \ {t} : stage'[u] = stage[u]
    BY <1>5 DEF ProofInv, TypeOK, Stages
  <2>2. \A u \in Tab : /\ stage'[u] \notin {"idle", "committing", "discarding"} => want[u] \in Plan
                       /\ call[u] # None => RequestOK(call[u])
                       /\ (call[u] = None) = (stage'[u] \in {"idle", "preparing", "checking"})
                       /\ answer[u] # None => call[u] # None /\ BodyOK(answer[u])
    <3> SUFFICES ASSUME NEW u \in Tab
                 PROVE  /\ stage'[u] \notin {"idle", "committing", "discarding"} => want[u] \in Plan
                        /\ (call[u] = None) = (stage'[u] \in {"idle", "preparing", "checking"})
      BY DEF ProofInv, TypeOK
    <3>1. CASE u = t
      BY <1>1, <1>3, <2>1, <3>1 DEF ProofInv, TypeOK
    <3>2. CASE u # t
      BY <2>1, <3>2 DEF ProofInv, TypeOK
    <3> QED BY <3>1, <3>2
  <2>3. TypeOK'
    BY <1>1, <1>2, <1>3, <1>5, <2>1, <2>2, StorageStill DEF ProofInv, TypeOK, server, RequestOK, BodyOK
  <2>4. PromisesKept /\ now' \in Nat /\ now <= now'
    BY <1>1, QuietKeeps DEF ProofInv, TypeOK
  <2>5. \A u \in Tab \ {t} : TabTrue(u)'
    BY <1>5, <2>1, <2>4, StaysTrue
  <2>6. TabTrue(t)'
    BY <1>5, <2>1 DEF TabTrue, IsBody, BodyOK, ProofInv
  <2>7. RequestsTrue'
    <3>1. \A p : Carries(p) /\ RequestTrue(p) => RequestTrue(p)'
      BY <2>4, StaysTrue
    <3>2. /\ \A p \in late : RequestTrue(p)'
          /\ \A u \in Tab : call[u] # None => \A p : p = call[u] => RequestTrue(p)'
      BY <3>1 DEF ProofInv, RequestsTrue, IInv, ClientInv, Requests
    <3> QED BY <1>1, <1>5, <3>2 DEF RequestsTrue, RequestTrue
  <2>8. /\ RecordsTrue' /\ RowsTrue' /\ \A i \in aliases' : Given(i)'
    BY <1>1, <1>2 DEF server, ProofInv, RecordsTrue, RowsTrue, Bound, Lasts, Given
  <2>9. Wanted'
    BY <1>5 DEF ProofInv, Wanted
  <2> QED BY <2>3, <2>5, <2>6, <2>7, <2>8, <2>9 DEF ProofInv
<1> QED BY <1>1, <1>4, <1>5

LEMMA AllocateTrue ==
  ASSUME IInv, ProofInv, NEW t \in Tab, Allocate(t)
  PROVE  ProofInv'
<1>1. /\ Goes(t, "allocating", want[t], Request("allocate", Entries(t)))
      /\ stage[t] = "preparing" /\ records' \subseteq records /\ Publish(t, aliases, {})
      /\ UNCHANGED <<now, tries, server, aliases, late>>
  BY DEF Allocate, Prepare
<1>2. live' \in [Tab -> SUBSET Ids] /\ tries' \in Nat /\ want[t] \in Plan
  BY <1>1, StorageStill, PublishTyped DEF ProofInv, TypeOK
<1>3. /\ IsBody(Entries(t))
      /\ \A x \in DOMAIN Entries(t) \cap ProjectDraft : Entries(t)[x] = x
  BY <1>2, EntriesTrue
<1>4. /\ RequestOK(Request("allocate", Entries(t))) /\ RequestTrue(Request("allocate", Entries(t)))
      /\ Request("allocate", Entries(t)) # None
  BY <1>3, RequestIs DEF RequestTrue
<1>5. "allocating" \in Stages
  BY DEF Stages
<1> QED BY <1>1, <1>2, <1>4, <1>5, StorageStill, TabMoves

LEMMA SendTrue ==
  ASSUME IInv, ProofInv, NEW t \in Tab, Send(t)
  PROVE  ProofInv'
<1>1. /\ Goes(t, "committing", None, Request("commit", Entries(t)))
      /\ stage[t] \in {"preparing", "checking"} /\ Ready(t) /\ New(t) = {}
      /\ records' \subseteq records /\ Publish(t, aliases, {})
      /\ UNCHANGED <<now, tries, server, aliases, late>>
  BY DEF Send, Prepare
<1>2. live' \in [Tab -> SUBSET Ids] /\ tries' \in Nat /\ want[t] \in Plan
  BY <1>1, StorageStill, PublishTyped DEF ProofInv, TypeOK
<1>3. IsBody(Entries(t))
  BY <1>2, EntriesTrue
<1>4. \A x \in DOMAIN Entries(t) : /\ x \in Ids /\ Bound(x, Entries(t)[x])
                                   /\ Lasts(x, now + (ServerTTL - ClientTTL) + 1)
  BY <1>1, <1>2, SentTrue
<1>5. /\ RequestOK(Request("commit", Entries(t))) /\ Request("commit", Entries(t)) # None
      /\ Request("commit", Entries(t)).kind = "commit"
      /\ Request("commit", Entries(t)).body = Entries(t)
  BY <1>3, <1>4, RequestIs
<1>6. RequestTrue(Request("commit", Entries(t)))
  BY <1>3, <1>4, <1>5 DEF RequestTrue
<1>7. "committing" \in Stages
  BY DEF Stages
<1> QED BY <1>1, <1>2, <1>4, <1>5, <1>6, <1>7, StorageStill, TabMoves

\* A proof is put into the storage as the server gave it out.
LEMMA RememberTrue ==
  ASSUME IInv, ProofInv, NEW t \in Tab, Remember(t)
  PROVE  ProofInv'
<1> DEFINE kept == {i \in DOMAIN answer[t] : \A r \in records : r.id[1] # i[1]}
           unused == DOMAIN answer[t] \ kept
           back == [i \in unused |-> answer[t][i]]
           made(i) == [id |-> i, project |-> answer[t][i], at |-> since[t]]
<1>1. /\ stage[t] = "allocating" /\ answer[t] # None
      /\ records' = records \cup {made(i) : i \in kept}
      /\ aliases' = aliases \cup kept /\ Publish(t, aliases \cup kept, {})
      /\ UNCHANGED <<now, tries, server, late>>
      /\ \/ Goes(t, "checking", want[t], None)
         \/ Goes(t, "returning", want[t], Request("release", back))
  BY DEF Remember, Answered
<1>2. DOMAIN answer[t] \subseteq Ids /\ IsBody(answer[t])
  BY <1>1 DEF IInv, ClientInv, Answers, OnePerDraft, ProofInv, TabTrue
<1>3. \A i \in DOMAIN answer[t] : /\ answer[t][i] \in Project \cup Ids /\ Given(i)
                                  /\ Bound(i, answer[t][i]) /\ Lasts(i, since[t] + ServerTTL)
  BY <1>1 DEF ProofInv, TabTrue
<1>4. /\ since[t] \in Nat /\ want[t] \in Plan /\ tries' \in Nat
      /\ aliases \in SUBSET Ids /\ \A i \in aliases : Given(i)
      /\ records \subseteq [id : Ids, project : Project \cup Ids, at : Nat]
      /\ \A r \in records : Bound(r.id, r.project) /\ Lasts(r.id, r.at + ServerTTL)
  BY <1>1 DEF ProofInv, TypeOK, RecordsTrue
<1>5. kept \subseteq DOMAIN answer[t] /\ aliases \cup kept \in SUBSET Ids
  BY <1>2, <1>4
<1>6. \A i \in kept : /\ made(i) \in [id : Ids, project : Project \cup Ids, at : Nat]
                      /\ Bound(made(i).id, made(i).project) /\ Lasts(made(i).id, made(i).at + ServerTTL)
  BY <1>2, <1>3, <1>4, <1>5
<1> HIDE DEF made
<1>7. IsBody(back) /\ DOMAIN back \subseteq Ids
  BY <1>2 DEF IsBody, BodyOK
<1> HIDE DEF back, kept
<1>8. /\ records' \subseteq [id : Ids, project : Project \cup Ids, at : Nat]
      /\ \A r \in records' : Bound(r.id, r.project) /\ Lasts(r.id, r.at + ServerTTL)
      /\ aliases' \subseteq Ids /\ \A i \in aliases' : Given(i)
  BY <1>1, <1>3, <1>4, <1>5, <1>6
<1>9. live' \in [Tab -> SUBSET Ids]
  BY <1>1, <1>5, PublishTyped DEF ProofInv
<1>10. /\ RequestOK(Request("release", back)) /\ RequestTrue(Request("release", back))
       /\ Request("release", back) # None
  BY <1>7, RequestIs DEF RequestTrue
<1>11. {"checking", "returning"} \subseteq Stages
  BY DEF Stages
<1>12. CASE Goes(t, "checking", want[t], None)
  BY <1>1, <1>4, <1>8, <1>9, <1>11, <1>12, TabMoves
<1>13. CASE Goes(t, "returning", want[t], Request("release", back))
  BY <1>1, <1>4, <1>8, <1>9, <1>10, <1>11, <1>13, TabMoves
<1> QED BY <1>1, <1>12, <1>13

LEMMA DiscardTrue ==
  ASSUME IInv, ProofInv, NEW t \in Tab, Discard(t)
  PROVE  ProofInv'
<1>1. /\ stage[t] = "allocating" /\ answer[t] # None
      /\ Goes(t, "discarding", None, Request("release", answer[t]))
      /\ UNCHANGED <<now, tries, server, records, aliases, live, late>>
  BY DEF Discard, Answered
<1>2. DOMAIN answer[t] \subseteq Ids /\ IsBody(answer[t])
  BY <1>1 DEF IInv, ClientInv, Answers, OnePerDraft, ProofInv, TabTrue
<1>3. /\ RequestOK(Request("release", answer[t])) /\ RequestTrue(Request("release", answer[t]))
      /\ Request("release", answer[t]) # None
  BY <1>2, RequestIs DEF RequestTrue
<1>4. "discarding" \in Stages
  BY DEF Stages
<1> QED BY <1>1, <1>3, <1>4, StorageStill, TabMoves

\* The steps that end the work of a tab, or go on without a request.
LEMMA EndTrue ==
  ASSUME IInv, ProofInv, NEW t \in Tab,
         Retire(t) \/ Returned(t) \/ Complete(t) \/ Fail(t) \/ Reload(t)
  PROVE  ProofInv'
<1> DEFINE goes(s, w) == /\ s \in {"idle", "checking"} /\ Goes(t, s, w, None)
                         /\ s = "checking" => stage[t] = "returning" /\ w = want[t]
<1>1. PICK s, w : goes(s, w)
  <2>1. CASE Returned(t)
    <3>1. goes("checking", want[t])
      BY <2>1 DEF Returned, Answered
    <3> QED BY <3>1
  <2>2. CASE ~Returned(t)
    <3>1. goes("idle", None)
      BY <2>2 DEF Retire, Complete, Fail, Reload
    <3> QED BY <3>1
  <2> QED BY <2>1, <2>2
<1>2. records' \subseteq records /\ aliases' = aliases /\ UNCHANGED <<now, tries, server>>
  BY DEF Retire, Returned, Complete, Fail, Reload
<1>3. \A q \in late' : q \in late \/ (call[t] # None /\ q = call[t])
  BY DEF Retire, Returned, Complete, Fail, Reload, Loses
<1>4. live' \in [Tab -> SUBSET Ids]
  <2>1. CASE Retire(t) \/ Complete(t)
    BY <2>1, StorageStill, PublishTyped, <1>2 DEF Retire, Complete, ProofInv
  <2>2. CASE Returned(t) \/ Fail(t)
    BY <2>2 DEF Returned, Fail, ProofInv, TypeOK
  <2>3. CASE Reload(t)
    BY <2>3 DEF Reload, ProofInv, TypeOK
  <2> QED BY <2>1, <2>2, <2>3
<1>5. {"idle", "checking"} \subseteq Stages /\ (s = "checking" => w \in Plan)
  BY <1>1 DEF Stages, ProofInv, TypeOK
<1> QED BY <1>1, <1>2, <1>3, <1>4, <1>5, StorageStill, TabMoves

-----------------------------------------------------------------------------
LEMMA InitProof == Init => ProofInv
<1> SUFFICES ASSUME Init PROVE ProofInv
  OBVIOUS
<1>1. TypeOK
  BY DraftAssumption DEF Init, TypeOK, Stages
<1>2. RowsTrue /\ RecordsTrue /\ RequestsTrue /\ Wanted /\ \A i \in aliases : Given(i)
  BY DEF Init, RowsTrue, Bound, RecordsTrue, RequestsTrue, Wanted
<1>3. \A t \in Tab : TabTrue(t)
  BY DEF Init, TabTrue
<1> QED BY <1>1, <1>2, <1>3 DEF ProofInv

LEMMA NextProof == IInv /\ ProofInv /\ [Next]_vars => ProofInv'
<1> SUFFICES ASSUME IInv, ProofInv, [Next]_vars PROVE ProofInv'
  OBVIOUS
<1>1. CASE \E t \in Tab : TabStep(t)
  BY <1>1, BeginTrue, AbandonTrue, AllocateTrue, SendTrue, RememberTrue, DiscardTrue, EndTrue
  DEF TabStep
<1>2. CASE \E t \in Tab : Serve(t)
  BY <1>2, ServeTrue
<1>3. CASE \E q \in late : ServeLate(q)
  BY <1>3, ServeLateTrue
<1>4. CASE Tick \/ UNCHANGED vars
  BY <1>4, TickTrue
<1> QED BY <1>1, <1>2, <1>3, <1>4 DEF Next

\* The strengthened invariant of the proofs holds throughout.
THEOREM ProofInvHolds == Spec => []ProofInv
BY InitProof, NextProof, CreationInvariant, PTL DEF Spec

\* Whatever was moved, replaced, retried or late: a commit on its way names the project
\* its proof is bound to, and within the margin between the two lifetimes its proofs
\* have not run out (reconciliationRecords, creationIdStorage.js; the lifetimes of
\* createApiRepository.js and creationAllocations.js).
THEOREM ProofsHold == Spec => []ProofsHoldOnTheWay
<1>1. ProofInv => BoundToDestination
  <2> SUFFICES ASSUME ProofInv, NEW q \in Commits, NEW i \in DOMAIN q.body, row[i] # None
               PROVE  Matches(q, i)
    BY DEF BoundToDestination
  <2>1. q.kind = "commit" /\ (q \in late \/ \E t \in Tab : call[t] # None /\ q = call[t])
    BY DEF Commits, UnderWay
  <2>2. RequestTrue(q)
    BY <2>1 DEF ProofInv, RequestsTrue
  <2> QED BY <2>1, <2>2 DEF RequestTrue, Bound, Matches
<1>2. IInv /\ ProofInv => MarginSuffices
  <2> SUFFICES ASSUME IInv, ProofInv, NEW t \in Tab, stage[t] = "committing",
                      now - since[t] <= ServerTTL - ClientTTL, NEW i \in DOMAIN call[t].body
               PROVE  Usable(i) \/ i \in created \/ i \in released
    BY DEF MarginSuffices
  <2>1. i \in Ids /\ Lasts(i, since[t] + (ServerTTL - ClientTTL) + 1)
    BY DEF ProofInv, TabTrue
  <2>2. /\ now \in Nat /\ since[t] \in Nat
        /\ row[i] # None => row[i].expires \in Int
    BY <2>1 DEF ProofInv, TypeOK, IInv, ServerInv, RowTimes
  <2> QED BY <2>1, <2>2, TimeAssumption DEF Lasts, Usable
<1>3. IInv /\ ProofInv => ProofsHoldOnTheWay
  BY <1>1, <1>2 DEF ProofInv, ProofsHoldOnTheWay
<1> QED BY <1>3, ProofInvHolds, CreationInvariant, PTL
=============================================================================
