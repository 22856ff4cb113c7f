-------------------------- MODULE AssistantTurnsProofs --------------------------
(***************************************************************************)
(* Proofs about AiAdmission and AssistantTurns, for any calls, users,      *)
(* models, requests, turns and limits.                                     *)
(*                                                                         *)
(* Admission.  The counters are those of the calls that hold a lease, so   *)
(* that room can be stated of sets of calls (Room) instead of counters;    *)
(* room only shrinks as the set grows.  A release starts a set of waiters: *)
(* the last of them in the queue had room beside all the others, hence the *)
(* limits hold; and whoever had no room beside those in front of it has    *)
(* none afterwards.                                                        *)
(*                                                                         *)
(* Turns.  Seen from the admission controller the turns do nothing that    *)
(* the calls of AiAdmission could not: its theorems hold of the            *)
(* composition.  Two open claims have neither a turn nor a conversation in *)
(* common, and no request ends with a lease.  The conversations are        *)
(* alternating turns and answers, what was told to be done stays what they *)
(* show, and nothing of a conversation is shown once its deletion is heard *)
(* of.                                                                     *)
(***************************************************************************)
EXTENDS AssistantTurns, FiniteSetTheorems, WellFoundedInduction, TLAPS

\* Room for one more call beside the calls of a set.
Room(calls, c) ==
  /\ Cardinality(calls) < MaxActive
  /\ UserOf[c] # Server => Cardinality(OfUser(calls, UserOf[c])) < MaxActivePerUser
  /\ ModelOf[c] \in DOMAIN ModelLimit =>
       Cardinality(OfModel(calls, ModelOf[c])) < ModelLimit[ModelOf[c]]

\* The inductive invariant.
AdmissionInv == TypeOK /\ CountersExact /\ WithinLimits /\ NobodyWaitsForNothing

(***************************************************************************)
(* Sets of calls and their counters                                        *)
(***************************************************************************)
\* The calls of a set, those of one user and those of one model are finitely many.
LEMMA Sizes ==
  ASSUME NEW S \in SUBSET Call
  PROVE  /\ IsFiniteSet(S) /\ Cardinality(S) \in Nat
         /\ \A u : IsFiniteSet(OfUser(S, u)) /\ Cardinality(OfUser(S, u)) \in Nat
         /\ \A m : IsFiniteSet(OfModel(S, m)) /\ Cardinality(OfModel(S, m)) \in Nat
<1>1. \A T \in SUBSET Call : IsFiniteSet(T) /\ Cardinality(T) \in Nat
  BY FS_Subset, FS_CardinalityType, CallAssumption
<1>2. \A u : OfUser(S, u) \in SUBSET Call
  BY DEF OfUser
<1>3. \A m : OfModel(S, m) \in SUBSET Call
  BY DEF OfModel
<1> QED BY <1>1, <1>2, <1>3

\* A larger set of calls has no fewer calls, of any user and of any model.
LEMMA Monotone ==
  ASSUME NEW T \in SUBSET Call, NEW S \in SUBSET T
  PROVE  /\ Cardinality(S) <= Cardinality(T)
         /\ \A u : Cardinality(OfUser(S, u)) <= Cardinality(OfUser(T, u))
         /\ \A m : Cardinality(OfModel(S, m)) <= Cardinality(OfModel(T, m))
<1>1. Cardinality(S) <= Cardinality(T)
  BY Sizes, FS_Subset
<1>2. ASSUME NEW u PROVE Cardinality(OfUser(S, u)) <= Cardinality(OfUser(T, u))
  <2>1. OfUser(S, u) \in SUBSET OfUser(T, u)
    BY DEF OfUser
  <2>2. IsFiniteSet(OfUser(T, u))
    BY Sizes
  <2> QED BY <2>1, <2>2, FS_Subset
<1>3. ASSUME NEW m PROVE Cardinality(OfModel(S, m)) <= Cardinality(OfModel(T, m))
  <2>1. OfModel(S, m) \in SUBSET OfModel(T, m)
    BY DEF OfModel
  <2>2. IsFiniteSet(OfModel(T, m))
    BY Sizes
  <2> QED BY <2>1, <2>2, FS_Subset
<1> QED BY <1>1, <1>2, <1>3

\* The cardinalities of two disjoint sets of calls add up, and so do their parts.
LEMMA Disjoint ==
  ASSUME NEW S \in SUBSET Call, NEW T \in SUBSET Call, S \cap T = {}
  PROVE  /\ Cardinality(S \cup T) = Cardinality(S) + Cardinality(T)
         /\ \A u \in User : Cardinality(OfUser(S \cup T, u)) = Cardinality(OfUser(S, u)) + Cardinality(OfUser(T, u))
         /\ \A m \in Model : Cardinality(OfModel(S \cup T, m)) = Cardinality(OfModel(S, m)) + Cardinality(OfModel(T, m))
<1>1. ASSUME NEW A \in SUBSET Call, NEW B \in SUBSET Call, A \cap B = {}
      PROVE  Cardinality(A \cup B) = Cardinality(A) + Cardinality(B)
  <2>1. IsFiniteSet(A) /\ IsFiniteSet(B) /\ Cardinality(A) \in Nat /\ Cardinality(B) \in Nat
    BY Sizes
  <2>2. Cardinality(A \cap B) = 0
    BY <1>1, FS_EmptySet
  <2>3. Cardinality(A \cup B) = Cardinality(A) + Cardinality(B) - Cardinality(A \cap B)
    BY <2>1, FS_Union
  <2> QED BY <2>1, <2>2, <2>3
<1>2. ASSUME NEW u \in User
      PROVE  Cardinality(OfUser(S \cup T, u)) = Cardinality(OfUser(S, u)) + Cardinality(OfUser(T, u))
  <2>1. OfUser(S \cup T, u) = OfUser(S, u) \cup OfUser(T, u) /\ OfUser(S, u) \cap OfUser(T, u) = {}
    BY DEF OfUser
  <2>2. OfUser(S, u) \in SUBSET Call /\ OfUser(T, u) \in SUBSET Call
    BY DEF OfUser
  <2> QED BY <1>1, <2>1, <2>2
<1>3. ASSUME NEW m \in Model
      PROVE  Cardinality(OfModel(S \cup T, m)) = Cardinality(OfModel(S, m)) + Cardinality(OfModel(T, m))
  <2>1. OfModel(S \cup T, m) = OfModel(S, m) \cup OfModel(T, m) /\ OfModel(S, m) \cap OfModel(T, m) = {}
    BY DEF OfModel
  <2>2. OfModel(S, m) \in SUBSET Call /\ OfModel(T, m) \in SUBSET Call
    BY DEF OfModel
  <2> QED BY <1>1, <2>1, <2>2
<1> QED BY <1>1, <1>2, <1>3

\* The load of a set of calls is a record of counters.
LEMMA LoadType ==
  ASSUME NEW S \in SUBSET Call
  PROVE  /\ Plus(Zero, S) \in Counters
         /\ Plus(Zero, S).total = Cardinality(S)
         /\ \A u \in User : Plus(Zero, S).user[u] = Cardinality(OfUser(S, u))
         /\ \A m \in Model : Plus(Zero, S).model[m] = Cardinality(OfModel(S, m))
BY Sizes DEF Plus, Zero, Counters

\* What the load of a set of calls is, written out.
LEMMA LoadIs ==
  ASSUME NEW S \in SUBSET Call
  PROVE  Plus(Zero, S) = [total |-> Cardinality(S),
                          user  |-> [u \in User  |-> Cardinality(OfUser(S, u))],
                          model |-> [m \in Model |-> Cardinality(OfModel(S, m))]]
<1>1. /\ Cardinality(S) \in Nat
      /\ \A u \in User : Cardinality(OfUser(S, u)) \in Nat
      /\ \A m \in Model : Cardinality(OfModel(S, m)) \in Nat
  BY Sizes
<1>2. Plus(Zero, S) = [total |-> 0 + Cardinality(S),
                       user  |-> [u \in User  |-> 0 + Cardinality(OfUser(S, u))],
                       model |-> [m \in Model |-> 0 + Cardinality(OfModel(S, m))]]
  BY DEF Plus, Zero
<1> QED BY <1>1, <1>2

\* Starting calls adds to the load of those that run.
LEMMA LoadAdds ==
  ASSUME NEW S \in SUBSET Call, NEW T \in SUBSET Call, S \cap T = {}
  PROVE  Plus(Plus(Zero, S), T) = Plus(Zero, S \cup T)
<1>1. /\ Cardinality(S \cup T) = Cardinality(S) + Cardinality(T)
      /\ \A u \in User : Cardinality(OfUser(S \cup T, u)) = Cardinality(OfUser(S, u)) + Cardinality(OfUser(T, u))
      /\ \A m \in Model : Cardinality(OfModel(S \cup T, m)) = Cardinality(OfModel(S, m)) + Cardinality(OfModel(T, m))
  BY Disjoint
<1>2. S \cup T \in SUBSET Call
  OBVIOUS
<1>3. Plus(Zero, S \cup T) = [total |-> Cardinality(S \cup T),
                              user  |-> [u \in User  |-> Cardinality(OfUser(S \cup T, u))],
                              model |-> [m \in Model |-> Cardinality(OfModel(S \cup T, m))]]
  BY <1>2, LoadIs
<1>4. Plus(Plus(Zero, S), T) =
        [total |-> Cardinality(S) + Cardinality(T),
         user  |-> [u \in User  |-> Cardinality(OfUser(S, u)) + Cardinality(OfUser(T, u))],
         model |-> [m \in Model |-> Cardinality(OfModel(S, m)) + Cardinality(OfModel(T, m))]]
  <2>1. Plus(Zero, S) = [total |-> Cardinality(S),
                         user  |-> [u \in User  |-> Cardinality(OfUser(S, u))],
                         model |-> [m \in Model |-> Cardinality(OfModel(S, m))]]
    BY LoadIs
  <2> QED BY <2>1 DEF Plus
<1> QED BY <1>1, <1>3, <1>4

\* A release takes the load of one call off.
LEMMA LoadSubtracts ==
  ASSUME NEW S \in SUBSET Call, NEW c \in S
  PROVE  Minus(Plus(Zero, S), c) = Plus(Zero, S \ {c})
<1> DEFINE R == S \ {c}
<1>1. R \in SUBSET Call /\ {c} \in SUBSET Call /\ R \cap {c} = {} /\ R \cup {c} = S
  OBVIOUS
<1>2. /\ Cardinality(S) = Cardinality(R) + Cardinality({c})
      /\ \A u \in User : Cardinality(OfUser(S, u)) = Cardinality(OfUser(R, u)) + Cardinality(OfUser({c}, u))
      /\ \A m \in Model : Cardinality(OfModel(S, m)) = Cardinality(OfModel(R, m)) + Cardinality(OfModel({c}, m))
  <2> HIDE DEF R
  <2>1. /\ Cardinality(R \cup {c}) = Cardinality(R) + Cardinality({c})
        /\ \A u \in User : Cardinality(OfUser(R \cup {c}, u)) = Cardinality(OfUser(R, u)) + Cardinality(OfUser({c}, u))
        /\ \A m \in Model : Cardinality(OfModel(R \cup {c}, m)) = Cardinality(OfModel(R, m)) + Cardinality(OfModel({c}, m))
    BY <1>1, Disjoint
  <2> QED BY <1>1, <2>1
<1>3. /\ Cardinality({c}) = 1 /\ Cardinality(R) \in Nat
      /\ \A u \in User : Cardinality(OfUser(R, u)) \in Nat /\ Cardinality(OfUser({c}, u)) \in Nat
      /\ \A m \in Model : Cardinality(OfModel(R, m)) \in Nat /\ Cardinality(OfModel({c}, m)) \in Nat
  <2>1. Cardinality({c}) = 1
    BY FS_Singleton
  <2> HIDE DEF R
  <2> QED BY <1>1, <2>1, Sizes
<1>4. Plus(Zero, R) = [total |-> Cardinality(R),
                       user  |-> [u \in User  |-> Cardinality(OfUser(R, u))],
                       model |-> [m \in Model |-> Cardinality(OfModel(R, m))]]
  <2> HIDE DEF R
  <2> QED BY <1>1, LoadIs
<1>5. Minus(Plus(Zero, S), c) =
        [total |-> Cardinality(S) - 1,
         user  |-> [u \in User  |-> Cardinality(OfUser(S, u)) - Cardinality(OfUser({c}, u))],
         model |-> [m \in Model |-> Cardinality(OfModel(S, m)) - Cardinality(OfModel({c}, m))]]
  <2>1. Plus(Zero, S) = [total |-> Cardinality(S),
                         user  |-> [u \in User  |-> Cardinality(OfUser(S, u))],
                         model |-> [m \in Model |-> Cardinality(OfModel(S, m))]]
    BY LoadIs
  <2> QED BY <2>1, SMTT(30) DEF Minus
<1> HIDE DEF R
<1>6. /\ Cardinality(S) - 1 = Cardinality(R)
      /\ \A u \in User : Cardinality(OfUser(S, u)) - Cardinality(OfUser({c}, u)) = Cardinality(OfUser(R, u))
      /\ \A m \in Model : Cardinality(OfModel(S, m)) - Cardinality(OfModel({c}, m)) = Cardinality(OfModel(R, m))
  <2>1. Cardinality(S) - 1 = Cardinality(R)
    BY <1>2, <1>3
  <2>2. ASSUME NEW u \in User
        PROVE  Cardinality(OfUser(S, u)) - Cardinality(OfUser({c}, u)) = Cardinality(OfUser(R, u))
    <3>1. Cardinality(OfUser(R, u)) \in Nat /\ Cardinality(OfUser({c}, u)) \in Nat
      BY <1>3
    <3>2. Cardinality(OfUser(S, u)) = Cardinality(OfUser(R, u)) + Cardinality(OfUser({c}, u))
      BY <1>2
    <3> QED BY <3>1, <3>2
  <2>3. ASSUME NEW m \in Model
        PROVE  Cardinality(OfModel(S, m)) - Cardinality(OfModel({c}, m)) = Cardinality(OfModel(R, m))
    <3>1. Cardinality(OfModel(R, m)) \in Nat /\ Cardinality(OfModel({c}, m)) \in Nat
      BY <1>3
    <3>2. Cardinality(OfModel(S, m)) = Cardinality(OfModel(R, m)) + Cardinality(OfModel({c}, m))
      BY <1>2
    <3> QED BY <3>1, <3>2
  <2> QED BY <2>1, <2>2, <2>3
<1>7. Minus(Plus(Zero, S), c) = Plus(Zero, R)
  BY <1>4, <1>5, <1>6
<1> QED BY <1>7 DEF R

(***************************************************************************)
(* Room                                                                    *)
(***************************************************************************)
\* The counters of a set of calls show whether there is room beside it.
LEMMA RoomIs ==
  ASSUME NEW S \in SUBSET Call, NEW c \in Call
  PROVE  HasCapacity(Plus(Zero, S), c) <=> Room(S, c)
<1>1. /\ Plus(Zero, S).total = Cardinality(S)
      /\ \A u \in User : Plus(Zero, S).user[u] = Cardinality(OfUser(S, u))
      /\ \A m \in Model : Plus(Zero, S).model[m] = Cardinality(OfModel(S, m))
  BY LoadType
<1>2. /\ Cardinality(S) \in Nat
      /\ \A u \in User : Cardinality(OfUser(S, u)) \in Nat
      /\ \A m \in Model : Cardinality(OfModel(S, m)) \in Nat
  BY Sizes
<1>3. UserOf[c] # Server => UserOf[c] \in User
  BY CallAssumption
<1>4. UserFull(Plus(Zero, S), c) <=>
        UserOf[c] # Server /\ ~(Cardinality(OfUser(S, UserOf[c])) < MaxActivePerUser)
  BY <1>1, <1>2, <1>3, LimitAssumption DEF UserFull
<1>5. ModelFull(Plus(Zero, S), c) <=>
        /\ ModelOf[c] \in DOMAIN ModelLimit
        /\ ~(Cardinality(OfModel(S, ModelOf[c])) < ModelLimit[ModelOf[c]])
  BY <1>1, <1>2, LimitAssumption DEF ModelFull
<1> QED BY <1>1, <1>4, <1>5 DEF HasCapacity, Room

\* Where there is room beside many calls, there is room beside some of them.
LEMMA RoomShrinks ==
  ASSUME NEW T \in SUBSET Call, NEW S \in SUBSET T, NEW c \in Call, Room(T, c)
  PROVE  Room(S, c)
<1>1. /\ Cardinality(S) <= Cardinality(T)
      /\ Cardinality(OfUser(S, UserOf[c])) <= Cardinality(OfUser(T, UserOf[c]))
      /\ Cardinality(OfModel(S, ModelOf[c])) <= Cardinality(OfModel(T, ModelOf[c]))
  BY Monotone
<1>2. S \in SUBSET Call
  OBVIOUS
<1>3. \A V \in SUBSET Call : /\ Cardinality(V) \in Nat
                             /\ Cardinality(OfUser(V, UserOf[c])) \in Nat
                             /\ Cardinality(OfModel(V, ModelOf[c])) \in Nat
  BY Sizes
<1> QED BY <1>1, <1>2, <1>3, LimitAssumption DEF Room

\* Of any waiters one is the last: all the others are in front of it.
LEMMA LastOf ==
  ASSUME TypeOK, NEW B \in SUBSET waiting, B # {}
  PROVE  \E w \in B : B \ {w} \subseteq ahead[w]
<1> DEFINE Behind(w) == B \ ahead[w]
           Sets == {Behind(w) : w \in B}
<1>1. Sets \subseteq FiniteSubsetsOf(Call) /\ Sets # {}
  <2>1. \A w \in B : Behind(w) \in SUBSET Call
    BY DEF TypeOK
  <2>2. \A w \in B : IsFiniteSet(Behind(w))
    BY <2>1, Sizes
  <2> QED BY <2>1, <2>2 DEF FiniteSubsetsOf
<1>2. \E s \in Sets : \A t \in Sets : ~(<<t, s>> \in StrictSubsetOrdering(Call))
  BY <1>1, FS_StrictSubsetOrderingWellFounded, WFMin
<1>3. PICK w \in B : \A v \in B : ~(<<Behind(v), Behind(w)>> \in StrictSubsetOrdering(Call))
  BY <1>2
<1>4. ASSUME NEW v \in B, v # w, v \notin ahead[w]
      PROVE  FALSE
  <2>1. w \in ahead[v]
    BY <1>4 DEF TypeOK
  <2>2. ahead[w] \subseteq ahead[v]
    BY <2>1 DEF TypeOK
  <2>3. w \in Behind(w) /\ w \notin Behind(v)
    BY <2>1 DEF TypeOK
  <2>4. Behind(v) \in SUBSET Call /\ Behind(w) \in SUBSET Call
    BY DEF TypeOK
  <2>5. Behind(v) \subseteq Behind(w) /\ Behind(v) # Behind(w)
    BY <2>2, <2>3
  <2>6. <<Behind(v), Behind(w)>> \in StrictSubsetOrdering(Call)
    BY <2>4, <2>5 DEF StrictSubsetOrdering
  <2> QED BY <2>6, <1>3
<1> QED BY <1>4

\* ... and one is the first: none of the others is in front of it.
LEMMA FirstOf ==
  ASSUME TypeOK, NEW B \in SUBSET waiting, B # {}
  PROVE  \E w \in B : ahead[w] \cap B = {}
<1> DEFINE Sets == {ahead[w] : w \in B}
<1>1. Sets \subseteq FiniteSubsetsOf(Call) /\ Sets # {}
  <2>1. \A w \in B : ahead[w] \in SUBSET Call
    BY DEF TypeOK
  <2> QED BY <2>1, Sizes DEF FiniteSubsetsOf
<1>2. \E s \in Sets : \A t \in Sets : ~(<<t, s>> \in StrictSubsetOrdering(Call))
  BY <1>1, FS_StrictSubsetOrderingWellFounded, WFMin
<1>3. PICK w \in B : \A v \in B : ~(<<ahead[v], ahead[w]>> \in StrictSubsetOrdering(Call))
  BY <1>2
<1>4. ASSUME NEW v \in B, v \in ahead[w] PROVE FALSE
  <2>1. ahead[v] \subseteq ahead[w] /\ v \notin ahead[v]
    BY <1>4 DEF TypeOK
  <2>2. ahead[v] \in SUBSET Call /\ ahead[w] \in SUBSET Call
    BY DEF TypeOK
  <2>3. <<ahead[v], ahead[w]>> \in StrictSubsetOrdering(Call)
    BY <1>4, <2>1, <2>2 DEF StrictSubsetOrdering
  <2> QED BY <1>3, <2>3
<1> QED BY <1>4

(***************************************************************************)
(* The scan of the queue                                                   *)
(***************************************************************************)
\* The scan has been over the waiters of P and started those of a set.
Scanned(load, P, calls) ==
  \A w \in P : w \in calls <=> HasCapacity(Plus(load, calls \cap ahead[w]), w)

\* What the scan may have been over: waiters with all that are in front of them.
Prefixes(load) ==
  {P \in SUBSET waiting : /\ \A w \in P : ahead[w] \subseteq P
                          /\ \E calls \in SUBSET P : Scanned(load, P, calls)}

\* The scan can always go on with the first of the rest.
LEMMA ScanGoesOn ==
  ASSUME TypeOK, NEW load, NEW P \in Prefixes(load), P # waiting
  PROVE  \E w \in waiting \ P : P \cup {w} \in Prefixes(load)
<1>1. PICK calls \in SUBSET P : Scanned(load, P, calls)
  BY DEF Prefixes
<1>2. P \subseteq waiting /\ \A w \in P : ahead[w] \subseteq P
  BY DEF Prefixes
<1>3. PICK w \in waiting \ P : ahead[w] \cap (waiting \ P) = {}
  BY <1>2, FirstOf
<1>4. ahead[w] \subseteq P /\ w \notin ahead[w]
  BY <1>3 DEF TypeOK
<1> DEFINE more == IF HasCapacity(Plus(load, calls \cap ahead[w]), w) THEN calls \cup {w} ELSE calls
<1>5. \A v \in P \cup {w} : more \cap ahead[v] = calls \cap ahead[v]
  BY <1>2, <1>4
<1>6. w \in more <=> HasCapacity(Plus(load, calls \cap ahead[w]), w)
  BY <1>3
<1>7. \A v \in P : v \in more <=> v \in calls
  BY <1>3
<1>8. more \subseteq P \cup {w}
  OBVIOUS
<1> HIDE DEF more
<1>9. Scanned(load, P \cup {w}, more)
  BY <1>1, <1>5, <1>6, <1>7 DEF Scanned
<1>10. P \cup {w} \in SUBSET waiting /\ \A v \in P \cup {w} : ahead[v] \subseteq P \cup {w}
  BY <1>2, <1>4
<1>11. \E some \in SUBSET (P \cup {w}) : Scanned(load, P \cup {w}, some)
  BY <1>8, <1>9
<1>12. P \cup {w} \in Prefixes(load)
  BY <1>10, <1>11 DEF Prefixes
<1> QED BY <1>12

\* Whatever is running, drain() (admissionController.js:101-111) has exactly one
\* result: the set of waiters by which Release models it exists and is unique.
THEOREM ScanHasOneResult ==
  ASSUME TypeOK, NEW load
  PROVE  /\ \E calls \in SUBSET waiting : Started(load, calls)
         /\ \A a, b \in SUBSET waiting : Started(load, a) /\ Started(load, b) => a = b
<1>1. \E calls \in SUBSET waiting : Started(load, calls)
  <2> DEFINE Rests == {waiting \ P : P \in Prefixes(load)}
  <2>1. {} \in Prefixes(load)
    <3>1. Scanned(load, {}, {})
      BY DEF Scanned
    <3>2. {} \in SUBSET waiting /\ {} \in SUBSET {}
      OBVIOUS
    <3> QED BY <3>1, <3>2, SMT DEF Prefixes
  <2>2. Rests \subseteq FiniteSubsetsOf(Call) /\ Rests # {}
    <3>1. \A P : waiting \ P \in SUBSET Call
      BY DEF TypeOK
    <3>2. \A P : IsFiniteSet(waiting \ P)
      BY <3>1, Sizes
    <3> QED BY <2>1, <3>1, <3>2 DEF FiniteSubsetsOf
  <2>3. \E s \in Rests : \A t \in Rests : ~(<<t, s>> \in StrictSubsetOrdering(Call))
    BY <2>2, FS_StrictSubsetOrderingWellFounded, WFMin
  <2>4. PICK P \in Prefixes(load) :
          \A Q \in Prefixes(load) : ~(<<waiting \ Q, waiting \ P>> \in StrictSubsetOrdering(Call))
    BY <2>3
  <2>5. ASSUME P # waiting PROVE FALSE
    <3>1. PICK w \in waiting \ P : P \cup {w} \in Prefixes(load)
      BY <2>5, ScanGoesOn
    <3>2. waiting \ (P \cup {w}) \in SUBSET Call /\ waiting \ P \in SUBSET Call
      BY DEF TypeOK
    <3>3. waiting \ (P \cup {w}) \subseteq waiting \ P /\ waiting \ (P \cup {w}) # waiting \ P
      OBVIOUS
    <3>4. <<waiting \ (P \cup {w}), waiting \ P>> \in StrictSubsetOrdering(Call)
      BY <3>2, <3>3 DEF StrictSubsetOrdering
    <3> QED BY <2>4, <3>1, <3>4
  <2> QED BY <2>5 DEF Prefixes, Scanned, Started
<1>2. ASSUME NEW a \in SUBSET waiting, NEW b \in SUBSET waiting, Started(load, a), Started(load, b), a # b
      PROVE  FALSE
  <2> DEFINE differ == (a \ b) \cup (b \ a)
  <2>1. differ \in SUBSET waiting /\ differ # {}
    BY <1>2
  <2>2. PICK w \in differ : ahead[w] \cap differ = {}
    BY <2>1, FirstOf
  <2>3. a \cap ahead[w] = b \cap ahead[w]
    BY <2>2
  <2>4. w \in a <=> w \in b
    BY <1>2, <2>1, <2>2, <2>3 DEF Started
  <2> QED BY <2>2, <2>4
<1> QED BY <1>1, <1>2

(***************************************************************************)
(* What the invariant says of a release                                    *)
(***************************************************************************)
\* A release starts exactly the waiters with room beside those that still run
\* and those started in front of them.
LEMMA Starting ==
  ASSUME AdmissionInv, NEW c \in holding, NEW A \in SUBSET waiting, Started(Minus(used, c), A)
  PROVE  /\ Plus(Minus(used, c), A) = Plus(Zero, (holding \ {c}) \cup A)
         /\ \A w \in waiting : w \in A <=> Room((holding \ {c}) \cup (A \cap ahead[w]), w)
<1> DEFINE R == holding \ {c}
<1>1. holding \in SUBSET Call /\ waiting \in SUBSET Call /\ waiting \cap holding = {}
  BY DEF AdmissionInv, TypeOK
<1>2. Minus(used, c) = Plus(Zero, R)
  BY <1>1, LoadSubtracts DEF AdmissionInv, CountersExact
<1>3. R \in SUBSET Call /\ A \in SUBSET Call /\ R \cap A = {}
  BY <1>1
<1> HIDE DEF R
<1>4. Plus(Minus(used, c), A) = Plus(Zero, R \cup A)
  BY <1>2, <1>3, LoadAdds
<1>5. ASSUME NEW w \in waiting
      PROVE  w \in A <=> Room(R \cup (A \cap ahead[w]), w)
  <2> DEFINE F == A \cap ahead[w]
  <2>1. F \in SUBSET Call /\ R \cap F = {} /\ R \cup F \in SUBSET Call /\ w \in Call
    BY <1>1, <1>3
  <2>2. w \in A <=> HasCapacity(Plus(Minus(used, c), F), w)
    BY DEF Started
  <2> HIDE DEF F
  <2>3. Plus(Minus(used, c), F) = Plus(Zero, R \cup F)
    BY <1>2, <1>3, <2>1, LoadAdds
  <2>4. w \in A <=> Room(R \cup F, w)
    BY <2>1, <2>2, <2>3, RoomIs
  <2> QED BY <2>4 DEF F
<1> QED BY <1>4, <1>5 DEF R

\* Calls of which the last had room beside all the others keep the limits of the
\* process, of their user and of their model.
LEMMA StartedKeepLimits ==
  ASSUME AdmissionInv, NEW c \in holding, NEW A \in SUBSET waiting,
         \A w \in waiting : w \in A <=> Room((holding \ {c}) \cup (A \cap ahead[w]), w)
  PROVE  LET H == (holding \ {c}) \cup A
         IN  /\ Cardinality(H) <= MaxActive
             /\ \A u \in User : Cardinality(OfUser(H, u)) <= MaxActivePerUser
             /\ \A m \in DOMAIN ModelLimit : Cardinality(OfModel(H, m)) <= ModelLimit[m]
<1> DEFINE R == holding \ {c}
           H == R \cup A
<1>1. TypeOK /\ holding \in SUBSET Call /\ waiting \in SUBSET Call /\ waiting \cap holding = {}
  BY DEF AdmissionInv, TypeOK
<1>2. H \in SUBSET Call /\ R \in SUBSET holding /\ A \in SUBSET Call
  BY <1>1
<1>3. /\ Cardinality(R) <= MaxActive
      /\ \A u \in User : Cardinality(OfUser(R, u)) <= MaxActivePerUser
      /\ \A m \in DOMAIN ModelLimit : Cardinality(OfModel(R, m)) <= ModelLimit[m]
  <2>1. /\ Cardinality(R) <= Cardinality(holding)
        /\ \A u : Cardinality(OfUser(R, u)) <= Cardinality(OfUser(holding, u))
        /\ \A m : Cardinality(OfModel(R, m)) <= Cardinality(OfModel(holding, m))
    BY <1>1, <1>2, Monotone
  <2>2. \A S \in SUBSET Call : /\ Cardinality(S) \in Nat
                               /\ \A u : Cardinality(OfUser(S, u)) \in Nat
                               /\ \A m : Cardinality(OfModel(S, m)) \in Nat
    BY Sizes
  <2>3. R \in SUBSET Call
    BY <1>1, <1>2
  <2>4. Cardinality(R) <= MaxActive
    BY <1>1, <2>1, <2>2, <2>3, LimitAssumption DEF AdmissionInv, WithinLimits
  <2>5. ASSUME NEW u \in User PROVE Cardinality(OfUser(R, u)) <= MaxActivePerUser
    <3>1. Cardinality(OfUser(holding, u)) <= MaxActivePerUser
      BY DEF AdmissionInv, WithinLimits
    <3>2. Cardinality(OfUser(R, u)) \in Nat /\ Cardinality(OfUser(holding, u)) \in Nat
      BY <1>1, <2>2, <2>3
    <3>3. Cardinality(OfUser(R, u)) <= Cardinality(OfUser(holding, u))
      BY <2>1
    <3> QED BY <3>1, <3>2, <3>3, LimitAssumption
  <2>6. ASSUME NEW m \in DOMAIN ModelLimit PROVE Cardinality(OfModel(R, m)) <= ModelLimit[m]
    <3>1. Cardinality(OfModel(holding, m)) <= ModelLimit[m]
      BY DEF AdmissionInv, WithinLimits
    <3>2. Cardinality(OfModel(R, m)) \in Nat /\ Cardinality(OfModel(holding, m)) \in Nat
      BY <1>1, <2>2, <2>3
    <3>3. Cardinality(OfModel(R, m)) <= Cardinality(OfModel(holding, m))
      BY <2>1
    <3> QED BY <3>1, <3>2, <3>3, LimitAssumption
  <2> QED BY <2>4, <2>5, <2>6
<1>4. ASSUME NEW B \in SUBSET A, B # {}
      PROVE  \E w \in B : Room(R \cup (A \cap ahead[w]), w) /\ B \ {w} \subseteq A \cap ahead[w]
  <2>1. PICK w \in B : B \ {w} \subseteq ahead[w]
    BY <1>1, <1>4, LastOf
  <2> QED BY <2>1
<1> HIDE DEF R
<1>5. Cardinality(H) <= MaxActive
  <2>1. CASE A = {}
    BY <1>3, <2>1
  <2>2. CASE A # {}
    <3>1. PICK w \in A : Room(R \cup (A \cap ahead[w]), w) /\ A \ {w} \subseteq A \cap ahead[w]
      BY <1>4, <2>2
    <3> DEFINE L == R \cup (A \cap ahead[w])
    <3>2. L \in SUBSET Call /\ H \subseteq L \cup {w} /\ L \cup {w} \in SUBSET Call
      BY <1>1, <1>2, <3>1 DEF R
    <3>3. Cardinality(L) < MaxActive
      BY <3>1 DEF Room
    <3> HIDE DEF L, H
    <3>4. Cardinality(H) <= Cardinality(L \cup {w}) /\ Cardinality(H) \in Nat
      BY <1>2, <3>2, Monotone, Sizes
    <3>5. Cardinality(L \cup {w}) <= Cardinality(L) + 1 /\ Cardinality(L) \in Nat
      BY <3>2, Sizes, FS_AddElement
    <3>6. Cardinality(L \cup {w}) \in Nat
      BY <3>2, Sizes
    <3> QED BY <3>3, <3>4, <3>5, <3>6, LimitAssumption
  <2> QED BY <2>1, <2>2
<1>6. ASSUME NEW u \in User PROVE Cardinality(OfUser(H, u)) <= MaxActivePerUser
  <2>1. CASE OfUser(A, u) = {}
    <3>1. OfUser(H, u) = OfUser(R, u)
      BY <2>1 DEF OfUser
    <3> QED BY <1>3, <3>1
  <2>2. CASE OfUser(A, u) # {}
    <3> DEFINE B == OfUser(A, u)
    <3>1. B \in SUBSET A
      BY DEF OfUser
    <3>2. PICK w \in B : Room(R \cup (A \cap ahead[w]), w) /\ B \ {w} \subseteq A \cap ahead[w]
      BY <1>4, <2>2, <3>1
    <3> DEFINE L == R \cup (A \cap ahead[w])
    <3>3. UserOf[w] = u /\ u # Server
      BY CallAssumption DEF OfUser
    <3>4. L \in SUBSET Call /\ OfUser(H, u) \subseteq OfUser(L, u) \cup {w}
      BY <1>1, <1>2, <3>2 DEF R, OfUser
    <3>5. Cardinality(OfUser(L, u)) < MaxActivePerUser
      BY <3>2, <3>3 DEF Room
    <3> HIDE DEF L, H
    <3>6. IsFiniteSet(OfUser(L, u)) /\ Cardinality(OfUser(L, u)) \in Nat
      BY <3>4, Sizes
    <3>7. /\ IsFiniteSet(OfUser(L, u) \cup {w})
          /\ Cardinality(OfUser(L, u) \cup {w}) <= Cardinality(OfUser(L, u)) + 1
      BY <3>6, FS_AddElement
    <3>8. Cardinality(OfUser(H, u)) <= Cardinality(OfUser(L, u) \cup {w})
      BY <3>4, <3>7, FS_Subset
    <3>9. Cardinality(OfUser(H, u)) \in Nat /\ Cardinality(OfUser(L, u) \cup {w}) \in Nat
      BY <1>2, <3>7, Sizes, FS_CardinalityType
    <3> QED BY <3>5, <3>6, <3>7, <3>8, <3>9, LimitAssumption
  <2> QED BY <2>1, <2>2
<1>7. ASSUME NEW m \in DOMAIN ModelLimit PROVE Cardinality(OfModel(H, m)) <= ModelLimit[m]
  <2>1. CASE OfModel(A, m) = {}
    <3>1. OfModel(H, m) = OfModel(R, m)
      BY <2>1 DEF OfModel
    <3> QED BY <1>3, <3>1
  <2>2. CASE OfModel(A, m) # {}
    <3> DEFINE B == OfModel(A, m)
    <3>1. B \in SUBSET A
      BY DEF OfModel
    <3>2. PICK w \in B : Room(R \cup (A \cap ahead[w]), w) /\ B \ {w} \subseteq A \cap ahead[w]
      BY <1>4, <2>2, <3>1
    <3> DEFINE L == R \cup (A \cap ahead[w])
    <3>3. ModelOf[w] = m
      BY DEF OfModel
    <3>4. L \in SUBSET Call /\ OfModel(H, m) \subseteq OfModel(L, m) \cup {w}
      BY <1>1, <1>2, <3>2 DEF R, OfModel
    <3>5. Cardinality(OfModel(L, m)) < ModelLimit[m]
      BY <3>2, <3>3 DEF Room
    <3> HIDE DEF L, H
    <3>6. IsFiniteSet(OfModel(L, m)) /\ Cardinality(OfModel(L, m)) \in Nat
      BY <3>4, Sizes
    <3>7. /\ IsFiniteSet(OfModel(L, m) \cup {w})
          /\ Cardinality(OfModel(L, m) \cup {w}) <= Cardinality(OfModel(L, m)) + 1
      BY <3>6, FS_AddElement
    <3>8. Cardinality(OfModel(H, m)) <= Cardinality(OfModel(L, m) \cup {w})
      BY <3>4, <3>7, FS_Subset
    <3>9. Cardinality(OfModel(H, m)) \in Nat /\ Cardinality(OfModel(L, m) \cup {w}) \in Nat
      BY <1>2, <3>7, Sizes, FS_CardinalityType
    <3> QED BY <3>5, <3>6, <3>7, <3>8, <3>9, LimitAssumption
  <2> QED BY <2>1, <2>2
<1> QED BY <1>5, <1>6, <1>7 DEF R

(***************************************************************************)
(* The queue                                                               *)
(***************************************************************************)
\* The part of the invariant that is about the queue.
QueueInv ==
  /\ waiting \subseteq Call
  /\ ahead \in [Call -> SUBSET Call]
  /\ \A c \in Call : ahead[c] \subseteq waiting /\ c \notin ahead[c]
  /\ \A c, d \in waiting : c # d => (c \in ahead[d] <=> d \notin ahead[c])
  /\ \A c \in waiting : \A d \in ahead[c] : ahead[d] \subseteq ahead[c]
  /\ queuedByUser = [u \in User |-> Cardinality(OfUser(waiting, u))]
  /\ Cardinality(waiting) <= MaxQueued
  /\ \A u \in User : Cardinality(OfUser(waiting, u)) <= MaxQueuedPerUser

\* Waiters that leave keep the order of the others and their counters exact.
LEMMA Leaving ==
  ASSUME QueueInv, NEW A \in SUBSET waiting, LeaveQueue(A)
  PROVE  QueueInv' /\ queuedByUser' \in [User -> Int]
<1>1. waiting' = waiting \ A /\ waiting' \in SUBSET waiting /\ waiting \in SUBSET Call /\ A \in SUBSET Call
  BY DEF QueueInv, LeaveQueue
<1>2. ahead' = [c \in Call |-> IF c \in A THEN {} ELSE ahead[c] \ A]
  BY DEF LeaveQueue
<1>3. /\ waiting' \subseteq Call
      /\ ahead' \in [Call -> SUBSET Call]
      /\ \A c \in Call : ahead'[c] \subseteq waiting' /\ c \notin ahead'[c]
  BY <1>1, <1>2 DEF QueueInv
<1>4. \A c, d \in waiting' : c # d => (c \in ahead'[d] <=> d \notin ahead'[c])
  BY <1>1, <1>2 DEF QueueInv
<1>5. \A c \in waiting' : \A d \in ahead'[c] : ahead'[d] \subseteq ahead'[c]
  BY <1>1, <1>2 DEF QueueInv
<1>6. \A u \in User : Cardinality(OfUser(waiting, u)) - Cardinality(OfUser(A, u)) = Cardinality(OfUser(waiting', u))
  <2> DEFINE W == waiting'
  <2>1. W \in SUBSET Call /\ W \cap A = {} /\ W \cup A = waiting
    BY <1>1
  <2> HIDE DEF W
  <2> SUFFICES ASSUME NEW u \in User
               PROVE  Cardinality(OfUser(waiting, u)) - Cardinality(OfUser(A, u)) = Cardinality(OfUser(W, u))
    BY DEF W
  <2>2. \A v \in User : Cardinality(OfUser(W \cup A, v)) = Cardinality(OfUser(W, v)) + Cardinality(OfUser(A, v))
    BY <1>1, <2>1, Disjoint, ZenonT(30)
  <2>3. Cardinality(OfUser(waiting, u)) = Cardinality(OfUser(W, u)) + Cardinality(OfUser(A, u))
    BY <2>1, <2>2
  <2>4. Cardinality(OfUser(W, u)) \in Nat /\ Cardinality(OfUser(A, u)) \in Nat
    BY <1>1, <2>1, Sizes
  <2> QED BY <2>3, <2>4
<1>7. queuedByUser' = [u \in User |-> Cardinality(OfUser(waiting', u))]
  BY <1>6 DEF QueueInv, LeaveQueue
<1>8. /\ Cardinality(waiting') \in Nat /\ Cardinality(waiting) \in Nat
      /\ \A u : Cardinality(OfUser(waiting', u)) \in Nat /\ Cardinality(OfUser(waiting, u)) \in Nat
  <2>1. waiting' \in SUBSET Call
    BY <1>3
  <2> QED BY <1>1, <2>1, Sizes
<1>9. /\ Cardinality(waiting') <= Cardinality(waiting)
      /\ \A u : Cardinality(OfUser(waiting', u)) <= Cardinality(OfUser(waiting, u))
  BY <1>1, Monotone
<1>10. Cardinality(waiting') <= MaxQueued
  BY <1>8, <1>9, LimitAssumption DEF QueueInv
<1>11. ASSUME NEW u \in User PROVE Cardinality(OfUser(waiting', u)) <= MaxQueuedPerUser
  <2>1. Cardinality(OfUser(waiting, u)) <= MaxQueuedPerUser
    BY DEF QueueInv
  <2>2. Cardinality(OfUser(waiting', u)) <= Cardinality(OfUser(waiting, u))
    BY <1>9
  <2>3. Cardinality(OfUser(waiting', u)) \in Nat /\ Cardinality(OfUser(waiting, u)) \in Nat
    BY <1>8
  <2> QED BY <2>1, <2>2, <2>3, LimitAssumption
<1>12. queuedByUser' \in [User -> Int]
  BY <1>7, <1>8
<1> QED BY <1>3, <1>4, <1>5, <1>7, <1>10, <1>11, <1>12 DEF QueueInv

\* A call that enters the queue is the last one and fits.
LEMMA Entering ==
  ASSUME QueueInv, NEW c \in Call, Enqueue(c)
  PROVE  QueueInv' /\ queuedByUser' \in [User -> Int]
<1>1. c \notin waiting /\ waiting' = waiting \cup {c} /\ waiting \in SUBSET Call
  BY DEF QueueInv, Enqueue, Idle
<1>2. ahead' = [ahead EXCEPT ![c] = waiting]
  BY DEF Enqueue
<1>3. /\ waiting' \subseteq Call
      /\ ahead' \in [Call -> SUBSET Call]
      /\ \A d \in Call : ahead'[d] \subseteq waiting' /\ d \notin ahead'[d]
  BY <1>1, <1>2 DEF QueueInv
<1>4. \A d, e \in waiting' : d # e => (d \in ahead'[e] <=> e \notin ahead'[d])
  BY <1>1, <1>2 DEF QueueInv
<1>5. \A d \in waiting' : \A e \in ahead'[d] : ahead'[e] \subseteq ahead'[d]
  BY <1>1, <1>2 DEF QueueInv
<1>6. ASSUME NEW u \in User
      PROVE  /\ Cardinality(OfUser(waiting', u)) = Cardinality(OfUser(waiting, u)) + Cardinality(OfUser({c}, u))
             /\ Cardinality(OfUser(waiting, u)) \in Nat /\ Cardinality(OfUser({c}, u)) \in Nat
             /\ Cardinality(OfUser(waiting', u)) \in Nat
  <2> DEFINE W == waiting
             C == {c}
  <2>1. W \in SUBSET Call /\ C \in SUBSET Call /\ W \cap C = {} /\ waiting' = W \cup C /\ W \cup C \in SUBSET Call
    BY <1>1
  <2> HIDE DEF W, C
  <2>2. \A v \in User : Cardinality(OfUser(W \cup C, v)) = Cardinality(OfUser(W, v)) + Cardinality(OfUser(C, v))
    BY <2>1, Disjoint
  <2>3. /\ Cardinality(OfUser(W, u)) \in Nat /\ Cardinality(OfUser(C, u)) \in Nat
        /\ Cardinality(OfUser(W \cup C, u)) \in Nat
    BY <2>1, Sizes
  <2> QED BY <2>1, <2>2, <2>3 DEF W, C
<1>7. queuedByUser' = [u \in User |-> Cardinality(OfUser(waiting', u))]
  <2>1. queuedByUser' = [u \in User |-> queuedByUser[u] + Cardinality(OfUser({c}, u))]
    BY DEF Enqueue
  <2>2. \A u \in User : queuedByUser[u] = Cardinality(OfUser(waiting, u))
    BY DEF QueueInv
  <2> QED BY <1>6, <2>1, <2>2
<1>8. Cardinality(waiting') <= MaxQueued
  <2>1. IsFiniteSet(waiting) /\ Cardinality(waiting) \in Nat
    BY <1>1, Sizes
  <2>2. Cardinality(waiting') = Cardinality(waiting) + 1
    BY <1>1, <2>1, FS_AddElement
  <2>3. Cardinality(waiting) < MaxQueued
    BY DEF Enqueue
  <2> QED BY <2>1, <2>2, <2>3, LimitAssumption
<1>9. ASSUME NEW u \in User PROVE Cardinality(OfUser(waiting', u)) <= MaxQueuedPerUser
  <2>1. Cardinality(OfUser(waiting, u)) <= MaxQueuedPerUser
    BY DEF QueueInv
  <2>2. CASE UserOf[c] = u
    <3>1. UserOf[c] # Server
      BY <2>2, CallAssumption
    <3>2. Cardinality(OfUser(waiting, u)) < MaxQueuedPerUser
      BY <2>2, <3>1 DEF Enqueue, QueueInv
    <3>3. OfUser({c}, u) = {c}
      BY <2>2 DEF OfUser
    <3>4. Cardinality(OfUser({c}, u)) = 1
      BY <3>3, FS_Singleton
    <3> QED BY <1>6, <3>2, <3>4, LimitAssumption
  <2>3. CASE UserOf[c] # u
    <3>1. OfUser(waiting', u) = OfUser(waiting, u)
      BY <1>1, <2>3 DEF OfUser
    <3> QED BY <2>1, <3>1
  <2> QED BY <2>2, <2>3
<1>10. queuedByUser' \in [User -> Int]
  BY <1>6, <1>7
<1> QED BY <1>3, <1>4, <1>5, <1>7, <1>8, <1>9, <1>10 DEF QueueInv

(***************************************************************************)
(* The invariant                                                           *)
(***************************************************************************)
\* The part of the invariant that is about the calls that run.
HoldInv ==
  /\ holding \subseteq Call
  /\ used = Plus(Zero, holding)
  /\ Cardinality(holding) <= MaxActive
  /\ \A u \in User : Cardinality(OfUser(holding, u)) <= MaxActivePerUser
  /\ \A m \in DOMAIN ModelLimit : Cardinality(OfModel(holding, m)) <= ModelLimit[m]

\* The invariant falls into the queue, the calls that run, and what relates them.
LEMMA Parts ==
  AdmissionInv <=> /\ QueueInv /\ HoldInv /\ NobodyWaitsForNothing
                   /\ waiting \cap holding = {} /\ used \in Counters /\ queuedByUser \in [User -> Int]
BY DEF AdmissionInv, QueueInv, HoldInv, TypeOK, CountersExact, WithinLimits
\* Nobody waits for room as long as the running calls only become more.
LEMMA StillNoRoom ==
  ASSUME NEW T \in SUBSET Call, NEW S \in SUBSET T, NEW w \in Call, ~Room(S, w)
  PROVE  ~HasCapacity(Plus(Zero, T), w)
<1>1. ~Room(T, w)
  BY RoomShrinks
<1> QED BY <1>1, RoomIs

LEMMA InitInv == Init => AdmissionInv
<1> SUFFICES ASSUME Init PROVE AdmissionInv
  OBVIOUS
<1>1. {} \in SUBSET Call /\ Cardinality({}) = 0
  BY FS_EmptySet
<1>2. \A u : OfUser({}, u) = {}
  BY DEF OfUser
<1>3. \A m : OfModel({}, m) = {}
  BY DEF OfModel
<1>4. Plus(Zero, {}) = Zero
  <2>1. Zero.total + Cardinality({}) = 0
    BY <1>1 DEF Zero
  <2>2. \A u \in User : Zero.user[u] + Cardinality(OfUser({}, u)) = 0
    BY <1>1, <1>2 DEF Zero
  <2>3. \A m \in Model : Zero.model[m] + Cardinality(OfModel({}, m)) = 0
    BY <1>1, <1>3 DEF Zero
  <2>4. [u \in User |-> Zero.user[u] + Cardinality(OfUser({}, u))] = [u \in User |-> 0]
    BY <2>2
  <2>5. [m \in Model |-> Zero.model[m] + Cardinality(OfModel({}, m))] = [m \in Model |-> 0]
    BY <2>3
  <2> QED BY <2>1, <2>4, <2>5, Zenon DEF Plus, Zero
<1>5. QueueInv
  BY <1>1, <1>2, LimitAssumption DEF Init, QueueInv
<1>6. HoldInv
  BY <1>1, <1>2, <1>3, <1>4, LimitAssumption DEF Init, HoldInv
<1>7. used \in Counters /\ queuedByUser \in [User -> Int]
  BY DEF Init, Zero, Counters
<1> QED BY <1>5, <1>6, <1>7, Parts DEF Init, NobodyWaitsForNothing

LEMMA StartInv ==
  ASSUME AdmissionInv, NEW c \in Call, StartAtOnce(c)
  PROVE  AdmissionInv'
<1>1. /\ QueueInv /\ HoldInv /\ NobodyWaitsForNothing
      /\ waiting \cap holding = {} /\ queuedByUser \in [User -> Int]
  BY Parts
<1>2. /\ c \notin holding /\ c \notin waiting /\ holding \in SUBSET Call
      /\ holding' = holding \cup {c} /\ holding' \in SUBSET Call
  BY <1>1 DEF StartAtOnce, Idle, HoldInv
<1>3. used' = Plus(Zero, holding')
  <2> DEFINE C == {c}
  <2>1. C \in SUBSET Call /\ holding \cap C = {} /\ holding' = holding \cup C
    BY <1>2
  <2>2. used' = Plus(Plus(Zero, holding), C)
    BY <1>1 DEF StartAtOnce, HoldInv
  <2> HIDE DEF C
  <2> QED BY <1>2, <2>1, <2>2, LoadAdds
<1>4. Room(holding, c)
  BY <1>1, <1>2, RoomIs DEF StartAtOnce, HoldInv
<1>5. /\ IsFiniteSet(holding) /\ Cardinality(holding) \in Nat
      /\ \A u : IsFiniteSet(OfUser(holding, u)) /\ Cardinality(OfUser(holding, u)) \in Nat
      /\ \A m : IsFiniteSet(OfModel(holding, m)) /\ Cardinality(OfModel(holding, m)) \in Nat
  BY <1>2, Sizes
<1>6. Cardinality(holding') <= MaxActive
  <2>1. Cardinality(holding') = Cardinality(holding) + 1
    BY <1>2, <1>5, FS_AddElement
  <2> QED BY <1>4, <1>5, <2>1, LimitAssumption DEF Room
<1>7. ASSUME NEW u \in User PROVE Cardinality(OfUser(holding', u)) <= MaxActivePerUser
  <2>1. CASE UserOf[c] = u
    <3>1. Cardinality(OfUser(holding, u)) < MaxActivePerUser
      BY <1>4, <2>1, CallAssumption DEF Room
    <3>2. OfUser(holding', u) = OfUser(holding, u) \cup {c} /\ c \notin OfUser(holding, u)
      BY <1>2, <2>1 DEF OfUser
    <3>3. Cardinality(OfUser(holding', u)) = Cardinality(OfUser(holding, u)) + 1
      BY <1>5, <3>2, FS_AddElement
    <3> QED BY <1>5, <3>1, <3>3, LimitAssumption
  <2>2. CASE UserOf[c] # u
    <3>1. OfUser(holding', u) = OfUser(holding, u)
      BY <1>2, <2>2 DEF OfUser
    <3> QED BY <1>1, <3>1 DEF HoldInv
  <2> QED BY <2>1, <2>2
<1>8. ASSUME NEW m \in DOMAIN ModelLimit PROVE Cardinality(OfModel(holding', m)) <= ModelLimit[m]
  <2>1. CASE ModelOf[c] = m
    <3>1. Cardinality(OfModel(holding, m)) < ModelLimit[m]
      BY <1>4, <2>1 DEF Room
    <3>2. OfModel(holding', m) = OfModel(holding, m) \cup {c} /\ c \notin OfModel(holding, m)
      BY <1>2, <2>1 DEF OfModel
    <3>3. Cardinality(OfModel(holding', m)) = Cardinality(OfModel(holding, m)) + 1
      BY <1>5, <3>2, FS_AddElement
    <3> QED BY <1>5, <3>1, <3>3, LimitAssumption
  <2>2. CASE ModelOf[c] # m
    <3>1. OfModel(holding', m) = OfModel(holding, m)
      BY <1>2, <2>2 DEF OfModel
    <3> QED BY <1>1, <3>1 DEF HoldInv
  <2> QED BY <2>1, <2>2
<1>9. HoldInv'
  BY <1>2, <1>3, <1>6, <1>7, <1>8 DEF HoldInv
<1>10. QueueInv'
  BY <1>1 DEF StartAtOnce, QueueInv
<1>11. NobodyWaitsForNothing'
  <2> SUFFICES ASSUME NEW w \in waiting' PROVE ~HasCapacity(used', w)
    BY DEF NobodyWaitsForNothing
  <2>1. w \in waiting /\ w \in Call
    BY <1>1 DEF StartAtOnce, QueueInv
  <2>2. ~HasCapacity(Plus(Zero, holding), w)
    BY <1>1, <2>1 DEF NobodyWaitsForNothing, HoldInv
  <2>3. ~Room(holding, w)
    BY <1>2, <2>1, <2>2, RoomIs
  <2>4. ~HasCapacity(Plus(Zero, holding'), w)
    BY <1>2, <2>1, <2>3, StillNoRoom
  <2> QED BY <1>3, <2>4
<1>12. used' \in Counters
  BY <1>2, <1>3, LoadType
<1>13. (waiting \cap holding = {})' /\ queuedByUser' \in [User -> Int]
  BY <1>1, <1>2 DEF StartAtOnce
<1> QED BY <1>9, <1>10, <1>11, <1>12, <1>13 DEF QueueInv, HoldInv, NobodyWaitsForNothing, AdmissionInv, TypeOK, CountersExact, WithinLimits

LEMMA EnqueueInv ==
  ASSUME AdmissionInv, NEW c \in Call, Enqueue(c)
  PROVE  AdmissionInv'
<1>1. QueueInv /\ HoldInv /\ NobodyWaitsForNothing /\ waiting \cap holding = {} /\ used \in Counters
  BY Parts
<1>2. QueueInv' /\ queuedByUser' \in [User -> Int]
  BY <1>1, Entering
<1>3. HoldInv' /\ used' \in Counters
  BY <1>1 DEF Enqueue, HoldInv
<1>4. NobodyWaitsForNothing'
  BY <1>1 DEF Enqueue, NobodyWaitsForNothing
<1>5. (waiting \cap holding = {})'
  BY <1>1 DEF Enqueue, Idle
<1> QED BY <1>2, <1>3, <1>4, <1>5 DEF QueueInv, HoldInv, NobodyWaitsForNothing, AdmissionInv, TypeOK, CountersExact, WithinLimits

LEMMA GiveUpInv ==
  ASSUME AdmissionInv, NEW c \in Call, GiveUp(c)
  PROVE  AdmissionInv'
<1>1. QueueInv /\ HoldInv /\ NobodyWaitsForNothing /\ waiting \cap holding = {} /\ used \in Counters
  BY Parts
<1>2. {c} \in SUBSET waiting /\ LeaveQueue({c})
  BY DEF GiveUp
<1>3. QueueInv' /\ queuedByUser' \in [User -> Int]
  BY <1>1, <1>2, Leaving
<1>4. HoldInv' /\ used' \in Counters
  BY <1>1 DEF GiveUp, HoldInv
<1>5. waiting' \subseteq waiting /\ holding' = holding /\ used' = used
  BY DEF GiveUp, LeaveQueue
<1>6. NobodyWaitsForNothing' /\ (waiting \cap holding = {})'
  BY <1>1, <1>5 DEF NobodyWaitsForNothing
<1> QED BY <1>3, <1>4, <1>6 DEF QueueInv, HoldInv, NobodyWaitsForNothing, AdmissionInv, TypeOK, CountersExact, WithinLimits

LEMMA ReleaseInv ==
  ASSUME AdmissionInv, NEW c \in Call, Release(c)
  PROVE  AdmissionInv'
<1>1. QueueInv /\ HoldInv /\ NobodyWaitsForNothing /\ waiting \cap holding = {}
  BY Parts
<1>2. c \in holding
  BY DEF Release
<1>3. PICK A \in SUBSET waiting :
        /\ Started(Minus(used, c), A) /\ LeaveQueue(A)
        /\ used' = Plus(Minus(used, c), A) /\ holding' = (holding \ {c}) \cup A
  BY DEF Release
<1>4. QueueInv' /\ queuedByUser' \in [User -> Int]
  BY <1>1, <1>3, Leaving
<1>5. /\ used' = Plus(Zero, holding')
      /\ \A w \in waiting : w \in A <=> Room((holding \ {c}) \cup (A \cap ahead[w]), w)
  BY <1>2, <1>3, Starting
<1>6. holding' \in SUBSET Call
  BY <1>1, <1>3 DEF HoldInv, QueueInv
<1>7. /\ Cardinality(holding') <= MaxActive
      /\ \A u \in User : Cardinality(OfUser(holding', u)) <= MaxActivePerUser
      /\ \A m \in DOMAIN ModelLimit : Cardinality(OfModel(holding', m)) <= ModelLimit[m]
  BY <1>2, <1>3, <1>5, StartedKeepLimits
<1>8. HoldInv' /\ used' \in Counters
  BY <1>5, <1>6, <1>7, LoadType DEF HoldInv
<1>9. NobodyWaitsForNothing'
  <2> SUFFICES ASSUME NEW w \in waiting' PROVE ~HasCapacity(used', w)
    BY DEF NobodyWaitsForNothing
  <2>1. w \in waiting /\ w \notin A /\ w \in Call
    BY <1>1, <1>3 DEF LeaveQueue, QueueInv
  <2> DEFINE S == (holding \ {c}) \cup (A \cap ahead[w])
  <2>2. ~Room(S, w) /\ S \in SUBSET holding'
    BY <1>3, <1>5, <2>1
  <2> HIDE DEF S
  <2>3. ~HasCapacity(Plus(Zero, holding'), w)
    BY <1>6, <2>1, <2>2, StillNoRoom
  <2> QED BY <1>5, <2>3
<1>10. (waiting \cap holding = {})'
  BY <1>1, <1>3 DEF LeaveQueue
<1> QED BY <1>4, <1>8, <1>9, <1>10 DEF QueueInv, HoldInv, NobodyWaitsForNothing, AdmissionInv, TypeOK, CountersExact, WithinLimits

\* The four properties hold in every reachable state.
THEOREM Admission == Spec => []AdmissionInv
<1>1. AdmissionInv /\ [Next]_vars => AdmissionInv'
  <2> SUFFICES ASSUME AdmissionInv, [Next]_vars PROVE AdmissionInv'
    OBVIOUS
  <2>1. ASSUME NEW c \in Call, StartAtOnce(c) PROVE AdmissionInv'
    BY <2>1, StartInv
  <2>2. ASSUME NEW c \in Call, Enqueue(c) PROVE AdmissionInv'
    BY <2>2, EnqueueInv
  <2>3. ASSUME NEW c \in Call, GiveUp(c) PROVE AdmissionInv'
    BY <2>3, GiveUpInv
  <2>4. ASSUME NEW c \in Call, Release(c) PROVE AdmissionInv'
    BY <2>4, ReleaseInv
  <2>5. CASE UNCHANGED vars
    <3>1. /\ waiting' = waiting /\ ahead' = ahead /\ holding' = holding
          /\ used' = used /\ queuedByUser' = queuedByUser
      BY <2>5 DEF vars
    <3>2. TypeOK'
      BY <3>1 DEF AdmissionInv, TypeOK
    <3>3. CountersExact' /\ WithinLimits' /\ NobodyWaitsForNothing'
      BY <3>1 DEF AdmissionInv, CountersExact, WithinLimits, NobodyWaitsForNothing
    <3> QED BY <3>2, <3>3 DEF AdmissionInv
  <2> QED BY <2>1, <2>2, <2>3, <2>4, <2>5 DEF Next
<1> QED BY InitInv, <1>1, PTL DEF Spec

\* Counters never drift from the calls they count.
THEOREM ExactCounters == Spec => []CountersExact
<1>1. AdmissionInv => CountersExact
  BY DEF AdmissionInv
<1> QED BY Admission, <1>1, PTL

\* No limit is ever exceeded.
THEOREM LimitsHeld == Spec => []WithinLimits
<1>1. AdmissionInv => WithinLimits
  BY DEF AdmissionInv
<1> QED BY Admission, <1>1, PTL

\* No waiter with room is ever left waiting.
THEOREM WorkConserving == Spec => []NobodyWaitsForNothing
<1>1. AdmissionInv => NobodyWaitsForNothing
  BY DEF AdmissionInv
<1> QED BY Admission, <1>1, PTL

\* A waiter is overtaken at a release only if its own user or model is full
\* afterwards: the process had room when the scan passed it.
THEOREM OvertakingJustified == Spec => OvertakenByOwnLimitOnly
<1> DEFINE Justified ==
      \A w \in waiting \cap waiting', v \in waiting \cap holding' :
        w \in ahead[v] => UserFull(used', w) \/ ModelFull(used', w)
<1>1. AdmissionInv /\ [Next]_vars => [Justified]_vars
  <2> SUFFICES ASSUME AdmissionInv, [Next]_vars,
                      NEW w \in waiting \cap waiting', NEW v \in waiting \cap holding', w \in ahead[v]
               PROVE  UserFull(used', w) \/ ModelFull(used', w)
    OBVIOUS
  <2>1. QueueInv /\ HoldInv /\ waiting \cap holding = {}
    BY Parts
  <2>2. PICK c \in Call : Release(c)
    <3>1. v \notin holding
      BY <2>1
    <3>2. ~(UNCHANGED vars)
      BY <3>1 DEF vars
    <3>3. \A c \in Call : ~StartAtOnce(c) /\ ~Enqueue(c) /\ ~GiveUp(c)
      BY <3>1 DEF StartAtOnce, Enqueue, GiveUp, Idle
    <3> QED BY <3>2, <3>3 DEF Next
  <2>3. PICK A \in SUBSET waiting :
          /\ Started(Minus(used, c), A) /\ LeaveQueue(A)
          /\ used' = Plus(Minus(used, c), A) /\ holding' = (holding \ {c}) \cup A
    BY <2>2 DEF Release
  <2> DEFINE R == holding \ {c}
             Before(x) == R \cup (A \cap ahead[x])
  <2>4. /\ used' = Plus(Zero, R \cup A)
        /\ \A x \in waiting : x \in A <=> Room(Before(x), x)
    BY <2>2, <2>3, Starting DEF Release
  <2>5. v \in A /\ w \notin A
    BY <2>1, <2>3 DEF LeaveQueue
  <2>6. ahead[w] \subseteq ahead[v]
    BY <2>1 DEF QueueInv
  <2>7. R \cup A \in SUBSET Call /\ Before(v) \in SUBSET Call /\ w \in Call
    BY <2>1 DEF QueueInv, HoldInv
  <2>8. Before(w) \in SUBSET Before(v) /\ Before(v) \in SUBSET (R \cup A)
    BY <2>6
  <2>9. Room(Before(v), v) /\ ~Room(Before(w), w)
    BY <2>4, <2>5
  <2> HIDE DEF Before, R
  <2>10. Before(w) \in SUBSET Call
    BY <2>7, <2>8
  <2>11. Cardinality(Before(w)) < MaxActive
    <3>1. Cardinality(Before(w)) <= Cardinality(Before(v))
      BY <2>7, <2>8, Monotone
    <3>2. Cardinality(Before(v)) < MaxActive
      BY <2>9 DEF Room
    <3>3. Cardinality(Before(w)) \in Nat /\ Cardinality(Before(v)) \in Nat
      BY <2>7, <2>10, Sizes
    <3> QED BY <3>1, <3>2, <3>3, LimitAssumption
  <2>12. CASE UserOf[w] # Server /\ ~(Cardinality(OfUser(Before(w), UserOf[w])) < MaxActivePerUser)
    <3> DEFINE u == UserOf[w]
    <3>1. u \in User
      BY <2>7, <2>12, CallAssumption
    <3>2. Cardinality(OfUser(Before(w), u)) <= Cardinality(OfUser(R \cup A, u))
      <4>1. Before(w) \in SUBSET (R \cup A)
        BY <2>8
      <4> QED BY <2>7, <4>1, Monotone
    <3>3. Cardinality(OfUser(Before(w), u)) \in Nat /\ Cardinality(OfUser(R \cup A, u)) \in Nat
      BY <2>7, <2>10, Sizes
    <3>4. used'.user[u] = Cardinality(OfUser(R \cup A, u))
      BY <2>4, <2>7, <3>1, LoadType
    <3>5. used'.user[u] >= MaxActivePerUser
      BY <2>12, <3>2, <3>3, <3>4, LimitAssumption
    <3> QED BY <2>12, <3>5 DEF UserFull
  <2>13. CASE /\ ModelOf[w] \in DOMAIN ModelLimit
              /\ ~(Cardinality(OfModel(Before(w), ModelOf[w])) < ModelLimit[ModelOf[w]])
    <3> DEFINE m == ModelOf[w]
    <3>1. m \in Model /\ ModelLimit[m] \in Nat
      BY <2>13, LimitAssumption
    <3>2. Cardinality(OfModel(Before(w), m)) <= Cardinality(OfModel(R \cup A, m))
      <4>1. Before(w) \in SUBSET (R \cup A)
        BY <2>8
      <4> QED BY <2>7, <4>1, Monotone
    <3>3. Cardinality(OfModel(Before(w), m)) \in Nat /\ Cardinality(OfModel(R \cup A, m)) \in Nat
      BY <2>7, <2>10, Sizes
    <3>4. used'.model[m] = Cardinality(OfModel(R \cup A, m))
      BY <2>4, <2>7, <3>1, LoadType
    <3>5. used'.model[m] >= ModelLimit[m]
      BY <2>13, <3>1, <3>2, <3>3, <3>4
    <3> QED BY <2>13, <3>5 DEF ModelFull
  <2> QED BY <2>9, <2>11, <2>12, <2>13 DEF Room
<1>2. [][Justified]_vars <=> OvertakenByOwnLimitOnly
  BY PTL DEF OvertakenByOwnLimitOnly
<1> QED BY Admission, <1>1, <1>2, PTL DEF Spec

\* The counters are exact and the limits hold, whatever calls start, wait, give
\* up and release.
THEOREM CapacityIsKept == Spec => []CapacityKept
<1>1. AdmissionInv => CapacityKept
  BY DEF AdmissionInv, CapacityKept
<1> QED BY Admission, <1>1, PTL

\* Room is given at once, and in the order of the queue but for own limits.
THEOREM FairQueue == Spec => QueueIsFair
<1> QED BY WorkConserving, OvertakingJustified, PTL DEF QueueIsFair

(***************************************************************************)
(* The turns implement the use of the admission controller                 *)
(***************************************************************************)
\* The actions that have nothing to do with leases.
LEMMA Unleased ==
  ASSUME NEW r \in Request,
         Arrive(r) \/ Begin(r) \/ FailEarly(r) \/ Dispatch(r) \/ CheckText(r) \/ SendText(r)
         \/ Settle(r) \/ StoreUnheard(r) \/ StoreGivenUp(r)
         \/ Stop(r) \/ Stall(r) \/ GraceEnds(r) \/ LateTurn(r) \/ LateAnswer(r)
  PROVE  UNCHANGED vars
<1>1. CASE Arrive(r) \/ FailEarly(r)
  BY <1>1 DEF Arrive, FailEarly
<1>2. CASE Begin(r)
  BY <1>2 DEF Begin, Claim, WaitOrRefuse, WakeUp, Prepare, PrepareRefused, Bind
<1>3. CASE Dispatch(r) \/ CheckText(r) \/ SendText(r)
  BY <1>3 DEF Dispatch, CheckText, SendText
<1>4. CASE Settle(r) \/ StoreUnheard(r) \/ StoreGivenUp(r)
  BY <1>4 DEF Settle, Store, Stored, Disclose, Deliver, DeliveryFails, StoreUnheard, StoreGivenUp
<1>5. CASE Stop(r) \/ Stall(r) \/ GraceEnds(r)
  BY <1>5 DEF Stop, Stall, GraceEnds
<1>6. CASE LateTurn(r) \/ LateAnswer(r)
  BY <1>6 DEF LateTurn, LateAnswer
<1> QED BY <1>1, <1>2, <1>3, <1>4, <1>5, <1>6

\* A step of the turns is a step of the calls or none of theirs.
LEMMA AdmissionStep == TurnNext => [Next]_vars
<1> SUFFICES ASSUME TurnNext PROVE [Next]_vars
  OBVIOUS
<1>1. Request \subseteq Call
  BY RequestAssumption
<1>2. ASSUME NEW r \in Request, Open(r) PROVE [Next]_vars
  BY <1>1, <1>2 DEF Open, Next
<1>3. ASSUME NEW r \in Request, Generated(r) PROVE [Next]_vars
  BY <1>1, <1>3 DEF Generated, Next
<1>4. ASSUME NEW r \in Request, GenerationFails(r) PROVE [Next]_vars
  BY <1>1, <1>4 DEF GenerationFails, Next
<1>5. ASSUME NEW c \in Conversation, Delete(c) \/ HearOfDelete(c) \/ DeleteInDoubt(c)
      PROVE  [Next]_vars
  BY <1>5 DEF Delete, HearOfDelete, DeleteInDoubt
<1>6. ASSUME NEW call \in Call, OtherCall(call) PROVE [Next]_vars
  BY <1>6 DEF OtherCall, Next
<1> QED BY <1>2, <1>3, <1>4, <1>5, <1>6, Unleased DEF TurnNext, Generate

\* The composition uses the admission controller as AiAdmission's calls do.
THEOREM TurnsUseAdmission == TurnSpec => Spec
<1>1. TurnInit => Init
  BY DEF TurnInit
<1>2. [TurnNext]_allVars => [Next]_vars
  <2>1. UNCHANGED allVars => UNCHANGED vars
    BY DEF allVars
  <2> QED BY <2>1, AdmissionStep
<1> QED BY <1>1, <1>2, PTL DEF TurnSpec, Spec

\* Whatever becomes of turns, counters and limits agree with the leases.
THEOREM TurnsKeepCapacity == TurnSpec => []CapacityKept
<1> QED BY TurnsUseAdmission, CapacityIsKept, PTL

\* And whatever becomes of them, waiters get their leases at once and in turn.
THEOREM TurnsQueueFairly == TurnSpec => QueueIsFair
<1> QED BY TurnsUseAdmission, FairQueue, PTL

(***************************************************************************)
(* Claims                                                                  *)
(***************************************************************************)
\* The inductive invariant: claims are apart, and each has its place for the
\* conversation it learns later.
ClaimInv ==
  /\ claims \subseteq Request
  /\ bound = [r \in Request |-> bound[r]]
  /\ ClaimsApart

\* The end of a request releases its claim and leaves the conversations of the
\* others alone.
LEMMA Released ==
  ASSUME ClaimInv, claims' \subseteq claims, bound' = bound
  PROVE  ClaimInv'
BY DEF ClaimInv, ClaimsApart

\* Only Claim and Bind make a claim or change what it is for.
LEMMA NoNewClaim ==
  ASSUME NEW r \in Request,
         Arrive(r) \/ WaitOrRefuse(r) \/ WakeUp(r) \/ Prepare(r) \/ PrepareRefused(r) \/ FailEarly(r)
         \/ Generate(r) \/ GenerationFails(r) \/ Settle(r) \/ StoreUnheard(r) \/ StoreGivenUp(r)
         \/ Stop(r) \/ Stall(r) \/ GraceEnds(r) \/ LateTurn(r) \/ LateAnswer(r)
  PROVE  claims' \subseteq claims /\ bound' = bound
<1>1. CASE Arrive(r) \/ WakeUp(r) \/ Prepare(r)
  BY <1>1 DEF Arrive, WakeUp, Prepare, registry
<1>2. CASE WaitOrRefuse(r) \/ PrepareRefused(r) \/ FailEarly(r)
  BY <1>2 DEF WaitOrRefuse, PrepareRefused, FailEarly, Fails, End
<1>3. CASE Generate(r)
  BY <1>3 DEF Generate, Open, Dispatch, CheckText, SendText, Generated, registry
<1>4. CASE GenerationFails(r) \/ StoreGivenUp(r)
  BY <1>4 DEF GenerationFails, StoreGivenUp, Fails, End
<1>5. CASE Settle(r)
  BY <1>5 DEF Settle, Store, Stored, Disclose, Deliver, DeliveryFails, Fails, End, registry
<1>6. CASE StoreUnheard(r) \/ Stop(r) \/ Stall(r) \/ GraceEnds(r) \/ LateTurn(r) \/ LateAnswer(r)
  BY <1>6 DEF StoreUnheard, Stop, Stall, GraceEnds, LateTurn, LateAnswer, registry
<1> QED BY <1>1, <1>2, <1>3, <1>4, <1>5, <1>6

\* A claim is made only beside claims of other turns and conversations.
LEMMA ClaimApart ==
  ASSUME ClaimInv, NEW r \in Request, Claim(r)
  PROVE  ClaimInv'
<1>1. /\ claims' = claims \cup {r}
      /\ bound' = [bound EXCEPT ![r] = ask[r].conv]
      /\ Free(r)
  BY DEF Claim
<1>2. /\ bound' = [s \in Request |-> bound'[s]]
      /\ bound'[r] = ask[r].conv
      /\ \A s \in Request \ {r} : bound'[s] = bound[s]
  BY <1>1 DEF ClaimInv
<1>3. \A s \in claims : TurnOf[s] # TurnOf[r] /\ (ask[r].conv = Nobody \/ bound[s] # ask[r].conv)
  BY <1>1 DEF Free, OwnersOfTurn, OwnersOfConversation
<1>4. ClaimsApart'
  BY <1>1, <1>2, <1>3 DEF ClaimInv, ClaimsApart
<1> QED BY <1>1, <1>2, <1>4 DEF ClaimInv

\* A claim learns a conversation only if no other has it.
LEMMA BindApart ==
  ASSUME ClaimInv, NEW r \in Request, Bind(r)
  PROVE  ClaimInv'
<1>1. CASE OwnersOfConversation(ask[r].conv) \subseteq {r}
  <2>1. claims' = claims /\ bound' = [bound EXCEPT ![r] = ask[r].conv]
    BY <1>1 DEF Bind
  <2>2. /\ bound' = [s \in Request |-> bound'[s]]
        /\ bound'[r] = ask[r].conv
        /\ \A s \in Request \ {r} : bound'[s] = bound[s]
    BY <2>1 DEF ClaimInv
  <2>3. \A s \in claims \ {r} : ask[r].conv = Nobody \/ bound[s] # ask[r].conv
    BY <1>1 DEF OwnersOfConversation
  <2>4. ClaimsApart'
    BY <2>1, <2>2, <2>3 DEF ClaimInv, ClaimsApart
  <2> QED BY <2>1, <2>2, <2>4 DEF ClaimInv
<1>2. CASE ~(OwnersOfConversation(ask[r].conv) \subseteq {r})
  <2>1. claims' \subseteq claims /\ bound' = bound
    BY <1>2 DEF Bind, Fails, End
  <2> QED BY <2>1, Released
<1> QED BY <1>1, <1>2

\* However claims are made, learn their conversations, are waited for, released
\* and left behind, no two of them are for one turn or one conversation.
THEOREM ClaimsStayApart == TurnSpec => []ClaimsApart
<1>1. TurnInit => ClaimInv
  BY DEF TurnInit, ClaimInv, ClaimsApart
<1>2. ClaimInv /\ [TurnNext]_allVars => ClaimInv'
  <2> SUFFICES ASSUME ClaimInv, [TurnNext]_allVars PROVE ClaimInv'
    OBVIOUS
  <2>1. ASSUME NEW r \in Request, Claim(r) PROVE ClaimInv'
    BY <2>1, ClaimApart
  <2>2. ASSUME NEW r \in Request, Bind(r) PROVE ClaimInv'
    BY <2>2, BindApart
  <2>3. ASSUME NEW c \in Conversation, Delete(c) \/ HearOfDelete(c) \/ DeleteInDoubt(c) PROVE ClaimInv'
    BY <2>3, Released DEF Delete, HearOfDelete, DeleteInDoubt, registry
  <2>4. ASSUME NEW call \in Call, OtherCall(call) PROVE ClaimInv'
    BY <2>4, Released DEF OtherCall, turnVars
  <2>5. CASE UNCHANGED allVars
    BY <2>5, Released DEF allVars, turnVars
  <2> QED BY <2>1, <2>2, <2>3, <2>4, <2>5, NoNewClaim, Released DEF TurnNext, Begin
<1>3. ClaimInv => ClaimsApart
  BY DEF ClaimInv
<1> QED BY <1>1, <1>2, <1>3, PTL DEF TurnSpec

(***************************************************************************)
(* Leases                                                                  *)
(***************************************************************************)
Leased == {"queue", "stream", "text"}

\* The inductive invariant, beside that of AiAdmission.
LeaseInv == at = [r \in Request |-> at[r]] /\ LeaseOfGeneration

\* Who waits or holds after each operation of the admission controller.
LEMMA HandOver ==
  ASSUME AdmissionInv, NEW call \in Call
  PROVE  /\ StartAtOnce(call) \/ Enqueue(call) =>
              holding' \cup waiting' = (holding \cup waiting) \cup {call}
         /\ GiveUp(call) \/ Release(call) =>
              holding' \cup waiting' = (holding \cup waiting) \ {call}
<1>1. waiting \cap holding = {}
  BY DEF AdmissionInv, TypeOK
<1>2. StartAtOnce(call) \/ Enqueue(call) =>
        holding' \cup waiting' = (holding \cup waiting) \cup {call}
  BY DEF StartAtOnce, Enqueue
<1>3. GiveUp(call) => holding' \cup waiting' = (holding \cup waiting) \ {call}
  BY <1>1 DEF GiveUp, LeaveQueue
<1>4. Release(call) => holding' \cup waiting' = (holding \cup waiting) \ {call}
  BY <1>1 DEF Release, LeaveQueue
<1> QED BY <1>2, <1>3, <1>4

\* A request that goes on where it has a lease if and only if it had one.
LEMMA LeaseKept ==
  ASSUME LeaseInv, NEW r \in Request, NEW place, Go(r, place),
         place \in Leased <=> at[r] \in Leased, UNCHANGED vars
  PROVE  LeaseInv'
<1>1. /\ at' = [s \in Request |-> at'[s]] /\ at'[r] = place
      /\ \A s \in Request \ {r} : at'[s] = at[s]
  BY DEF Go, LeaseInv
<1>2. holding' = holding /\ waiting' = waiting
  BY DEF vars
<1>3. LeaseOfGeneration'
  BY <1>1, <1>2 DEF LeaseInv, LeaseOfGeneration, Leased
<1> QED BY <1>1, <1>3 DEF LeaseInv

\* A request that gets a lease, or a place in the queue.
LEMMA LeaseGot ==
  ASSUME LeaseInv, NEW r \in Request, NEW place, Go(r, place), place \in Leased,
         holding' \cup waiting' = (holding \cup waiting) \cup {r}
  PROVE  LeaseInv'
<1>1. /\ at' = [s \in Request |-> at'[s]] /\ at'[r] = place
      /\ \A s \in Request \ {r} : at'[s] = at[s]
  BY DEF Go, LeaseInv
<1>2. LeaseOfGeneration'
  BY <1>1 DEF LeaseInv, LeaseOfGeneration, Leased
<1> QED BY <1>1, <1>2 DEF LeaseInv

\* A request that gives its lease or its place back.
LEMMA LeaseLost ==
  ASSUME LeaseInv, NEW r \in Request, NEW place, Go(r, place), place \notin Leased,
         holding' \cup waiting' = (holding \cup waiting) \ {r}
  PROVE  LeaseInv'
<1>1. /\ at' = [s \in Request |-> at'[s]] /\ at'[r] = place
      /\ \A s \in Request \ {r} : at'[s] = at[s]
  BY DEF Go, LeaseInv
<1>2. LeaseOfGeneration'
  BY <1>1 DEF LeaseInv, LeaseOfGeneration, Leased
<1> QED BY <1>1, <1>2 DEF LeaseInv

\* Nothing happens to the requests and their leases.
LEMMA LeaseUntouched ==
  ASSUME LeaseInv, at' = at,
         \A s \in Request : s \in holding' \cup waiting' <=> s \in holding \cup waiting
  PROVE  LeaseInv'
<1>1. LeaseOfGeneration'
  BY DEF LeaseInv, LeaseOfGeneration
<1> QED BY <1>1 DEF LeaseInv

\* Every way a request goes without the admission controller keeps its lease.
LEMMA LeaseGoesAlong ==
  ASSUME LeaseInv, NEW r \in Request,
         Arrive(r) \/ Begin(r) \/ FailEarly(r) \/ Dispatch(r) \/ CheckText(r) \/ SendText(r)
         \/ Settle(r) \/ StoreUnheard(r) \/ StoreGivenUp(r)
         \/ Stop(r) \/ Stall(r) \/ GraceEnds(r) \/ LateTurn(r) \/ LateAnswer(r)
  PROVE  LeaseInv'
<1>1. UNCHANGED vars /\ holding' = holding /\ waiting' = waiting
  BY Unleased DEF vars
<1>2. CASE Arrive(r)
  <2>1. at[r] = "idle" /\ (Go(r, "deliver") \/ Go(r, "claim"))
    BY <1>2 DEF Arrive, Asks
  <2> QED BY <1>1, <2>1, LeaseKept DEF Leased
<1>3. CASE Begin(r)
  <2>1. /\ at[r] \in {"claim", "wait", "prepare", "bind"}
        /\ \/ Go(r, "claim") \/ Go(r, "wait") \/ Go(r, "prepare")
           \/ Go(r, "bind") \/ Go(r, "open") \/ Go(r, "ended")
    BY <1>3 DEF Begin, Claim, WaitOrRefuse, WakeUp, Prepare, PrepareRefused, Bind, Fails, End
  <2> QED BY <1>1, <2>1, LeaseKept DEF Leased
<1>4. CASE FailEarly(r)
  <2>1. at[r] \in {"claim", "wait", "prepare", "bind"} /\ Go(r, "ended")
    BY <1>4 DEF FailEarly, Fails, End
  <2> QED BY <1>1, <2>1, LeaseKept DEF Leased
<1>5. CASE Dispatch(r) \/ CheckText(r) \/ SendText(r)
  <2>1. at[r] \in Leased /\ (Go(r, "stream") \/ Go(r, "text"))
    BY <1>5 DEF Dispatch, CheckText, SendText, Leased
  <2> QED BY <1>1, <2>1, LeaseKept DEF Leased
<1>6. CASE Settle(r) \/ StoreGivenUp(r)
  <2>1. /\ at[r] \in {"store", "stored", "deliver", "disclosed"}
        /\ Go(r, "stored") \/ Go(r, "deliver") \/ Go(r, "disclosed") \/ Go(r, "ended")
    BY <1>6 DEF Settle, Store, Stored, Disclose, Deliver, DeliveryFails, StoreGivenUp, Fails, End
  <2> QED BY <1>1, <2>1, LeaseKept DEF Leased
<1>7. CASE StoreUnheard(r) \/ Stop(r) \/ Stall(r) \/ GraceEnds(r) \/ LateTurn(r) \/ LateAnswer(r)
  <2>1. at' = at
    BY <1>7 DEF StoreUnheard, Stop, Stall, GraceEnds, LateTurn, LateAnswer
  <2> QED BY <1>1, <2>1, LeaseUntouched
<1> QED BY <1>2, <1>3, <1>4, <1>5, <1>6, <1>7

\* A generation that is opened gets a lease or is replayed without one.
LEMMA LeaseAtOpen ==
  ASSUME AdmissionInv, LeaseInv, NEW r \in Request, Open(r)
  PROVE  LeaseInv'
<1>1. at[r] = "open" /\ r \in Call
  BY RequestAssumption DEF Open
<1>2. CASE Go(r, "deliver") /\ UNCHANGED vars
  BY <1>1, <1>2, LeaseKept DEF Leased
<1>3. CASE Go(r, "queue") /\ (StartAtOnce(r) \/ Enqueue(r))
  <2>1. holding' \cup waiting' = (holding \cup waiting) \cup {r}
    BY <1>1, <1>3, HandOver
  <2> QED BY <1>3, <2>1, LeaseGot DEF Leased
<1> QED BY <1>2, <1>3 DEF Open

\* A generation that completes or fails gives its lease back, or its place.
LEMMA LeaseAtEnd ==
  ASSUME AdmissionInv, LeaseInv, NEW r \in Request, Generated(r) \/ GenerationFails(r)
  PROVE  LeaseInv'
<1>1. r \in Call
  BY RequestAssumption
<1>2. (Go(r, "store") \/ Go(r, "ended")) /\ (GiveUp(r) \/ Release(r) \/ (Idle(r) /\ UNCHANGED vars))
  BY DEF Generated, GenerationFails, Fails, End
<1>3. holding' \cup waiting' = (holding \cup waiting) \ {r}
  <2>1. CASE Idle(r) /\ UNCHANGED vars
    BY <2>1 DEF Idle, vars
  <2> QED BY <1>1, <1>2, <2>1, HandOver
<1> QED BY <1>2, <1>3, LeaseLost DEF Leased

\* However a request ends, cut, stopped, refused or served, it leaves no lease
\* behind and no place in the queue; and none is at work without one.
THEOREM NoLeaseLeaks == TurnSpec => []LeaseOfGeneration
<1>1. TurnInit => LeaseInv
  BY DEF Init, TurnInit, LeaseInv, LeaseOfGeneration
<1>2. AdmissionInv /\ LeaseInv /\ [TurnNext]_allVars => LeaseInv'
  <2> SUFFICES ASSUME AdmissionInv, LeaseInv, [TurnNext]_allVars PROVE LeaseInv'
    OBVIOUS
  <2>1. ASSUME NEW c \in Conversation, Delete(c) \/ HearOfDelete(c) \/ DeleteInDoubt(c) PROVE LeaseInv'
    BY <2>1, LeaseUntouched DEF Delete, HearOfDelete, DeleteInDoubt, vars
  <2>2. ASSUME NEW call \in Call \ Request, OtherCall(call) PROVE LeaseInv'
    <3>1. at' = at /\ (StartAtOnce(call) \/ Enqueue(call) \/ GiveUp(call) \/ Release(call))
      BY <2>2 DEF OtherCall, turnVars
    <3>2. \A s \in Request : s \in holding' \cup waiting' <=> s \in holding \cup waiting
      BY <3>1, HandOver
    <3> QED BY <3>1, <3>2, LeaseUntouched
  <2>3. CASE UNCHANGED allVars
    BY <2>3, LeaseUntouched DEF allVars, turnVars, vars
  <2> QED BY <2>1, <2>2, <2>3, LeaseGoesAlong, LeaseAtOpen, LeaseAtEnd DEF TurnNext, Generate
<1>3. LeaseInv => LeaseOfGeneration
  BY DEF LeaseInv
<1>4. TurnSpec => []AdmissionInv
  BY TurnsUseAdmission, Admission, PTL
<1> QED BY <1>1, <1>2, <1>3, <1>4, PTL DEF TurnSpec

(***************************************************************************)
(* The inductive invariant of the turns                                    *)
(***************************************************************************)
\* A conversation that is there has a message, and only those that are there have any.
TableSound ==
  /\ exists \subseteq Conversation /\ gone \subseteq Conversation /\ exists \cap gone = {}
  /\ script \in [Conversation -> Seq(Message)]
  /\ \A c \in exists : Len(script[c]) > 0
  /\ TranscriptSound

\* Where a request has its conversation: from the writing of its turn on.
Placed == {"bind"} \cup Streaming

\* Where it works on an answer under its claim.
Working == {"open", "queue", "stream", "text", "store", "stored"}

\* What is known of a request.
RequestTyped(r) ==
  /\ at[r] \in Places
  /\ ask[r] \in [conv : Conversation \cup {Nobody}, knew : Nat]
  /\ {bound[r], after[r], answer[r], shown[r]} \subseteq Request \cup {Nobody}

\* Its claim, the conversation the claim names and the signals.
ClaimPlaced(r) ==
  /\ r \in claims => at[r] \notin {"idle", "claim", "wait", "ended"}
  /\ at[r] = "wait" => after[r] \in Request
  /\ at[r] \in {"prepare", "bind"} => r \in claims
  /\ at[r] \in Working => r \in claims \cup stalled
  /\ at[r] \in Streaming /\ r \in claims => bound[r] = ask[r].conv
  /\ r \in stalled => at[r] \in Streaming

\* Its conversation is one that was opened.
ConversationKnown(r) ==
  /\ at[r] \in Placed => ask[r].conv # Nobody
  /\ {ask[r].conv, bound[r]} \subseteq exists \cup gone \cup {Nobody}

\* The author is one of the answers to its turn, unless they were deleted.
StoredFor(r, author) ==
  ask[r].conv \in exists =>
    \E i \in Answers(ask[r].conv, TurnOf[r]) : script[ask[r].conv][i].author = author

\* What it has read, shows and has told its browser.
AnswerKnown(r) ==
  /\ answer[r] # Nobody => at[r] \in Placed /\ StoredFor(r, answer[r])
  /\ at[r] \in {"deliver", "disclosed"} => answer[r] # Nobody
  /\ at[r] \in {"store", "stored"} /\ TurnOf[r] \notin Grounded => shown[r] = r
  /\ r \in done => at[r] = "ended" /\ StoredFor(r, shown[r])

\* A generation at work on a conversation known to be deleted is cut.
DeletionHeeded(r) ==
  at[r] \in Streaming \ {"open"} /\ r \in claims /\ ask[r].conv \in told => r \in cut

RequestSound(r) ==
  RequestTyped(r) /\ ClaimPlaced(r) /\ ConversationKnown(r) /\ AnswerKnown(r) /\ DeletionHeeded(r)

\* The functions over the requests, and the sets that hold some of them.
RegistryTyped ==
  /\ at = [r \in Request |-> at[r]] /\ ask = [r \in Request |-> ask[r]]
  /\ bound = [r \in Request |-> bound[r]] /\ after = [r \in Request |-> after[r]]
  /\ answer = [r \in Request |-> answer[r]] /\ shown = [r \in Request |-> shown[r]]
  /\ claims \cup cut \cup stalled \cup done \subseteq Request
  /\ late \subseteq {"turn", "answer"} \X Request /\ told \subseteq gone

TurnInv == TableSound /\ RegistryTyped /\ \A r \in Request : RequestSound(r)

(***************************************************************************)
(* The table of conversations                                              *)
(***************************************************************************)
\* Nothing that was written is lost unless its conversation is deleted, and a deleted
\* conversation is not opened again.
TableGrows ==
  /\ exists \cup gone \subseteq exists' \cup gone' /\ gone \subseteq gone'
  /\ \A c \in exists \cup gone : c \in exists' =>
       /\ c \in exists
       /\ \A i \in DOMAIN script[c] : i \in DOMAIN script'[c] /\ script'[c][i] = script[c][i]

\* A request has a turn, and a name of its own.
LEMMA RequestsAreTurned == \A r \in Request : TurnOf[r] \in Turn /\ r # Nobody
BY RequestAssumption

\* A statement that changes nothing.
LEMMA TableKept == ASSUME TableSound, UNCHANGED db PROVE TableSound' /\ TableGrows
<1>1. UNCHANGED <<exists, gone, script>>
  BY DEF db
<1>2. TranscriptSound'
  BY <1>1 DEF TableSound, TranscriptSound
<1> QED BY <1>1, <1>2 DEF TableSound, TableGrows

\* A message at the end of a conversation, of the kind that is due there.
LEMMA OneMoreMessage ==
  ASSUME TableSound, NEW c \in exists, NEW m \in Message,
         IsAnswer(m) <=> (Len(script[c]) + 1) % 2 = 0,
         IsAnswer(m) => m.turn = script[c][Len(script[c])].turn,
         \A i \in DOMAIN script[c] : script[c][i] # m,
         script' = [script EXCEPT ![c] = Append(@, m)], UNCHANGED <<exists, gone>>
  PROVE  TableSound' /\ TableGrows
<1> DEFINE s == script[c]
           n == Len(s)
<1>1. s \in Seq(Message) /\ n \in Nat /\ n > 0 /\ DOMAIN s = 1..n /\ c \in Conversation
  BY DEF TableSound
<1>2. /\ script'[c] = Append(s, m)
      /\ \A d \in Conversation : d # c => script'[d] = script[d]
      /\ script' \in [Conversation -> Seq(Message)]
  BY <1>1 DEF TableSound
<1>3. /\ DOMAIN script'[c] = 1..n + 1 /\ Len(script'[c]) = n + 1
      /\ \A i \in 1..n : script'[c][i] = s[i]
      /\ script'[c][n + 1] = m
  BY <1>1, <1>2
<1>4. \A i \in 1..n :
        /\ IsAnswer(s[i]) <=> i % 2 = 0
        /\ i % 2 = 0 => s[i].turn = s[i - 1].turn
        /\ \A j \in 1..n : s[i] = s[j] => i = j
  BY <1>1 DEF TableSound, TranscriptSound
<1>5. \A i \in 1..n : i % 2 = 0 => i - 1 \in 1..n
  OBVIOUS
<1> HIDE DEF n, s
<1>6. ASSUME NEW i \in DOMAIN script'[c]
      PROVE  /\ IsAnswer(script'[c][i]) <=> i % 2 = 0
             /\ i % 2 = 0 => script'[c][i].turn = script'[c][i - 1].turn
             /\ \A j \in DOMAIN script'[c] : script'[c][i] = script'[c][j] => i = j
  <2>1. CASE i = n + 1
    <3>1. script'[c][i] = m /\ (IsAnswer(m) <=> i % 2 = 0)
      BY <1>3, <2>1 DEF n, s
    <3>2. n \in 1..n /\ i - 1 = n
      BY <1>1, <2>1
    <3>3. script'[c][i - 1] = s[n]
      BY <1>3, <3>2
    <3>4. \A j \in 1..n : script'[c][j] # m
      BY <1>1, <1>3 DEF s
    <3>5. \A j \in 1..n + 1 : j = n + 1 \/ j \in 1..n
      BY <1>1
    <3>6. i % 2 = 0 => m.turn = s[n].turn
      BY <3>1 DEF n, s
    <3> QED BY <1>3, <2>1, <3>1, <3>3, <3>4, <3>5, <3>6
  <2>2. CASE i # n + 1
    <3>1. i \in 1..n
      BY <1>1, <1>3, <2>2
    <3>2. \A j \in 1..n + 1 : j = n + 1 \/ j \in 1..n
      BY <1>1
    <3>3. \A j \in 1..n : s[j] # m
      BY <1>1 DEF s
    <3> QED BY <1>3, <1>4, <1>5, <3>1, <3>2, <3>3
  <2> QED BY <2>1, <2>2
<1>7. TranscriptSound'
  <2>1. ASSUME NEW d \in Conversation, NEW i \in DOMAIN script'[d]
        PROVE  /\ d \in exists'
               /\ IsAnswer(script'[d][i]) <=> i % 2 = 0
               /\ i % 2 = 0 => script'[d][i].turn = script'[d][i - 1].turn
               /\ \A j \in DOMAIN script'[d] : script'[d][i] = script'[d][j] => i = j
    <3>1. CASE d = c
      BY <1>6, <2>1, <3>1
    <3>2. CASE d # c
      BY <1>2, <3>2 DEF TableSound, TranscriptSound
    <3> QED BY <3>1, <3>2
  <2>2. \A d \in exists : script'[d][1] = script[d][1]
    <3>1. 1 \in 1..n
      BY <1>1
    <3>2. script'[c][1] = script[c][1]
      BY <1>3, <3>1 DEF s
    <3> QED BY <1>2, <3>2 DEF TableSound
  <2>3. \A d, e \in exists' : script'[d][1].turn = script'[e][1].turn => d = e
    BY <2>2 DEF TableSound, TranscriptSound
  <2> QED BY <2>1, <2>3 DEF TranscriptSound
<1>8. \A d \in exists : Len(script'[d]) > 0
  BY <1>1, <1>2, <1>3 DEF TableSound
<1>9. TableSound'
  BY <1>2, <1>7, <1>8 DEF TableSound
<1>10. TableGrows
  <2>1. \A d \in exists \cup gone : d # c => script'[d] = script[d]
    BY <1>2 DEF TableSound
  <2>2. \A i \in DOMAIN script[c] : i \in DOMAIN script'[c] /\ script'[c][i] = script[c][i]
    BY <1>1, <1>3 DEF s
  <2> QED BY <2>1, <2>2 DEF TableGrows
<1> QED BY <1>9, <1>10

\* A turn that may follow is new to a conversation that ends with an answer.
LEMMA TurnFollows ==
  ASSUME TableSound, NEW r \in Request, NEW c \in exists, MayFollow(r, c),
         script' = [script EXCEPT ![c] = Append(@, Asked(TurnOf[r]))], UNCHANGED <<exists, gone>>
  PROVE  TableSound' /\ TableGrows
<1>1. script[c] \in Seq(Message) /\ Len(script[c]) \in Nat /\ Len(script[c]) > 0
      /\ DOMAIN script[c] = 1..Len(script[c]) /\ c \in Conversation
  BY DEF TableSound
<1>2. Len(script[c]) % 2 = 0
  <2>1. Len(script[c]) \in DOMAIN script[c]
    BY <1>1
  <2> QED BY <1>1, <2>1 DEF TableSound, TranscriptSound, MayFollow
<1>3. Asked(TurnOf[r]) \in Message /\ ~IsAnswer(Asked(TurnOf[r]))
  BY RequestsAreTurned DEF Asked, Message, IsAnswer
<1>4. \A i \in DOMAIN script[c] : script[c][i] # Asked(TurnOf[r])
  BY DEF MayFollow, Has, Asked
<1>5. (Len(script[c]) + 1) % 2 # 0
  <2> DEFINE n == Len(script[c])
  <2>1. n \in Nat /\ n % 2 = 0
    BY <1>1, <1>2
  <2> HIDE DEF n
  <2>2. (n + 1) % 2 # 0
    BY <2>1
  <2> QED BY <2>2 DEF n
<1> QED BY <1>3, <1>4, <1>5, OneMoreMessage

\* An answer comes right after its turn: only the last turn can be without one.
LEMMA AnswerFollows ==
  ASSUME TableSound, NEW r \in Request, NEW c \in exists, Has(c, TurnOf[r]), Answers(c, TurnOf[r]) = {},
         script' = [script EXCEPT ![c] = Append(@, Answer(TurnOf[r], r))], UNCHANGED <<exists, gone>>
  PROVE  TableSound' /\ TableGrows
<1> DEFINE n == Len(script[c])
<1>1. script[c] \in Seq(Message) /\ n \in Nat /\ n > 0 /\ DOMAIN script[c] = 1..n /\ c \in Conversation
  BY DEF TableSound
<1>2. \A i \in 1..n :
        /\ IsAnswer(script[c][i]) <=> i % 2 = 0
        /\ i % 2 = 0 => script[c][i].turn = script[c][i - 1].turn
  BY <1>1 DEF TableSound, TranscriptSound
<1>3. \A i \in 1..n : script[c][i].turn = TurnOf[r] => ~IsAnswer(script[c][i])
  BY <1>1 DEF Answers, AnswersTo
<1>4. PICK i \in 1..n : script[c][i].turn = TurnOf[r]
  BY <1>1 DEF Has
<1> HIDE DEF n
<1>5. i % 2 = 1
  BY <1>2, <1>3, <1>4
<1>6. i = n
  <2> SUFFICES ASSUME i # n PROVE FALSE
    OBVIOUS
  <2>1. i + 1 \in 1..n /\ (i + 1) % 2 = 0 /\ (i + 1) - 1 = i
    BY <1>1, <1>5
  <2>2. script[c][i + 1].turn = script[c][i].turn /\ IsAnswer(script[c][i + 1])
    BY <1>2, <2>1
  <2> QED BY <1>3, <1>4, <2>1, <2>2
<1>7. Answer(TurnOf[r], r) \in Message /\ IsAnswer(Answer(TurnOf[r], r)) /\ Answer(TurnOf[r], r).turn = TurnOf[r]
  BY RequestsAreTurned DEF Answer, Message, IsAnswer
<1>8. \A j \in DOMAIN script[c] : script[c][j] # Answer(TurnOf[r], r)
  BY <1>1, <1>3, <1>7
<1>9. (n + 1) % 2 = 0
  BY <1>1, <1>5, <1>6
<1> QED BY <1>4, <1>6, <1>7, <1>8, <1>9, OneMoreMessage DEF n

\* A conversation is opened by a turn no other one begins with.
LEMMA TurnOpens ==
  ASSUME TableSound, NEW r \in Request, MayOpen(r),
         exists' = exists \cup {r}, gone' = gone,
         script' = [script EXCEPT ![r] = <<Asked(TurnOf[r])>>]
  PROVE  TableSound' /\ TableGrows
<1>1. r \in Conversation /\ r \notin exists /\ r \notin gone
  BY DEF MayOpen, Conversation
<1>2. Asked(TurnOf[r]) \in Message /\ ~IsAnswer(Asked(TurnOf[r])) /\ Asked(TurnOf[r]).turn = TurnOf[r]
  BY RequestsAreTurned DEF Asked, Message, IsAnswer
<1>3. <<Asked(TurnOf[r])>> \in Seq(Message)
  BY <1>2
<1>4. /\ script'[r] = <<Asked(TurnOf[r])>>
      /\ \A d \in Conversation : d # r => script'[d] = script[d]
      /\ script' \in [Conversation -> Seq(Message)]
  BY <1>1, <1>3 DEF TableSound
<1>5. DOMAIN script'[r] = {1} /\ script'[r][1] = Asked(TurnOf[r]) /\ Len(script'[r]) = 1
  BY <1>4
<1>6. \A d \in exists : script[d][1].turn # TurnOf[r]
  BY DEF MayOpen, Found, Lookup
<1>7. TranscriptSound'
  <2>1. ASSUME NEW d \in Conversation, NEW i \in DOMAIN script'[d]
        PROVE  /\ d \in exists'
               /\ IsAnswer(script'[d][i]) <=> i % 2 = 0
               /\ i % 2 = 0 => script'[d][i].turn = script'[d][i - 1].turn
               /\ \A j \in DOMAIN script'[d] : script'[d][i] = script'[d][j] => i = j
    <3>1. CASE d = r
      <4>1. i = 1 /\ i % 2 # 0
        BY <1>5, <2>1, <3>1
      <4> QED BY <1>2, <1>5, <3>1, <4>1
    <3>2. CASE d # r
      BY <1>4, <3>2 DEF TableSound, TranscriptSound
    <3> QED BY <3>1, <3>2
  <2>2. \A d \in exists : script'[d][1] = script[d][1]
    BY <1>1, <1>4 DEF TableSound
  <2>3. \A d \in exists : script'[d][1].turn # script'[r][1].turn
    BY <1>2, <1>5, <1>6, <2>2
  <2>4. \A d, e \in exists' : script'[d][1].turn = script'[e][1].turn => d = e
    BY <2>2, <2>3 DEF TableSound, TranscriptSound
  <2> QED BY <2>1, <2>4 DEF TranscriptSound
<1>8. TableSound'
  BY <1>1, <1>4, <1>5, <1>7 DEF TableSound
<1>9. TableGrows
  BY <1>1, <1>4 DEF TableSound, TableGrows
<1> QED BY <1>8, <1>9

\* The user's turn, however it is written.
LEMMA TurnWrittenTable ==
  ASSUME TableSound, NEW r \in Request, NEW c \in Conversation, TurnWritten(r, c)
  PROVE  TableSound' /\ TableGrows /\ c \in exists'
<1>1. CASE c \in Found(r) /\ UNCHANGED db
  <2>1. c \in exists
    BY <1>1 DEF Found, Lookup
  <2> QED BY <1>1, <2>1, TableKept DEF db
<1>2. CASE /\ c \in Found(r) /\ MayFollow(r, c)
           /\ script' = [script EXCEPT ![c] = Append(@, Asked(TurnOf[r]))]
           /\ UNCHANGED <<exists, gone>>
  <2>1. c \in exists
    BY <1>2 DEF Found, Lookup
  <2> QED BY <1>2, <2>1, TurnFollows
<1>3. CASE /\ c = r /\ MayOpen(r)
           /\ exists' = exists \cup {c}
           /\ script' = [script EXCEPT ![c] = <<Asked(TurnOf[r])>>]
           /\ UNCHANGED gone
  BY <1>3, TurnOpens
<1> QED BY <1>1, <1>2, <1>3 DEF TurnWritten

\* The answer, written or not.
LEMMA AnswerWrittenTable ==
  ASSUME TableSound, NEW r \in Request, AnswerWritten(r)
  PROVE  TableSound' /\ TableGrows
<1>1. CASE ask[r].conv \in exists /\ Has(ask[r].conv, TurnOf[r]) /\ Answers(ask[r].conv, TurnOf[r]) = {}
  BY <1>1, AnswerFollows DEF AnswerWritten
<1>2. CASE ~(ask[r].conv \in exists /\ Has(ask[r].conv, TurnOf[r]) /\ Answers(ask[r].conv, TurnOf[r]) = {})
  BY <1>2, TableKept DEF AnswerWritten, db
<1> QED BY <1>1, <1>2

\* A deletion leaves no message behind.
LEMMA DeleteTable ==
  ASSUME TableSound, NEW c \in Conversation, Delete(c)
  PROVE  TableSound' /\ TableGrows
<1>1. /\ c \in exists /\ exists' = exists \ {c} /\ gone' = gone \cup {c}
      /\ script' = [script EXCEPT ![c] = <<>>]
  BY DEF Delete
<1>2. /\ script'[c] = <<>> /\ \A d \in Conversation : d # c => script'[d] = script[d]
      /\ script' \in [Conversation -> Seq(Message)]
  BY <1>1 DEF TableSound
<1>3. DOMAIN script'[c] = {}
  BY <1>2
<1>4. TranscriptSound'
  <2>1. ASSUME NEW d \in Conversation, NEW i \in DOMAIN script'[d]
        PROVE  /\ d \in exists'
               /\ IsAnswer(script'[d][i]) <=> i % 2 = 0
               /\ i % 2 = 0 => script'[d][i].turn = script'[d][i - 1].turn
               /\ \A j \in DOMAIN script'[d] : script'[d][i] = script'[d][j] => i = j
    <3>1. d # c
      BY <1>3, <2>1
    <3> QED BY <1>1, <1>2, <3>1 DEF TableSound, TranscriptSound
  <2>2. \A d, e \in exists' : script'[d][1].turn = script'[e][1].turn => d = e
    BY <1>1, <1>2 DEF TableSound, TranscriptSound
  <2> QED BY <2>1, <2>2 DEF TranscriptSound
<1>5. TableSound'
  BY <1>1, <1>2, <1>4 DEF TableSound
<1>6. TableGrows
  BY <1>1, <1>2 DEF TableSound, TableGrows
<1> QED BY <1>5, <1>6

(***************************************************************************)
(* One request moves                                                       *)
(***************************************************************************)
\* Two functions, two sets that differ at r only.
Beside(r, f, g)   == g = [f EXCEPT ![r] = g[r]]
BesideIn(r, S, T) == S \ {r} = T \ {r}

LateTyped == late \subseteq {"turn", "answer"} \X Request

\* Only r moves, and the process hears of no deletion.
Alone(r) ==
  /\ Beside(r, at, at') /\ Beside(r, ask, ask') /\ Beside(r, bound, bound')
  /\ Beside(r, after, after') /\ Beside(r, answer, answer') /\ Beside(r, shown, shown')
  /\ BesideIn(r, claims, claims') /\ BesideIn(r, cut, cut') /\ BesideIn(r, stalled, stalled')
  /\ BesideIn(r, done, done')
  /\ LateTyped' /\ UNCHANGED told

\* The request s stays where it is; its signal may be aborted.
Stays(s) ==
  /\ at'[s] = at[s] /\ ask'[s] = ask[s] /\ bound'[s] = bound[s]
  /\ after'[s] = after[s] /\ answer'[s] = answer[s] /\ shown'[s] = shown[s]
  /\ s \in claims' <=> s \in claims
  /\ s \in cut => s \in cut'
  /\ s \in stalled' <=> s \in stalled
  /\ s \in done' <=> s \in done

\* An answer that is stored stays while its conversation does.
LEMMA StoredStays ==
  ASSUME NEW s \in Request, NEW author, ConversationKnown(s), StoredFor(s, author),
         TableSound', TableGrows, ask'[s] = ask[s]
  PROVE  StoredFor(s, author)'
<1> DEFINE c == ask[s].conv
<1>1. SUFFICES ASSUME c \in exists'
               PROVE  \E i \in DOMAIN script'[c] : /\ script'[c][i].turn = TurnOf[s]
                                                   /\ IsAnswer(script'[c][i])
                                                   /\ script'[c][i].author = author
  BY DEF StoredFor, Answers, AnswersTo
<1>2. c # Nobody
  BY <1>1, RequestAssumption DEF TableSound, Conversation
<1>3. c \in exists /\ \A i \in DOMAIN script[c] : i \in DOMAIN script'[c] /\ script'[c][i] = script[c][i]
  BY <1>1, <1>2 DEF ConversationKnown, TableGrows
<1>4. PICK i \in DOMAIN script[c] : /\ script[c][i].turn = TurnOf[s] /\ IsAnswer(script[c][i])
                                    /\ script[c][i].author = author
  BY <1>3 DEF StoredFor, Answers, AnswersTo
<1> QED BY <1>3, <1>4

\* A conversation that was opened is there or was deleted.
LEMMA KnownStays ==
  ASSUME NEW s \in Request, ConversationKnown(s), TableGrows,
         at'[s] = at[s], ask'[s] = ask[s], bound'[s] = bound[s]
  PROVE  ConversationKnown(s)'
BY DEF ConversationKnown, TableGrows, Placed, Streaming

\* A request that stays is sound when another moves or the table grows.
LEMMA StaysSound ==
  ASSUME NEW s \in Request, RequestSound(s), Stays(s), TableSound', TableGrows,
         DeletionHeeded(s)'
  PROVE  RequestSound(s)'
<1>1. RequestTyped(s)' /\ ClaimPlaced(s)'
  BY DEF RequestSound, Stays, RequestTyped, ClaimPlaced, Working, Streaming, Places
<1>2. ConversationKnown(s)'
  BY KnownStays DEF RequestSound, Stays
<1>3. AnswerKnown(s)'
  <2>1. ASSUME NEW author, StoredFor(s, author) PROVE StoredFor(s, author)'
    BY <2>1, StoredStays DEF RequestSound, Stays
  <2>2. /\ answer[s] # Nobody => StoredFor(s, answer[s])'
        /\ s \in done => StoredFor(s, shown[s])'
    <3>1. \A author : StoredFor(s, author) => StoredFor(s, author)'
      BY <2>1
    <3>2. /\ answer[s] # Nobody => StoredFor(s, answer[s])
          /\ s \in done => StoredFor(s, shown[s])
      BY DEF RequestSound, AnswerKnown
    <3>3. answer'[s] = answer[s] /\ shown'[s] = shown[s]
      BY DEF Stays
    <3> QED BY <3>1, <3>2, <3>3 DEF StoredFor
  <2> QED BY <2>2 DEF RequestSound, Stays, AnswerKnown, Placed, Streaming
<1> QED BY <1>1, <1>2, <1>3 DEF RequestSound

\* A cut generation stays cut.
LEMMA HeededStays ==
  ASSUME NEW s \in Request, DeletionHeeded(s), Stays(s), UNCHANGED told
  PROVE  DeletionHeeded(s)'
BY DEF DeletionHeeded, Stays, Streaming

\* The requests beside the one that moves.
LEMMA OthersStay ==
  ASSUME RegistryTyped, NEW r \in Request, Alone(r), TableGrows
  PROVE  RegistryTyped' /\ \A s \in Request \ {r} : Stays(s)
<1>1. RegistryTyped'
  BY DEF RegistryTyped, Alone, Beside, BesideIn, LateTyped, TableGrows
<1>2. \A s \in Request \ {r} : Stays(s)
  BY DEF RegistryTyped, Alone, Beside, BesideIn, Stays
<1> QED BY <1>1, <1>2

\* What moves one request keeps the invariant if that request is sound after it.
LEMMA OneMoves ==
  ASSUME TurnInv, NEW r \in Request, Alone(r), TableSound', TableGrows, RequestSound(r)'
  PROVE  TurnInv'
<1>1. RegistryTyped' /\ \A s \in Request \ {r} : Stays(s)
  BY OthersStay DEF TurnInv
<1>2. ASSUME NEW s \in Request PROVE RequestSound(s)'
  <2>1. CASE s # r
    <3>1. DeletionHeeded(s)'
      BY <1>1, <2>1, HeededStays DEF TurnInv, RequestSound, Alone
    <3> QED BY <1>1, <2>1, <3>1, StaysSound DEF TurnInv
  <2> QED BY <2>1
<1> QED BY <1>1, <1>2 DEF TurnInv

\* A request ends. What it has told its browser is stored.
LEMMA RequestEnds ==
  ASSUME TurnInv, NEW r \in Request, NEW text \in Request \cup {Nobody}, End(r),
         shown' = [shown EXCEPT ![r] = text],
         BesideIn(r, done, done'), done' \subseteq Request, r \in done' => StoredFor(r, text)',
         UNCHANGED <<ask, bound, told>>, LateTyped', TableSound', TableGrows
  PROVE  TurnInv'
<1>1. /\ at' = [at EXCEPT ![r] = "ended"]
      /\ claims' = claims \ {r} /\ after' = [after EXCEPT ![r] = Nobody]
      /\ answer' = [answer EXCEPT ![r] = Nobody]
      /\ cut' = cut \ {r} /\ stalled' = stalled \ {r}
  BY DEF End, Go
<1>2. Alone(r)
  BY <1>1 DEF TurnInv, RegistryTyped, Alone, Beside, BesideIn
<1>3. /\ at'[r] = "ended" /\ ask'[r] = ask[r] /\ bound'[r] = bound[r] /\ after'[r] = Nobody
      /\ answer'[r] = Nobody /\ shown'[r] = text
      /\ r \notin claims' /\ r \notin stalled'
  BY <1>1 DEF TurnInv, RegistryTyped
<1>4. RequestTyped(r)' /\ ClaimPlaced(r)' /\ DeletionHeeded(r)'
  BY <1>3 DEF TurnInv, RequestSound, RequestTyped, ClaimPlaced, DeletionHeeded, Working, Streaming, Places
<1>5. ConversationKnown(r)'
  BY <1>3 DEF TurnInv, RequestSound, ConversationKnown, TableGrows, Placed, Streaming
<1>6. AnswerKnown(r)'
  BY <1>3 DEF AnswerKnown
<1> QED BY <1>2, <1>4, <1>5, <1>6, OneMoves DEF RequestSound

\* A request ends without an answer: it has told its browser nothing.
LEMMA RequestFails ==
  ASSUME TurnInv, NEW r \in Request, at[r] # "ended", Fails(r),
         UNCHANGED <<ask, bound, told, db>>, LateTyped'
  PROVE  TurnInv'
<1>1. End(r) /\ shown' = [shown EXCEPT ![r] = Nobody] /\ done' = done
  BY DEF Fails
<1>2. r \notin done' /\ done' \subseteq Request /\ BesideIn(r, done, done')
  BY <1>1 DEF TurnInv, RequestSound, AnswerKnown, RegistryTyped, BesideIn
<1>3. TableSound' /\ TableGrows
  BY TableKept DEF TurnInv
<1> QED BY <1>1, <1>2, <1>3, RequestEnds

(***************************************************************************)
(* The steps of a request                                                  *)
(***************************************************************************)
\* The ways to end without one.
LEMMA FailingSteps ==
  ASSUME TurnInv, NEW r \in Request,
         FailEarly(r) \/ PrepareRefused(r) \/ GenerationFails(r) \/ StoreGivenUp(r) \/ DeliveryFails(r)
  PROVE  TurnInv'
<1>1. at[r] # "ended" /\ Fails(r) /\ UNCHANGED <<ask, bound, told, db>>
  BY DEF FailEarly, PrepareRefused, GenerationFails, StoreGivenUp, DeliveryFails
<1>2. late' \in {late, late \cup {<<"turn", r>>}, late \cup {<<"answer", r>>}}
  BY DEF FailEarly, PrepareRefused, GenerationFails, StoreGivenUp, DeliveryFails
<1>3. LateTyped'
  BY <1>2 DEF TurnInv, RegistryTyped, LateTyped
<1> QED BY <1>1, <1>3, RequestFails

\* A stream goes on. One that leaves its opening has found its conversation there.
LEMMA StreamGoes ==
  ASSUME TurnInv, NEW r \in Request, NEW place \in Streaming \ {"open"}, Go(r, place),
         at[r] \in Streaming, at[r] = "open" => Present(r),
         place \in Working => at[r] \in Working,
         place \in {"deliver", "disclosed"} => answer[r] # Nobody,
         place \in {"store", "stored"} /\ TurnOf[r] \notin Grounded => shown[r] = r,
         UNCHANGED <<db, ask, registry, answer, stream, late, told>>
  PROVE  TurnInv'
<1>1. TableSound' /\ TableGrows
  BY TableKept DEF TurnInv
<1>2. /\ at' = [at EXCEPT ![r] = place]
      /\ UNCHANGED <<ask, claims, bound, after, answer, cut, stalled, shown, done, late, told>>
  BY DEF Go, registry, stream, signals
<1>3. Alone(r)
  BY <1>2 DEF TurnInv, RegistryTyped, Alone, Beside, BesideIn, LateTyped
<1>4. at'[r] = place
  BY <1>2 DEF TurnInv, RegistryTyped
<1>5. RequestTyped(r)' /\ ClaimPlaced(r)'
  BY <1>2, <1>4 DEF TurnInv, RequestSound, RequestTyped, ClaimPlaced, Working, Streaming, Places
<1>6. ConversationKnown(r)'
  BY <1>1, <1>2, <1>4 DEF TurnInv, RequestSound, ConversationKnown, TableGrows, Placed, Streaming
<1>7. answer[r] # Nobody => StoredFor(r, answer[r])'
  <2>1. \A author : StoredFor(r, author) => StoredFor(r, author)'
    BY <1>1, <1>2, StoredStays DEF TurnInv, RequestSound
  <2>2. answer[r] # Nobody => StoredFor(r, answer[r])
    BY DEF TurnInv, RequestSound, AnswerKnown
  <2> QED BY <1>2, <2>1, <2>2 DEF StoredFor
<1>8. AnswerKnown(r)'
  <2>1. r \notin done'
    BY <1>2 DEF TurnInv, RequestSound, AnswerKnown, Streaming
  <2> QED BY <1>2, <1>4, <1>7, <2>1 DEF AnswerKnown, Placed, Streaming
<1>9. DeletionHeeded(r)'
  <2>1. at[r] = "open" => ask[r].conv \notin told
    BY DEF Present, TurnInv, RegistryTyped, TableSound
  <2> QED BY <1>2, <1>4, <2>1 DEF TurnInv, RequestSound, DeletionHeeded
<1> QED BY <1>1, <1>3, <1>5, <1>6, <1>8, <1>9, OneMoves DEF RequestSound

\* Every look at the database, the lease and the completed text.
LEMMA GoingSteps ==
  ASSUME TurnInv, NEW r \in Request,
         Open(r) \/ Dispatch(r) \/ CheckText(r) \/ Generated(r) \/ Disclose(r)
  PROVE  TurnInv'
<1>1. UNCHANGED <<db, ask, registry, answer, stream, late, told>>
  BY DEF Open, Dispatch, CheckText, Generated, Disclose
<1>2. CASE Open(r)
  <2>1. /\ at[r] = "open" /\ Present(r)
        /\ \/ Go(r, "deliver") /\ answer[r] # Nobody
           \/ Go(r, "queue")
    BY <1>2 DEF Open
  <2> QED BY <1>1, <2>1, StreamGoes DEF Working, Streaming
<1>3. CASE Dispatch(r) \/ CheckText(r)
  <2>1. at[r] \in {"queue", "stream"} /\ (Go(r, "stream") \/ Go(r, "text"))
    BY <1>3 DEF Dispatch, CheckText
  <2> QED BY <1>1, <2>1, StreamGoes DEF Working, Streaming
<1>4. CASE Generated(r)
  <2>1. at[r] = "stream" /\ Go(r, "store") /\ (TurnOf[r] \notin Grounded => shown[r] = r)
    BY <1>4 DEF Generated
  <2> QED BY <1>1, <2>1, StreamGoes DEF Working, Streaming
<1>5. CASE Disclose(r)
  <2>1. at[r] = "deliver" /\ Go(r, "disclosed") /\ answer[r] # Nobody
    BY <1>5 DEF Disclose, TurnInv, RequestSound, AnswerKnown
  <2> QED BY <1>1, <2>1, StreamGoes DEF Working, Streaming
<1> QED BY <1>2, <1>3, <1>4, <1>5

\* A piece of text is the generation's own.
LEMMA SendTextSound ==
  ASSUME TurnInv, NEW r \in Request, SendText(r) PROVE TurnInv'
<1>1. /\ at[r] = "text" /\ at' = [at EXCEPT ![r] = "stream"] /\ shown' = [shown EXCEPT ![r] = r]
      /\ UNCHANGED <<exists, gone, script, ask, claims, bound, after, answer, cut, stalled, done, late, told>>
  BY DEF SendText, Go, db, registry
<1>2. TableSound' /\ TableGrows
  BY <1>1, TableKept DEF TurnInv, db
<1>3. Alone(r)
  BY <1>1 DEF TurnInv, RegistryTyped, Alone, Beside, BesideIn, LateTyped
<1>4. at'[r] = "stream" /\ shown'[r] = r
  BY <1>1 DEF TurnInv, RegistryTyped
<1>5. RequestTyped(r)' /\ ClaimPlaced(r)' /\ ConversationKnown(r)' /\ DeletionHeeded(r)'
  BY <1>1, <1>4 DEF TurnInv, RequestSound, RequestTyped, ClaimPlaced, ConversationKnown, DeletionHeeded,
                    Placed, Working, Streaming, Places
<1>6. AnswerKnown(r)'
  <2>1. answer[r] # Nobody => StoredFor(r, answer[r])
    BY DEF TurnInv, RequestSound, AnswerKnown
  <2>2. answer[r] # Nobody => StoredFor(r, answer[r])'
    BY <1>1, <2>1 DEF StoredFor, Answers
  <2>3. r \notin done'
    BY <1>1 DEF TurnInv, RequestSound, AnswerKnown
  <2> QED BY <1>1, <1>4, <2>2, <2>3 DEF AnswerKnown, Placed, Streaming
<1> QED BY <1>2, <1>3, <1>5, <1>6, OneMoves DEF RequestSound

\* An answer that a statement has found is one that is stored.
LEMMA ReadsStored ==
  ASSUME RegistryTyped, TableSound', NEW r \in Request, NEW c \in Conversation,
         Reads(r, script'[c]), ask'[r].conv = c
  PROVE  /\ answer'[r] \in Request \cup {Nobody}
         /\ answer'[r] # Nobody => StoredFor(r, answer[r])'
         /\ Answers(c, TurnOf[r])' # {} => answer'[r] # Nobody
<1> DEFINE messages == script'[c]
           found    == AnswersTo(TurnOf[r], messages)
<1>1. answer'[r] = IF found = {} THEN Nobody ELSE messages[CHOOSE i \in found : TRUE].author
  BY DEF Reads, RegistryTyped
<1>2. messages \in Seq(Message)
  BY DEF TableSound
<1>3. Answers(c, TurnOf[r])' = found
  BY DEF Answers
<1>4. CASE found = {}
  BY <1>1, <1>3, <1>4
<1>5. CASE found # {}
  <2>1. PICK i \in found : answer'[r] = messages[i].author
    BY <1>1, <1>5
  <2>2. i \in DOMAIN messages /\ IsAnswer(messages[i]) /\ messages[i] \in Message
    BY <1>2, <2>1 DEF AnswersTo
  <2>3. messages[i].author \in Request /\ messages[i].author # Nobody
    BY <2>2 DEF IsAnswer, Message
  <2>4. StoredFor(r, answer[r])'
    BY <1>3, <2>1 DEF StoredFor
  <2> QED BY <2>1, <2>3, <2>4
<1> QED BY <1>4, <1>5

\* The reading pass: a conversation that is asked for was opened, an answer that is
\* replayed is stored.
LEMMA ArriveSound ==
  ASSUME TurnInv, NEW r \in Request, Arrive(r) PROVE TurnInv'
<1>1. PICK c \in Conversation \cup {Nobody}, n \in 0 .. MaxMessages :
        /\ Asks(r, c, n)
        /\ \/ \E d \in Lookup(r, c) : /\ Answers(d, TurnOf[r]) # {} /\ Reads(r, script[d])
                                      /\ ask' = [ask EXCEPT ![r] = [conv |-> d, knew |-> 0]]
                                      /\ Go(r, "deliver")
           \/ /\ ask' = [ask EXCEPT ![r] = [conv |-> c, knew |-> n]]
              /\ Go(r, "claim") /\ UNCHANGED answer
  BY DEF Arrive
<1>2. /\ at[r] = "idle" /\ c \in exists \cup gone \cup {Nobody}
      /\ UNCHANGED <<exists, gone, script, claims, bound, after, cut, stalled, shown, done, late, told>>
  BY <1>1 DEF Arrive, Asks, db, registry, stream, signals
<1>3. TableSound' /\ TableGrows
  BY <1>2, TableKept DEF TurnInv, db
<1>4. r \notin done' /\ r \notin claims' /\ r \notin stalled'
  BY <1>2 DEF TurnInv, RequestSound, ClaimPlaced, AnswerKnown, Streaming
<1>5. shown'[r] \in Request \cup {Nobody} /\ bound'[r] \in exists' \cup gone' \cup {Nobody}
      /\ bound'[r] \in Request \cup {Nobody} /\ after'[r] \in Request \cup {Nobody}
  BY <1>2 DEF TurnInv, RequestSound, RequestTyped, ConversationKnown
<1>6. ASSUME NEW d \in Lookup(r, c), Answers(d, TurnOf[r]) # {}, Reads(r, script[d]),
             ask' = [ask EXCEPT ![r] = [conv |-> d, knew |-> 0]], Go(r, "deliver")
      PROVE  TurnInv'
  <2>1. d \in exists /\ d \in Conversation /\ d # Nobody
    BY RequestAssumption DEF Lookup, TurnInv, TableSound, Conversation
  <2>2. at' = [at EXCEPT ![r] = "deliver"] /\ Beside(r, answer, answer')
    BY <1>6 DEF Go, Reads, Beside, TurnInv, RegistryTyped
  <2>3. Alone(r)
    BY <1>2, <1>6, <2>2 DEF TurnInv, RegistryTyped, Alone, Beside, BesideIn, LateTyped
  <2>4. at'[r] = "deliver" /\ ask'[r] = [conv |-> d, knew |-> 0]
    BY <1>6, <2>2 DEF TurnInv, RegistryTyped
  <2>5. ask'[r].conv = d /\ ask'[r] \in [conv : Conversation \cup {Nobody}, knew : Nat]
    BY <2>1, <2>4
  <2>6. Reads(r, script'[d]) /\ Answers(d, TurnOf[r])' # {}
    BY <1>2, <1>6 DEF Answers
  <2>7. /\ answer'[r] \in Request \cup {Nobody} /\ answer'[r] # Nobody
        /\ answer'[r] # Nobody => StoredFor(r, answer[r])'
    BY <1>3, <2>1, <2>5, <2>6, ReadsStored DEF TurnInv
  <2>8. RequestTyped(r)' /\ ClaimPlaced(r)'
    BY <1>4, <1>5, <2>4, <2>5, <2>7 DEF RequestTyped, ClaimPlaced, Working, Streaming, Places
  <2>9. ConversationKnown(r)'
    BY <1>2, <1>5, <2>1, <2>5 DEF ConversationKnown
  <2>10. AnswerKnown(r)' /\ DeletionHeeded(r)'
    BY <1>4, <2>4, <2>7 DEF AnswerKnown, DeletionHeeded, Placed, Streaming
  <2> QED BY <1>3, <2>3, <2>8, <2>9, <2>10, OneMoves DEF RequestSound
<1>7. ASSUME ask' = [ask EXCEPT ![r] = [conv |-> c, knew |-> n]], Go(r, "claim"), UNCHANGED answer
      PROVE  TurnInv'
  <2>1. at' = [at EXCEPT ![r] = "claim"]
    BY <1>7 DEF Go
  <2>2. Alone(r)
    BY <1>2, <1>7, <2>1 DEF TurnInv, RegistryTyped, Alone, Beside, BesideIn, LateTyped
  <2>3. at'[r] = "claim" /\ ask'[r] = [conv |-> c, knew |-> n] /\ answer'[r] = Nobody
    BY <1>2, <1>7, <2>1 DEF TurnInv, RegistryTyped, RequestSound, AnswerKnown, Placed, Streaming
  <2>4. ask'[r].conv = c /\ ask'[r] \in [conv : Conversation \cup {Nobody}, knew : Nat]
    BY <2>3, RequestAssumption
  <2>5. RequestTyped(r)' /\ ClaimPlaced(r)'
    BY <1>4, <1>5, <2>3, <2>4 DEF RequestTyped, ClaimPlaced, Working, Streaming, Places
  <2>6. ConversationKnown(r)' /\ AnswerKnown(r)' /\ DeletionHeeded(r)'
    BY <1>2, <1>4, <1>5, <2>3, <2>4 DEF ConversationKnown, AnswerKnown, DeletionHeeded, Placed, Streaming
  <2> QED BY <1>3, <2>2, <2>5, <2>6, OneMoves DEF RequestSound
<1> QED BY <1>1, <1>6, <1>7

\* A claim is made for the conversation the request names.
LEMMA ClaimSound ==
  ASSUME TurnInv, NEW r \in Request, Claim(r) PROVE TurnInv'
<1>1. /\ at[r] = "claim" /\ at' = [at EXCEPT ![r] = "prepare"]
      /\ claims' = claims \cup {r} /\ bound' = [bound EXCEPT ![r] = ask[r].conv]
      /\ UNCHANGED <<exists, gone, script, ask, after, answer, cut, stalled, shown, done, late, told>>
  BY DEF Claim, Go, db, stream, signals
<1>2. TableSound' /\ TableGrows
  BY <1>1, TableKept DEF TurnInv, db
<1>3. Alone(r)
  BY <1>1 DEF TurnInv, RegistryTyped, Alone, Beside, BesideIn, LateTyped
<1>4. at'[r] = "prepare" /\ bound'[r] = ask[r].conv
  BY <1>1 DEF TurnInv, RegistryTyped
<1>5. RequestTyped(r)' /\ ClaimPlaced(r)'
  <2>1. ask[r].conv \in Request \cup {Nobody}
    BY DEF TurnInv, RequestSound, RequestTyped, Conversation
  <2> QED BY <1>1, <1>4, <2>1 DEF TurnInv, RequestSound, RequestTyped, ClaimPlaced, Working, Streaming, Places
<1>6. ConversationKnown(r)' /\ AnswerKnown(r)' /\ DeletionHeeded(r)'
  BY <1>1, <1>4 DEF TurnInv, RequestSound, ConversationKnown, AnswerKnown, DeletionHeeded, Placed, Streaming
<1> QED BY <1>2, <1>3, <1>5, <1>6, OneMoves DEF RequestSound

\* A repeat waits for another claim, or is refused.
LEMMA WaitOrRefuseSound ==
  ASSUME TurnInv, NEW r \in Request, WaitOrRefuse(r) PROVE TurnInv'
<1>1. at[r] = "claim" /\ UNCHANGED <<db, ask, bound, late, told>>
  BY DEF WaitOrRefuse
<1>2. CASE Fails(r)
  <2>1. LateTyped'
    BY <1>1 DEF TurnInv, RegistryTyped, LateTyped
  <2> QED BY <1>1, <1>2, <2>1, RequestFails
<1>3. CASE /\ \E s \in claims : after' = [after EXCEPT ![r] = s] /\ Go(r, "wait")
           /\ UNCHANGED <<claims, answer, stream>>
  <2>1. PICK s \in claims : after' = [after EXCEPT ![r] = s] /\ at' = [at EXCEPT ![r] = "wait"]
    BY <1>3 DEF Go
  <2>2. UNCHANGED <<exists, gone, script, ask, claims, bound, answer, cut, stalled, shown, done, late, told>>
    BY <1>1, <1>3 DEF db, stream, signals
  <2>3. TableSound' /\ TableGrows
    BY <1>1, TableKept DEF TurnInv
  <2>4. Alone(r)
    BY <2>1, <2>2 DEF TurnInv, RegistryTyped, Alone, Beside, BesideIn, LateTyped
  <2>5. at'[r] = "wait" /\ after'[r] = s /\ s \in Request
    BY <2>1 DEF TurnInv, RegistryTyped
  <2>6. RequestTyped(r)' /\ ClaimPlaced(r)'
    BY <1>1, <2>2, <2>5
    DEF TurnInv, RequestSound, RequestTyped, ClaimPlaced, Working, Streaming, Places
  <2>7. ConversationKnown(r)' /\ AnswerKnown(r)' /\ DeletionHeeded(r)'
    BY <1>1, <2>2, <2>5
    DEF TurnInv, RequestSound, ConversationKnown, AnswerKnown, DeletionHeeded, Placed, Streaming
  <2> QED BY <2>3, <2>4, <2>6, <2>7, OneMoves DEF RequestSound
<1> QED BY <1>2, <1>3 DEF WaitOrRefuse, OwnersOfTurn

\* It learns the conversation of the claim it waited for.
LEMMA WakeUpSound ==
  ASSUME TurnInv, NEW r \in Request, WakeUp(r) PROVE TurnInv'
<1>1. /\ at[r] = "wait" /\ at' = [at EXCEPT ![r] = "claim"] /\ after' = [after EXCEPT ![r] = Nobody]
      /\ ask' \in {ask, [ask EXCEPT ![r].conv = bound[after[r]]]}
      /\ UNCHANGED <<exists, gone, script, claims, bound, answer, cut, stalled, shown, done, late, told>>
  BY DEF WakeUp, Go, Knows, db, stream, signals
<1>2. TableSound' /\ TableGrows
  BY <1>1, TableKept DEF TurnInv, db
<1>3. Alone(r)
  BY <1>1 DEF TurnInv, RegistryTyped, Alone, Beside, BesideIn, LateTyped
<1>4. /\ at'[r] = "claim" /\ after'[r] = Nobody
      /\ ask'[r].conv \in {ask[r].conv, bound[after[r]]} /\ ask'[r].knew = ask[r].knew
      /\ ask'[r] = [conv |-> ask'[r].conv, knew |-> ask'[r].knew]
  BY <1>1 DEF TurnInv, RegistryTyped, RequestSound, RequestTyped
<1>5. ask'[r].conv \in (exists \cup gone \cup {Nobody}) \cap (Request \cup {Nobody})
  <2>1. after[r] \in Request
    BY <1>1 DEF TurnInv, RequestSound, ClaimPlaced
  <2>2. \A s \in Request : bound[s] \in (exists \cup gone \cup {Nobody}) \cap (Request \cup {Nobody})
    BY DEF TurnInv, RequestSound, RequestTyped, ConversationKnown
  <2>3. ask[r].conv \in (exists \cup gone \cup {Nobody}) \cap (Request \cup {Nobody})
    BY DEF TurnInv, RequestSound, RequestTyped, ConversationKnown, Conversation
  <2> QED BY <1>4, <2>1, <2>2, <2>3
<1>6. ask'[r] \in [conv : Conversation \cup {Nobody}, knew : Nat]
  BY <1>4, <1>5 DEF TurnInv, RequestSound, RequestTyped, Conversation
<1>7. RequestTyped(r)' /\ ClaimPlaced(r)'
  BY <1>1, <1>4, <1>6
  DEF TurnInv, RequestSound, RequestTyped, ClaimPlaced, Working, Streaming, Places
<1>8. ConversationKnown(r)' /\ AnswerKnown(r)' /\ DeletionHeeded(r)'
  BY <1>1, <1>4, <1>5
  DEF TurnInv, RequestSound, ConversationKnown, AnswerKnown, DeletionHeeded, Placed, Streaming
<1> QED BY <1>2, <1>3, <1>7, <1>8, OneMoves DEF RequestSound

\* The writing pass: the conversation is there, and the answer it returns is stored.
LEMMA PrepareSound ==
  ASSUME TurnInv, NEW r \in Request, Prepare(r) PROVE TurnInv'
<1>1. PICK c \in Conversation : /\ TurnWritten(r, c) /\ Reads(r, script'[c])
                                /\ ask' = [ask EXCEPT ![r] = [conv |-> c, knew |-> 0]]
  BY DEF Prepare
<1>2. /\ at[r] = "prepare" /\ at' = [at EXCEPT ![r] = "bind"]
      /\ UNCHANGED <<claims, bound, after, cut, stalled, shown, done, late, told>>
  BY DEF Prepare, Go, registry, stream, signals
<1>3. TableSound' /\ TableGrows /\ c \in exists' /\ c # Nobody
  BY <1>1, TurnWrittenTable, RequestAssumption DEF TurnInv, Conversation
<1>4. Beside(r, answer, answer')
  BY <1>1 DEF Reads, Beside, TurnInv, RegistryTyped
<1>5. Alone(r)
  BY <1>1, <1>2, <1>4 DEF TurnInv, RegistryTyped, Alone, Beside, BesideIn, LateTyped
<1>6. at'[r] = "bind" /\ ask'[r] = [conv |-> c, knew |-> 0]
  BY <1>1, <1>2 DEF TurnInv, RegistryTyped
<1>7. ask'[r].conv = c /\ ask'[r] \in [conv : Conversation \cup {Nobody}, knew : Nat]
  BY <1>6
<1>8. /\ answer'[r] \in Request \cup {Nobody}
      /\ answer'[r] # Nobody => StoredFor(r, answer[r])'
  BY <1>1, <1>3, <1>7, ReadsStored DEF TurnInv
<1>9. RequestTyped(r)' /\ ClaimPlaced(r)'
  BY <1>2, <1>6, <1>7, <1>8
  DEF TurnInv, RequestSound, RequestTyped, ClaimPlaced, Working, Streaming, Places
<1>10. ConversationKnown(r)'
  BY <1>2, <1>3, <1>7 DEF TurnInv, RequestSound, ConversationKnown, TableGrows
<1>11. AnswerKnown(r)' /\ DeletionHeeded(r)'
  <2>1. r \notin done'
    BY <1>2 DEF TurnInv, RequestSound, AnswerKnown
  <2> QED BY <1>6, <1>8, <2>1 DEF AnswerKnown, DeletionHeeded, Placed, Streaming
<1> QED BY <1>3, <1>5, <1>9, <1>10, <1>11, OneMoves DEF RequestSound

\* The claim learns its conversation before the stream begins.
LEMMA BindSound ==
  ASSUME TurnInv, NEW r \in Request, Bind(r) PROVE TurnInv'
<1>1. at[r] = "bind" /\ UNCHANGED <<db, ask, late, told>>
  BY DEF Bind
<1>2. CASE Fails(r) /\ UNCHANGED bound
  <2>1. LateTyped'
    BY <1>1 DEF TurnInv, RegistryTyped, LateTyped
  <2> QED BY <1>1, <1>2, <2>1, RequestFails
<1>3. CASE /\ bound' = [bound EXCEPT ![r] = ask[r].conv]
           /\ Go(r, "open") /\ UNCHANGED <<claims, after, answer, stream>>
  <2>1. /\ at' = [at EXCEPT ![r] = "open"]
        /\ UNCHANGED <<exists, gone, script, ask, claims, after, answer, cut, stalled, shown, done, late, told>>
    BY <1>1, <1>3 DEF Go, db, stream, signals
  <2>2. TableSound' /\ TableGrows
    BY <1>1, TableKept DEF TurnInv
  <2>3. Alone(r)
    BY <1>3, <2>1 DEF TurnInv, RegistryTyped, Alone, Beside, BesideIn, LateTyped
  <2>4. at'[r] = "open" /\ bound'[r] = ask[r].conv
    BY <1>3, <2>1 DEF TurnInv, RegistryTyped
  <2>5. RequestTyped(r)' /\ ClaimPlaced(r)'
    <3>1. ask[r].conv \in Request \cup {Nobody}
      BY DEF TurnInv, RequestSound, RequestTyped, Conversation
    <3> QED BY <1>1, <2>1, <2>4, <3>1
        DEF TurnInv, RequestSound, RequestTyped, ClaimPlaced, Working, Streaming, Places
  <2>6. ConversationKnown(r)' /\ DeletionHeeded(r)'
    BY <1>1, <2>1, <2>4 DEF TurnInv, RequestSound, ConversationKnown, DeletionHeeded, Placed, Streaming
  <2>7. AnswerKnown(r)'
    <3>1. r \notin done' /\ (answer[r] # Nobody => StoredFor(r, answer[r]))
      BY <1>1, <2>1 DEF TurnInv, RequestSound, AnswerKnown
    <3>2. answer[r] # Nobody => StoredFor(r, answer[r])'
      BY <2>1, <3>1 DEF StoredFor, Answers
    <3> QED BY <2>1, <2>4, <3>1, <3>2 DEF AnswerKnown, Placed, Streaming
  <2> QED BY <2>2, <2>3, <2>5, <2>6, <2>7, OneMoves DEF RequestSound
<1> QED BY <1>2, <1>3 DEF Bind

\* The statement that stores the answer returns the one that is stored.
LEMMA StoreSound ==
  ASSUME TurnInv, NEW r \in Request, Store(r) PROVE TurnInv'
<1> DEFINE c == ask[r].conv
<1>1. /\ at[r] = "store" /\ at' = [at EXCEPT ![r] = "stored"]
      /\ AnswerWritten(r) /\ Reads(r, script'[c])
      /\ UNCHANGED <<ask, claims, bound, after, cut, stalled, shown, done, late, told>>
  BY DEF Store, Go, registry, stream, signals
<1>2. TableSound' /\ TableGrows
  BY <1>1, AnswerWrittenTable DEF TurnInv
<1>3. c \in Conversation /\ ask'[r].conv = c
  BY <1>1 DEF TurnInv, RequestSound, RequestTyped, ConversationKnown, Placed, Streaming
<1>4. Beside(r, answer, answer')
  BY <1>1 DEF Reads, Beside, TurnInv, RegistryTyped
<1>5. Alone(r)
  BY <1>1, <1>4 DEF TurnInv, RegistryTyped, Alone, Beside, BesideIn, LateTyped
<1>6. at'[r] = "stored"
  BY <1>1 DEF TurnInv, RegistryTyped
<1>7. /\ answer'[r] \in Request \cup {Nobody}
      /\ answer'[r] # Nobody => StoredFor(r, answer[r])'
  BY <1>1, <1>2, <1>3, ReadsStored DEF TurnInv
<1>8. RequestTyped(r)' /\ ClaimPlaced(r)'
  BY <1>1, <1>6, <1>7
  DEF TurnInv, RequestSound, RequestTyped, ClaimPlaced, Working, Streaming, Places
<1>9. ConversationKnown(r)'
  BY <1>1, <1>2, <1>6 DEF TurnInv, RequestSound, ConversationKnown, TableGrows, Placed, Streaming
<1>10. AnswerKnown(r)'
  <2>1. r \notin done' /\ (TurnOf[r] \notin Grounded => shown'[r] = r)
    BY <1>1 DEF TurnInv, RequestSound, AnswerKnown
  <2> QED BY <1>6, <1>7, <2>1 DEF AnswerKnown, Placed, Streaming
<1>11. DeletionHeeded(r)'
  BY <1>1, <1>6 DEF TurnInv, RequestSound, DeletionHeeded, Streaming
<1> QED BY <1>2, <1>5, <1>8, <1>9, <1>10, <1>11, OneMoves DEF RequestSound

\* The stream's own text is done only if it is the answer that was stored.
LEMMA StoredSound ==
  ASSUME TurnInv, NEW r \in Request, Stored(r) PROVE TurnInv'
<1>1. at[r] = "stored" /\ UNCHANGED <<db, ask, bound, late, told>>
  BY DEF Stored
<1>2. TableSound' /\ TableGrows /\ LateTyped'
  BY <1>1, TableKept DEF TurnInv, RegistryTyped, LateTyped
<1>3. CASE Fails(r)
  BY <1>1, <1>2, <1>3, RequestFails
<1>4. CASE /\ answer[r] = r /\ TurnOf[r] \notin Grounded
           /\ End(r) /\ done' = done \cup {r} /\ UNCHANGED shown
  <2>1. shown[r] = r /\ StoredFor(r, r)
    BY <1>1, <1>4, RequestsAreTurned DEF TurnInv, RequestSound, AnswerKnown
  <2>2. StoredFor(r, r)'
    BY <1>1, <1>2, <2>1, StoredStays DEF TurnInv, RequestSound
  <2>3. shown' = [shown EXCEPT ![r] = r]
    BY <1>4, <2>1 DEF TurnInv, RegistryTyped
  <2>4. done' \subseteq Request /\ BesideIn(r, done, done')
    BY <1>4 DEF TurnInv, RegistryTyped, BesideIn
  <2> QED BY <1>1, <1>2, <1>4, <2>2, <2>3, <2>4, RequestEnds
<1>5. CASE /\ answer[r] # Nobody
           /\ Go(r, "deliver") /\ UNCHANGED <<claims, after, answer, stream>>
  <2>1. UNCHANGED <<db, ask, registry, answer, stream, late, told>>
    BY <1>1, <1>5 DEF registry
  <2> QED BY <1>1, <1>5, <2>1, StreamGoes DEF Working, Streaming
<1> QED BY <1>3, <1>4, <1>5 DEF Stored

\* An answer that is delivered was read from the table.
LEMMA DeliverSound ==
  ASSUME TurnInv, NEW r \in Request, Deliver(r) PROVE TurnInv'
<1>1. /\ at[r] = "disclosed" /\ End(r)
      /\ shown' = [shown EXCEPT ![r] = answer[r]] /\ done' = done \cup {r}
      /\ UNCHANGED <<db, ask, bound, late, told>>
  BY DEF Deliver
<1>2. TableSound' /\ TableGrows /\ LateTyped'
  BY <1>1, TableKept DEF TurnInv, RegistryTyped, LateTyped
<1>3. PICK text \in Request : text = answer[r] /\ StoredFor(r, text)
  BY <1>1 DEF TurnInv, RequestSound, RequestTyped, AnswerKnown
<1>4. StoredFor(r, text)'
  BY <1>1, <1>2, <1>3, StoredStays DEF TurnInv, RequestSound
<1>5. done' \subseteq Request /\ BesideIn(r, done, done')
  BY <1>1 DEF TurnInv, RegistryTyped, BesideIn
<1> QED BY <1>1, <1>2, <1>3, <1>4, <1>5, RequestEnds

\* A stalled generation keeps its place, though not its claim.
LEMMA StallSound ==
  ASSUME TurnInv, NEW r \in Request, Stall(r) \/ GraceEnds(r) PROVE TurnInv'
<1>1. UNCHANGED <<exists, gone, script, at, ask, bound, after, answer, shown, done, late, told>>
  BY DEF Stall, GraceEnds, registry, db
<1>2. TableSound' /\ TableGrows
  BY <1>1, TableKept DEF TurnInv, db
<1>3. /\ BesideIn(r, claims, claims') /\ BesideIn(r, cut, cut') /\ BesideIn(r, stalled, stalled')
      /\ claims' \subseteq claims /\ cut \subseteq cut' /\ stalled \subseteq stalled'
      /\ at[r] \in Streaming
      /\ \/ r \in stalled' /\ r \notin claims'
         \/ r \in stalled' /\ claims' = claims
  <2>1. CASE Stall(r)
    BY <2>1 DEF Stall, BesideIn, registry, Streaming
  <2>2. CASE GraceEnds(r)
    BY <2>2 DEF GraceEnds, BesideIn, TurnInv, RegistryTyped, RequestSound, ClaimPlaced
  <2> QED BY <2>1, <2>2
<1>4. Alone(r)
  BY <1>1, <1>3 DEF TurnInv, RegistryTyped, Alone, Beside, BesideIn, LateTyped
<1>5. RequestTyped(r)' /\ ClaimPlaced(r)'
  BY <1>1, <1>3 DEF TurnInv, RequestSound, RequestTyped, ClaimPlaced, Working, Streaming, Places
<1>6. ConversationKnown(r)' /\ DeletionHeeded(r)'
  BY <1>1, <1>3 DEF TurnInv, RequestSound, ConversationKnown, DeletionHeeded, Placed, Streaming
<1>7. AnswerKnown(r)'
  <2>1. AnswerKnown(r)
    BY DEF TurnInv, RequestSound
  <2> QED BY <1>1, <2>1 DEF AnswerKnown, StoredFor, Answers
<1> QED BY <1>2, <1>4, <1>5, <1>6, <1>7, OneMoves DEF RequestSound

(***************************************************************************)
(* The steps of the table and of the process                               *)
(***************************************************************************)
\* No request moves. Who has a deletion to heed is cut.
LEMMA NobodyMoves ==
  ASSUME TurnInv, TableSound', TableGrows,
         UNCHANGED <<at, ask, registry, answer, stalled, shown, done>>,
         LateTyped', cut \subseteq cut', cut' \subseteq Request, told' \subseteq gone',
         \A s \in Request : DeletionHeeded(s)'
  PROVE  TurnInv'
<1>1. RegistryTyped'
  BY DEF TurnInv, RegistryTyped, LateTyped, registry
<1>2. \A s \in Request : Stays(s)
  BY DEF Stays, registry
<1> QED BY <1>1, <1>2, StaysSound DEF TurnInv

\* Nor does the process hear of a deletion.
LEMMA NobodyTold ==
  ASSUME TurnInv, TableSound', TableGrows,
         UNCHANGED <<at, ask, registry, answer, stalled, shown, done, told>>,
         LateTyped', cut \subseteq cut', cut' \subseteq Request
  PROVE  TurnInv'
<1>1. told' \subseteq gone'
  BY DEF TurnInv, RegistryTyped, TableGrows
<1>2. \A s \in Request : Stays(s)
  BY DEF Stays, registry
<1>3. \A s \in Request : DeletionHeeded(s)'
  BY <1>2, HeededStays DEF TurnInv, RequestSound
<1> QED BY <1>1, <1>3, NobodyMoves

\* Statements that reach the database late or unheard, and a closed connection.
LEMMA WritingSteps ==
  ASSUME TurnInv, NEW r \in Request, StoreUnheard(r) \/ LateTurn(r) \/ LateAnswer(r) \/ Stop(r)
  PROVE  TurnInv'
<1>1. /\ UNCHANGED <<at, ask, registry, answer, stalled, shown, done, told>>
      /\ cut' \in {cut, cut \cup {r}}
      /\ late' \subseteq late
  BY DEF StoreUnheard, LateTurn, LateAnswer, Stop, stream, signals
<1>2. /\ LateTyped' /\ cut \subseteq cut' /\ cut' \subseteq Request
  BY <1>1 DEF TurnInv, RegistryTyped, LateTyped
<1>3. TableSound' /\ TableGrows
  <2>1. AnswerWritten(r) \/ (\E c \in Conversation : TurnWritten(r, c)) \/ UNCHANGED db
    BY DEF StoreUnheard, LateTurn, LateAnswer, Stop
  <2> QED BY <2>1, AnswerWrittenTable, TurnWrittenTable, TableKept DEF TurnInv
<1> QED BY <1>1, <1>2, <1>3, NobodyTold

\* A deletion, and one in doubt.
LEMMA DeletingSteps ==
  ASSUME TurnInv, NEW c \in Conversation, Delete(c) \/ DeleteInDoubt(c)
  PROVE  TurnInv'
<1>1. /\ UNCHANGED <<at, ask, registry, answer, stalled, shown, done, late, told>>
      /\ cut' \in {cut, cut \cup OwnersOfConversation(c)}
  BY DEF Delete, DeleteInDoubt, Aborts, stream, signals
<1>2. /\ LateTyped' /\ cut \subseteq cut' /\ cut' \subseteq Request
  BY <1>1 DEF TurnInv, RegistryTyped, LateTyped, OwnersOfConversation
<1>3. TableSound' /\ TableGrows
  <2>1. Delete(c) \/ UNCHANGED db
    BY DEF DeleteInDoubt
  <2> QED BY <2>1, DeleteTable, TableKept DEF TurnInv
<1> QED BY <1>1, <1>2, <1>3, NobodyTold

\* A claim knows its conversation by the time it shows anything: it is cut.
LEMMA HearOfDeleteSound ==
  ASSUME TurnInv, NEW c \in Conversation, HearOfDelete(c)
  PROVE  TurnInv'
<1>1. /\ UNCHANGED <<db, at, ask, registry, answer, stalled, shown, done, late>>
      /\ UNCHANGED <<claims, bound>>
      /\ c \in gone /\ told' = told \cup {c} /\ cut' = cut \cup OwnersOfConversation(c)
  BY DEF HearOfDelete, Aborts, registry
<1>2. /\ LateTyped' /\ cut \subseteq cut' /\ cut' \subseteq Request
  BY <1>1 DEF TurnInv, RegistryTyped, LateTyped, OwnersOfConversation
<1>3. TableSound' /\ TableGrows
  BY <1>1, TableKept DEF TurnInv
<1>4. told' \subseteq gone'
  BY <1>1 DEF TurnInv, RegistryTyped, db
<1>5. ASSUME NEW s \in Request PROVE DeletionHeeded(s)'
  <2>1. SUFFICES ASSUME at[s] \in Streaming \ {"open"}, s \in claims, ask[s].conv \in told \cup {c}
                 PROVE  s \in cut \cup OwnersOfConversation(c)
    BY <1>1 DEF DeletionHeeded
  <2>2. CASE ask[s].conv \in told
    BY <2>1, <2>2 DEF TurnInv, RequestSound, DeletionHeeded
  <2>3. CASE ask[s].conv = c
    <3>1. bound[s] = c /\ c # Nobody
      BY <2>1, <2>3, RequestAssumption DEF TurnInv, RequestSound, ClaimPlaced, Conversation
    <3> QED BY <2>1, <3>1 DEF OwnersOfConversation
  <2> QED BY <2>1, <2>2, <2>3
<1> QED BY <1>1, <1>2, <1>3, <1>4, <1>5, NobodyMoves

\* Calls of other parts, and stuttering.
LEMMA TurnsRest ==
  ASSUME TurnInv, UNCHANGED turnVars
  PROVE  TurnInv'
<1>1. UNCHANGED <<db, at, ask, registry, answer, cut, stalled, shown, done, late, told>>
  BY DEF turnVars, db, registry
<1>2. TableSound' /\ TableGrows
  BY <1>1, TableKept DEF TurnInv
<1>3. /\ LateTyped' /\ cut \subseteq cut' /\ cut' \subseteq Request
  BY <1>1 DEF TurnInv, RegistryTyped, LateTyped
<1> QED BY <1>1, <1>2, <1>3, NobodyTold

\* What is known of the table, of the registry and of every request holds however
\* requests, statements and deletions interleave.
THEOREM TurnInvHolds == TurnSpec => []TurnInv
<1>1. TurnInit => TurnInv
  <2> SUFFICES ASSUME TurnInit PROVE TurnInv
    OBVIOUS
  <2>1. TableSound
    BY DEF TurnInit, TableSound, TranscriptSound, Conversation
  <2>2. RegistryTyped
    BY DEF TurnInit, RegistryTyped
  <2>3. ASSUME NEW r \in Request PROVE RequestSound(r)
    <3>1. /\ at[r] = "idle" /\ ask[r].conv = Nobody /\ ask[r] \in [conv : Conversation \cup {Nobody}, knew : Nat]
          /\ bound[r] = Nobody /\ after[r] = Nobody /\ answer[r] = Nobody /\ shown[r] = Nobody
          /\ r \notin claims \cup stalled \cup done
      BY DEF TurnInit
    <3> QED BY <3>1 DEF RequestSound, RequestTyped, ClaimPlaced, ConversationKnown, AnswerKnown,
                        DeletionHeeded, Placed, Working, Streaming, Places
  <2> QED BY <2>1, <2>2, <2>3 DEF TurnInv
<1>2. TurnInv /\ [TurnNext]_allVars => TurnInv'
  <2> SUFFICES ASSUME TurnInv, [TurnNext]_allVars PROVE TurnInv'
    OBVIOUS
  <2>1. ASSUME NEW r \in Request, Arrive(r) \/ Begin(r) PROVE TurnInv'
    BY <2>1, ArriveSound, ClaimSound, WaitOrRefuseSound, WakeUpSound, PrepareSound, FailingSteps, BindSound
       DEF Begin
  <2>2. ASSUME NEW r \in Request, Generate(r) PROVE TurnInv'
    BY <2>2, GoingSteps, SendTextSound DEF Generate
  <2>3. ASSUME NEW r \in Request, Settle(r) PROVE TurnInv'
    BY <2>3, StoreSound, StoredSound, GoingSteps, DeliverSound, FailingSteps DEF Settle
  <2>4. ASSUME NEW call \in Call, OtherCall(call) PROVE TurnInv'
    BY <2>4, TurnsRest DEF OtherCall
  <2>5. CASE UNCHANGED allVars
    BY <2>5, TurnsRest DEF allVars
  <2> QED BY <2>1, <2>2, <2>3, <2>4, <2>5, FailingSteps, StallSound, WritingSteps, DeletingSteps,
             HearOfDeleteSound DEF TurnNext
<1> QED BY <1>1, <1>2, PTL DEF TurnSpec

\* However requests, repeats, deletions and late statements meet, for any requests,
\* turns and limits: the registry is sound and a conversation is a turn, its answer,
\* the next turn, its answer.
THEOREM ConversationsStaySound == TurnSpec => []ConversationsSound
<1>1. TurnInv => TurnTypeOK
  BY DEF TurnInv, TableSound, RegistryTyped, RequestSound, RequestTyped, ClaimPlaced, TurnTypeOK
<1>2. TurnInv => TranscriptSound
  BY DEF TurnInv, TableSound
<1> QED BY <1>1, <1>2, TurnInvHolds, ClaimsStayApart, PTL DEF ConversationsSound

\* What a browser was told is done stays what the conversation shows, whatever is
\* written, repeated or delivered late afterwards.
THEOREM DoneStaysStored == TurnSpec => []DoneIsStored
<1>1. TurnInv => DoneIsStored
  BY DEF TurnInv, RegistryTyped, RequestSound, AnswerKnown, StoredFor, DoneIsStored
<1> QED BY <1>1, TurnInvHolds, PTL

\* Unless one has stalled, no two generations are at work on a conversation, and
\* each that works is the one admitted.
THEOREM GenerationsStayApart == TurnSpec => []OneGeneration
<1>1. TurnInv /\ ClaimsApart => GenerationsApart
  <2> SUFFICES ASSUME TurnInv, ClaimsApart, NEW r \in Request, NEW s \in Request,
                      Generating(r), Generating(s), ask[r].conv = ask[s].conv, r # s,
                      r \notin stalled, s \notin stalled
               PROVE  FALSE
    BY DEF GenerationsApart
  <2>1. \A q \in {r, s} : q \in claims /\ bound[q] = ask[q].conv /\ ask[q].conv # Nobody
    BY DEF Generating, TurnInv, RequestSound, ClaimPlaced, ConversationKnown, Placed, Working, Streaming
  <2> QED BY <2>1 DEF ClaimsApart
<1> QED BY <1>1, TurnInvHolds, ClaimsStayApart, NoLeaseLeaks, PTL DEF OneGeneration

\* Only a piece of text and the delivery of an answer show anything.
LEMMA NothingShown ==
  ASSUME RegistryTyped, NEW r \in Request, NEW s \in Request,
         Arrive(r) \/ Begin(r) \/ FailEarly(r)
         \/ Open(r) \/ Dispatch(r) \/ CheckText(r) \/ Generated(r) \/ GenerationFails(r)
         \/ Store(r) \/ Stored(r) \/ Disclose(r) \/ DeliveryFails(r) \/ StoreUnheard(r) \/ StoreGivenUp(r)
         \/ Stop(r) \/ Stall(r) \/ GraceEnds(r) \/ LateTurn(r) \/ LateAnswer(r)
  PROVE  shown'[s] \in {shown[s], Nobody}
<1>1. shown' \in {shown, [shown EXCEPT ![r] = Nobody]}
  <2>1. CASE Arrive(r) \/ Begin(r) \/ FailEarly(r)
    BY <2>1 DEF Arrive, Begin, Claim, WaitOrRefuse, WakeUp, Prepare, PrepareRefused, Bind, FailEarly,
                Fails, stream
  <2>2. CASE Open(r) \/ Dispatch(r) \/ CheckText(r) \/ Generated(r) \/ GenerationFails(r)
    BY <2>2 DEF Open, Dispatch, CheckText, Generated, GenerationFails, Fails, stream
  <2>3. CASE Store(r) \/ Stored(r) \/ Disclose(r) \/ DeliveryFails(r) \/ StoreUnheard(r) \/ StoreGivenUp(r)
    BY <2>3 DEF Store, Stored, Disclose, DeliveryFails, StoreUnheard, StoreGivenUp, Fails, stream
  <2>4. CASE Stop(r) \/ Stall(r) \/ GraceEnds(r) \/ LateTurn(r) \/ LateAnswer(r)
    BY <2>4 DEF Stop, Stall, GraceEnds, LateTurn, LateAnswer, stream
  <2> QED BY <2>1, <2>2, <2>3, <2>4
<1> QED BY <1>1 DEF RegistryTyped

\* What shows text of a conversation known to be deleted was cut when the process
\* heard of the deletion, and looks at its signal last.
LEMMA ShownUncut ==
  ASSUME TurnInv, NEW r \in Request, NEW s \in claims, SendText(r) \/ Deliver(r),
         shown'[s] # shown[s]
  PROVE  ask[s].conv \notin told
<1>1. r \notin cut /\ at[r] \in {"text", "disclosed"}
  BY DEF SendText, Deliver
<1>2. r = s
  BY DEF SendText, Deliver, TurnInv, RegistryTyped
<1> QED BY <1>1, <1>2 DEF TurnInv, RequestSound, DeletionHeeded, Streaming

\* Once a deletion is heard of, whatever a generation had looked up before, its
\* browser is shown no more of the conversation.
THEOREM NothingShownAfterDelete == TurnSpec => NothingAfterDelete
<1>1. TurnInv /\ [TurnNext]_allVars =>
        [\A r \in claims : shown'[r] \notin {shown[r], Nobody} => ask[r].conv \notin told]_allVars
  <2> SUFFICES ASSUME TurnInv, TurnNext, NEW s \in claims, shown'[s] \notin {shown[s], Nobody}
               PROVE  ask[s].conv \notin told
    OBVIOUS
  <2>1. s \in Request
    BY DEF TurnInv, RegistryTyped
  <2>2. ASSUME NEW c \in Conversation, Delete(c) \/ HearOfDelete(c) \/ DeleteInDoubt(c)
        PROVE  shown' = shown
    BY <2>2 DEF Delete, HearOfDelete, DeleteInDoubt, stream
  <2>3. ASSUME NEW call \in Call, OtherCall(call) PROVE shown' = shown
    BY <2>3 DEF OtherCall, turnVars
  <2>4. PICK r \in Request : SendText(r) \/ Deliver(r)
    BY <2>1, <2>2, <2>3, NothingShown DEF TurnNext, Generate, Settle, TurnInv
  <2> QED BY <2>4, ShownUncut
<1> QED BY <1>1, TurnInvHolds, PTL DEF TurnSpec, NothingAfterDelete

=================================================================================
