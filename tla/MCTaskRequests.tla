---------------------------- MODULE MCTaskRequests ----------------------------
(***************************************************************************)
(* Instance of TaskRequests for TLC.  People, windows and dates are only   *)
(* ever compared for equality, and nothing is claimed of what must happen  *)
(* in the end, so that each of them may be permuted.                       *)
(***************************************************************************)
EXTENDS TaskRequests, TLC

Symmetry == Permutations(Person) \cup Permutations(Editor) \cup Permutations(Date)

\* Records that differ in their id only, and how many there are of them.
Alike(records) ==
  LET Nameless(record) == [record EXCEPT !.id = 0]
  IN  [shape \in {Nameless(record) : record \in records} |->
         Cardinality({record \in records : Nameless(record) = shape})]

\* What a window shows and saves decides nothing any more once its version is not
\* that of the task: it is refused, and has to load the task before it is current
\* again.  Which id a record has decides nothing either.  States that differ in
\* nothing else are explored once.
Distinct ==
  <<task, current, assignees, dates, [p \in Person |-> Alike(coordination[p])], schedule,
    [e \in Editor |-> IF e \in current THEN editor[e] ELSE Shows({}, dates)],
    [e \in Editor |-> editor[e].phase]>>
=============================================================================
