---------------------------- MODULE MCTaskPatches ----------------------------
(***************************************************************************)
(* Instance of TaskPatches for TLC.  Its liveness property rules out       *)
(* symmetry among values.                                                  *)
(***************************************************************************)
EXTENDS TaskPatches

CONSTANT Whole  \* the one value a derived field takes here

\* A view edits a field alone; a status may come with what it derives, once
\* prepareTaskLifecycleIntent() has stamped it.
MCUserPatch ==
  {patch \in [Field -> Value \cup {Absent}] :
     /\ \A f \in Derived : patch[f] \in {Absent, Whole}
     /\ LET carried == {f \in Field : patch[f] # Absent}
        IN  Cardinality(carried) = 1 \/ carried = {Status} \cup Derived}
=============================================================================
