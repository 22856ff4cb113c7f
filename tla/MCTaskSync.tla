------------------------------ MODULE MCTaskSync ------------------------------
(***************************************************************************)
(* TaskSync for TLC.  Field values are interchangeable, and so are the     *)
(* fields: the status differs from the others only in that it takes the    *)
(* Derived fields along, of which the runs with symmetry have none.        *)
(***************************************************************************)
EXTENDS TaskSync

\* The edits of TaskSync, one field each.
MCUserPatch ==
  {patch \in [Field -> Value \cup {Absent}] : Cardinality({f \in Field : patch[f] # Absent}) = 1}

Symmetry == Permutations(Value) \cup Permutations(Field)
===============================================================================
