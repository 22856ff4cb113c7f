----------------------------- MODULE MCCreationIds -----------------------------
(***************************************************************************)
(* CreationIds for TLC: two tabs, a project draft and a task draft that    *)
(* goes into it or into the one existing project.                          *)
(***************************************************************************)
EXTENDS CreationIds, TLC

CONSTANTS t1, t2, p, d, existing

\* The task draft goes into the existing project, or is created with the project draft
\* or after it;
\* a retry may move the task from one to the other.
Alone      == [x \in {d} |-> p]
ToExisting == [x \in {d} |-> existing]
Together   == [x \in {p, d} |-> p]

MCPlan == {ToExisting, Together, Alone}

Symmetry == Permutations({t1, t2})
=============================================================================
