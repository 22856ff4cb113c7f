--------------------------- MODULE MCCorporateCatalog ---------------------------
(***************************************************************************)
(* Instance of CorporateCatalog for TLC.  The source yields a chain of two *)
(* nodes, another node instead of it, or nothing: a change from the first  *)
(* to the second leaves a subtree that two runs take away.                 *)
(***************************************************************************)
EXTENDS CorporateCatalog

CONSTANTS a, b, c

Chain == [node \in {a, b} |-> IF node = a THEN Root ELSE a]
Other == [node \in {c} |-> Root]

MCPlan == {Empty, Chain, Other}
=============================================================================
