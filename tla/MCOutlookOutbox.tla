--------------------------- MODULE MCOutlookOutbox ---------------------------
(***************************************************************************)
(* OutlookOutbox for TLC: workers are interchangeable, contents are not     *)
(* (some are upcoming).                                                     *)
(***************************************************************************)
EXTENDS OutlookOutbox, TLC

Symmetry == Permutations(Worker)
===============================================================================
