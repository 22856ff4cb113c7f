--------------------------- MODULE MCTaskMailOutbox ---------------------------
(***************************************************************************)
(* TaskMailOutbox for TLC: two instances, two mails in one batch, a lease  *)
(* that is just long enough for two deliveries, two attempts; one instance to   *)
(* see that every mail is settled.                                         *)
(***************************************************************************)
EXTENDS TaskMailOutbox, TLC

CONSTANTS m1, m2, a, b

Symmetry == Permutations({m1, m2}) \cup Permutations({a, b})
=============================================================================
