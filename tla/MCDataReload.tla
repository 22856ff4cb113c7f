----------------------------- MODULE MCDataReload -----------------------------
(***************************************************************************)
(* DataReload for TLC: its parameters are bounds only.                     *)
(***************************************************************************)
EXTENDS DataReload
===============================================================================
