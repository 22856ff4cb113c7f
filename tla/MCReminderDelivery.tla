--------------------------- MODULE MCReminderDelivery ---------------------------
(***************************************************************************)
(* Instance of ReminderDelivery for TLC.  Its liveness property rules out  *)
(* symmetry, and its parameters are plain values.                          *)
(***************************************************************************)
EXTENDS ReminderDelivery
=============================================================================
