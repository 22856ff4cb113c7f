--------------------------- MODULE MCAssistantTurns ---------------------------
(***************************************************************************)
(* The calls of the gateway and the turns of one user, for TLC.            *)
(*                                                                         *)
(* Calls: two users, a model with a limit and one without, two calls of    *)
(* the server, one of them about no model.  The process has room for more  *)
(* calls than one user, so that a waiter may be overtaken, and a release   *)
(* may start a waiter of its user and another one of its model.            *)
(*                                                                         *)
(* Turns: one that opens a conversation, its repeat and a later turn, with *)
(* models that differ by their limits.  To keep the instance small they    *)
(* begin when ben1 alone holds a lease, which it keeps.  Their user may    *)
(* have one call at work and one that waits.                               *)
(***************************************************************************)
EXTENDS AssistantTurns, TLC

CONSTANTS r1, r2, r3, first, next, ana1, ben1, ben2, srv1, srv2, ana, ben, small, large

MCTurnOf     == r1 :> first @@ r2 :> first @@ r3 :> next
MCUserOf     == r1 :> ana @@ r2 :> ana @@ r3 :> ana
                @@ ana1 :> ana @@ ben1 :> ben @@ ben2 :> ben @@ srv1 :> Server @@ srv2 :> Server
MCModelOf    == r1 :> small @@ r2 :> large @@ r3 :> large
                @@ ana1 :> large @@ ben1 :> large @@ ben2 :> large @@ srv1 :> small @@ srv2 :> NoModel
MCModelLimit == small :> 1

TurnsBegan == \E r \in Request : at[r] # "idle"

\* Who has a lease beside the turns.
Beside == (holding \cup waiting) \ Request = {ben1}

MCSpec == TurnInit /\ [][TurnNext /\ (TurnsBegan' => Beside')]_allVars /\ TurnFairness
================================================================================
