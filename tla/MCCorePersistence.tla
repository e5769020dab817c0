--------------------------- MODULE MCCorePersistence ---------------------------
(***************************************************************************)
(* TLC instances of CorePersistence.                                       *)
(***************************************************************************)
EXTENDS CorePersistence, TLC

(* A task before acceptance; one that is about to be published. *)
Developed == {"dev_completed"}
Integrated == {"integrated"}

(* What operators do meanwhile: cancel, block, accept. *)
Stops == {"cancelled", "blocked", "accepted"}
=============================================================================
