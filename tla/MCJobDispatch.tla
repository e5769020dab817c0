----------------------------- MODULE MCJobDispatch -----------------------------
(***************************************************************************)
(* TLC instances of JobDispatch.                                           *)
(***************************************************************************)
EXTENDS JobDispatch

(* One retry of development instead of 2, 3 and 1. *)
OneRetry == [g \in Stages |-> IF g = "dev" THEN 1 ELSE 0]
LastInChain == {"google_antigravity"}
Both == {"codex", "google_antigravity"}
ZeroCount == {0}
=============================================================================
