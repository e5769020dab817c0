------------------------------ MODULE MCProgress ------------------------------
(***************************************************************************)
(* A small instance of Progress.                                           *)
(***************************************************************************)
EXTENDS Progress

OneRetry == [plan |-> 0, dev |-> 1, acceptance |-> 1]

WorkerKind == [codex |-> "process", claude_code |-> "process",
               google_antigravity |-> "simulated", lmstudio |-> "completion"]
=============================================================================
