--------------------------- MODULE TaskStateMachine ---------------------------
(***************************************************************************)
(* The pure part of the control plane: the states of a task, the   *)
(* table of allowed transitions, the worker stage each state may dispatch, *)
(* and the worker policy (who fails over to whom).  No state and no        *)
(* recursion: every other module EXTENDS this one.                         *)
(***************************************************************************)
EXTENDS Naturals, FiniteSets

(* Worker-dispatched stages and the worker types of the plan-stage chain. *)
Stages == {"plan", "dev", "acceptance"}
WorkerTypes == {"codex", "claude_code", "google_antigravity"}

TerminalStates == {"completed", "cancelled", "failed", "published"}

(* States in which a worker job, an integration run or a publish run is    *)
(* supposed to be executing.                                               *)
ActiveStates == {"planning", "developing", "accepting", "integrating", "publishing"}

RestingStates ==
  {"queued", "planned", "dev_completed", "accepted", "rework_required",
   "integrated", "publish_pending_approval", "blocked"}

TaskStates == ActiveStates \union RestingStates \union TerminalStates

(* Every live state may stop in one of these three. *)
StopStates == {"blocked", "cancelled", "failed"}

(* ALLOWED_TRANSITIONS without the self loops and the three stops. *)
Forward ==
  [s \in TaskStates |->
     CASE s = "queued"                   -> {"planning"}
       [] s = "planning"                 -> {"planned", "rework_required"}
       [] s = "planned"                  -> {"developing"}
       [] s = "developing"               -> {"dev_completed", "rework_required"}
       [] s = "dev_completed"            -> {"accepting"}
       [] s = "accepting"                -> {"accepted", "rework_required"}
       [] s = "rework_required"          -> {"developing"}
       [] s = "accepted"                 -> {"integrating"}
       [] s = "integrating"              -> {"integrated"}
       [] s = "integrated"               -> {"publish_pending_approval", "publishing"}
       [] s = "publish_pending_approval" -> {"publishing"}
       [] s = "publishing"               -> {"published"}
       [] s = "blocked"                  -> ActiveStates \union {"integrated"}
       [] OTHER                          -> {}]

AllowedTransitions ==
  [s \in TaskStates |->
     IF s \in TerminalStates THEN {} ELSE {s} \union Forward[s] \union StopStates]

CanTransition(from, to) == to \in AllowedTransitions[from]

(* getAllowedDispatchStage, with "none" where the code throws. *)
AllowedDispatchStage ==
  [s \in TaskStates |->
     CASE s = "queued"                          -> "plan"
       [] s \in {"planned", "rework_required"}  -> "dev"
       [] s = "dev_completed"                   -> "acceptance"
       [] OTHER                                 -> "none"]

StageToActiveState ==
  [g \in Stages |->
     CASE g = "plan" -> "planning" [] g = "dev" -> "developing" [] OTHER -> "accepting"]

DefaultWorker == [g \in Stages |-> IF g = "acceptance" THEN "claude_code" ELSE "codex"]

(* Only the plan stage fails over: codex, then claude_code, then           *)
(* google_antigravity, then nobody.                                        *)
FailoverWorker(stage, worker) ==
  CASE stage = "plan" /\ worker = "codex"       -> "claude_code"
    [] stage = "plan" /\ worker = "claude_code" -> "google_antigravity"
    [] OTHER                                    -> "none"
=============================================================================
