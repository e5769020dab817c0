----------------------------- MODULE MCReleaseFlow -----------------------------
(***************************************************************************)
(* A small instance of ReleaseFlow, explored in two scenes: in "rounds"    *)
(* one task goes through two development rounds, with a dispatch call that *)
(* may come back at any time, and publishes without keys; in "sharing" it  *)
(* and a task whose checks are optional compete for one idempotency key,   *)
(* within one round, an operator accepting by hand.                        *)
(***************************************************************************)
EXTENDS ReleaseFlow

CONSTANT First   \* the task of both scenes

VARIABLE scene

(* DEFAULT_REPO_POLICY; main is a protected branch unless configured.  For *)
(* the other tasks checks are reported but not required.                   *)
FirstIsStrict ==
  [t \in Tasks |-> [ci |-> t = First, strategy |-> "fast_forward_only",
                    bot |-> TRUE, protected |-> TRUE]]

(* An operator accepts a task by recording the transition. *)
AcceptedByHand == {<<"accepting", "accepted">>}

OnlyApply == {"apply"}

MCInit == Init /\ scene \in {"rounds", "sharing"}

(* What keeps a scene small. *)
SceneBound ==
  CASE scene = "rounds"  -> UNCHANGED <<keys, recorded>>
    [] scene = "sharing" -> UNCHANGED <<calls, revision>>

MCNext ==
  /\ \/ \E t \in IF scene = "rounds" THEN {First} ELSE Tasks : TaskStep(t)
     \/ \E c \in Calls : ReturnStep(c)
     \/ \E late \in SUBSET Tasks : CheckTimeouts(late)
  /\ SceneBound
  /\ UNCHANGED scene

MCSpec == MCInit /\ [][MCNext]_<<vars, scene>>
=============================================================================
