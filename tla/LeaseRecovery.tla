---------------------------- MODULE LeaseRecovery ----------------------------
(***************************************************************************)
(* Leases, heartbeats and the orphan scanner.  A dispatched job holds a    *)
(* lease that its worker renews by heartbeats; the scanner looks at the    *)
(* tasks in an active state whose active job holds a lease, and recovers   *)
(* those whose worker has been silent too long: worker stages with retries *)
(* left are dispatched again, all others are blocked.  A worker may die or *)
(* be late at any time.  No scan has to come: nothing in the server starts *)
(* the periodic scanner, and scanForOrphans waits for a caller.            *)
(*                                                                         *)
(* acquire and heartbeat set the expiry and the last heartbeat together,   *)
(* so a lease is its age; 5 heartbeat intervals of 30 s are half of the    *)
(* 300 s of a lease.  Time is counted in these halves.                     *)
(***************************************************************************)
EXTENDS TaskStateMachine

CONSTANTS
  Tasks, Jobs,
  None,          \* no lease, no job
  MaxRetries     \* per stage: stageMaxRetries, within max_recovery_attempts

VARIABLES
  tasks,    \* state, active_job_id, the state a blocked task resumes, retry_counts
  stage,    \* per job: the stage it was dispatched for
  lease,    \* LeaseManager.leases: age of the lease, or None
  dead,     \* jobs whose worker died
  silence,  \* history: how long the worker has been silent, or None after its result
  found     \* history: scans since it was heard that found the job an orphan

vars == <<tasks, stage, lease, dead, silence, found>>

Threshold == 1   \* 5 heartbeat intervals
Duration == 2    \* lease_duration_seconds
Oldest == Duration + 1
Scanned == ActiveStates \union {"integrating", "publishing"}

Older(age) == IF age = None THEN None ELSE IF age < Oldest THEN age + 1 ELSE age

-----------------------------------------------------------------------------
(* Dispatch: the job gets a lease and becomes the task's active job. *)
Dispatch(t, j) ==
  /\ stage[j] = None /\ AllowedDispatchStage[tasks[t].state] # "none"
  /\ stage' = [stage EXCEPT ![j] = AllowedDispatchStage[tasks[t].state]]
  /\ tasks' = [tasks EXCEPT ![t].state = StageToActiveState[stage'[j]], ![t].active = j]
  /\ lease' = [lease EXCEPT ![j] = 0] /\ silence' = [silence EXCEPT ![j] = 0]
  /\ UNCHANGED <<dead, found>>

(* Mutant: a heartbeat does not touch the lease. *)
HeartbeatUnheard(j) ==
  /\ lease[j] # None /\ j \notin dead
  /\ silence' = [silence EXCEPT ![j] = 0] /\ found' = [found EXCEPT ![j] = 0]
  /\ UNCHANGED <<tasks, stage, lease, dead>>

(* POST /heartbeat.  Nothing calls detectOrphan or checkAndMarkExpired, so *)
(* an expired lease is renewed like any other.                             *)
Heartbeat(j) ==
  /\ lease[j] # None /\ j \notin dead
  /\ lease' = [lease EXCEPT ![j] = 0] /\ silence' = [silence EXCEPT ![j] = 0]
  /\ found' = [found EXCEPT ![j] = 0]
  /\ UNCHANGED <<tasks, stage, dead>>

WorkerDies(j) ==
  /\ lease[j] # None /\ dead' = dead \union {j}
  /\ UNCHANGED <<tasks, stage, lease, silence, found>>

Tick ==
  /\ lease' = [j \in Jobs |-> Older(lease[j])]
  /\ silence' = [j \in Jobs |-> Older(silence[j])]
  /\ UNCHANGED <<tasks, stage, dead, found>>

Heard(j) == silence' = [silence EXCEPT ![j] = None] /\ found' = [found EXCEPT ![j] = 0]

(* A result of the active job that finalizes it and moves the task on.     *)
(* Acceptance stays in its state: the gate is opened by hand.              *)
Conclude(j) ==
  \E t \in Tasks :
    /\ tasks[t].active = j /\ tasks[t].state = StageToActiveState[stage[j]]
    /\ \E to \in {"rework_required", "blocked"} \union
                 (CASE stage[j] = "plan" -> {"planned"} [] stage[j] = "dev" -> {"dev_completed"}
                    [] OTHER -> {"accepting"}) :
         /\ to = "accepting" \/ CanTransition(tasks[t].state, to)
         /\ tasks' = [tasks EXCEPT ![t].state = to]
    /\ lease' = [lease EXCEPT ![j] = None] /\ Heard(j)
    /\ UNCHANGED <<stage, dead>>

(* A failure that is retried: the lease goes, the task stays where it is.  *)
RetryResult(j) ==
  \E t \in Tasks :
    /\ tasks[t].active = j /\ tasks[t].state = StageToActiveState[stage[j]]
    /\ tasks[t].retries[stage[j]] < MaxRetries[stage[j]]
    /\ tasks' = [tasks EXCEPT ![t].retries[stage[j]] = @ + 1]
    /\ lease' = [lease EXCEPT ![j] = None] /\ Heard(j)
    /\ UNCHANGED <<stage, dead>>

(* Acceptance, integration and publication move the task on by the table,  *)
(* or an operator resumes what was blocked; the active job stays.          *)
Operated ==
  {"accepted", "integrating", "integrated", "publish_pending_approval", "publishing", "published"}

Operate(t) ==
  /\ \/ \E to \in Operated \ {tasks[t].state} :
          /\ tasks[t].state # "blocked" /\ CanTransition(tasks[t].state, to)
          /\ tasks' = [tasks EXCEPT ![t].state = to]
     \/ /\ tasks[t].state = "blocked" /\ tasks[t].resume # "none"
        /\ tasks' = [tasks EXCEPT ![t].state = tasks[t].resume, ![t].resume = "none"]
  /\ UNCHANGED <<stage, lease, dead, silence, found>>

-----------------------------------------------------------------------------
(* OrphanRecovery.detectOrphan. *)
IsOrphan(j) == lease[j] > Duration \/ lease[j] > Threshold

(* getActiveJobsForOrphanScan. *)
HasActiveLease(t) == tasks[t].state \in Scanned /\ tasks[t].active # None /\ lease[tasks[t].active] # None

(* determineRecoveryAction: the stage is that of the task's state, the     *)
(* retries are those of the stage of its active job.                       *)
MayRetry(task) ==
  \E g \in {"plan", "dev"} :
    task.state = StageToActiveState[g] /\ task.retries[stage[task.active]] < MaxRetries[g]

(* What a scan does to a task.  A retry is a dispatch, which refuses a     *)
(* task in an active state; the refusal is logged.                         *)
Recovered(t) ==
  LET task == tasks[t]
  IN  IF HasActiveLease(t) /\ IsOrphan(task.active) /\ ~MayRetry(task)
      THEN [task EXCEPT !.state = "blocked", !.resume = task.state] ELSE task

(* The active jobs a scan finds to be orphans. *)
Orphans == {tasks[t].active : t \in {x \in Tasks : HasActiveLease(x) /\ IsOrphan(tasks[x].active)}}

Scan ==
  /\ tasks' = [t \in Tasks |-> Recovered(t)]
  /\ found' = [j \in Jobs |-> IF j \in Orphans /\ found[j] < 2 THEN found[j] + 1 ELSE found[j]]
  /\ UNCHANGED <<stage, lease, dead, silence>>

-----------------------------------------------------------------------------
Init ==
  /\ tasks = [t \in Tasks |-> [state |-> "queued", active |-> None, resume |-> "none",
                            retries |-> [g \in DOMAIN MaxRetries |-> 0]]]
  /\ stage = [j \in Jobs |-> None] /\ lease = [j \in Jobs |-> None]
  /\ dead = {} /\ silence = [j \in Jobs |-> None] /\ found = [j \in Jobs |-> 0]

Next ==
  \/ Tick \/ Scan
  \/ \E t \in Tasks : Operate(t) \/ \E j \in Jobs : Dispatch(t, j)
  \/ \E j \in Jobs : Heartbeat(j) \/ WorkerDies(j) \/ Conclude(j) \/ RetryResult(j)

Spec == Init /\ [][Next]_vars

-----------------------------------------------------------------------------
(* The scanner blocks a task only when the worker of its active job has    *)
(* been silent for longer than five heartbeat intervals.                   *)
OnlySilentWorkIsBlocked ==
  [][\A t \in Tasks : Scan /\ tasks[t].state # "blocked" /\ tasks'[t].state = "blocked"
                        => silence[tasks[t].active] > Threshold]_vars

(* A scan that finds an orphan in development has it retried or blocked,   *)
(* so no second scan finds it still there.  The code does neither: the     *)
(* scanner dispatches a task that is still in its active state, which      *)
(* dispatch refuses, and every scan finds the orphan again.                *)
OrphansAreRecovered ==
  \A t \in Tasks :
    tasks[t].state = "developing" /\ tasks[t].active # None => found[tasks[t].active] < 2
=============================================================================
