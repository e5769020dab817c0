------------------------------ MODULE JobDispatch ------------------------------
(***************************************************************************)
(* The core of the control plane: tasks, the worker jobs dispatched for    *)
(* them, the lease and the concurrency slot each job holds, and what a     *)
(* worker result does to all of these.                                     *)
(*                                                                         *)
(* JobService.dispatch awaits the worker's answer between the moment it    *)
(* reads the task and the moment it writes it back, so a dispatch is two   *)
(* actions here: BeginDispatch keeps the task as it was read in snapshot,  *)
(* and SubmissionAccepted or SubmissionRefused writes that old record      *)
(* back over whatever the task has become.  Everything else the program    *)
(* does to these variables is synchronous, hence one action.               *)
(***************************************************************************)
EXTENDS TaskStateMachine

CONSTANTS
  Tasks,              \* task ids
  JobIds,             \* the job ids createId may return (fresh ones: bound on dispatches)
  NoTask, NoJob, NoCount,  \* absent values
  Selectable,         \* worker types a dispatch request may select
  MaxGlobal,          \* CONCURRENCY_GLOBAL
  MaxPerWorker,       \* CONCURRENCY_PER_WORKER
  MaxRetries,         \* default max_retries of each stage
  MaxReworkAttempts,  \* MAX_REWORK_ATTEMPTS
  ReportedCounts      \* the retry_count values a worker result may carry

ASSUME ConstantsAssumption ==
  /\ NoTask \notin Tasks
  /\ NoJob \notin JobIds
  /\ NoCount \notin Nat
  /\ IsFiniteSet(JobIds)
  /\ Selectable \subseteq WorkerTypes
  /\ MaxGlobal \in Nat /\ MaxPerWorker \in Nat
  /\ MaxRetries \in [Stages -> Nat]
  /\ MaxReworkAttempts \in Nat
  /\ ReportedCounts \subseteq Nat

VARIABLES
  tasks,        \* TaskService.tasks: state, active_job_id and rework_context
  jobs,         \* JobService.jobs
  leases,       \* LeaseManager.leases: the jobs that hold one
  slots,        \* ConcurrencyManager.activeJobs: the jobs that hold one
  retries,      \* JobService.retryTracker, per task and stage
  granted,      \* history: the retries each task and stage was really given
  submitting,   \* dispatch calls that await WorkerExecutor.submitJob
  snapshot,     \* the task each such call read before it awaited (NewTask for the others)
  polling,      \* pollJobCompletion loops under way
  finalized     \* history: jobs for which finalizeJob has run

vars == <<tasks, jobs, leases, slots, retries, granted, submitting, snapshot, polling, finalized>>

-----------------------------------------------------------------------------
(* Types *)

NoRework == [stage |-> "none", attempt |-> 0]
Rework == [stage : Stages \union {"none"}, attempt : 0 .. MaxReworkAttempts]
Task == [state : TaskStates, active : JobIds \union {NoJob}, rework : Rework]
NewTask == [state |-> "queued", active |-> NoJob, rework |-> NoRework]

JobStatus == {"unused", "pending", "completed", "failed"}
Job == [task : Tasks \union {NoTask}, stage : Stages \union {"none"},
        worker : WorkerTypes \union {"none"}, status : JobStatus, submitted : BOOLEAN]
UnusedJob == [task |-> NoTask, stage |-> "none", worker |-> "none",
              status |-> "unused", submitted |-> FALSE]

(* A worker result, as far as its handling tells results apart.  The last  *)
(* four kinds fail validation whatever the stage: a malformed record, a    *)
(* policy violation or one that needs a person, output the stage may not   *)
(* return, the typed_ref of another task.  "count" is the retry_count the  *)
(* worker reported, if it did.                                             *)
Verdicts == {"none", "accept", "rework"}
Results ==
  [kind : {"succeeded", "blocked", "failed_logic"}, verdict : Verdicts, count : {NoCount}]
  \union [kind : {"failed_transient"}, verdict : Verdicts, count : ReportedCounts \union {NoCount}]
  \union [kind : {"malformed", "denied", "off_stage", "wrong_ref"}, verdict : {"none"}, count : {NoCount}]

(* What becomes of the result pollJobCompletion makes up when the worker   *)
(* gave none: it is validated like any other, and its text, or documents   *)
(* of the task that went stale, make it an authority conflict.             *)
PollFailures ==
  [kind : {"failed_transient", "denied"}, verdict : {"none"}, count : {NoCount}]

(* The retries of a stage: how often one was granted, counted up to one    *)
(* more than the policy allows, and whether a worker ever reported a count *)
(* below the tracked one.                                                  *)
Granted == [times : Nat, lowered : BOOLEAN]
NothingGranted == [times |-> 0, lowered |-> FALSE]

(* The acceptance stage validates the verdict before it looks at the       *)
(* status: without one even a failure is output the stage may not return.  *)
Validated(job, result) ==
  IF /\ job.stage = "acceptance" /\ result.verdict = "none"
     /\ result.kind \in {"succeeded", "blocked", "failed_logic", "failed_transient"}
    THEN "off_stage"
    ELSE result.kind

-----------------------------------------------------------------------------
(* What a result of job j changes, on the part of the store it can reach:  *)
(* its task, the retry counter of its stage, its lease and its slot.  An   *)
(* exception leaves "threw" behind, with the changes made before it.       *)

View == [task : Task, tries : Nat, granted : Granted, leased : BOOLEAN, slotted : BOOLEAN,
         settled : BOOLEAN, threw : BOOLEAN]

(* Mutant: the transition is not validated. *)
MoveUnchecked(v, task, to) == [v EXCEPT !.task = [task EXCEPT !.state = to]]

(* transitionTask: task is the record to store, from the state it is in. *)
Move(v, task, to) ==
  IF CanTransition(task.state, to)
    THEN [v EXCEPT !.task = [task EXCEPT !.state = to]]
    ELSE [v EXCEPT !.threw = TRUE]

(* Mutants: the lease, or the slot, is forgotten. *)
FinalizeKeepsLease(v) ==
  IF v.threw THEN v ELSE [v EXCEPT !.slotted = FALSE, !.settled = TRUE]

FinalizeKeepsSlot(v) ==
  IF v.threw THEN v ELSE [v EXCEPT !.leased = FALSE, !.settled = TRUE]

(* finalizeJob: after the transition, so not reached when it threw. *)
Finalize(v) ==
  IF v.threw THEN v
  ELSE [v EXCEPT !.leased = FALSE, !.slotted = FALSE, !.settled = TRUE]

SuccessState(stage) == IF stage = "plan" THEN "planned" ELSE "dev_completed"

(* An accepting verdict leaves the task in its state for the manual gate. *)
Succeed(v, job, verdict) ==
  IF job.stage # "acceptance"
    THEN Finalize(Move(v, v.task, SuccessState(job.stage)))
    ELSE IF verdict = "rework"
           THEN Finalize(Move(v, v.task, "rework_required"))
           ELSE Finalize(v)

GrantOne(times, stage) == IF times > MaxRetries[stage] THEN times ELSE times + 1

(* The counter is set before the transition is tried, the lease released after. *)
Retry(v, job, count) ==
  LET lowered == v.granted.lowered \/ count < v.tries
      known   == [times |-> v.granted.times, lowered |-> lowered]
      given   == [times |-> GrantOne(v.granted.times, job.stage), lowered |-> lowered]
      w == Move([v EXCEPT !.tries = count + 1, !.granted = known],
                v.task, StageToActiveState[job.stage])
  IN  IF w.threw THEN w ELSE [w EXCEPT !.leased = FALSE, !.granted = given]

(* Here the lease goes before the transition is tried. *)
Failover(v, job) ==
  Move([v EXCEPT !.leased = FALSE], v.task, StageToActiveState[job.stage])

(* Mutant: one attempt too many. *)
FinalFailureLate(v, job) ==
  LET previous == IF v.task.rework.stage = job.stage THEN v.task.rework.attempt ELSE 0
      reworked == [v.task EXCEPT !.rework = [stage |-> job.stage, attempt |-> previous + 1]]
  IN  IF previous > MaxReworkAttempts
        THEN Finalize(Move(v, v.task, "blocked"))
        ELSE Finalize(Move(v, reworked, "rework_required"))

FinalFailure(v, job) ==
  LET previous == IF v.task.rework.stage = job.stage THEN v.task.rework.attempt ELSE 0
      reworked == [v.task EXCEPT !.rework = [stage |-> job.stage, attempt |-> previous + 1]]
  IN  IF previous >= MaxReworkAttempts
        THEN Finalize(Move(v, v.task, "blocked"))
        ELSE Finalize(Move(v, reworked, "rework_required"))

(* Mutant: the limit itself is still retried. *)
FailOneMore(v, job, result) ==
  LET count == IF result.count = NoCount THEN v.tries ELSE result.count
  IN  IF result.kind = "failed_transient" /\ count <= MaxRetries[job.stage]
        THEN Retry(v, job, count)
        ELSE FinalFailure(v, job)

Fail(v, job, result) ==
  LET count == IF result.count = NoCount THEN v.tries ELSE result.count
  IN  CASE FailoverWorker(job.stage, job.worker) # "none" -> Failover(v, job)
        [] /\ FailoverWorker(job.stage, job.worker) = "none"
           /\ result.kind = "failed_transient"
           /\ count < MaxRetries[job.stage]               -> Retry(v, job, count)
        [] OTHER                                          -> FinalFailure(v, job)

(* A result that fails validation: only a malformed one may be repaired by *)
(* a retry, only a policy violation waits for a person.                    *)
ValidationFailure(v, job, kind) ==
  IF kind = "malformed" /\ v.tries < MaxRetries[job.stage]
    THEN Retry(v, job, v.tries)
    ELSE Finalize(Move(v, v.task, IF kind = "denied" THEN "blocked" ELSE "rework_required"))

(* Neither the lease nor the slot is given back. *)
BlockedResult(v) == Move(v, v.task, "blocked")

(* ResultOrchestrator.applyResult, called by the store for the active job. *)
Handle(v, job, result) ==
  LET kind == Validated(job, result)
  IN  CASE kind = "wrong_ref" -> [v EXCEPT !.threw = TRUE]
        [] kind \in {"malformed", "denied", "off_stage"} -> ValidationFailure(v, job, kind)
        [] kind = "blocked"   -> BlockedResult(v)
        [] kind = "succeeded" -> Succeed(v, job, result.verdict)
        [] OTHER              -> Fail(v, job, result)

ViewOf(j) ==
  [task |-> tasks[jobs[j].task], tries |-> retries[jobs[j].task][jobs[j].stage],
   granted |-> granted[jobs[j].task][jobs[j].stage], leased |-> j \in leases, slotted |-> j \in slots,
   settled |-> j \in finalized, threw |-> FALSE]

Member(S, j, in) == IF in THEN S \union {j} ELSE S \ {j}

Install(j, v) ==
  /\ tasks' = [tasks EXCEPT ![jobs[j].task] = v.task]
  /\ retries' = [retries EXCEPT ![jobs[j].task][jobs[j].stage] = v.tries]
  /\ granted' = [granted EXCEPT ![jobs[j].task][jobs[j].stage] = v.granted]
  /\ leases' = Member(leases, j, v.leased)
  /\ slots' = Member(slots, j, v.slotted)
  /\ finalized' = Member(finalized, j, v.settled)

(* Mutant: the result of any job of the task is applied. *)
IsKnown(j) == jobs[j].status # "unused"

(* applyResult ignores a result unless its job is the task's active one. *)
IsActive(j) == jobs[j].status # "unused" /\ tasks[jobs[j].task].active = j

-----------------------------------------------------------------------------
(* Dispatch *)

OfWorker(S, w) == {j \in S : jobs[j].worker = w}

(* Mutant: off by one at the limit. *)
CanAcceptOneMore(w) ==
  /\ Cardinality(slots) <= MaxGlobal
  /\ Cardinality(OfWorker(slots, w)) <= MaxPerWorker

CanAccept(w) ==
  /\ Cardinality(slots) < MaxGlobal
  /\ Cardinality(OfWorker(slots, w)) < MaxPerWorker

(* The synchronous part of dispatch: the job is stored, the lease and the  *)
(* slot are taken, and the task is remembered as it is now.                *)
BeginDispatch(t, j, w) ==
  LET stage == AllowedDispatchStage[tasks[t].state]
  IN  /\ stage # "none"
      /\ CanAccept(w)
      /\ jobs[j].status = "unused"
      /\ jobs' = [jobs EXCEPT ![j] = [task |-> t, stage |-> stage, worker |-> w,
                                      status |-> "pending", submitted |-> FALSE]]
      /\ leases' = leases \union {j}
      /\ slots' = slots \union {j}
      /\ submitting' = submitting \union {j}
      /\ snapshot' = [snapshot EXCEPT ![j] = tasks[t]]
      /\ UNCHANGED <<tasks, retries, granted, polling, finalized>>

(* A worker without the stage's capabilities: the task stops at once. *)
DispatchIncapable(t) ==
  /\ AllowedDispatchStage[tasks[t].state] # "none"
  /\ tasks' = [tasks EXCEPT ![t].state = "blocked"]
  /\ UNCHANGED <<jobs, leases, slots, retries, granted, submitting, snapshot, polling, finalized>>

(* The worker took the job.  The task written back is the remembered one. *)
SubmissionAccepted(j) ==
  /\ j \in submitting
  /\ submitting' = submitting \ {j}
  /\ jobs' = [jobs EXCEPT ![j].submitted = TRUE]
  /\ polling' = polling \union {j}
  /\ tasks' = [tasks EXCEPT ![jobs[j].task] =
                 [snapshot[j] EXCEPT !.active = j,
                                     !.state = StageToActiveState[jobs[j].stage]]]
  /\ snapshot' = [snapshot EXCEPT ![j] = NewTask]
  /\ UNCHANGED <<leases, slots, retries, granted, finalized>>

(* Mutant: the refused job is recorded as the active one. *)
SubmissionRefusedKeepsJob(j) ==
  /\ j \in submitting
  /\ submitting' = submitting \ {j}
  /\ tasks' = [tasks EXCEPT ![jobs[j].task] = [snapshot[j] EXCEPT !.state = "blocked", !.active = j]]
  /\ snapshot' = [snapshot EXCEPT ![j] = NewTask]
  /\ UNCHANGED <<jobs, leases, slots, retries, granted, polling, finalized>>

(* The worker refused.  When the backend is unavailable or denied by       *)
(* policy the remembered task is blocked; any other failure only throws.   *)
SubmissionRefused(j) ==
  /\ j \in submitting
  /\ submitting' = submitting \ {j}
  /\ \/ tasks' = [tasks EXCEPT ![jobs[j].task] = [snapshot[j] EXCEPT !.state = "blocked"]]
     \/ UNCHANGED tasks
  /\ snapshot' = [snapshot EXCEPT ![j] = NewTask]
  /\ UNCHANGED <<jobs, leases, slots, retries, granted, polling, finalized>>

-----------------------------------------------------------------------------
(* Results *)

(* POST /results: anybody may deliver any result of the active job, at any *)
(* time and any number of times.                                           *)
PostResult(j, result) ==
  /\ IsActive(j)
  /\ Install(j, Handle(ViewOf(j), jobs[j], result))
  /\ UNCHANGED <<jobs, submitting, snapshot, polling>>

(* pollJobCompletion after waitForJob returned: the job is completed, its  *)
(* result applied; if that throws the job is failed after all and the      *)
(* made-up failure is applied, whose own exception is only logged.         *)
PollReturns(j, result) ==
  LET first  == Handle(ViewOf(j), jobs[j], result)
      again  == [first EXCEPT !.threw = FALSE]
      threw  == IsActive(j) /\ first.threw
  IN  /\ j \in polling
      /\ polling' = polling \ {j}
      /\ jobs' = [jobs EXCEPT ![j].status = IF threw THEN "failed" ELSE "completed"]
      /\ CASE threw         -> \E f \in PollFailures : Install(j, Handle(again, jobs[j], f))
           [] ~IsActive(j)  -> UNCHANGED <<tasks, retries, granted, leases, slots, finalized>>
           [] OTHER         -> Install(j, first)
      /\ UNCHANGED <<submitting, snapshot>>

(* Mutant: the job record keeps its old status. *)
PollThrowsSilently(j) ==
  /\ j \in polling
  /\ polling' = polling \ {j}
  /\ IF IsActive(j)
       THEN \E f \in PollFailures : Install(j, Handle(ViewOf(j), jobs[j], f))
       ELSE UNCHANGED <<tasks, retries, granted, leases, slots, finalized>>
  /\ UNCHANGED <<jobs, submitting, snapshot>>

(* waitForJob threw: time-out, unknown job, worker failure. *)
PollThrows(j) ==
  /\ j \in polling
  /\ polling' = polling \ {j}
  /\ jobs' = [jobs EXCEPT ![j].status = "failed"]
  /\ IF IsActive(j)
       THEN \E f \in PollFailures : Install(j, Handle(ViewOf(j), jobs[j], f))
       ELSE UNCHANGED <<tasks, retries, granted, leases, slots, finalized>>
  /\ UNCHANGED <<submitting, snapshot>>

-----------------------------------------------------------------------------
(* Operators *)

Cancel(t) ==
  /\ tasks[t].state \notin TerminalStates
  /\ tasks' = [tasks EXCEPT ![t].state = "cancelled"]
  /\ UNCHANGED <<jobs, leases, slots, retries, granted, submitting, snapshot, polling, finalized>>

(* POST /transitions.  The acceptance, integration and publish handlers    *)
(* move a task by the same table: to this module they are such a step.     *)
RecordTransition(t, to) ==
  /\ CanTransition(tasks[t].state, to)
  /\ tasks' = [tasks EXCEPT ![t].state = to]
  /\ UNCHANGED <<jobs, leases, slots, retries, granted, submitting, snapshot, polling, finalized>>

-----------------------------------------------------------------------------
Init ==
  /\ tasks = [t \in Tasks |-> NewTask]
  /\ jobs = [j \in JobIds |-> UnusedJob]
  /\ leases = {} /\ slots = {} /\ submitting = {} /\ polling = {} /\ finalized = {}
  /\ retries = [t \in Tasks |-> [g \in Stages |-> 0]]
  /\ granted = [t \in Tasks |-> [g \in Stages |-> NothingGranted]]
  /\ snapshot = [j \in JobIds |-> NewTask]

TaskStep ==
  \E t \in Tasks :
    \/ \E j \in JobIds, w \in Selectable : BeginDispatch(t, j, w)
    \/ DispatchIncapable(t)
    \/ Cancel(t)
    \/ \E to \in TaskStates : RecordTransition(t, to)

JobStep ==
  \E j \in JobIds :
    \/ SubmissionAccepted(j)
    \/ SubmissionRefused(j)
    \/ \E r \in Results : PostResult(j, r) \/ PollReturns(j, r)
    \/ PollThrows(j)

Next == TaskStep \/ JobStep

Spec == Init /\ [][Next]_vars

(* submitJob and waitForJob are bounded by time-outs, so every dispatch    *)
(* call and every poll comes back; nobody has to post results or cancel.   *)
SubmissionSettles(j) == SubmissionAccepted(j) \/ SubmissionRefused(j)
PollSettles(j) == PollThrows(j) \/ \E r \in Results : PollReturns(j, r)
FairSpec ==
  /\ Spec
  /\ \A j \in JobIds : WF_vars(SubmissionSettles(j)) /\ WF_vars(PollSettles(j))

-----------------------------------------------------------------------------
(* Properties *)

(* Types; the rework attempt recorded with a task stays within             *)
(* MAX_REWORK_ATTEMPTS, whatever sequence of failures and duplicates.      *)
TypeOK ==
  /\ tasks \in [Tasks -> Task]
  /\ jobs \in [JobIds -> Job]
  /\ leases \subseteq JobIds /\ slots \subseteq JobIds
  /\ submitting \subseteq JobIds /\ polling \subseteq JobIds /\ finalized \subseteq JobIds
  /\ retries \in [Tasks -> [Stages -> Nat]]
  /\ granted \in [Tasks -> [Stages -> Granted]]
  /\ snapshot \in [JobIds -> Task]

(* Nobody executes outside the concurrency limits: a job that holds a      *)
(* lease still holds its slot, however retries, failovers, exceptions and  *)
(* duplicate results interleave with the releases.                         *)
LeaseWithinSlot == leases \subseteq slots

(* What finalizeJob gave back stays given back: no later result of the     *)
(* same job, and no dispatch that was in flight, takes it again.           *)
FinalizedHoldsNothing == finalized \intersect (leases \union slots) = {}

(* While submitJob is awaited nothing can take the job's lease or slot     *)
(* away, because no task can name it as its active job yet.                *)
InFlightIsIntact ==
  \A j \in submitting :
    /\ jobs[j].status = "pending" /\ ~jobs[j].submitted
    /\ j \in leases /\ j \in slots
    /\ \A t \in Tasks : tasks[t].active # j

(* active_job_id never points at a job of another task, at a job that does *)
(* not exist, or at one no worker took - also after a stale task record    *)
(* has been written back.                                                  *)
ActiveJobIsItsOwn ==
  \A t \in Tasks :
    LET j == tasks[t].active
    IN  j # NoJob => jobs[j].task = t /\ jobs[j].submitted

(* canAccept and recordStart belong to one synchronous block, so no number *)
(* of concurrent dispatch calls exceeds either limit.                      *)
CapacityRespected ==
  /\ Cardinality(slots) <= MaxGlobal
  /\ \A w \in WorkerTypes : Cardinality(OfWorker(slots, w)) <= MaxPerWorker

(* No stage of a task is really retried more often than its policy allows, *)
(* however results are repeated and handlers throw between the counter and *)
(* the transition - unless a worker's own retry_count, smaller than the    *)
(* tracked one, took the tracked one's place.                              *)
RetriesWithinPolicy ==
  \A t \in Tasks, g \in Stages :
    granted[t][g].times > MaxRetries[g] => granted[t][g].lowered

DispatchInFlight(t) == \E j \in submitting : jobs[j].task = t

Settled(t) == tasks[t].state \in TerminalStates /\ ~DispatchInFlight(t)

(* A terminal task with no dispatch call still awaiting its worker is done *)
(* for good: no late or duplicate result, retry, failover or operator      *)
(* brings it back, and it is not dispatched again.                         *)
SettledIsForever == [][\A t \in Tasks : Settled(t) => Settled(t)' /\ tasks'[t].state = tasks[t].state]_vars

(* The only step that moves a task outside the table of allowed            *)
(* transitions is the return of a dispatch call that read it earlier.      *)
OnlyStaleDispatchSkipsTable ==
  [][\A t \in Tasks :
       \/ tasks'[t].state = tasks[t].state
       \/ CanTransition(tasks[t].state, tasks'[t].state)
       \/ \E j \in submitting \ submitting' : jobs[j].task = t]_vars

(* Every job a worker took ends as completed or failed, whatever becomes   *)
(* of its task meanwhile.                                                  *)
EveryJobConcludes ==
  \A j \in JobIds : jobs[j].submitted ~> jobs[j].status \in {"completed", "failed"}

-----------------------------------------------------------------------------
(* Statements of the documents that the code does not keep *)

(* docs/state-machine.md: cancelled, failed and published end a task.      *)
TerminalIsFinal ==
  [][\A t \in Tasks : tasks[t].state \in TerminalStates => tasks'[t].state = tasks[t].state]_vars

(* ADD_REQUIREMENTS.md: the retries of a job stay within the limit,        *)
(* whatever its results report.                                            *)
RetriesAreBounded ==
  \A t \in Tasks, g \in Stages : granted[t][g].times <= MaxRetries[g]
=============================================================================
