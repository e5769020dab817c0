--------------------------- MODULE CorePersistence ---------------------------
(***************************************************************************)
(* The control plane keeps its state in memory and writes it behind to     *)
(* Redis.  Every operation that changes a task schedules a pass over the   *)
(* whole state; passes run one after the other, task by task, with a       *)
(* compare-and-set on the task's version; the answer to a request waits    *)
(* for the passes scheduled so far and turns into an error if the last of  *)
(* them failed.  The process may crash between any two writes; the next    *)
(* one restores what Redis holds and blocks the tasks of unfinished jobs.  *)
(*                                                                         *)
(* One process.  What a task goes through is JobDispatch's and             *)
(* ReleaseFlow's subject: here an operation is what it does to the task's  *)
(* version, state and active job, and whether it schedules a pass.         *)
(***************************************************************************)
EXTENDS TaskStateMachine

CONSTANTS
  Tasks, JobIds, Keys,  \* task ids, job ids, publish idempotency keys
  None,                 \* an absent record or id
  Restored,             \* states in which tasks may be when the model starts
  Recorded,             \* states operators and release steps move tasks to
  MaxVersion,           \* bound on task versions
  MaxQueued             \* bound on scheduled passes

ASSUME PersistenceAssumption ==
  /\ Restored \subseteq TaskStates /\ Recorded \subseteq TaskStates
  /\ MaxVersion \in Nat /\ MaxQueued \in Nat \ {0}

VARIABLES
  up,        \* the process runs
  tasks,     \* TaskService.tasks
  jobs,      \* JobService.jobs
  keys,      \* publishIdempotencyKeys
  calls,     \* per dispatch call awaiting submitJob: the task it read
  polls,     \* jobs with a background poll
  pass,      \* the persistCoreState that runs
  queued,    \* passes of persistenceQueue that have not begun
  outcome,   \* the last pass succeeded
  error,     \* storageError is set
  request,   \* one request whose answer is followed
  redis,     \* what Redis holds
  same,      \* tasks of which Redis holds the very record memory holds
  fresh,     \* job ids createId has not returned yet
  answered,  \* history: what successful answers vouched for
  revived    \* history: tasks a dispatch call overwrote with an older record

process == <<up, tasks, jobs, keys, calls, polls, same>>
queue == <<pass, queued, outcome, error>>
history == <<fresh, revived>>
vars == <<process, queue, request, redis, answered, history>>

-----------------------------------------------------------------------------
(* Types *)

Task == [state : TaskStates, version : 0 .. MaxVersion, active : JobIds \union {None}]
(* A job is "settled" when its status is completed or failed.              *)
Job == [task : Tasks, stage : Stages, status : {"pending", "settled"}]

ASSUME NoneIsNoRecord == None \notin JobIds \union Task \union Job

TaskMap == [Tasks -> Task \union {None}]
JobMap == [JobIds -> Job \union {None}]

(* What a reader of the store can rely on: the versions reached (0 for no  *)
(* task), the jobs that are over, the keys that are spent.                 *)
Promise == [tasks : [Tasks -> 0 .. MaxVersion + 1], jobs : SUBSET JobIds, keys : SUBSET Keys]
Nothing == [tasks |-> [t \in Tasks |-> 0], jobs |-> {}, keys |-> {}]

Pass == [at : {"idle", "tasks", "list", "jobs", "keys"}, visited : SUBSET Tasks,
         task : Tasks \union {None}, left : UNION {[S -> Job] : S \in SUBSET JobIds}]
Idle == [at |-> "idle", visited |-> {}, task |-> None, left |-> [j \in {} |-> None]]

Request == [at : {"none", "handled", "waiting"}, ahead : 0 .. MaxQueued + 1, promise : Promise]
NoRequest == [at |-> "none", ahead |-> 0, promise |-> Nothing]

Exists(t) == tasks[t] # None
Settled(job) == job # None /\ job.status = "settled"
Pending(job) == job # None /\ job.status = "pending"
Reached(task) == IF task = None THEN 0 ELSE task.version + 1

Vouched(taskMap, jobMap, keySet) ==
  [tasks |-> [t \in Tasks |-> Reached(taskMap[t])],
   jobs |-> {j \in JobIds : Settled(jobMap[j])}, keys |-> keySet]

Join(p, q) ==
  [tasks |-> [t \in Tasks |-> IF p.tasks[t] < q.tasks[t] THEN q.tasks[t] ELSE p.tasks[t]],
   jobs |-> p.jobs \union q.jobs, keys |-> p.keys \union q.keys]

(* p holds of q, except for the versions of the tasks in S. *)
Within(p, q, S) ==
  /\ \A t \in Tasks \ S : p.tasks[t] <= q.tasks[t]
  /\ p.jobs \subseteq q.jobs /\ p.keys \subseteq q.keys

-----------------------------------------------------------------------------
(* Operations in memory *)

Put(t, task) ==
  /\ task.version <= MaxVersion
  /\ tasks' = [tasks EXCEPT ![t] = task]
  /\ same' = [same EXCEPT ![t] = FALSE]

(* scheduleCorePersistence.  A handler calls it once or several times in a *)
(* row; passes over an unchanged memory count as one.                      *)
Schedule == queued < MaxQueued /\ queued' = queued + 1 /\ UNCHANGED <<pass, outcome, error>>

(* The request is the one that is followed, or it is not. *)
Handled ==
  \/ UNCHANGED request
  \/ /\ request.at = "none"
     /\ request' = [at |-> "handled", ahead |-> 0, promise |-> Vouched(tasks', jobs', keys')]

CreateTask(t) ==
  /\ up /\ ~Exists(t) /\ redis.tasks[t] = None
  /\ Put(t, [state |-> "queued", version |-> 0, active |-> None])
  /\ Schedule
  /\ UNCHANGED <<up, jobs, keys, calls, polls, redis, answered, history>>
  /\ Handled

(* transitionTask by cancel, integrate, completeIntegrate, approvals,      *)
(* completions and recorded transitions.  completeAcceptance may store the *)
(* ticked checklist first, which is a version of its own.                  *)
Transition(t, to) ==
  /\ up /\ Exists(t) /\ to \in Recorded /\ CanTransition(tasks[t].state, to)
  /\ \E by \in IF to = "accepted" THEN {1, 2} ELSE {1} :
       Put(t, [tasks[t] EXCEPT !.state = to, !.version = @ + by])
  /\ Schedule
  /\ UNCHANGED <<up, jobs, keys, calls, polls, redis, answered, history>>
  /\ Handled

(* docs/resolve, docs/ack, docs/stale-check, tracker/link: updateTask      *)
(* raises the version and schedules nothing.                               *)
UpdateTask(t) ==
  /\ up /\ Exists(t)
  /\ Put(t, [tasks[t] EXCEPT !.version = @ + 1])
  /\ UNCHANGED <<up, jobs, keys, calls, polls, queue, request, redis, answered, history>>

(* Evidence acknowledged, a retrospective generated: nothing of a task     *)
(* changes, but a pass is scheduled.                                       *)
AuditOnly ==
  /\ up /\ Schedule
  /\ UNCHANGED <<process, redis, answered, history>>
  /\ Handled

(* POST /publish with a key that is new: started, or denied by policy. *)
Publish(t, k, to) ==
  /\ up /\ Exists(t) /\ tasks[t].state = "integrated" /\ k \notin keys
  /\ to \in {"publish_pending_approval", "publishing", "blocked"}
  /\ keys' = keys \union {k}
  /\ Put(t, [tasks[t] EXCEPT !.state = to, !.version = @ + 1])
  /\ Schedule
  /\ UNCHANGED <<up, jobs, calls, polls, redis, answered, history>>
  /\ Handled

(* dispatch up to its await: the job is stored as pending, the task is     *)
(* remembered as it is now.                                                *)
BeginDispatch(t, j) ==
  /\ up /\ Exists(t) /\ j \in fresh
  /\ AllowedDispatchStage[tasks[t].state] # "none"
  /\ jobs' = [jobs EXCEPT ![j] = [task |-> t, stage |-> AllowedDispatchStage[tasks[t].state],
                                  status |-> "pending"]]
  /\ calls' = [calls EXCEPT ![j] = tasks[t]]
  /\ fresh' = fresh \ {j}
  /\ Schedule
  /\ UNCHANGED <<up, tasks, keys, polls, same, request, redis, answered, revived>>

(* A dispatch call stores the record it remembers over the one there is. *)
WriteBack(j, task) ==
  LET t == jobs[j].task
  IN  /\ Put(t, task)
      /\ revived' = IF tasks[t] = calls[j] THEN revived ELSE revived \union {t}
      /\ calls' = [calls EXCEPT ![j] = None]

SubmissionAccepted(j) ==
  /\ up /\ calls[j] # None
  /\ WriteBack(j, [state |-> StageToActiveState[jobs[j].stage],
                   version |-> calls[j].version + 1, active |-> j])
  /\ polls' = polls \union {j}
  /\ Schedule
  /\ UNCHANGED <<up, jobs, keys, redis, answered, fresh>>
  /\ Handled

(* Either way dispatch throws, and the job stays pending. *)
SubmissionRefused(j) ==
  /\ up /\ calls[j] # None
  /\ \/ /\ WriteBack(j, [calls[j] EXCEPT !.state = "blocked", !.version = @ + 1])
        /\ Schedule
     \/ /\ calls' = [calls EXCEPT ![j] = None]
        /\ UNCHANGED <<tasks, same, queue, revived>>
  /\ UNCHANGED <<up, jobs, keys, polls, request, redis, answered, fresh>>

(* Where the results of a stage may move a task; "stay" is acceptance's    *)
(* accepting verdict.                                                      *)
ResultMoves ==
  [g \in Stages |->
     {StageToActiveState[g], "rework_required", "blocked"} \union
     (CASE g = "plan" -> {"planned"} [] g = "dev" -> {"dev_completed"} [] OTHER -> {"stay"})]

CanHandle(task, stage, to) ==
  to \in ResultMoves[stage] /\ (to = "stay" \/ CanTransition(task.state, to))

(* applyTaskUpdate raises the version, and so does the transition after it. *)
WithResult(task, to) ==
  IF to = "stay" THEN [task EXCEPT !.version = @ + 1]
                 ELSE [task EXCEPT !.state = to, !.version = @ + 2]

IsActive(j) == jobs[j] # None /\ Exists(jobs[j].task) /\ tasks[jobs[j].task].active = j

(* POST /results.  The job itself stays as it is. *)
PostResult(j, to) ==
  /\ up /\ IsActive(j)
  /\ CanHandle(tasks[jobs[j].task], jobs[j].stage, to)
  /\ Put(jobs[j].task, WithResult(tasks[jobs[j].task], to))
  /\ Schedule
  /\ UNCHANGED <<up, jobs, keys, calls, polls, redis, answered, history>>
  /\ Handled

(* pollJobCompletion, whichever way waitForJob ends: the job is over, and  *)
(* its result is applied, ignored or refused with an exception.            *)
PollEnds(j, to) ==
  /\ up /\ j \in polls
  /\ polls' = polls \ {j}
  /\ jobs' = [jobs EXCEPT ![j].status = "settled"]
  /\ IF IsActive(j) /\ CanHandle(tasks[jobs[j].task], jobs[j].stage, to)
       THEN Put(jobs[j].task, WithResult(tasks[jobs[j].task], to)) /\ Schedule
       ELSE UNCHANGED <<tasks, same, queue>>
  /\ UNCHANGED <<up, keys, calls, request, redis, answered, history>>

-----------------------------------------------------------------------------
(* Answers *)

(* The followed request gets its answer, a success or an error. *)
Answer(ok) ==
  /\ request' = NoRequest
  /\ answered' = IF ok THEN Join(answered, request.promise) ELSE answered

(* Mutant: the answer does not wait for the passes under way. *)
FlushAtOnce ==
  /\ up /\ request.at = "handled"
  /\ Answer(outcome /\ ~error)
  /\ UNCHANGED <<process, queue, redis, history>>

(* The onSend hook: flushCorePersistence awaits the queue as it is now. *)
Flush ==
  /\ up /\ request.at = "handled"
  /\ IF pass.at = "idle" /\ queued = 0
       THEN Answer(outcome /\ ~error)
       ELSE /\ request' = [request EXCEPT !.at = "waiting",
                             !.ahead = IF pass.at = "idle" THEN queued ELSE queued + 1]
            /\ UNCHANGED answered
  /\ UNCHANGED <<process, queue, redis, history>>

(* The preHandler hook of any request finds Redis healthy or not. *)
AssertStorageAvailable ==
  /\ up /\ error' = ~error
  /\ UNCHANGED <<process, pass, queued, outcome, request, redis, answered, history>>

-----------------------------------------------------------------------------
(* persistCoreState, one write at a time *)

StartPass ==
  /\ up /\ pass.at = "idle" /\ queued > 0
  /\ queued' = queued - 1
  /\ pass' = [Idle EXCEPT !.at = "tasks"]
  /\ UNCHANGED <<process, outcome, error, request, redis, answered, history>>

(* TASK_CAS_SCRIPT. *)
CasAccepts(t) ==
  \/ redis.tasks[t] = None
  \/ redis.tasks[t].version = tasks[t].version /\ same[t]
  \/ redis.tasks[t].version + 1 = tasks[t].version

(* The pass is over, well or not: whoever waits for it is answered. *)
Notify(ok) ==
  CASE request.at # "waiting" -> UNCHANGED <<request, answered>>
    [] request.at = "waiting" /\ request.ahead = 1 -> Answer(ok /\ ~error)
    [] OTHER -> request' = [request EXCEPT !.ahead = @ - 1] /\ UNCHANGED answered

(* Mutants: a failure is not passed on; the wait outlasts the pass that    *)
(* was waited for.                                                         *)
PassEndsQuietly(ok) ==
  /\ pass' = Idle /\ outcome' = ok
  /\ IF ok THEN Notify(ok) ELSE UNCHANGED <<request, answered>>
PassEndsUncounted(ok) ==
  /\ pass' = Idle /\ outcome' = ok
  /\ request' = [request EXCEPT !.ahead = IF request.at = "waiting" THEN @ - 1 ELSE @]
  /\ UNCHANGED answered

PassEnds(ok) == pass' = Idle /\ outcome' = ok /\ Notify(ok)

(* A VERSION_CONFLICT ends the pass; storageError is not set. *)
WriteTask(t) ==
  /\ pass.at = "tasks" /\ Exists(t) /\ t \notin pass.visited
  /\ IF CasAccepts(t)
       THEN /\ redis' = [redis EXCEPT !.tasks[t] = tasks[t]]
            /\ same' = [same EXCEPT ![t] = TRUE]
            /\ pass' = [pass EXCEPT !.at = "list", !.visited = @ \union {t}, !.task = t]
            /\ UNCHANGED <<outcome, request, answered>>
       ELSE PassEnds(FALSE) /\ UNCHANGED <<redis, same>>
  /\ UNCHANGED <<up, tasks, jobs, keys, calls, polls, queued, error, history>>

(* getJobsForTask copies the list; the records in it are today's. *)
ListJobs ==
  /\ pass.at = "list"
  /\ pass' = [pass EXCEPT !.at = "jobs",
                !.left = [j \in {i \in JobIds : jobs[i] # None /\ jobs[i].task = pass.task} |-> jobs[j]]]
  /\ UNCHANGED <<process, queued, outcome, error, request, redis, answered, history>>

WriteJob(j) ==
  /\ pass.at = "jobs" /\ j \in DOMAIN pass.left
  /\ redis' = [redis EXCEPT !.jobs[j] = pass.left[j]]
  /\ pass' = [pass EXCEPT !.left = [i \in DOMAIN pass.left \ {j} |-> pass.left[i]]]
  /\ UNCHANGED <<process, queued, outcome, error, request, answered, history>>

NextTask ==
  /\ pass.at = "jobs" /\ DOMAIN pass.left = {}
  /\ pass' = [pass EXCEPT !.at = "tasks", !.task = None, !.left = Idle.left]
  /\ UNCHANGED <<process, queued, outcome, error, request, redis, answered, history>>

(* The loop over the map sees the tasks that were added meanwhile. *)
TasksWritten ==
  /\ pass.at = "tasks" /\ \A t \in Tasks : Exists(t) => t \in pass.visited
  /\ pass' = [pass EXCEPT !.at = "keys"]
  /\ UNCHANGED <<process, queued, outcome, error, request, redis, answered, history>>

WriteKey(k) ==
  /\ pass.at = "keys" /\ k \in keys \ redis.keys
  /\ redis' = [redis EXCEPT !.keys = @ \union {k}]
  /\ UNCHANGED <<process, queue, request, answered, history>>

PassSucceeds ==
  /\ pass.at = "keys" /\ keys \subseteq redis.keys
  /\ PassEnds(TRUE)
  /\ UNCHANGED <<process, queued, error, redis, history>>

(* Redis does not answer: storageError is set before anyone is told. *)
PassBreaks ==
  /\ pass.at # "idle"
  /\ error' = TRUE
  /\ PassEnds(FALSE)
  /\ UNCHANGED <<process, queued, redis, history>>

-----------------------------------------------------------------------------
(* Crash and restart *)

Absent(S) == [x \in S |-> None]

Crash ==
  /\ up
  /\ up' = FALSE
  /\ tasks' = Absent(Tasks) /\ jobs' = Absent(JobIds) /\ keys' = {}
  /\ calls' = Absent(JobIds) /\ polls' = {}
  /\ same' = [t \in Tasks |-> FALSE]
  /\ pass' = Idle /\ queued' = 0 /\ outcome' = TRUE /\ error' = FALSE
  /\ request' = NoRequest
  /\ UNCHANGED <<redis, answered, history>>

(* recoverRestoredActiveJobs: pending jobs are another process's. *)
Orphans == {j \in JobIds : Pending(redis.jobs[j])}

(* Tasks the restore blocks. *)
Interrupted ==
  {t \in Tasks : /\ redis.tasks[t] # None
                 /\ \E j \in Orphans : redis.jobs[j].task = t
                 /\ redis.tasks[t].state \notin {"blocked"} \union TerminalStates}

(* Mutant: only the jobs of the tasks that are blocked are closed. *)
RecoveredInPart ==
  [j \in JobIds |-> IF j \in Orphans /\ redis.jobs[j].task \in Interrupted
                      THEN [redis.jobs[j] EXCEPT !.status = "settled"] ELSE redis.jobs[j]]

Recovered == [j \in JobIds |-> IF j \in Orphans THEN [redis.jobs[j] EXCEPT !.status = "settled"]
                                               ELSE redis.jobs[j]]

(* Mutant: the keys are not read back. *)
RestoredKeysForgotten == {}

RestoredKeys == redis.keys

(* restoreCoreState. *)
Restart ==
  /\ ~up
  /\ \A t \in Interrupted : redis.tasks[t].version < MaxVersion
  /\ up' = TRUE
  /\ tasks' = [t \in Tasks |->
                 IF t \in Interrupted
                 THEN [state |-> "blocked", version |-> redis.tasks[t].version + 1, active |-> None]
                 ELSE redis.tasks[t]]
  /\ same' = [t \in Tasks |-> redis.tasks[t] # None /\ t \notin Interrupted]
  /\ jobs' = Recovered
  /\ keys' = RestoredKeys
  /\ queued' = IF Orphans = {} THEN 0 ELSE 1
  /\ UNCHANGED <<calls, polls, pass, outcome, error, request, redis, answered, history>>

-----------------------------------------------------------------------------
(* A process that has restored its tasks; their versions count from there. *)
Init ==
  /\ up = TRUE
  /\ tasks \in [Tasks -> {None} \union {[state |-> s, version |-> 0, active |-> None] : s \in Restored}]
  /\ jobs = Absent(JobIds) /\ keys = {} /\ calls = Absent(JobIds) /\ polls = {}
  /\ redis = [tasks |-> tasks, jobs |-> jobs, keys |-> {}]
  /\ same = [t \in Tasks |-> tasks[t] # None]
  /\ pass = Idle /\ queued = 0 /\ outcome = TRUE /\ error = FALSE
  /\ request = NoRequest
  /\ answered = Vouched(tasks, jobs, keys)
  /\ fresh = JobIds /\ revived = {}

Work ==
  \/ AuditOnly
  \/ \E t \in Tasks :
       \/ CreateTask(t) \/ UpdateTask(t)
       \/ \E to \in Recorded : Transition(t, to)
       \/ \E k \in Keys, to \in TaskStates : Publish(t, k, to)
       \/ \E j \in JobIds : BeginDispatch(t, j)
  \/ \E j \in JobIds :
       \/ SubmissionAccepted(j) \/ SubmissionRefused(j)
       \/ \E to \in TaskStates \union {"stay"} : PostResult(j, to) \/ PollEnds(j, to)

PassStep ==
  \/ StartPass \/ ListJobs \/ NextTask \/ TasksWritten \/ PassSucceeds
  \/ \E t \in Tasks : WriteTask(t)
  \/ \E j \in JobIds : WriteJob(j)
  \/ \E k \in Keys : WriteKey(k)

Next == Work \/ Flush \/ AssertStorageAvailable \/ PassStep \/ PassBreaks \/ Crash \/ Restart

Spec == Init /\ [][Next]_vars

(* Promises are run, and Redis answers each command, be it with an error. *)
FairSpec == Spec /\ WF_vars(Flush) /\ WF_vars(PassStep)

-----------------------------------------------------------------------------
(* Properties *)

(* Everything in its range, and a dead process keeps nothing. *)
TypeOK ==
  /\ tasks \in TaskMap /\ jobs \in JobMap /\ keys \subseteq Keys
  /\ calls \in [JobIds -> Task \union {None}] /\ polls \subseteq JobIds
  /\ up \in BOOLEAN /\ pass \in Pass
  /\ queued \in 0 .. MaxQueued /\ outcome \in BOOLEAN /\ error \in BOOLEAN
  /\ request \in Request /\ answered \in Promise
  /\ redis \in [tasks : TaskMap, jobs : JobMap, keys : SUBSET Keys]
  /\ same \in [Tasks -> BOOLEAN] /\ fresh \subseteq JobIds /\ revived \subseteq Tasks
  /\ ~up => polls = {} /\ queued = 0 /\ pass = Idle /\ request = NoRequest

(* What a successful answer vouched for is in Redis: the onSend hook waits *)
(* for the passes under way and reports the failure of the last.  A task a *)
(* dispatch call brought back to an older record is exempt.                *)
AnswersAreDurable ==
  Within(answered, Vouched(redis.tasks, redis.jobs, redis.keys), revived)

(* ... and the process that runs knows it, also after a restart.           *)
AnswersAreKnown == up => Within(answered, Vouched(tasks, jobs, keys), revived)

(* A task that waits for a pending job waits for one somebody watches: the *)
(* restore closes the jobs whose process is gone.                          *)
ActiveJobsAreWatched ==
  up => \A t \in Tasks : \A j \in JobIds :
          Exists(t) /\ tasks[t].active = j /\ Pending(jobs[j]) => j \in polls

(* Every request is answered, whatever becomes of the passes it waits for, *)
(* unless the process dies.                                                *)
RequestsAreAnswered == request.at # "none" ~> request.at = "none"

(* The compare-and-set refuses a stale record only: what Redis holds is    *)
(* not older than what it refuses.  The code does not keep this.  There is *)
(* one writer, but two changes between two writes raise the version by     *)
(* two, which every result does by itself; from then on every pass is      *)
(* refused at that task.                                                   *)
OnlyStaleWritesAreRefused ==
  \A t \in Tasks :
    pass.at = "tasks" /\ Exists(t) /\ t \notin pass.visited /\ ~CasAccepts(t)
      => tasks[t].version <= redis.tasks[t].version
=============================================================================
