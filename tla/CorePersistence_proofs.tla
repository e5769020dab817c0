------------------------ MODULE CorePersistence_proofs ------------------------
(***************************************************************************)
(* Proofs about CorePersistence for every set of tasks, jobs and keys and  *)
(* every bound on versions and passes.                                     *)
(*                                                                         *)
(* The argument: Redis lags behind memory (Behind), and what a request is  *)
(* promised memory keeps (Promised).  A pass that starts after the request *)
(* carries to Redis, task by task, what it is promised (Covered); the      *)
(* request waits for such a pass (LastPassCovers), so a success means that *)
(* the promise is in Redis.                                                *)
(***************************************************************************)
EXTENDS CorePersistence, TLAPS

-----------------------------------------------------------------------------
(* The inductive invariant *)

(* A dispatch call and a poll belong to a job; an id that was not used is  *)
(* nobody's.                                                               *)
IdsOK ==
  /\ \A j \in JobIds : calls[j] # None => up /\ jobs[j] # None
  /\ \A j \in polls : jobs[j] # None
  /\ \A j \in fresh : jobs[j] = None /\ redis.jobs[j] = None

(* No task anywhere names an id that was not used, nor, in memory, a       *)
(* pending job that nobody watches.                                        *)
WatchOK ==
  /\ \A t \in Tasks : tasks[t] # None => tasks[t].active \notin fresh
  /\ \A t \in Tasks : redis.tasks[t] # None => redis.tasks[t].active \notin fresh
  /\ \A i \in JobIds : calls[i] # None => calls[i].active \notin fresh
  /\ \A t \in Tasks : \A j \in JobIds :
       tasks[t] # None /\ tasks[t].active = j /\ Pending(jobs[j]) => j \in polls
  /\ \A i, j \in JobIds :
       calls[i] # None /\ calls[i].active = j /\ Pending(jobs[j]) => j \in polls

(* Every job's task is there, in memory and in Redis. *)
HomesOK ==
  /\ \A j \in JobIds : jobs[j] # None => tasks[jobs[j].task] # None
  /\ \A j \in JobIds : redis.jobs[j] # None => redis.tasks[redis.jobs[j].task] # None

Behind ==
  up => /\ \A t \in Tasks \ revived : Reached(redis.tasks[t]) <= Reached(tasks[t])
        /\ \A j \in JobIds : redis.jobs[j] # None => jobs[j] # None /\ jobs[j].task = redis.jobs[j].task
        /\ \A j \in JobIds : Settled(redis.jobs[j]) => Settled(jobs[j])
        /\ redis.keys \subseteq keys

(* What a pass holds is neither newer than memory nor older than Redis. *)
PassOK ==
  /\ pass.at \in {"list", "jobs"} => pass.task \in pass.visited
  /\ pass.at # "jobs" => DOMAIN pass.left = {}
  /\ \A j \in DOMAIN pass.left :
       /\ jobs[j] # None /\ jobs[j].task = pass.task /\ pass.left[j].task = pass.task
       /\ Settled(pass.left[j]) => Settled(jobs[j])
       /\ Settled(redis.jobs[j]) => Settled(pass.left[j])
  /\ \A t \in pass.visited : redis.tasks[t] # None

Promised ==
  request.at # "none" =>
    /\ \A t \in Tasks \ revived : request.promise.tasks[t] <= Reached(tasks[t])
    /\ \A j \in request.promise.jobs : Settled(jobs[j])
    /\ request.promise.keys \subseteq keys

(* The promise is in Redis as far as the pass that runs has come. *)
Covered ==
  /\ \A t \in Tasks \ revived :
       t \in pass.visited \/ pass.at = "keys" => request.promise.tasks[t] <= Reached(redis.tasks[t])
  /\ \A j \in request.promise.jobs :
       CASE pass.at = "keys" -> Settled(redis.jobs[j])
         [] pass.at = "list" /\ jobs[j].task = pass.task -> TRUE
         [] pass.at = "jobs" /\ jobs[j].task = pass.task ->
              Settled(redis.jobs[j]) \/ (j \in DOMAIN pass.left /\ Settled(pass.left[j]))
         [] OTHER -> jobs[j].task \in pass.visited => Settled(redis.jobs[j])

(* No further pass is queued for the request, or needed. *)
LastPass ==
  \/ request.at = "handled" /\ queued = 0
  \/ request.at = "waiting" /\ request.ahead = 1

Durable(promise) == Within(promise, Vouched(redis.tasks, redis.jobs, redis.keys), revived)

LastPassCovers ==
  /\ request.at = "waiting" => request.ahead >= 1
  /\ LastPass /\ pass.at # "idle" => Covered
  /\ request.at = "handled" /\ queued = 0 /\ pass.at = "idle" /\ outcome => Durable(request.promise)

IInv ==
  /\ TypeOK /\ IdsOK /\ WatchOK /\ HomesOK /\ Behind /\ PassOK
  /\ Promised /\ LastPassCovers /\ AnswersAreDurable

-----------------------------------------------------------------------------
(* Types *)

LEMMA TableTypes ==
  /\ \A a, b : CanTransition(a, b) /\ a \in TaskStates => b \in TaskStates
  /\ \A a \in TaskStates : AllowedDispatchStage[a] \in Stages \union {"none"}
  /\ \A g \in Stages : StageToActiveState[g] \in TaskStates
  /\ {"queued", "blocked"} \subseteq TaskStates
  /\ "none" \notin Stages
<1>1. \A a \in TaskStates : Forward[a] \subseteq TaskStates
  BY DEF Forward, TaskStates, ActiveStates, RestingStates, TerminalStates
<1>2. \A a \in TaskStates : AllowedTransitions[a] \subseteq TaskStates
  BY <1>1 DEF AllowedTransitions, TaskStates, StopStates, ActiveStates, RestingStates, TerminalStates
<1>3. \A a, b : CanTransition(a, b) /\ a \in TaskStates => b \in TaskStates
  BY <1>2 DEF CanTransition
<1>4. \A a \in TaskStates : AllowedDispatchStage[a] \in Stages \union {"none"}
  BY DEF AllowedDispatchStage, Stages
<1>5. \A g \in Stages : StageToActiveState[g] \in TaskStates
  BY DEF StageToActiveState, Stages, TaskStates, ActiveStates
<1>6. {"queued", "blocked"} \subseteq TaskStates /\ "none" \notin Stages
  BY DEF TaskStates, RestingStates, TerminalStates, Stages
<1> QED BY <1>3, <1>4, <1>5, <1>6

LEMMA ReachedType ==
  ASSUME NEW task \in Task \union {None}
  PROVE  Reached(task) \in 0 .. MaxVersion + 1
BY PersistenceAssumption, NoneIsNoRecord DEF Reached, Task

LEMMA VouchedType ==
  ASSUME NEW taskMap \in TaskMap, NEW jobMap \in JobMap, NEW keySet \in SUBSET Keys
  PROVE  /\ Vouched(taskMap, jobMap, keySet) \in Promise
         /\ Vouched(taskMap, jobMap, keySet).tasks = [t \in Tasks |-> Reached(taskMap[t])]
         /\ Vouched(taskMap, jobMap, keySet).jobs = {j \in JobIds : Settled(jobMap[j])}
         /\ Vouched(taskMap, jobMap, keySet).keys = keySet
<1>1. [t \in Tasks |-> Reached(taskMap[t])] \in [Tasks -> 0 .. MaxVersion + 1]
  BY ReachedType DEF TaskMap
<1> QED BY <1>1 DEF Vouched, Promise

LEMMA JoinType ==
  ASSUME NEW p \in Promise, NEW q \in Promise
  PROVE  Join(p, q) \in Promise
BY DEF Join, Promise

(* What holds of both promises by Within holds of the two together. *)
LEMMA JoinWithin ==
  ASSUME NEW p \in Promise, NEW q \in Promise, NEW r \in Promise, NEW S,
         Within(p, r, S), Within(q, r, S)
  PROVE  Within(Join(p, q), r, S)
BY DEF Join, Within, Promise

LEMMA HandledType ==
  ASSUME TypeOK, tasks' \in TaskMap, jobs' \in JobMap, keys' \subseteq Keys, Handled
  PROVE  /\ request' \in Request
         /\ \/ request' = request
            \/ /\ request.at = "none" /\ request'.at = "handled"
               /\ request'.promise = Vouched(tasks', jobs', keys')
<1>1. Vouched(tasks', jobs', keys') \in Promise
  BY VouchedType
<1> QED BY <1>1, PersistenceAssumption DEF Handled, Request, TypeOK

-----------------------------------------------------------------------------
(* Steps that make memory grow *)

(* What every operation in memory does: apart from the tasks a dispatch    *)
(* call brings back, memory keeps what it promised; and a pass is queued   *)
(* for a request that is handled.                                          *)
Grows ==
  /\ up /\ up' /\ revived \subseteq revived'
  /\ \A t \in Tasks \ revived' : Reached(tasks[t]) <= Reached(tasks'[t])
  /\ \A j \in JobIds : jobs[j] # None => jobs'[j] # None /\ jobs'[j].task = jobs[j].task
  /\ \A j \in JobIds : Settled(jobs[j]) => Settled(jobs'[j])
  /\ keys \subseteq keys'
  /\ redis' = redis /\ pass' = pass /\ answered' = answered /\ outcome' = outcome
  /\ queued' >= queued
  /\ \/ request' = request
     \/ /\ request.at = "none" /\ request'.at = "handled" /\ queued' > 0
        /\ request'.promise = Vouched(tasks', jobs', keys')

LEMMA GrowsKeeps ==
  ASSUME TypeOK, TypeOK', Grows, Behind, PassOK, Promised, LastPassCovers, AnswersAreDurable
  PROVE  Behind' /\ PassOK' /\ Promised' /\ LastPassCovers' /\ AnswersAreDurable'
<1> USE DEF Grows
<1>0. \A t \in Tasks : /\ Reached(tasks[t]) \in Nat /\ Reached(tasks'[t]) \in Nat
                       /\ Reached(redis.tasks[t]) \in Nat
                       /\ request.promise.tasks[t] \in Nat
  BY ReachedType, PersistenceAssumption DEF TypeOK, TaskMap, Request, Promise
<1>1. Behind'
  BY <1>0 DEF Behind, TypeOK
<1>2. PassOK'
  <2>1. DOMAIN pass.left \subseteq JobIds
    BY DEF TypeOK, Pass
  <2> QED BY <2>1 DEF PassOK
<1>3. Promised'
  <2>1. CASE request' = request
    <3>1. request.promise.jobs \subseteq JobIds
      BY DEF TypeOK, Request, Promise
    <3> QED BY <1>0, <2>1, <3>1 DEF Promised
  <2>2. CASE request'.promise = Vouched(tasks', jobs', keys')
    <3>1. tasks' \in TaskMap /\ jobs' \in JobMap /\ keys' \in SUBSET Keys
      BY DEF TypeOK
    <3>2. /\ request'.promise.tasks = [t \in Tasks |-> Reached(tasks'[t])]
          /\ request'.promise.jobs = {j \in JobIds : Settled(jobs'[j])}
          /\ request'.promise.keys = keys'
      BY <2>2, <3>1, VouchedType
    <3> QED BY <1>0, <3>2 DEF Promised
  <2> QED BY <2>1, <2>2
<1>4. LastPassCovers'
  <2>1. CASE request' = request
    <3>1. LastPass' => LastPass
      BY <2>1 DEF LastPass, TypeOK
    <3>2. ASSUME LastPass, Covered, request.at # "none" PROVE Covered'
      <4>1. \A j \in request.promise.jobs : j \in JobIds /\ jobs'[j].task = jobs[j].task
        BY <3>2 DEF TypeOK, Request, Promise, Promised, Settled
      <4> QED BY <2>1, <3>2, <4>1 DEF Covered
    <3>3. LastPass => request.at # "none"
      BY DEF LastPass
    <3>4. Durable(request.promise) => Durable(request.promise)'
      BY <2>1 DEF Durable, Within
    <3> QED BY <2>1, <3>1, <3>2, <3>3, <3>4 DEF LastPassCovers, LastPass
  <2>2. CASE request'.at = "handled" /\ queued' > 0
    BY <2>2 DEF LastPassCovers, LastPass
  <2> QED BY <2>1, <2>2
<1>5. AnswersAreDurable'
  BY DEF AnswersAreDurable, Within
<1> QED BY <1>1, <1>2, <1>3, <1>4, <1>5

-----------------------------------------------------------------------------
(* Operations in memory *)

MemoryOK == TypeOK /\ IdsOK /\ WatchOK /\ HomesOK

(* A record before its version is compared with the bound. *)
Draft == [state : TaskStates, version : Nat, active : JobIds \union {None}]

LEMMA PutType ==
  ASSUME TypeOK, NEW t \in Tasks, NEW task \in Draft, Put(t, task)
  PROVE  /\ task \in Task /\ task # None
         /\ tasks' \in TaskMap /\ tasks' = [tasks EXCEPT ![t] = task]
         /\ same' \in [Tasks -> BOOLEAN]
<1>1. task \in Task
  BY PersistenceAssumption DEF Put, Draft, Task
<1>2. tasks' = [tasks EXCEPT ![t] = task] /\ same' = [same EXCEPT ![t] = FALSE]
  BY DEF Put
<1> QED BY <1>1, <1>2, NoneIsNoRecord DEF TypeOK, TaskMap

(* An operation that stores a newer record of one task, with the active    *)
(* job it had.                                                             *)
OneTask(t, task) ==
  /\ up /\ Put(t, task)
  /\ Exists(t) => task.active = tasks[t].active /\ tasks[t].version <= task.version
  /\ ~Exists(t) => task.active = None
  /\ keys \subseteq keys' /\ keys' \subseteq Keys
  /\ \/ Schedule /\ Handled
     \/ UNCHANGED <<queue, request>>
  /\ UNCHANGED <<up, jobs, calls, polls, redis, answered, history>>

LEMMA OneTaskKeeps ==
  ASSUME MemoryOK, NEW t \in Tasks, NEW task \in Draft, OneTask(t, task)
  PROVE  MemoryOK' /\ Grows
<1> USE DEF MemoryOK
<1>1. /\ task \in Task /\ task # None
      /\ tasks' \in TaskMap /\ tasks' = [tasks EXCEPT ![t] = task]
      /\ same' \in [Tasks -> BOOLEAN]
  BY PutType DEF OneTask
<1>2. /\ tasks'[t] = task
      /\ \A u \in Tasks : u # t => tasks'[u] = tasks[u]
  BY <1>1 DEF TypeOK, TaskMap
<1>3. /\ queued' \in 0 .. MaxQueued /\ queued' >= queued
      /\ pass' = pass /\ outcome' = outcome /\ error' = error
      /\ request' \in Request
      /\ \/ request' = request
         \/ /\ request.at = "none" /\ request'.at = "handled" /\ queued' > 0
            /\ request'.promise = Vouched(tasks', jobs', keys')
  <2>1. CASE Schedule /\ Handled
    <3>1. jobs' \in JobMap /\ keys' \subseteq Keys
      BY DEF OneTask, TypeOK
    <3>2. queued' \in 0 .. MaxQueued /\ queued' = queued + 1 /\ pass' = pass /\ outcome' = outcome /\ error' = error
      BY <2>1, PersistenceAssumption DEF Schedule, TypeOK
    <3> QED BY <1>1, <2>1, <3>1, <3>2, HandledType DEF TypeOK
  <2>2. CASE UNCHANGED <<queue, request>>
    BY <2>2 DEF TypeOK, queue
  <2> QED BY <2>1, <2>2 DEF OneTask
<1>4. TypeOK'
  BY <1>1, <1>3 DEF TypeOK, OneTask, history
<1>5. IdsOK'
  BY DEF IdsOK, OneTask, history
<1>6. WatchOK'
  <2>1. None \notin fresh /\ None \notin JobIds
    BY NoneIsNoRecord DEF TypeOK
  <2> QED BY <1>2, <2>1 DEF WatchOK, OneTask, history, Exists
<1>7. HomesOK'
  <2>1. \A j \in JobIds : jobs[j] # None => jobs[j].task \in Tasks
    BY DEF TypeOK, JobMap, Job
  <2> QED BY <1>1, <1>2, <2>1 DEF HomesOK, OneTask
<1>8. \A u \in Tasks : Reached(tasks[u]) <= Reached(tasks'[u])
  <2>1. \A u \in Tasks : Reached(tasks[u]) \in Nat
    BY ReachedType, PersistenceAssumption DEF TypeOK, TaskMap
  <2>2. Reached(tasks[t]) <= Reached(task)
    BY <1>1, PersistenceAssumption DEF Reached, OneTask, Exists, TypeOK, TaskMap, Task
  <2> QED BY <1>2, <2>1, <2>2
<1>9. Grows
  BY <1>3, <1>8 DEF Grows, OneTask, history
<1> QED BY <1>4, <1>5, <1>6, <1>7, <1>9

LEMMA MovedType ==
  ASSUME NEW task \in Task, NEW to \in TaskStates, NEW by \in Nat,
         NEW moved, moved = [task EXCEPT !.state = to, !.version = @ + by]
  PROVE  moved \in Draft /\ moved.active = task.active /\ task.version <= moved.version
<1>1. task.version \in Nat
  BY PersistenceAssumption DEF Task
<1>2. task \in Draft
  BY <1>1 DEF Task, Draft
<1>3. moved = [state |-> to, version |-> task.version + by, active |-> task.active]
  BY <1>2 DEF Draft
<1> QED BY <1>1, <1>2, <1>3 DEF Draft

LEMMA CreateTaskStep ==
  ASSUME MemoryOK, NEW t \in Tasks, CreateTask(t)
  PROVE  MemoryOK' /\ Grows
<1> DEFINE task == [state |-> "queued", version |-> 0, active |-> None]
<1>1. task \in Draft
  BY TableTypes DEF Draft
<1>2. OneTask(t, task)
  BY DEF CreateTask, OneTask, MemoryOK, TypeOK
<1> QED BY <1>1, <1>2, OneTaskKeeps

LEMMA TransitionStep ==
  ASSUME MemoryOK, NEW t \in Tasks, NEW to \in Recorded, Transition(t, to)
  PROVE  MemoryOK' /\ Grows
<1>1. tasks[t] \in Task /\ tasks[t].version \in Nat
  BY PersistenceAssumption DEF Transition, Exists, MemoryOK, TypeOK, TaskMap, Task
<1>2. PICK by \in {1, 2} : Put(t, [tasks[t] EXCEPT !.state = to, !.version = @ + by])
  BY DEF Transition
<1> DEFINE task == [tasks[t] EXCEPT !.state = to, !.version = @ + by]
<1>3. task \in Draft /\ task.active = tasks[t].active /\ tasks[t].version <= task.version
  <2>1. to \in TaskStates /\ by \in Nat
    BY PersistenceAssumption
  <2> QED BY ONLY <1>1, <2>1, MovedType
<1>4. OneTask(t, task)
  BY <1>2, <1>3 DEF Transition, OneTask, MemoryOK, TypeOK
<1> QED BY <1>3, <1>4, OneTaskKeeps

LEMMA UpdateTaskStep ==
  ASSUME MemoryOK, NEW t \in Tasks, UpdateTask(t)
  PROVE  MemoryOK' /\ Grows
<1>1. tasks[t] \in Task /\ tasks[t].version \in Nat
  BY PersistenceAssumption DEF UpdateTask, Exists, MemoryOK, TypeOK, TaskMap, Task
<1> DEFINE task == [tasks[t] EXCEPT !.version = @ + 1]
<1>2. task \in Draft /\ task.active = tasks[t].active /\ tasks[t].version <= task.version
  BY <1>1 DEF Draft, Task
<1>3. OneTask(t, task)
  BY <1>2 DEF UpdateTask, OneTask, MemoryOK, TypeOK
<1> QED BY <1>2, <1>3, OneTaskKeeps

LEMMA PublishStep ==
  ASSUME MemoryOK, NEW t \in Tasks, NEW k \in Keys, NEW to \in TaskStates, Publish(t, k, to)
  PROVE  MemoryOK' /\ Grows
<1>1. tasks[t] \in Task /\ tasks[t].version \in Nat
  BY PersistenceAssumption DEF Publish, Exists, MemoryOK, TypeOK, TaskMap, Task
<1> DEFINE task == [tasks[t] EXCEPT !.state = to, !.version = @ + 1]
<1>2. task \in Draft /\ task.active = tasks[t].active /\ tasks[t].version <= task.version
  BY <1>1, MovedType
<1>3. OneTask(t, task)
  BY <1>2 DEF Publish, OneTask, MemoryOK, TypeOK
<1> QED BY <1>2, <1>3, OneTaskKeeps

LEMMA WithResultType ==
  ASSUME NEW task \in Task, NEW stage \in Stages, NEW to, CanHandle(task, stage, to)
  PROVE  /\ WithResult(task, to) \in Draft /\ WithResult(task, to).active = task.active
         /\ task.version <= WithResult(task, to).version
<1>1. task.state \in TaskStates /\ task.version \in Nat /\ task.active \in JobIds \union {None}
  BY PersistenceAssumption DEF Task
<1>2. CASE to = "stay"
  BY <1>1, <1>2 DEF WithResult, Task, Draft
<1>3. CASE to # "stay"
  <2>1. to \in TaskStates
    BY <1>1, <1>3, TableTypes DEF CanHandle
  <2>2. 2 \in Nat
    OBVIOUS
  <2>3. WithResult(task, to) = [task EXCEPT !.state = to, !.version = @ + 2]
    BY <1>3 DEF WithResult
  <2> QED BY <2>1, <2>2, <2>3, MovedType
<1> QED BY <1>2, <1>3

LEMMA PostResultStep ==
  ASSUME MemoryOK, NEW j \in JobIds, NEW to, PostResult(j, to)
  PROVE  MemoryOK' /\ Grows
<1> DEFINE t == jobs[j].task
<1>1. t \in Tasks /\ jobs[j].stage \in Stages /\ tasks[t] \in Task
  BY DEF PostResult, IsActive, Exists, MemoryOK, TypeOK, TaskMap, JobMap, Job
<1> DEFINE task == WithResult(tasks[t], to)
<1>2. task \in Draft /\ task.active = tasks[t].active /\ tasks[t].version <= task.version
  BY <1>1, WithResultType DEF PostResult
<1>3. OneTask(t, task)
  BY <1>2 DEF PostResult, IsActive, OneTask, MemoryOK, TypeOK
<1> HIDE DEF t, task
<1> QED BY <1>1, <1>2, <1>3, OneTaskKeeps

LEMMA AuditOnlyStep ==
  ASSUME MemoryOK, AuditOnly
  PROVE  MemoryOK' /\ Grows
<1> USE DEF MemoryOK
<1>1. /\ queued' \in 0 .. MaxQueued /\ queued' = queued + 1
      /\ pass' = pass /\ outcome' = outcome /\ error' = error
  BY PersistenceAssumption DEF AuditOnly, Schedule, TypeOK
<1>2. UNCHANGED <<up, tasks, jobs, keys, calls, polls, same, redis, answered, fresh, revived>>
  BY DEF AuditOnly, process, history
<1>3. /\ request' \in Request
      /\ \/ request' = request
         \/ /\ request.at = "none" /\ request'.at = "handled"
            /\ request'.promise = Vouched(tasks', jobs', keys')
  <2>1. tasks' \in TaskMap /\ jobs' \in JobMap /\ keys' \subseteq Keys
    BY <1>2 DEF TypeOK
  <2> QED BY <2>1, HandledType DEF AuditOnly
<1>4. TypeOK'
  BY <1>1, <1>2, <1>3 DEF TypeOK, AuditOnly
<1>5. IdsOK' /\ WatchOK' /\ HomesOK'
  BY <1>2 DEF IdsOK, WatchOK, HomesOK
<1>6. \A t \in Tasks : Reached(tasks[t]) <= Reached(tasks'[t])
  BY <1>2, ReachedType, PersistenceAssumption DEF TypeOK, TaskMap
<1>7. Grows
  <2>1. up /\ queued \in Nat
    BY DEF AuditOnly, TypeOK
  <2> QED BY <1>1, <1>2, <1>3, <1>6, <2>1 DEF Grows
<1> QED BY <1>4, <1>5, <1>7

LEMMA BeginDispatchStep ==
  ASSUME MemoryOK, NEW t \in Tasks, NEW j \in JobIds, BeginDispatch(t, j)
  PROVE  MemoryOK' /\ Grows
<1> USE DEF MemoryOK
<1> DEFINE stage == AllowedDispatchStage[tasks[t].state]
           job == [task |-> t, stage |-> stage, status |-> "pending"]
<1>0. tasks[t] \in Task /\ tasks[t] # None /\ tasks[t].state \in TaskStates /\ j \in fresh
  BY DEF BeginDispatch, Exists, TypeOK, TaskMap, Task
<1>1. stage \in Stages
  BY <1>0, TableTypes DEF BeginDispatch
<1>2. job \in Job /\ job # None /\ job.task = t /\ job.status = "pending"
  BY <1>1, NoneIsNoRecord DEF Job
<1> HIDE DEF job, stage
<1>3. /\ jobs' = [jobs EXCEPT ![j] = job] /\ calls' = [calls EXCEPT ![j] = tasks[t]]
      /\ fresh' = fresh \ {j}
      /\ queued' \in 0 .. MaxQueued /\ queued' = queued + 1
      /\ pass' = pass /\ outcome' = outcome /\ error' = error
      /\ UNCHANGED <<up, tasks, keys, polls, same, request, redis, answered, revived>>
  BY PersistenceAssumption DEF BeginDispatch, Schedule, TypeOK, job, stage
<1>4. /\ jobs'[j] = job /\ calls'[j] = tasks[t]
      /\ \A i \in JobIds : i # j => jobs'[i] = jobs[i] /\ calls'[i] = calls[i]
  BY <1>3 DEF TypeOK, JobMap
<1>5. TypeOK'
  <2>1. jobs' \in JobMap /\ calls' \in [JobIds -> Task \union {None}]
    BY <1>0, <1>2, <1>3 DEF TypeOK, JobMap
  <2>2. up'
    BY <1>3 DEF BeginDispatch
  <2> QED BY <1>3, <2>1, <2>2 DEF TypeOK
<1>6. IdsOK'
  <2>1. up' /\ polls \subseteq JobIds /\ fresh \subseteq JobIds
    BY <1>3 DEF BeginDispatch, TypeOK
  <2> QED BY <1>2, <1>3, <1>4, <2>1 DEF IdsOK
<1>7. WatchOK'
  <2>1. \A u \in Tasks : tasks[u] # None => tasks[u].active # j
    BY <1>0 DEF WatchOK
  <2>2. \A i \in JobIds : calls[i] # None => calls[i].active # j
    BY <1>0 DEF WatchOK
  <2>3. \A i \in JobIds : calls'[i] # None => calls'[i].active \notin fresh /\ calls'[i].active # j
    BY <1>0, <1>4, <2>1, <2>2 DEF WatchOK
  <2>4. \A i, k \in JobIds :
          calls'[i] # None /\ calls'[i].active = k /\ Pending(jobs'[k]) => k \in polls
    <3> SUFFICES ASSUME NEW i \in JobIds, NEW k \in JobIds, calls'[i] # None, calls'[i].active = k,
                        Pending(jobs'[k])
                 PROVE  k \in polls
      OBVIOUS
    <3>1. k # j /\ Pending(jobs[k])
      BY <1>4, <2>3
    <3> QED BY <1>0, <1>4, <3>1 DEF WatchOK
  <2>5. \A u \in Tasks : \A k \in JobIds :
          tasks[u] # None /\ tasks[u].active = k /\ Pending(jobs'[k]) => k \in polls
    BY <1>4, <2>1 DEF WatchOK
  <2> QED BY <1>3, <2>3, <2>4, <2>5 DEF WatchOK
<1>8. HomesOK'
  BY <1>0, <1>2, <1>3, <1>4 DEF HomesOK
<1>9. Grows
  <2>1. up /\ queued \in Nat /\ jobs[j] = None
    BY <1>0 DEF BeginDispatch, TypeOK, IdsOK
  <2>2. \A u \in Tasks : Reached(tasks[u]) <= Reached(tasks'[u])
    BY <1>3, ReachedType, PersistenceAssumption DEF TypeOK, TaskMap
  <2> QED BY <1>2, <1>3, <1>4, <2>1, <2>2 DEF Grows, Settled
<1> QED BY <1>5, <1>6, <1>7, <1>8, <1>9

(* What a dispatch call does to the task it remembers: unless somebody     *)
(* changed the task meanwhile, the record is newer.                        *)
LEMMA WriteBackGrows ==
  ASSUME TypeOK, IdsOK, HomesOK, NEW j \in JobIds, calls[j] # None, NEW task \in Draft,
         task.version = calls[j].version + 1, WriteBack(j, task)
  PROVE  /\ jobs[j] # None /\ jobs[j] \in Job /\ jobs[j].task \in Tasks
         /\ task \in Task /\ task # None
         /\ tasks' \in TaskMap /\ tasks' = [tasks EXCEPT ![jobs[j].task] = task]
         /\ same' \in [Tasks -> BOOLEAN]
         /\ revived \subseteq revived' /\ revived' \subseteq Tasks
         /\ \A t \in Tasks \ revived' : Reached(tasks[t]) <= Reached(tasks'[t])
         /\ calls' = [calls EXCEPT ![j] = None]
<1>1. jobs[j] # None /\ jobs[j] \in Job /\ jobs[j].task \in Tasks
  BY DEF IdsOK, TypeOK, JobMap, Job
<1> DEFINE t == jobs[j].task
<1>2. Put(t, task) /\ calls' = [calls EXCEPT ![j] = None]
      /\ revived' = IF tasks[t] = calls[j] THEN revived ELSE revived \union {t}
  BY DEF WriteBack
<1>3. /\ task \in Task /\ task # None
      /\ tasks' \in TaskMap /\ tasks' = [tasks EXCEPT ![t] = task]
      /\ same' \in [Tasks -> BOOLEAN]
  BY <1>1, <1>2, PutType
<1>4. \A u \in Tasks \ revived' : Reached(tasks[u]) <= Reached(tasks'[u])
  <2> SUFFICES ASSUME NEW u \in Tasks \ revived' PROVE Reached(tasks[u]) <= Reached(tasks'[u])
    OBVIOUS
  <2>1. Reached(tasks[u]) \in Nat
    BY ReachedType, PersistenceAssumption DEF TypeOK, TaskMap
  <2>2. CASE u # t
    BY <1>3, <2>1, <2>2 DEF TypeOK, TaskMap
  <2>3. CASE u = t
    <3>1. tasks[t] = calls[j] /\ tasks'[t] = task
      BY <1>1, <1>2, <1>3, <2>3 DEF TypeOK, TaskMap
    <3>2. calls[j].version \in Nat
      BY PersistenceAssumption DEF TypeOK, Task
    <3> QED BY <1>3, <2>3, <3>1, <3>2 DEF Reached
  <2> QED BY <2>2, <2>3
<1>5. revived \subseteq revived' /\ revived' \subseteq Tasks
  BY <1>1, <1>2 DEF TypeOK
<1> QED BY <1>1, <1>2, <1>3, <1>4, <1>5

LEMMA SubmissionAcceptedStep ==
  ASSUME MemoryOK, NEW j \in JobIds, SubmissionAccepted(j)
  PROVE  MemoryOK' /\ Grows
<1> USE DEF MemoryOK
<1> DEFINE t == jobs[j].task
           task == [state |-> StageToActiveState[jobs[j].stage],
                    version |-> calls[j].version + 1, active |-> j]
<1>0. up /\ up' /\ calls[j] # None /\ calls[j] \in Task /\ jobs[j] # None /\ jobs[j] \in Job
  BY DEF SubmissionAccepted, TypeOK, IdsOK, JobMap
<1>1. task \in Draft /\ task.version = calls[j].version + 1 /\ task.active = j
  <2>1. calls[j].version \in Nat
    BY <1>0, PersistenceAssumption DEF Task
  <2>2. StageToActiveState[jobs[j].stage] \in TaskStates
    BY <1>0, TableTypes DEF Job
  <2> QED BY <2>1, <2>2 DEF Draft
<1>2. WriteBack(j, task)
  BY DEF SubmissionAccepted
<1> HIDE DEF task
<1>3. /\ t \in Tasks /\ task # None
      /\ tasks' \in TaskMap /\ tasks' = [tasks EXCEPT ![t] = task]
      /\ same' \in [Tasks -> BOOLEAN]
      /\ revived \subseteq revived' /\ revived' \subseteq Tasks
      /\ \A u \in Tasks \ revived' : Reached(tasks[u]) <= Reached(tasks'[u])
      /\ calls' = [calls EXCEPT ![j] = None]
  BY <1>0, <1>1, <1>2, WriteBackGrows
<1>4. /\ polls' = polls \union {j}
      /\ queued' \in 0 .. MaxQueued /\ queued' = queued + 1
      /\ pass' = pass /\ outcome' = outcome /\ error' = error
      /\ UNCHANGED <<jobs, keys, redis, answered, fresh>>
  BY PersistenceAssumption DEF SubmissionAccepted, Schedule, TypeOK
<1>5. /\ tasks'[t] = task /\ \A u \in Tasks : u # t => tasks'[u] = tasks[u]
      /\ calls'[j] = None /\ \A i \in JobIds : i # j => calls'[i] = calls[i]
  BY <1>3 DEF TypeOK, TaskMap
<1>6. /\ request' \in Request
      /\ \/ request' = request
         \/ /\ request.at = "none" /\ request'.at = "handled"
            /\ request'.promise = Vouched(tasks', jobs', keys')
  <2>1. jobs' \in JobMap /\ keys' \subseteq Keys
    BY <1>4 DEF TypeOK
  <2> QED BY <1>3, <2>1, HandledType DEF SubmissionAccepted
<1>7. TypeOK'
  <2>1. calls' \in [JobIds -> Task \union {None}] /\ polls' \subseteq JobIds
    BY <1>3, <1>4 DEF TypeOK
  <2> QED BY <1>0, <1>3, <1>4, <1>6, <2>1 DEF TypeOK
<1>8. IdsOK'
  BY <1>0, <1>4, <1>5 DEF IdsOK
<1>9. WatchOK'
  <2>1. j \notin fresh
    BY <1>0 DEF IdsOK
  <2> QED BY <1>1, <1>4, <1>5, <2>1 DEF WatchOK
<1>10. HomesOK'
  BY <1>3, <1>4, <1>5 DEF HomesOK, TypeOK, JobMap, Job
<1>11. Grows
  <2>1. queued \in Nat
    BY DEF TypeOK
  <2> QED BY <1>0, <1>3, <1>4, <1>6, <2>1 DEF Grows
<1> QED BY <1>7, <1>8, <1>9, <1>10, <1>11

LEMMA SubmissionRefusedStep ==
  ASSUME MemoryOK, NEW j \in JobIds, SubmissionRefused(j)
  PROVE  MemoryOK' /\ Grows
<1> USE DEF MemoryOK
<1>0. /\ up /\ up' /\ calls[j] # None /\ calls[j] \in Task /\ jobs[j] # None /\ jobs[j] \in Job
      /\ UNCHANGED <<jobs, keys, polls, request, redis, answered, fresh>>
  BY DEF SubmissionRefused, TypeOK, IdsOK, JobMap
<1>1. \A u \in Tasks : Reached(tasks[u]) \in Nat
  BY ReachedType, PersistenceAssumption DEF TypeOK, TaskMap
<1>2. CASE WriteBack(j, [calls[j] EXCEPT !.state = "blocked", !.version = @ + 1]) /\ Schedule
  <2> DEFINE t == jobs[j].task
             task == [calls[j] EXCEPT !.state = "blocked", !.version = @ + 1]
  <2>1. task \in Draft /\ task.active = calls[j].active /\ task.version = calls[j].version + 1
    <3>1. "blocked" \in TaskStates /\ 1 \in Nat
      BY TableTypes
    <3> QED BY <1>0, <3>1, MovedType DEF Task
  <2>2. WriteBack(j, task)
    BY <1>2
  <2> HIDE DEF task
  <2>3. /\ t \in Tasks /\ task # None
        /\ tasks' \in TaskMap /\ tasks' = [tasks EXCEPT ![t] = task]
        /\ same' \in [Tasks -> BOOLEAN]
        /\ revived \subseteq revived' /\ revived' \subseteq Tasks
        /\ \A u \in Tasks \ revived' : Reached(tasks[u]) <= Reached(tasks'[u])
        /\ calls' = [calls EXCEPT ![j] = None]
    BY <1>0, <2>1, <2>2, WriteBackGrows
  <2>4. /\ queued' \in 0 .. MaxQueued /\ queued' = queued + 1
        /\ pass' = pass /\ outcome' = outcome /\ error' = error
    BY <1>2, PersistenceAssumption DEF Schedule, TypeOK
  <2>5. /\ tasks'[t] = task /\ \A u \in Tasks : u # t => tasks'[u] = tasks[u]
        /\ calls'[j] = None /\ \A i \in JobIds : i # j => calls'[i] = calls[i]
    BY <2>3 DEF TypeOK, TaskMap
  <2>6. TypeOK'
    <3>1. calls' \in [JobIds -> Task \union {None}]
      BY <2>3 DEF TypeOK
    <3> QED BY <1>0, <2>3, <2>4, <3>1 DEF TypeOK
  <2>7. IdsOK'
    BY <1>0, <2>5 DEF IdsOK
  <2>8. WatchOK'
    BY <1>0, <2>1, <2>5 DEF WatchOK
  <2>9. HomesOK'
    BY <1>0, <2>3, <2>5 DEF HomesOK, TypeOK, JobMap, Job
  <2>10. Grows
    <3>1. queued \in Nat
      BY DEF TypeOK
    <3> QED BY <1>0, <2>3, <2>4, <3>1 DEF Grows
  <2> QED BY <2>6, <2>7, <2>8, <2>9, <2>10
<1>3. CASE calls' = [calls EXCEPT ![j] = None] /\ UNCHANGED <<tasks, same, queue, revived>>
  <2>1. calls'[j] = None /\ \A i \in JobIds : i # j => calls'[i] = calls[i]
    BY <1>3 DEF TypeOK
  <2>2. calls' \in [JobIds -> Task \union {None}]
    BY <1>3 DEF TypeOK
  <2>3. TypeOK' /\ IdsOK' /\ WatchOK' /\ HomesOK'
    BY <1>0, <1>3, <2>1, <2>2 DEF queue, TypeOK, IdsOK, WatchOK, HomesOK
  <2>4. Grows
    BY <1>0, <1>1, <1>3 DEF Grows, queue, TypeOK
  <2> QED BY <2>3, <2>4
<1> QED BY <1>2, <1>3 DEF SubmissionRefused

LEMMA PollEndsStep ==
  ASSUME MemoryOK, NEW j \in JobIds, NEW to, PollEnds(j, to)
  PROVE  MemoryOK' /\ Grows
<1> USE DEF MemoryOK
<1> DEFINE settled == [jobs[j] EXCEPT !.status = "settled"]
<1>0. /\ up /\ up' /\ jobs[j] # None /\ jobs[j] \in Job /\ jobs[j].task \in Tasks
      /\ polls' = polls \ {j}
      /\ UNCHANGED <<keys, calls, request, redis, answered, fresh, revived>>
  BY DEF PollEnds, TypeOK, IdsOK, JobMap, Job, history
<1>1. settled \in Job /\ settled # None /\ settled.task = jobs[j].task /\ settled.status = "settled"
  BY <1>0, NoneIsNoRecord DEF Job
<1>2. /\ jobs' \in JobMap /\ jobs'[j] = settled
      /\ \A i \in JobIds : i # j => jobs'[i] = jobs[i]
  BY <1>1 DEF PollEnds, TypeOK, JobMap
<1> HIDE DEF settled
<1>3. /\ \A i \in JobIds : jobs[i] # None => jobs'[i] # None /\ jobs'[i].task = jobs[i].task
      /\ \A i \in JobIds : jobs'[i] # None => jobs[i] # None
      /\ \A i \in JobIds : Settled(jobs[i]) => Settled(jobs'[i])
      /\ \A i \in JobIds : Pending(jobs'[i]) => Pending(jobs[i]) /\ i # j
  BY <1>0, <1>1, <1>2 DEF Settled, Pending
<1>4. IdsOK'
  BY <1>0, <1>3 DEF IdsOK, TypeOK
<1>5. CASE UNCHANGED <<tasks, same, queue>>
  <2>1. TypeOK' /\ WatchOK' /\ HomesOK'
    BY <1>0, <1>2, <1>3, <1>5 DEF queue, TypeOK, WatchOK, HomesOK
  <2>2. \A u \in Tasks : Reached(tasks[u]) <= Reached(tasks'[u])
    BY <1>5, ReachedType, PersistenceAssumption DEF TypeOK, TaskMap
  <2>3. Grows
    BY <1>0, <1>3, <1>5, <2>2 DEF Grows, queue, TypeOK
  <2> QED BY <1>4, <2>1, <2>3
<1>6. CASE /\ IsActive(j) /\ CanHandle(tasks[jobs[j].task], jobs[j].stage, to)
           /\ Put(jobs[j].task, WithResult(tasks[jobs[j].task], to)) /\ Schedule
  <2> DEFINE t == jobs[j].task
             task == WithResult(tasks[t], to)
  <2>1. tasks[t] \in Task /\ tasks[t] # None /\ jobs[j].stage \in Stages
    BY <1>0, <1>6 DEF IsActive, Exists, TypeOK, TaskMap, Job
  <2>2. task \in Draft /\ task.active = tasks[t].active /\ tasks[t].version <= task.version
    BY <1>6, <2>1, WithResultType
  <2>3. Put(t, task)
    BY <1>6
  <2> HIDE DEF task
  <2>4. /\ task \in Task /\ task # None
        /\ tasks' \in TaskMap /\ tasks' = [tasks EXCEPT ![t] = task]
        /\ same' \in [Tasks -> BOOLEAN]
    BY <1>0, <2>2, <2>3, PutType
  <2>5. tasks'[t] = task /\ \A u \in Tasks : u # t => tasks'[u] = tasks[u]
    BY <1>0, <2>4 DEF TypeOK, TaskMap
  <2>6. /\ queued' \in 0 .. MaxQueued /\ queued' = queued + 1
        /\ pass' = pass /\ outcome' = outcome /\ error' = error
    BY <1>6, PersistenceAssumption DEF Schedule, TypeOK
  <2>7. TypeOK'
    BY <1>0, <1>2, <2>4, <2>6 DEF TypeOK
  <2>8. WatchOK'
    BY <1>0, <1>3, <2>1, <2>2, <2>5 DEF WatchOK
  <2>9. HomesOK'
    BY <1>0, <1>3, <2>4, <2>5 DEF HomesOK
  <2>10. \A u \in Tasks : Reached(tasks[u]) <= Reached(tasks'[u])
    <3>1. \A u \in Tasks : Reached(tasks[u]) \in Nat
      BY ReachedType, PersistenceAssumption DEF TypeOK, TaskMap
    <3>2. Reached(tasks[t]) <= Reached(task)
      BY <2>1, <2>2, <2>4, PersistenceAssumption DEF Reached, Task
    <3> QED BY <2>5, <3>1, <3>2
  <2>11. Grows
    <3>1. queued \in Nat
      BY DEF TypeOK
    <3> QED BY <1>0, <1>3, <2>6, <2>10, <3>1 DEF Grows
  <2> QED BY <1>4, <2>7, <2>8, <2>9, <2>11
<1> QED BY <1>5, <1>6 DEF PollEnds

LEMMA WorkStep ==
  ASSUME IInv, Work
  PROVE  IInv'
<1>1. MemoryOK' /\ Grows
  <2>0. MemoryOK
    BY DEF IInv, MemoryOK
  <2>1. CASE AuditOnly
    BY <2>0, <2>1, AuditOnlyStep
  <2>2. CASE \E t \in Tasks : CreateTask(t) \/ UpdateTask(t)
    BY <2>0, <2>2, CreateTaskStep, UpdateTaskStep
  <2>3. CASE \E t \in Tasks : \E to \in Recorded : Transition(t, to)
    BY <2>0, <2>3, TransitionStep
  <2>4. CASE \E t \in Tasks : \E k \in Keys, to \in TaskStates : Publish(t, k, to)
    BY <2>0, <2>4, PublishStep
  <2>5. CASE \E t \in Tasks : \E j \in JobIds : BeginDispatch(t, j)
    BY <2>0, <2>5, BeginDispatchStep
  <2>6. CASE \E j \in JobIds : SubmissionAccepted(j) \/ SubmissionRefused(j)
    BY <2>0, <2>6, SubmissionAcceptedStep, SubmissionRefusedStep
  <2>7. CASE \E j \in JobIds : \E to \in TaskStates \union {"stay"} : PostResult(j, to) \/ PollEnds(j, to)
    BY <2>0, <2>7, PostResultStep, PollEndsStep
  <2> QED BY <2>1, <2>2, <2>3, <2>4, <2>5, <2>6, <2>7 DEF Work
<1> QED BY <1>1, GrowsKeeps DEF IInv, MemoryOK

-----------------------------------------------------------------------------
(* The queue of passes *)

LEMMA WithinVouched ==
  ASSUME NEW p \in Promise, NEW taskMap, NEW jobMap, NEW keySet, NEW S
  PROVE  Within(p, Vouched(taskMap, jobMap, keySet), S) <=>
           /\ \A t \in Tasks \ S : p.tasks[t] <= Reached(taskMap[t])
           /\ \A j \in p.jobs : Settled(jobMap[j])
           /\ p.keys \subseteq keySet
BY DEF Within, Vouched, Promise

LEMMA RequestType ==
  ASSUME TypeOK
  PROVE  /\ request.promise \in Promise /\ request.ahead \in Nat
         /\ request.promise.jobs \subseteq JobIds
         /\ request.at \in {"none", "handled", "waiting"}
         /\ NoRequest \in Request /\ Idle \in Pass
<1>1. request.promise \in Promise /\ request.promise.jobs \subseteq JobIds
      /\ request.ahead \in Nat /\ request.at \in {"none", "handled", "waiting"}
  BY DEF TypeOK, Request, Promise
<1>2. Nothing \in Promise
  BY PersistenceAssumption DEF Nothing, Promise
<1>3. NoRequest \in Request
  BY <1>2, PersistenceAssumption DEF NoRequest, Request
<1>4. [j \in {} |-> None] \in [{} -> Job]
  OBVIOUS
<1>5. Idle \in Pass
  BY <1>4 DEF Idle, Pass
<1> QED BY <1>1, <1>3, <1>5

(* An answer leaves no request; a success adds what is durable anyway.     *)
LEMMA AnswerStep ==
  ASSUME TypeOK, AnswersAreDurable, NEW ok \in BOOLEAN, Answer(ok),
         UNCHANGED <<redis, revived>>, ok => Durable(request.promise)
  PROVE  request' = NoRequest /\ answered' \in Promise /\ AnswersAreDurable'
<1>1. request.promise \in Promise /\ answered \in Promise
  BY RequestType DEF TypeOK
<1>2. CASE ok
  <2>1. answered' = Join(answered, request.promise)
    BY <1>2 DEF Answer
  <2>2. Vouched(redis.tasks, redis.jobs, redis.keys) \in Promise
    BY VouchedType DEF TypeOK
  <2>3. Within(answered', Vouched(redis.tasks, redis.jobs, redis.keys), revived)
    BY <1>1, <1>2, <2>1, <2>2, JoinWithin DEF AnswersAreDurable, Durable
  <2> QED BY <1>1, <2>1, <2>3, JoinType DEF AnswersAreDurable, Answer
<1>3. CASE ~ok
  BY <1>1, <1>3 DEF Answer, AnswersAreDurable
<1> QED BY <1>2, <1>3

(* What depends on memory and on Redis only. *)
LEMMA StillKept ==
  ASSUME IInv, UNCHANGED <<process, redis, history>>
  PROVE  IdsOK' /\ WatchOK' /\ HomesOK' /\ Behind'
BY DEF IInv, IdsOK, WatchOK, HomesOK, Behind, process, history

LEMMA FlushStep ==
  ASSUME IInv, Flush
  PROVE  IInv'
<1> USE DEF IInv
<1>0. UNCHANGED <<process, queue, redis, history>> /\ up /\ up' /\ request.at = "handled"
  BY DEF Flush, process
<1>1. IdsOK' /\ WatchOK' /\ HomesOK' /\ Behind'
  BY <1>0, StillKept
<1>2. PassOK'
  BY <1>0 DEF PassOK, process, queue
<1>3. CASE pass.at = "idle" /\ queued = 0
  <2>1. Answer(outcome /\ ~error)
    BY <1>3 DEF Flush
  <2>2. request' = NoRequest /\ answered' \in Promise /\ AnswersAreDurable'
    <3>1. outcome /\ ~error => Durable(request.promise)
      BY <1>0, <1>3 DEF LastPassCovers
    <3>2. (outcome /\ ~error) \in BOOLEAN
      OBVIOUS
    <3> QED BY <1>0, <2>1, <3>1, <3>2, AnswerStep DEF history
  <2>3. TypeOK'
    BY <1>0, <2>2, RequestType DEF TypeOK, process, queue, history
  <2>4. Promised' /\ LastPassCovers'
    BY <2>2 DEF Promised, LastPassCovers, LastPass, NoRequest
  <2> QED BY <1>1, <1>2, <2>2, <2>3, <2>4
<1>4. CASE ~(pass.at = "idle" /\ queued = 0)
  <2> DEFINE n == IF pass.at = "idle" THEN queued ELSE queued + 1
  <2>1. request' = [request EXCEPT !.at = "waiting", !.ahead = n] /\ UNCHANGED answered
    BY <1>4 DEF Flush
  <2>2. n \in 0 .. MaxQueued + 1 /\ n >= 1 /\ (n = 1 /\ pass.at # "idle" => queued = 0)
    BY <1>4, PersistenceAssumption DEF TypeOK
  <2> HIDE DEF n
  <2>3. /\ request' \in Request /\ request'.at = "waiting" /\ request'.ahead = n
        /\ request'.promise = request.promise
    BY <2>1, <2>2 DEF TypeOK, Request
  <2>4. TypeOK'
    BY <1>0, <2>1, <2>3 DEF TypeOK, process, queue, history
  <2>5. Promised'
    BY <1>0, <2>3 DEF Promised, process, history
  <2>6. LastPassCovers'
    <3>1. LastPass' /\ pass.at # "idle" => Covered
      BY <1>0, <2>2, <2>3 DEF LastPass, LastPassCovers
    <3>2. Covered => Covered'
      BY <1>0, <2>3 DEF Covered, process, queue, history
    <3> QED BY <1>0, <2>2, <2>3, <3>1, <3>2 DEF LastPassCovers, queue
  <2>7. AnswersAreDurable'
    BY <1>0, <2>1 DEF AnswersAreDurable, history
  <2> QED BY <1>1, <1>2, <2>4, <2>5, <2>6, <2>7
<1> QED BY <1>3, <1>4

LEMMA AssertStorageAvailableStep ==
  ASSUME IInv, AssertStorageAvailable
  PROVE  IInv'
<1>1. UNCHANGED <<process, pass, queued, outcome, request, redis, answered, history>> /\ error' \in BOOLEAN
  BY DEF AssertStorageAvailable, IInv, TypeOK
<1>2. IdsOK' /\ WatchOK' /\ HomesOK' /\ Behind'
  BY <1>1, StillKept
<1>3. TypeOK' /\ PassOK' /\ Promised' /\ LastPassCovers' /\ AnswersAreDurable'
  BY <1>1 DEF IInv, TypeOK, PassOK, Promised, LastPassCovers, LastPass, Covered, Durable,
              AnswersAreDurable, process, history
<1> QED BY <1>2, <1>3 DEF IInv

LEMMA StartPassStep ==
  ASSUME IInv, StartPass
  PROVE  IInv'
<1>1. UNCHANGED <<process, outcome, error, request, redis, answered, history>> /\ up
  BY DEF StartPass
<1>2. pass' = [Idle EXCEPT !.at = "tasks"] /\ queued > 0 /\ queued' = queued - 1
  BY DEF StartPass
<1>3. /\ pass' \in Pass /\ pass'.at = "tasks" /\ pass'.visited = {} /\ DOMAIN pass'.left = {}
      /\ queued' \in 0 .. MaxQueued
  <2>1. pass' = [at |-> "tasks", visited |-> {}, task |-> None, left |-> [j \in {} |-> None]]
    BY <1>2 DEF Idle
  <2>2. [j \in {} |-> None] \in [{} -> Job] /\ DOMAIN [j \in {} |-> None] = {}
    OBVIOUS
  <2>3. queued' \in 0 .. MaxQueued
    BY <1>2, PersistenceAssumption DEF IInv, TypeOK
  <2> QED BY <2>1, <2>2, <2>3 DEF Pass
<1>4. IdsOK' /\ WatchOK' /\ HomesOK' /\ Behind'
  BY <1>1, StillKept
<1>5. TypeOK'
  BY <1>1, <1>3 DEF IInv, TypeOK, process, history
<1>6. PassOK' /\ Covered'
  BY <1>3 DEF PassOK, Covered
<1>7. Promised' /\ LastPassCovers' /\ AnswersAreDurable'
  BY <1>1, <1>3, <1>6 DEF IInv, Promised, LastPassCovers, LastPass, AnswersAreDurable, process, history
<1> QED BY <1>4, <1>5, <1>6, <1>7 DEF IInv

-----------------------------------------------------------------------------
(* The steps of a pass *)

(* Redis takes over from memory: nothing that was there is lost, apart     *)
(* from the tasks a dispatch call brought back.                            *)
RedisGrows ==
  /\ \A t \in Tasks \ revived : Reached(redis.tasks[t]) <= Reached(redis'.tasks[t])
  /\ \A j \in JobIds : Settled(redis.jobs[j]) => Settled(redis'.jobs[j])
  /\ redis.keys \subseteq redis'.keys

LEMMA RedisGrowsKeeps ==
  ASSUME TypeOK, TypeOK', RedisGrows, AnswersAreDurable, UNCHANGED <<revived, answered>>
  PROVE  AnswersAreDurable'
<1>1. answered \in Promise
  BY DEF TypeOK
<1>2. \A t \in Tasks : /\ Reached(redis.tasks[t]) \in Nat /\ Reached(redis'.tasks[t]) \in Nat
                       /\ answered.tasks[t] \in Nat
  BY ReachedType, PersistenceAssumption DEF TypeOK, TaskMap, Promise
<1>3. answered.jobs \subseteq JobIds
  BY DEF TypeOK, Promise
<1>4. /\ \A t \in Tasks \ revived : answered.tasks[t] <= Reached(redis.tasks[t])
      /\ \A j \in answered.jobs : Settled(redis.jobs[j])
      /\ answered.keys \subseteq redis.keys
  BY <1>1, WithinVouched DEF AnswersAreDurable
<1>5. /\ \A t \in Tasks \ revived : answered.tasks[t] <= Reached(redis'.tasks[t])
      /\ \A j \in answered.jobs : Settled(redis'.jobs[j])
      /\ answered.keys \subseteq redis'.keys
  BY <1>2, <1>3, <1>4 DEF RedisGrows
<1>6. Within(answered, Vouched(redis'.tasks, redis'.jobs, redis'.keys), revived)
  BY <1>1, <1>5, WithinVouched
<1> QED BY <1>6 DEF AnswersAreDurable

Lists == UNION {[S -> Job] : S \in SUBSET JobIds}

LEMMA PassFields ==
  ASSUME TypeOK
  PROVE  /\ pass = [at |-> pass.at, visited |-> pass.visited, task |-> pass.task, left |-> pass.left]
         /\ pass.visited \subseteq Tasks /\ pass.task \in Tasks \union {None}
         /\ pass.left \in Lists /\ DOMAIN pass.left \subseteq JobIds
         /\ \A j \in DOMAIN pass.left : pass.left[j] \in Job
<1>1. Pass = [at : {"idle", "tasks", "list", "jobs", "keys"}, visited : SUBSET Tasks,
              task : Tasks \union {None}, left : Lists]
  BY DEF Pass, Lists
<1>2. pass \in Pass
  BY DEF TypeOK
<1>3. pass.left \in Lists
  BY <1>1, <1>2
<1>4. DOMAIN pass.left \subseteq JobIds /\ \A j \in DOMAIN pass.left : pass.left[j] \in Job
  BY <1>3 DEF Lists
<1> QED BY <1>1, <1>2, <1>3, <1>4

LEMMA ListMakes ==
  ASSUME NEW S \in SUBSET JobIds, NEW g, \A j \in S : g[j] \in Job
  PROVE  LET f == [j \in S |-> g[j]]
         IN  f \in Lists /\ DOMAIN f = S /\ \A j \in S : f[j] = g[j]
<1> DEFINE f == [j \in S |-> g[j]]
<1>1. f \in [S -> Job] /\ DOMAIN f = S /\ \A j \in S : f[j] = g[j]
  OBVIOUS
<1> HIDE DEF f
<1>2. f \in Lists
  BY <1>1 DEF Lists
<1> QED BY <1>1, <1>2 DEF f

LEMMA PassMakes ==
  ASSUME NEW at \in {"idle", "tasks", "list", "jobs", "keys"}, NEW visited \in SUBSET Tasks,
         NEW task \in Tasks \union {None}, NEW left \in Lists
  PROVE  [at |-> at, visited |-> visited, task |-> task, left |-> left] \in Pass
BY DEF Pass, Lists

LEMMA PassEndsStep ==
  ASSUME IInv, NEW ok \in BOOLEAN, PassEnds(ok), pass.at # "idle",
         UNCHANGED <<process, queued, redis, history>>, error' \in BOOLEAN,
         ok /\ LastPass => Durable(request.promise)
  PROVE  IInv'
<1> USE DEF IInv
<1>0. up /\ up'
  BY DEF TypeOK, Idle, process
<1>1. IdsOK' /\ WatchOK' /\ HomesOK' /\ Behind'
  BY StillKept
<1>2. pass' = Idle /\ pass'.at = "idle" /\ outcome' = ok /\ pass' \in Pass
  BY RequestType DEF PassEnds, Idle
<1>3. PassOK'
  BY <1>2 DEF PassOK, Idle
<1>4. CASE request.at # "waiting"
  <2>1. UNCHANGED <<request, answered>>
    BY <1>4 DEF PassEnds, Notify
  <2>2. TypeOK'
    BY <1>0, <1>2, <2>1 DEF TypeOK, process, history
  <2>3. Promised' /\ AnswersAreDurable'
    BY <2>1 DEF Promised, AnswersAreDurable, process, history
  <2>4. LastPassCovers'
    <3>1. request.at = "handled" /\ queued = 0 /\ ok => Durable(request.promise)
      BY DEF LastPass
    <3>2. Durable(request.promise) => Durable(request.promise)'
      BY <2>1 DEF Durable, history
    <3> QED BY <1>2, <1>4, <2>1, <3>1, <3>2 DEF LastPassCovers
  <2> QED BY <1>1, <1>3, <2>2, <2>3, <2>4
<1>5. CASE request.at = "waiting" /\ request.ahead = 1
  <2>1. Answer(ok /\ ~error)
    BY <1>5 DEF PassEnds, Notify
  <2>2. request' = NoRequest /\ answered' \in Promise /\ AnswersAreDurable'
    <3>1. ok /\ ~error => Durable(request.promise)
      BY <1>5 DEF LastPass
    <3>2. (ok /\ ~error) \in BOOLEAN
      OBVIOUS
    <3> QED BY <2>1, <3>1, <3>2, AnswerStep DEF history
  <2>3. TypeOK'
    BY <1>0, <1>2, <2>2, RequestType DEF TypeOK, process, history
  <2>4. Promised' /\ LastPassCovers'
    BY <2>2 DEF Promised, LastPassCovers, LastPass, NoRequest
  <2> QED BY <1>1, <1>3, <2>2, <2>3, <2>4
<1>6. CASE request.at = "waiting" /\ request.ahead # 1
  <2>1. request' = [request EXCEPT !.ahead = @ - 1] /\ UNCHANGED answered
    BY <1>6 DEF PassEnds, Notify
  <2>2. request.ahead > 1 /\ request.ahead \in 0 .. MaxQueued + 1
    BY <1>6, RequestType DEF LastPassCovers, TypeOK, Request
  <2>3. /\ request' \in Request /\ request'.at = "waiting" /\ request'.ahead >= 1
        /\ request'.promise = request.promise
    BY <1>6, <2>1, <2>2, PersistenceAssumption DEF TypeOK, Request
  <2>4. TypeOK'
    BY <1>0, <1>2, <2>1, <2>3 DEF TypeOK, process, history
  <2>5. Promised' /\ AnswersAreDurable'
    BY <1>6, <2>1, <2>3 DEF Promised, AnswersAreDurable, process, history
  <2>6. LastPassCovers'
    BY <1>2, <2>3 DEF LastPassCovers
  <2> QED BY <1>1, <1>3, <2>4, <2>5, <2>6
<1> QED BY <1>4, <1>5, <1>6

LEMMA WriteTaskStep ==
  ASSUME IInv, NEW t \in Tasks, WriteTask(t)
  PROVE  IInv'
<1> USE DEF IInv
<1>0. /\ up /\ up' /\ pass.at = "tasks" /\ tasks[t] # None /\ tasks[t] \in Task
      /\ UNCHANGED <<tasks, jobs, keys, calls, polls, queued, error, history>>
  BY DEF WriteTask, Exists, TypeOK, TaskMap, Idle
<1>1. CASE CasAccepts(t)
  <2>1. /\ redis' = [redis EXCEPT !.tasks[t] = tasks[t]]
        /\ same' = [same EXCEPT ![t] = TRUE]
        /\ pass' = [pass EXCEPT !.at = "list", !.visited = @ \union {t}, !.task = t]
        /\ UNCHANGED <<outcome, request, answered>>
    BY <1>1 DEF WriteTask
  <2>2. /\ redis' \in [tasks : TaskMap, jobs : JobMap, keys : SUBSET Keys]
        /\ redis'.jobs = redis.jobs /\ redis'.keys = redis.keys
        /\ redis'.tasks[t] = tasks[t]
        /\ \A u \in Tasks : u # t => redis'.tasks[u] = redis.tasks[u]
    <3>1. redis \in [tasks : TaskMap, jobs : JobMap, keys : SUBSET Keys]
      BY DEF TypeOK
    <3>2. redis' = [tasks |-> [redis.tasks EXCEPT ![t] = tasks[t]], jobs |-> redis.jobs, keys |-> redis.keys]
      BY <2>1, <3>1
    <3>3. [redis.tasks EXCEPT ![t] = tasks[t]] \in TaskMap
      BY <1>0, <3>1 DEF TaskMap
    <3> QED BY <3>1, <3>2, <3>3 DEF TaskMap
  <2>3. /\ pass' \in Pass /\ pass'.at = "list" /\ pass'.visited = pass.visited \union {t}
        /\ pass'.task = t /\ pass'.left = pass.left
    <3>1. pass' = [at |-> "list", visited |-> pass.visited \union {t}, task |-> t, left |-> pass.left]
      BY <2>1, PassFields
    <3>2. pass.visited \union {t} \in SUBSET Tasks /\ pass.left \in Lists
      BY PassFields
    <3>3. pass' \in Pass
      BY <3>1, <3>2, PassMakes
    <3> QED BY <3>1, <3>3
  <2>4. TypeOK'
    BY <1>0, <2>1, <2>2, <2>3 DEF TypeOK, history
  <2>5. IdsOK' /\ HomesOK'
    <3>1. IdsOK'
      BY <1>0, <2>2 DEF IdsOK, history
    <3>2. \A j \in JobIds : redis.jobs[j] # None => redis.jobs[j].task \in Tasks
      BY DEF TypeOK, JobMap, Job
    <3>3. HomesOK'
      BY <1>0, <2>2, <3>2 DEF HomesOK
    <3> QED BY <3>1, <3>3
  <2>6. WatchOK'
    BY <1>0, <2>2 DEF WatchOK, history
  <2>7. Behind'
    <3>1. Reached(tasks[t]) \in Nat
      BY <1>0, ReachedType, PersistenceAssumption
    <3> QED BY <1>0, <2>2, <3>1 DEF Behind, history
  <2>8. PassOK'
    <3>1. DOMAIN pass.left = {}
      BY <1>0 DEF PassOK
    <3>2. pass.visited \subseteq Tasks
      BY DEF TypeOK, Pass
    <3> QED BY <1>0, <2>2, <2>3, <3>1, <3>2 DEF PassOK
  <2>9. Promised'
    BY <1>0, <2>1 DEF Promised, history
  <2>10. LastPassCovers'
    <3>1. LastPass' => LastPass /\ Covered /\ request.at # "none"
      BY <1>0, <2>1 DEF LastPass, LastPassCovers
    <3>2. ASSUME Covered, request.at # "none" PROVE Covered'
      <4>1. \A u \in Tasks \ revived :
              u \in pass.visited \union {t} => request.promise.tasks[u] <= Reached(redis'.tasks[u])
        BY <1>0, <2>2, <3>2 DEF Covered, Promised
      <4>2. \A j \in request.promise.jobs : jobs[j].task \in pass.visited => Settled(redis'.jobs[j])
        BY <1>0, <2>2, <3>2 DEF Covered
      <4> QED BY <1>0, <2>1, <2>3, <4>1, <4>2 DEF Covered, history
    <3> QED BY <1>0, <2>1, <2>3, <3>1, <3>2 DEF LastPassCovers
  <2>11. AnswersAreDurable'
    <3>1. \A u \in Tasks : Reached(redis.tasks[u]) \in Nat
      BY ReachedType, PersistenceAssumption DEF TypeOK, TaskMap
    <3>2. RedisGrows
      BY <1>0, <2>2, <3>1 DEF RedisGrows, Behind
    <3> QED BY <1>0, <2>1, <2>4, <3>2, RedisGrowsKeeps DEF history
  <2> QED BY <2>4, <2>5, <2>6, <2>7, <2>8, <2>9, <2>10, <2>11
<1>2. CASE ~CasAccepts(t)
  <2>1. PassEnds(FALSE) /\ UNCHANGED <<redis, same>>
    BY <1>2 DEF WriteTask
  <2> QED BY <1>0, <2>1, PassEndsStep DEF process, TypeOK
<1> QED BY <1>1, <1>2

LEMMA ListJobsStep ==
  ASSUME IInv, ListJobs
  PROVE  IInv'
<1> USE DEF IInv
<1> DEFINE mine == {i \in JobIds : jobs[i] # None /\ jobs[i].task = pass.task}
           left == [j \in mine |-> jobs[j]]
<1>0. /\ UNCHANGED <<process, queued, outcome, error, request, redis, answered, history>>
      /\ pass.at = "list" /\ pass' = [pass EXCEPT !.at = "jobs", !.left = left]
  BY DEF ListJobs
<1>1. up /\ up'
  BY <1>0 DEF TypeOK, Idle, process
<1>2. left \in Lists /\ DOMAIN left = mine /\ \A j \in mine : left[j] = jobs[j]
  <2>1. mine \in SUBSET JobIds /\ \A j \in mine : jobs[j] \in Job
    BY DEF TypeOK, JobMap
  <2> QED BY <2>1, ListMakes
<1> HIDE DEF left
<1>3. /\ pass' \in Pass /\ pass'.at = "jobs" /\ pass'.visited = pass.visited
      /\ pass'.task = pass.task /\ pass'.left = left
  <2>1. pass' = [at |-> "jobs", visited |-> pass.visited, task |-> pass.task, left |-> left]
    BY <1>0, PassFields
  <2> QED BY <1>2, <2>1, PassFields, PassMakes
<1>4. TypeOK'
  BY <1>0, <1>1, <1>3 DEF TypeOK, process, history
<1>5. IdsOK' /\ WatchOK' /\ HomesOK' /\ Behind'
  BY <1>0, StillKept
<1>6. PassOK'
  <2>1. \A j \in mine : j \in JobIds /\ jobs[j] # None /\ jobs[j].task = pass.task
    OBVIOUS
  <2>2. \A j \in JobIds : Settled(redis.jobs[j]) => Settled(jobs[j])
    BY <1>1 DEF Behind
  <2> HIDE DEF mine
  <2> QED BY <1>0, <1>2, <1>3, <2>1, <2>2 DEF PassOK, process
<1>7. Promised' /\ AnswersAreDurable'
  BY <1>0 DEF Promised, AnswersAreDurable, process, history
<1>8. LastPassCovers'
  <2>1. LastPass' => LastPass /\ Covered /\ request.at # "none"
    BY <1>0 DEF LastPass, LastPassCovers
  <2>2. ASSUME Covered, request.at # "none" PROVE Covered'
    <3>1. \A j \in request.promise.jobs : j \in JobIds /\ Settled(jobs[j]) /\ jobs[j] # None
      BY <2>2, RequestType DEF Promised, Settled
    <3>2. \A j \in request.promise.jobs : jobs[j].task = pass.task => j \in DOMAIN left /\ Settled(left[j])
      BY <1>2, <3>1
    <3>3. UNCHANGED <<jobs, redis, request, revived>>
      BY <1>0 DEF process, history
    <3>4. /\ pass'.at = "jobs" /\ pass.at = "list" /\ pass'.visited = pass.visited
          /\ pass'.task = pass.task /\ pass'.left = left
      BY <1>0, <1>3
    <3>5. \A j \in request.promise.jobs :
            jobs[j].task # pass.task /\ jobs[j].task \in pass.visited => Settled(redis.jobs[j])
      BY <2>2, <3>4 DEF Covered
    <3>6. \A t \in Tasks \ revived :
            t \in pass.visited => request.promise.tasks[t] <= Reached(redis.tasks[t])
      BY <2>2 DEF Covered
    <3> HIDE DEF mine
    <3> QED BY ONLY <3>2, <3>3, <3>4, <3>5, <3>6 DEF Covered
  <2> QED BY <1>0, <1>3, <2>1, <2>2 DEF LastPassCovers
<1> QED BY <1>4, <1>5, <1>6, <1>7, <1>8

LEMMA WriteJobStep ==
  ASSUME IInv, NEW j \in JobIds, WriteJob(j)
  PROVE  IInv'
<1> USE DEF IInv
<1> DEFINE rest == DOMAIN pass.left \ {j}
           left == [i \in rest |-> pass.left[i]]
<1>0. /\ UNCHANGED <<process, queued, outcome, error, request, answered, history>>
      /\ pass.at = "jobs" /\ j \in DOMAIN pass.left
      /\ redis' = [redis EXCEPT !.jobs[j] = pass.left[j]]
      /\ pass' = [pass EXCEPT !.left = left]
  BY DEF WriteJob
<1>1. up /\ up' /\ pass.left[j] \in Job /\ pass.left[j] # None
  BY <1>0, PassFields, NoneIsNoRecord DEF TypeOK, Idle, process
<1>2. left \in Lists /\ DOMAIN left = rest /\ \A i \in rest : left[i] = pass.left[i]
  <2>1. rest \in SUBSET JobIds /\ \A i \in rest : pass.left[i] \in Job
    BY PassFields
  <2> QED BY <2>1, ListMakes
<1> HIDE DEF left
<1>3. /\ pass' \in Pass /\ pass'.at = "jobs" /\ pass'.visited = pass.visited
      /\ pass'.task = pass.task /\ pass'.left = left
  <2>1. pass' = [at |-> pass.at, visited |-> pass.visited, task |-> pass.task, left |-> left]
    BY <1>0, PassFields
  <2> QED BY <1>0, <1>2, <2>1, PassFields, PassMakes
<1>4. /\ redis' \in [tasks : TaskMap, jobs : JobMap, keys : SUBSET Keys]
      /\ redis'.tasks = redis.tasks /\ redis'.keys = redis.keys
      /\ redis'.jobs[j] = pass.left[j]
      /\ \A i \in JobIds : i # j => redis'.jobs[i] = redis.jobs[i]
  <2>1. redis \in [tasks : TaskMap, jobs : JobMap, keys : SUBSET Keys]
    BY DEF TypeOK
  <2>2. redis' = [tasks |-> redis.tasks, jobs |-> [redis.jobs EXCEPT ![j] = pass.left[j]], keys |-> redis.keys]
    BY <1>0, <2>1
  <2>3. [redis.jobs EXCEPT ![j] = pass.left[j]] \in JobMap
    BY <1>1, <2>1 DEF JobMap
  <2> QED BY <2>1, <2>2, <2>3 DEF JobMap
<1>5. /\ jobs[j] # None /\ jobs[j].task = pass.task /\ pass.left[j].task = pass.task
      /\ Settled(pass.left[j]) => Settled(jobs[j])
      /\ Settled(redis.jobs[j]) => Settled(pass.left[j])
      /\ redis.tasks[pass.task] # None
  BY <1>0 DEF PassOK
<1>6. UNCHANGED <<tasks, jobs, keys, calls, polls, same, up, fresh, revived>>
  BY <1>0 DEF process, history
<1>7. TypeOK'
  BY <1>0, <1>1, <1>3, <1>4, <1>6 DEF TypeOK
<1>8. IdsOK' /\ WatchOK' /\ HomesOK'
  <2>1. fresh \subseteq JobIds
    BY DEF TypeOK
  <2>2. IdsOK'
    BY <1>4, <1>5, <1>6, <2>1 DEF IdsOK
  <2>3. WatchOK'
    BY <1>4, <1>6 DEF WatchOK
  <2>4. HomesOK'
    BY <1>4, <1>5, <1>6 DEF HomesOK
  <2> QED BY <2>2, <2>3, <2>4
<1>9. Behind'
  BY <1>1, <1>4, <1>5, <1>6 DEF Behind
<1>10. PassOK'
  <2>1. \A i \in rest : i \in DOMAIN pass.left /\ i # j /\ i \in JobIds
    BY PassFields
  <2> HIDE DEF rest
  <2> QED BY <1>0, <1>2, <1>3, <1>4, <1>6, <2>1 DEF PassOK
<1>11. \A i \in JobIds : Settled(redis.jobs[i]) => Settled(redis'.jobs[i])
  BY <1>4, <1>5
<1>12. Promised'
  BY <1>0, <1>6 DEF Promised
<1>13. LastPassCovers'
  <2>1. LastPass' => LastPass /\ Covered /\ request.at # "none"
    BY <1>0 DEF LastPass, LastPassCovers
  <2>2. ASSUME Covered, request.at # "none" PROVE Covered'
    <3>1. request.promise.jobs \subseteq JobIds
      BY RequestType
    <3>2. \A i \in request.promise.jobs : i \in JobIds /\
            IF jobs[i].task = pass.task
            THEN Settled(redis'.jobs[i]) \/ (i \in DOMAIN left /\ Settled(left[i]))
            ELSE jobs[i].task \in pass.visited => Settled(redis'.jobs[i])
      BY <1>0, <1>2, <1>4, <1>11, <2>2, <3>1 DEF Covered
    <3>3. \A t \in Tasks \ revived :
            t \in pass.visited => request.promise.tasks[t] <= Reached(redis.tasks[t])
      BY <2>2 DEF Covered
    <3> QED BY <1>0, <1>3, <1>4, <1>6, <3>2, <3>3 DEF Covered
  <2> QED BY <1>0, <1>3, <2>1, <2>2 DEF LastPassCovers
<1>14. AnswersAreDurable'
  <2>1. \A u \in Tasks : Reached(redis.tasks[u]) \in Nat
    BY ReachedType, PersistenceAssumption DEF TypeOK, TaskMap
  <2>2. RedisGrows
    BY <1>4, <1>11, <2>1 DEF RedisGrows
  <2> QED BY <1>0, <1>6, <1>7, <2>2, RedisGrowsKeeps
<1> QED BY <1>7, <1>8, <1>9, <1>10, <1>12, <1>13, <1>14

LEMMA NextTaskStep ==
  ASSUME IInv, NextTask
  PROVE  IInv'
<1> USE DEF IInv
<1>0. /\ UNCHANGED <<process, queued, outcome, error, request, redis, answered, history>>
      /\ pass.at = "jobs" /\ DOMAIN pass.left = {}
      /\ pass' = [pass EXCEPT !.at = "tasks", !.task = None, !.left = Idle.left]
  BY DEF NextTask
<1>1. up /\ up'
  BY <1>0 DEF TypeOK, Idle, process
<1>2. Idle.left \in Lists /\ DOMAIN Idle.left = {}
  <2>1. Idle.left = [j \in {} |-> None] /\ Idle.left \in [{} -> Job]
    BY DEF Idle
  <2> QED BY <2>1 DEF Lists
<1>3. /\ pass' \in Pass /\ pass'.at = "tasks" /\ pass'.visited = pass.visited
      /\ DOMAIN pass'.left = {}
  <2>1. pass' = [at |-> "tasks", visited |-> pass.visited, task |-> None, left |-> Idle.left]
    BY <1>0, PassFields
  <2> QED BY <1>2, <2>1, PassFields, PassMakes
<1>4. TypeOK'
  BY <1>0, <1>1, <1>3 DEF TypeOK, process, history
<1>5. IdsOK' /\ WatchOK' /\ HomesOK' /\ Behind'
  BY <1>0, StillKept
<1>6. PassOK'
  BY <1>0, <1>3 DEF PassOK
<1>7. Promised' /\ AnswersAreDurable'
  BY <1>0 DEF Promised, AnswersAreDurable, process, history
<1>8. LastPassCovers'
  <2>1. LastPass' => LastPass /\ Covered /\ request.at # "none"
    BY <1>0 DEF LastPass, LastPassCovers
  <2>2. ASSUME Covered PROVE Covered'
    <3>1. UNCHANGED <<jobs, redis, request, revived>>
      BY <1>0 DEF process, history
    <3> QED BY <1>0, <1>3, <2>2, <3>1 DEF Covered
  <2> QED BY <1>0, <1>3, <2>1, <2>2 DEF LastPassCovers
<1> QED BY <1>4, <1>5, <1>6, <1>7, <1>8

LEMMA TasksWrittenStep ==
  ASSUME IInv, TasksWritten
  PROVE  IInv'
<1> USE DEF IInv
<1>0. /\ UNCHANGED <<process, queued, outcome, error, request, redis, answered, history>>
      /\ pass.at = "tasks" /\ pass' = [pass EXCEPT !.at = "keys"]
      /\ \A t \in Tasks : tasks[t] # None => t \in pass.visited
  BY DEF TasksWritten, Exists
<1>1. up /\ up'
  BY <1>0 DEF TypeOK, Idle, process
<1>2. /\ pass' \in Pass /\ pass'.at = "keys" /\ pass'.visited = pass.visited
      /\ pass'.task = pass.task /\ DOMAIN pass'.left = {}
  <2>1. pass' = [at |-> "keys", visited |-> pass.visited, task |-> pass.task, left |-> pass.left]
    BY <1>0, PassFields
  <2>2. DOMAIN pass.left = {}
    BY <1>0 DEF PassOK
  <2> QED BY <2>1, <2>2, PassFields, PassMakes
<1>3. TypeOK'
  BY <1>0, <1>1, <1>2 DEF TypeOK, process, history
<1>4. IdsOK' /\ WatchOK' /\ HomesOK' /\ Behind'
  BY <1>0, StillKept
<1>5. PassOK'
  BY <1>0, <1>2 DEF PassOK
<1>6. Promised' /\ AnswersAreDurable'
  BY <1>0 DEF Promised, AnswersAreDurable, process, history
<1>7. LastPassCovers'
  <2>1. LastPass' => LastPass /\ Covered /\ request.at # "none"
    BY <1>0 DEF LastPass, LastPassCovers
  <2>2. ASSUME Covered, request.at # "none" PROVE Covered'
    <3>1. UNCHANGED <<jobs, redis, request, revived>>
      BY <1>0 DEF process, history
    <3>2. \A t \in Tasks \ revived : request.promise.tasks[t] <= Reached(redis.tasks[t])
      <4> SUFFICES ASSUME NEW t \in Tasks \ revived
                   PROVE  request.promise.tasks[t] <= Reached(redis.tasks[t])
        OBVIOUS
      <4>1. CASE t \in pass.visited
        BY <2>2, <4>1 DEF Covered
      <4>2. CASE t \notin pass.visited
        <5>1. Reached(tasks[t]) = 0
          BY <1>0, <4>2 DEF Reached
        <5>2. request.promise.tasks[t] <= 0 /\ request.promise.tasks[t] \in Nat
          BY <2>2, <5>1, RequestType, PersistenceAssumption DEF Promised, Promise
        <5>3. Reached(redis.tasks[t]) \in Nat
          BY ReachedType, PersistenceAssumption DEF TypeOK, TaskMap
        <5> QED BY <5>2, <5>3
      <4> QED BY <4>1, <4>2
    <3>3. \A j \in request.promise.jobs : Settled(redis.jobs[j])
      <4> SUFFICES ASSUME NEW j \in request.promise.jobs PROVE Settled(redis.jobs[j])
        OBVIOUS
      <4>1. j \in JobIds /\ jobs[j] # None
        BY <2>2, RequestType DEF Promised, Settled
      <4>2. jobs[j].task \in pass.visited
        BY <1>0, <4>1 DEF HomesOK, TypeOK, JobMap, Job
      <4> QED BY <1>0, <2>2, <4>2 DEF Covered
    <3> QED BY <1>2, <3>1, <3>2, <3>3 DEF Covered
  <2> QED BY <1>0, <1>2, <2>1, <2>2 DEF LastPassCovers
<1> QED BY <1>3, <1>4, <1>5, <1>6, <1>7

LEMMA WriteKeyStep ==
  ASSUME IInv, NEW k \in Keys, WriteKey(k)
  PROVE  IInv'
<1> USE DEF IInv
<1>0. /\ UNCHANGED <<process, queue, request, answered, history>>
      /\ pass.at = "keys" /\ k \in keys
      /\ redis' = [redis EXCEPT !.keys = @ \union {k}]
  BY DEF WriteKey
<1>1. up /\ up' /\ UNCHANGED <<tasks, jobs, keys, calls, polls, same, pass, queued, outcome, error, fresh, revived>>
  BY <1>0 DEF TypeOK, Idle, process, queue, history
<1>2. /\ redis' \in [tasks : TaskMap, jobs : JobMap, keys : SUBSET Keys]
      /\ redis'.tasks = redis.tasks /\ redis'.jobs = redis.jobs
      /\ redis'.keys = redis.keys \union {k}
  BY <1>0 DEF TypeOK
<1>3. TypeOK'
  BY <1>0, <1>1, <1>2 DEF TypeOK
<1>4. IdsOK' /\ WatchOK' /\ HomesOK'
  BY <1>1, <1>2 DEF IdsOK, WatchOK, HomesOK
<1>5. Behind' /\ PassOK' /\ Promised'
  BY <1>0, <1>1, <1>2 DEF Behind, PassOK, Promised
<1>6. LastPassCovers'
  <2>1. Covered => Covered'
    BY <1>0, <1>1, <1>2 DEF Covered
  <2> QED BY <1>0, <1>1, <2>1 DEF LastPassCovers, LastPass
<1>7. AnswersAreDurable'
  <2>1. \A u \in Tasks : Reached(redis.tasks[u]) \in Nat
    BY ReachedType, PersistenceAssumption DEF TypeOK, TaskMap
  <2>2. RedisGrows
    BY <1>2, <2>1 DEF RedisGrows
  <2> QED BY <1>0, <1>1, <1>3, <2>2, RedisGrowsKeeps
<1> QED BY <1>3, <1>4, <1>5, <1>6, <1>7

LEMMA PassSucceedsStep ==
  ASSUME IInv, PassSucceeds
  PROVE  IInv'
<1>1. pass.at = "keys" /\ keys \subseteq redis.keys /\ PassEnds(TRUE)
      /\ UNCHANGED <<process, queued, error, redis, history>>
  BY DEF PassSucceeds
<1>2. LastPass => Durable(request.promise)
  <2> SUFFICES ASSUME LastPass PROVE Durable(request.promise)
    OBVIOUS
  <2>1. request.at # "none" /\ Covered
    BY <1>1 DEF LastPass, IInv, LastPassCovers
  <2>2. /\ \A t \in Tasks \ revived : request.promise.tasks[t] <= Reached(redis.tasks[t])
        /\ \A j \in request.promise.jobs : Settled(redis.jobs[j])
    BY <1>1, <2>1 DEF Covered
  <2>3. request.promise.keys \subseteq redis.keys
    BY <1>1, <2>1 DEF IInv, Promised
  <2>4. request.promise \in Promise
    BY RequestType DEF IInv
  <2> QED BY <2>2, <2>3, <2>4, WithinVouched DEF Durable
<1>3. error' \in BOOLEAN
  BY <1>1 DEF IInv, TypeOK
<1> QED BY <1>1, <1>2, <1>3, PassEndsStep

LEMMA PassBreaksStep ==
  ASSUME IInv, PassBreaks
  PROVE  IInv'
BY PassEndsStep DEF PassBreaks

-----------------------------------------------------------------------------
(* Crash and restart *)

LEMMA CrashStep ==
  ASSUME IInv, Crash
  PROVE  IInv'
<1> USE DEF IInv
<1>0. /\ ~up' /\ tasks' = Absent(Tasks) /\ jobs' = Absent(JobIds) /\ keys' = {}
      /\ calls' = Absent(JobIds) /\ polls' = {} /\ same' = [t \in Tasks |-> FALSE]
      /\ pass' = Idle /\ queued' = 0 /\ outcome' = TRUE /\ error' = FALSE
      /\ request' = NoRequest /\ UNCHANGED <<redis, answered, fresh, revived>>
      /\ up' = FALSE
  BY DEF Crash, history
<1>1. /\ \A t \in Tasks : tasks'[t] = None
      /\ \A j \in JobIds : jobs'[j] = None /\ calls'[j] = None
      /\ tasks' \in TaskMap /\ jobs' \in JobMap /\ calls' \in [JobIds -> Task \union {None}]
  BY <1>0 DEF Absent, TaskMap, JobMap
<1>2. TypeOK'
  <2>1. NoRequest \in Request /\ Idle \in Pass /\ queued' \in 0 .. MaxQueued
    BY <1>0, RequestType, PersistenceAssumption
  <2>2. /\ keys' \subseteq Keys /\ polls' \subseteq JobIds /\ same' \in [Tasks -> BOOLEAN]
        /\ outcome' \in BOOLEAN /\ error' \in BOOLEAN /\ up' \in BOOLEAN
        /\ polls' = {} /\ queued' = 0
    BY <1>0
  <2>3. /\ answered' \in Promise /\ redis' \in [tasks : TaskMap, jobs : JobMap, keys : SUBSET Keys]
        /\ fresh' \subseteq JobIds /\ revived' \subseteq Tasks
    BY <1>0 DEF TypeOK
  <2> QED BY <1>0, <1>1, <2>1, <2>2, <2>3 DEF TypeOK
<1>3. IdsOK'
  BY <1>0, <1>1 DEF IdsOK, TypeOK
<1>4. WatchOK' /\ HomesOK'
  BY <1>0, <1>1 DEF WatchOK, HomesOK
<1>5. Behind' /\ PassOK' /\ Promised' /\ LastPassCovers' /\ AnswersAreDurable'
  BY <1>0 DEF Behind, PassOK, Promised, LastPassCovers, LastPass, AnswersAreDurable, Idle, NoRequest
<1> QED BY <1>2, <1>3, <1>4, <1>5

LEMMA RestartStep ==
  ASSUME IInv, Restart
  PROVE  IInv'
<1> USE DEF IInv
<1> DEFINE blocked(t) == [state |-> "blocked", version |-> redis.tasks[t].version + 1, active |-> None]
<1>0. /\ ~up /\ up' = TRUE
      /\ tasks' = [t \in Tasks |-> IF t \in Interrupted THEN blocked(t) ELSE redis.tasks[t]]
      /\ same' \in [Tasks -> BOOLEAN] /\ jobs' = Recovered /\ keys' = redis.keys
      /\ queued' \in 0 .. MaxQueued
      /\ UNCHANGED <<calls, polls, pass, outcome, error, request, redis, answered, fresh, revived>>
  BY PersistenceAssumption DEF Restart, RestoredKeys, history
<1>1. polls = {} /\ pass = Idle /\ request = NoRequest /\ \A j \in JobIds : calls[j] = None
  BY <1>0 DEF TypeOK, IdsOK
<1>2. \A t \in Interrupted : /\ t \in Tasks /\ redis.tasks[t] # None /\ redis.tasks[t] \in Task
                             /\ blocked(t) \in Task /\ blocked(t) # None
                             /\ Reached(redis.tasks[t]) <= Reached(blocked(t))
  <2> SUFFICES ASSUME NEW t \in Interrupted
               PROVE  /\ t \in Tasks /\ redis.tasks[t] # None /\ redis.tasks[t] \in Task
                      /\ blocked(t) \in Task /\ blocked(t) # None
                      /\ Reached(redis.tasks[t]) <= Reached(blocked(t))
    OBVIOUS
  <2>1. t \in Tasks /\ redis.tasks[t] # None /\ redis.tasks[t] \in Task
    BY DEF Interrupted, TypeOK, TaskMap
  <2>2. redis.tasks[t].version \in Nat /\ redis.tasks[t].version + 1 \in 0 .. MaxVersion
    BY <2>1, PersistenceAssumption DEF Restart, Task
  <2>3. blocked(t) \in Task
    BY <2>2, TableTypes DEF Task
  <2>4. blocked(t) # None /\ blocked(t).version = redis.tasks[t].version + 1
    BY <2>3, NoneIsNoRecord
  <2> HIDE DEF blocked
  <2> QED BY <2>1, <2>2, <2>3, <2>4 DEF Reached
<1>3. /\ \A t \in Interrupted : tasks'[t] = blocked(t) /\ blocked(t).active = None
      /\ \A t \in Tasks \ Interrupted : tasks'[t] = redis.tasks[t]
      /\ \A t \in Tasks : redis.tasks[t] # None => tasks'[t] # None
      /\ tasks' \in TaskMap
  BY <1>0, <1>2 DEF TypeOK, TaskMap
<1> HIDE DEF blocked
<1>4. /\ jobs' \in JobMap
      /\ \A j \in JobIds : redis.jobs[j] # None <=> jobs'[j] # None
      /\ \A j \in JobIds : redis.jobs[j] # None => jobs'[j].task = redis.jobs[j].task
      /\ \A j \in JobIds : Settled(redis.jobs[j]) => Settled(jobs'[j])
      /\ \A j \in JobIds : ~Pending(jobs'[j])
  <2> DEFINE closed(j) == [redis.jobs[j] EXCEPT !.status = "settled"]
  <2>1. \A j \in Orphans : /\ redis.jobs[j] # None /\ closed(j) \in Job /\ closed(j) # None
                           /\ closed(j).task = redis.jobs[j].task /\ closed(j).status = "settled"
    <3> SUFFICES ASSUME NEW j \in Orphans
                 PROVE  /\ redis.jobs[j] # None /\ closed(j) \in Job /\ closed(j) # None
                        /\ closed(j).task = redis.jobs[j].task /\ closed(j).status = "settled"
      OBVIOUS
    <3>1. redis.jobs[j] # None /\ redis.jobs[j] \in Job
      BY DEF Orphans, Pending, TypeOK, JobMap
    <3> QED BY <3>1, NoneIsNoRecord DEF Job
  <2>2. /\ \A j \in Orphans : j \in JobIds /\ jobs'[j] = closed(j)
        /\ \A j \in JobIds \ Orphans : jobs'[j] = redis.jobs[j]
        /\ jobs' = [j \in JobIds |-> jobs'[j]]
    BY <1>0 DEF Recovered, Orphans
  <2>3. \A j \in JobIds \ Orphans : ~Pending(redis.jobs[j])
    BY DEF Orphans
  <2> HIDE DEF closed
  <2>4. \A j \in JobIds : jobs'[j] \in Job \union {None}
    BY <2>1, <2>2 DEF TypeOK, JobMap
  <2>5. jobs' \in JobMap
    BY <2>2, <2>4 DEF JobMap
  <2> QED BY <2>1, <2>2, <2>3, <2>5 DEF Settled, Pending
<1>5. TypeOK'
  BY <1>0, <1>3, <1>4 DEF TypeOK
<1>6. IdsOK'
  BY <1>0, <1>1, <1>4 DEF IdsOK, TypeOK
<1>7. WatchOK'
  <2>1. None \notin fresh
    BY NoneIsNoRecord DEF TypeOK
  <2>2. \A t \in Tasks : tasks'[t] # None => tasks'[t].active \notin fresh
    BY <1>3, <2>1 DEF WatchOK
  <2> QED BY <1>0, <1>1, <1>4, <2>2 DEF WatchOK
<1>8. HomesOK'
  BY <1>0, <1>3, <1>4 DEF HomesOK, TypeOK, JobMap, Job
<1>9. Behind'
  <2>1. \A t \in Tasks : Reached(redis.tasks[t]) \in Nat
    BY ReachedType, PersistenceAssumption DEF TypeOK, TaskMap
  <2>2. \A t \in Tasks : Reached(redis.tasks[t]) <= Reached(tasks'[t])
    BY <1>2, <1>3, <2>1
  <2> QED BY <1>0, <1>4, <2>2 DEF Behind
<1>10. PassOK' /\ Promised' /\ LastPassCovers' /\ AnswersAreDurable'
  BY <1>0, <1>1 DEF PassOK, Promised, LastPassCovers, LastPass, AnswersAreDurable, Idle, NoRequest
<1> QED BY <1>5, <1>6, <1>7, <1>8, <1>9, <1>10

-----------------------------------------------------------------------------
(* The invariant and what follows from it *)

LEMMA InitInv == Init => IInv
<1> SUFFICES ASSUME Init PROVE IInv
  OBVIOUS
<1>0. /\ up = TRUE /\ jobs = Absent(JobIds) /\ keys = {} /\ calls = Absent(JobIds) /\ polls = {}
      /\ redis = [tasks |-> tasks, jobs |-> jobs, keys |-> {}]
      /\ same = [t \in Tasks |-> tasks[t] # None]
      /\ pass = Idle /\ queued = 0 /\ outcome = TRUE /\ error = FALSE
      /\ request = NoRequest /\ answered = Vouched(tasks, jobs, keys)
      /\ fresh = JobIds /\ revived = {}
  BY DEF Init
<1>1. tasks \in TaskMap /\ \A t \in Tasks : tasks[t] # None => tasks[t].active = None
  <2> DEFINE restored(s) == [state |-> s, version |-> 0, active |-> None]
  <2>1. tasks \in [Tasks -> {None} \union {restored(s) : s \in Restored}]
    BY DEF Init
  <2>2. \A s \in Restored : restored(s) \in Task /\ restored(s).active = None
    BY PersistenceAssumption DEF Task
  <2> QED BY <2>1, <2>2 DEF TaskMap
<1>2. jobs \in JobMap /\ \A j \in JobIds : jobs[j] = None
  BY <1>0 DEF Absent, JobMap
<1>3. calls \in [JobIds -> Task \union {None}] /\ \A j \in JobIds : calls[j] = None
  BY <1>0 DEF Absent
<1>4. Nothing \in Promise /\ NoRequest \in Request /\ Idle \in Pass /\ DOMAIN Idle.left = {}
  <2>1. Nothing \in Promise
    BY PersistenceAssumption DEF Nothing, Promise
  <2>2. [j \in {} |-> None] \in [{} -> Job]
    OBVIOUS
  <2>3. Idle \in Pass /\ DOMAIN Idle.left = {}
    BY <2>2 DEF Idle, Pass
  <2> QED BY <2>1, <2>3, PersistenceAssumption DEF NoRequest, Request
<1>5. /\ answered \in Promise
      /\ answered.tasks = [t \in Tasks |-> Reached(tasks[t])]
      /\ answered.jobs = {j \in JobIds : Settled(jobs[j])} /\ answered.keys = {}
  BY <1>0, <1>1, <1>2, VouchedType
<1>6. TypeOK
  <2>1. redis \in [tasks : TaskMap, jobs : JobMap, keys : SUBSET Keys]
    BY <1>0, <1>1, <1>2
  <2>2. queued \in 0 .. MaxQueued
    BY <1>0, PersistenceAssumption
  <2>3. /\ up \in BOOLEAN /\ outcome \in BOOLEAN /\ error \in BOOLEAN
        /\ same \in [Tasks -> BOOLEAN]
    BY <1>0
  <2>4. /\ keys \subseteq Keys /\ polls \subseteq JobIds /\ fresh \subseteq JobIds
        /\ revived \subseteq Tasks /\ pass \in Pass /\ request \in Request /\ up
    BY <1>0, <1>4
  <2> QED BY <1>1, <1>2, <1>3, <1>5, <2>1, <2>2, <2>3, <2>4 DEF TypeOK
<1>7. IdsOK /\ HomesOK
  BY <1>0, <1>2, <1>3 DEF IdsOK, HomesOK
<1>8. WatchOK
  BY <1>0, <1>1, <1>2, <1>3, NoneIsNoRecord DEF WatchOK
<1>9. Behind
  <2>1. \A t \in Tasks : Reached(tasks[t]) \in Nat
    BY <1>1, ReachedType, PersistenceAssumption DEF TaskMap
  <2> QED BY <1>0, <1>2, <2>1 DEF Behind, Settled
<1>10. PassOK /\ Promised /\ LastPassCovers
  BY <1>0, <1>4 DEF PassOK, Promised, LastPassCovers, LastPass, Idle, NoRequest
<1>11. AnswersAreDurable
  <2>1. \A t \in Tasks : Reached(tasks[t]) <= Reached(redis.tasks[t])
    BY <1>0, <1>1, ReachedType, PersistenceAssumption DEF TaskMap
  <2>2. /\ \A t \in Tasks \ revived : answered.tasks[t] <= Reached(redis.tasks[t])
        /\ \A j \in answered.jobs : Settled(redis.jobs[j])
        /\ answered.keys \subseteq redis.keys
    BY <1>0, <1>5, <2>1
  <2> QED BY <1>5, <2>2, WithinVouched DEF AnswersAreDurable
<1> QED BY <1>6, <1>7, <1>8, <1>9, <1>10, <1>11 DEF IInv

LEMMA StutterStep ==
  ASSUME IInv, UNCHANGED vars
  PROVE  IInv'
<1>0. /\ UNCHANGED <<up, tasks, jobs, keys, calls, polls, same>>
      /\ UNCHANGED <<pass, queued, outcome, error>>
      /\ UNCHANGED <<request, redis, answered, fresh, revived>>
  BY DEF vars, process, queue, history
<1>1. TypeOK' /\ IdsOK' /\ WatchOK' /\ HomesOK' /\ Behind' /\ PassOK'
  BY <1>0 DEF IInv, TypeOK, IdsOK, WatchOK, HomesOK, Behind, PassOK
<1>2. Promised' /\ LastPassCovers' /\ AnswersAreDurable'
  BY <1>0 DEF IInv, Promised, LastPassCovers, LastPass, Covered, Durable, AnswersAreDurable
<1> QED BY <1>1, <1>2 DEF IInv

LEMMA NextStep ==
  ASSUME IInv, [Next]_vars
  PROVE  IInv'
<1>1. CASE Work
  BY <1>1, WorkStep
<1>2. CASE Flush
  BY <1>2, FlushStep
<1>3. CASE AssertStorageAvailable
  BY <1>3, AssertStorageAvailableStep
<1>4. CASE PassStep
  <2>1. CASE StartPass
    BY <2>1, StartPassStep
  <2>2. CASE ListJobs
    BY <2>2, ListJobsStep
  <2>3. CASE NextTask
    BY <2>3, NextTaskStep
  <2>4. CASE TasksWritten
    BY <2>4, TasksWrittenStep
  <2>5. CASE PassSucceeds
    BY <2>5, PassSucceedsStep
  <2>6. ASSUME NEW t \in Tasks, WriteTask(t) PROVE IInv'
    BY <2>6, WriteTaskStep
  <2>7. ASSUME NEW j \in JobIds, WriteJob(j) PROVE IInv'
    BY <2>7, WriteJobStep
  <2>8. ASSUME NEW k \in Keys, WriteKey(k) PROVE IInv'
    BY <2>8, WriteKeyStep
  <2> QED BY <1>4, <2>1, <2>2, <2>3, <2>4, <2>5, <2>6, <2>7, <2>8 DEF PassStep
<1>5. CASE PassBreaks
  BY <1>5, PassBreaksStep
<1>6. CASE Crash
  BY <1>6, CrashStep
<1>7. CASE Restart
  BY <1>7, RestartStep
<1>8. CASE UNCHANGED vars
  BY <1>8, StutterStep
<1> QED BY <1>1, <1>2, <1>3, <1>4, <1>5, <1>6, <1>7, <1>8 DEF Next

LEMMA Invariance == Spec => []IInv
<1>1. Init => IInv
  BY InitInv
<1>2. IInv /\ [Next]_vars => IInv'
  BY NextStep
<1> QED BY <1>1, <1>2, PTL DEF Spec

(* Memory, Redis, the pass that runs and the request keep their types      *)
(* through every handler, crash and restore.                               *)
THEOREM TypesStay == Spec => []TypeOK
<1>1. IInv => TypeOK
  BY DEF IInv
<1> QED BY <1>1, Invariance, PTL

(* A success the onSend hook let through vouches for what Redis holds,     *)
(* whatever order passes, requests, crashes and Redis failures come in.    *)
THEOREM SuccessMeansStored == Spec => []AnswersAreDurable
<1>1. IInv => AnswersAreDurable
  BY DEF IInv
<1> QED BY <1>1, Invariance, PTL

(* restoreCoreState brings back whatever was answered: a process that runs *)
(* never knows less than its clients were told.                            *)
THEOREM SuccessIsRemembered == Spec => []AnswersAreKnown
<1>1. IInv => AnswersAreKnown
  <2> SUFFICES ASSUME IInv, up PROVE Within(answered, Vouched(tasks, jobs, keys), revived)
    BY DEF AnswersAreKnown
  <2>1. answered \in Promise /\ \A t \in Tasks : answered.tasks[t] \in Nat
    BY PersistenceAssumption DEF IInv, TypeOK, Promise
  <2>2. \A j \in answered.jobs : j \in JobIds
    BY <2>1 DEF Promise
  <2>3. /\ \A t \in Tasks \ revived : answered.tasks[t] <= Reached(redis.tasks[t])
        /\ \A j \in answered.jobs : Settled(redis.jobs[j])
        /\ answered.keys \subseteq redis.keys
    BY <2>1, WithinVouched DEF IInv, AnswersAreDurable
  <2>4. \A t \in Tasks : Reached(redis.tasks[t]) \in Nat /\ Reached(tasks[t]) \in Nat
    BY ReachedType, PersistenceAssumption DEF IInv, TypeOK, TaskMap
  <2>5. \A t \in Tasks \ revived : answered.tasks[t] <= Reached(tasks[t])
    BY <2>1, <2>3, <2>4 DEF IInv, Behind
  <2>6. (\A j \in answered.jobs : Settled(jobs[j])) /\ answered.keys \subseteq keys
    BY <2>2, <2>3 DEF IInv, Behind
  <2> QED BY <2>1, <2>5, <2>6, WithinVouched
<1> QED BY <1>1, Invariance, PTL

(* recoverRestoredActiveJobs leaves no task with a pending job whose poll  *)
(* died with the previous process, and no dispatch call makes such a task. *)
THEOREM NobodyWaitsInVain == Spec => []ActiveJobsAreWatched
<1>1. IInv => ActiveJobsAreWatched
  BY DEF IInv, WatchOK, ActiveJobsAreWatched, Exists
<1> QED BY <1>1, Invariance, PTL
=============================================================================
