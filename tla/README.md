# shipyard-cp in TLA+

shipyard-cp is a control plane that drives coding agents ("workers") through
`plan -> dev -> acceptance -> integrate -> publish`. It is a single Node.js
process: every synchronous stretch of code is atomic, and the interleavings are
those of `await`, timers, HTTP requests, background polls, several processes
sharing a Redis, and crashes. The modules here model its core and check what
those interleavings may and may not do.

Paths below are relative to the repository; the program is under `src/`.

## 1. Inventory

| Component | State it keeps | Operations | Hard behaviour | What makes it correct |
|---|---|---|---|---|
| Task state machine (`src/domain/state-machine`, `src/domain/worker/worker-policy.ts`) | none | table of transitions, dispatchable stage, failover chain | - | terminal states have no exit; every other module relies on it |
| Tasks (`src/store/services/task-service.ts`, `src/domain/task`) | map of tasks: state, version, `active_job_id`, rework and blocked context | create, transition, record, cancel | the record to store is passed in, so it may be stale | no move outside the table, terminal is final |
| Jobs and results (`src/store/services/job-service.ts`, `src/domain/dispatch`, `src/domain/result`) | jobs, results, retry counters | dispatch, background poll, result handling | `await submitJob` between reading and writing a task; duplicate, late and contradictory results; throws half way | leases and slots consistent, bounded retries and rework, jobs conclude |
| Leases, orphan scan and recovery (`src/domain/lease`, `src/domain/orphan`) | lease per job with expiry and last heartbeat | acquire, heartbeat, release, scan, decide retry or block | a worker that dies or is late; the scan's snapshot | only silent work is recovered, and an orphan that is found is |
| Concurrency slots, resource locks, versions (`src/domain/concurrency`) | active jobs, per worker sets, resource locks with expiry, versions | accept, start, complete, acquire, release, clean up | limits, locks expiring under their holder | limits hold, one holder per resource, no lost update |
| Store facade and backends (`src/store`) | all services, persistence queue; tasks, jobs, keys in Redis | every REST operation; set with compare-and-set on the version | fire-and-forget persistence, passes that break, restore after a crash | what was answered is stored and is known after a restart |
| Acceptance (`src/domain/acceptance`, `src/domain/checklist`) | checklist, verdict on the task | complete acceptance | duplicate completion, stale documents | accepted only through the gate |
| Integration (`src/domain/integration`, `src/domain/integration-check`) | integration context on the task, run time-outs | start, complete, time out | the answer races the time-out | main changes only after checks |
| Publish (`src/domain/publish`, `src/domain/repo-policy`) | idempotency keys, approval tokens | publish, approve, complete | retries with the same key, approvals | at most one start per key, approval before apply |
| Worker executor and adapters (`src/domain/worker`) | jobs per adapter, `activeJobs` | submit, poll, cancel, wait, fail over, shut down | time-outs, late answers, shutdown in the middle of a failover | every wait ends, no worker gets a job twice |
| Session registry, executor, serve adapter (`src/domain/worker/session-registry`, `src/infrastructure`) | sessions, leases on sessions, warm pool | acquire, release, expire, reap, cancel | leases that run out under working jobs, late releases | a session serves one job at a time |
| OpenCode server manager | child process, status, health-check interval | ensure, start, stop | concurrent callers, each awaiting between test and use | every call ends |
| OpenCode event ingestor | events of a container | run, poll, ingest, convert | answers that come in two parts, output that cannot be fetched | no permission request is lost |
| Worker runtime (`src/domain/worker-runtime`) | sessions, turns, admitted inputs, tools | admit, send, end, bridge to an adapter | polls and interruptions that overlap | inputs once, queued ones in order, limits on what is sent, a completed job has succeeded |
| Doom-loop detector (`src/domain/doom-loop`) | transition history, window of fingerprints | track, detect, check, lift a block | window boundaries | nothing in the server depends on it (section 6) |
| Agent spawn control (`web/src/domain/agent`, `src/domain/agent`) | active agents, token bucket, queue | evaluate, wait, register, unregister | queue, its timer and the bucket | the rate holds, first come first served, everyone is answered |
| References of a task (`src/domain/tracker`, `src/domain/docs`, `src/domain/resolver`, `packages/tracker-bridge-js`, `packages/memx-resolver-js`) | links and indexes in Redis, references on the task | link, unlink, resolve, acknowledge, check for stale documents | every one awaits between reading and writing | what was linked or acknowledged alone is kept |
| Task records (`packages/agent-taskstate-js`) | tasks, transitions, items and indexes in Redis | propose, transition, update, create, resolve, delete | several requests per operation, failures between them | the history knows the status; a deletion leaves nothing |
| Instruction, context and validation (`src/domain/instruction`, `context-bundle`, `stage-validation`, `validation`) | none | compile, validate | - | pure functions |
| Risk, side effects, capability, run-system gate | none | classify | - | pure functions |
| Monitoring (`src/monitoring`) | metrics, errors, alerts | record, alert, resolve | rate limits, cooldowns | - |
| LiteLLM and taskstate clients | caches | HTTP calls | time-outs, retries | - |
| TLS, authentication, health, configuration, CLI, routes | certificates, configuration | load, watch | reload | - |
| Web UI (`web/`) | view state | display | reconnecting socket | display only |

How they interact: a REST route calls the store facade; the facade calls a
service; the service calls an orchestrator (dispatch, result, integration,
publish) and hands it callbacks that transition tasks, so one request is one
synchronous block up to its first `await`. `JobService.dispatch` awaits the
worker executor's `submitJob`; a background poll awaits `waitForJob` and then
calls the facade's `applyResult` like a REST client would. After each operation
the facade schedules a write of the whole state to the backend without waiting
for it.

## 2. The modules and their order

The core comes first; then what surrounds it, each part with the hazards it has
of its own. Modules keep their parameters as constants and have one action per
operation, or per stretch between two awaits.

| Module | Component | Composed by | Proofs |
|---|---|---|---|
| `TaskStateMachine` | tables shared by the core | `EXTENDS` | - |
| `JobDispatch` | tasks, jobs, leases, slots, results | `MCJobDispatch` | `JobDispatch_proofs` |
| `ReleaseFlow` | acceptance, integration, publication | `MCReleaseFlow` | `ReleaseFlow_proofs` |
| `CorePersistence` | write-behind, crash, restore | `MCCorePersistence` | `CorePersistence_proofs` |
| `ResourceLocks`, refining `LockService` | locks and versions | `Services` | `Services_proofs` |
| `LeaseRecovery` | leases, heartbeats, orphan scanner | `Progress` | `Progress_proofs` |
| `WorkerExecution` | worker executor and adapters | `Progress` | `Progress_proofs` |
| `ServerManager` | OpenCode server process | `Progress` | - |
| `SpawnControl` | limits on sub-agents | `Progress` | `Progress_proofs` |
| `SessionPool` | session registry, executor, serve adapter | `Services` | `SessionPool_proofs` |
| `EventStream` | event ingestor | `Services` | `Services_proofs` |
| `TaskRecords` | agent-taskstate-js | `Services` | `TaskRecords_proofs` |
| `TaskReferences` | tracker and resolver references | `Services` | `Services_proofs` |
| `WorkerRuntime` | worker runtime and its bridge | `Services` | `WorkerRuntime_proofs` |

`Services` (safety) and `Progress` (liveness, and the safety of leases, failovers and
spawns) put components side by side that do not touch each other's state: a variable `part`,
chosen at the start and never changed, says which one a behaviour explores, and the
others stay as they began. The number of states is the sum of the parts', not their
product, and a theorem about one component carries over to the composition.
`MCServices` and `MCProgress` are small instances of them.

Left for later: several processes on one Redis and the expiry of its records
(`CorePersistence`), the life cycle of alerts (`src/monitoring`), restore points
and background processes of the worker runtime, and invariants of `ServerManager`,
which is checked for its liveness only.

## 3. Modules

### TaskStateMachine

`AllowedTransitions`, `AllowedDispatchStage`, `StageToActiveState` and
`FailoverWorker` are the tables and `switch`es of `state-machine.ts` and
`worker-policy.ts`, with `"none"` where the code throws or returns null.

### JobDispatch

State: `tasks` (state, `active_job_id`, rework attempt), `jobs`, `leases` and
`slots` (the jobs that hold one), `retries` (the retry tracker), `submitting`
and `snapshot` (the local variables of `dispatch` calls that await), `polling`
(background polls), and the history variables `finalized` and `granted`: how many
retries each stage really got, and whether a worker lowered the count.

`dispatch` is split at its `await`: `BeginDispatch` is everything before it,
`SubmissionAccepted` and `SubmissionRefused` everything after, and they write
back the remembered task. All other actions are whole handlers: `PostResult`
(the REST route), `PollReturns` and `PollThrows` (the background poll, with the
second `applyResult` of its `catch`), `Cancel`, `RecordTransition`.

Handling a result is a function on a `View`, the part of the store it can reach
(`Handle` and the operators it is built from, one per private method of
`ResultOrchestrator`). This keeps the code's order of effects and its
exceptions: a transition that throws leaves `threw` behind together with what
was changed before it - the raised retry counter in `Retry`, the released lease
in `Failover`.

A result may carry a `retry_count`, which takes the place of the tracked one
(`result-orchestrator.ts:544`). So the tracker says nothing about the retries there
were: `RetriesWithinPolicy` counts those that were granted and holds them to the
policy until a worker reports less than was tracked; that such a worker is retried
without end is what the run `bad_retriesarebounded` shows. The result a poll makes up
(`PollFailures`) is a transient failure, or an authority conflict, which is handled
like a denial.

Abstracted: payloads, artifacts, verdict texts, audit events, backoff times
(nothing waits for them), `blocked_context` and versions (they belong to
`ReleaseFlow` and `CorePersistence`). The run-system gate is advisory unless
configured otherwise and then blocks nothing. The doom-loop branch of
`handleFailedResult` is unreachable: a job's history holds the one transition
`dispatch` tracked, and `detectLoop` needs two. `active_job_id: undefined` in an
update is a no-op in `applyTaskUpdate`, so no result clears it: the model's
handlers leave `active` alone.

### ReleaseFlow

State: `tasks` (per task: state, the state a blocked task resumes, checklist and
ticks, verdict and logs, documents, integration with its checks and the main it
saw, publish mode, approval token, the two run records with "its time-out has
passed"), `keys` (`publishIdempotencyKeys`), and three history variables:
`passed` (gates the present revision went through), `recorded` (an operator
recorded more than the routine), `starts` (publications started per key). `calls` are
the dispatch calls in flight, each with the task as it read it.

`dispatch` reads the task, awaits `submitJob` and writes back what it read
(`job-service.ts:330,385-397`): `BeginDispatch` remembers the whole record,
`DispatchAccepted` and `DispatchRefused` store it again. So a dispatch call that comes back
takes away ticks, a checklist, a verdict, logs and documents that were stored while
it awaited, and returns a task to where it was; `TicksAreKept` says exactly what it may
take, and `AcceptedOnEvidence` holds because it also takes the task back to before its
acceptance.

Every other handler is synchronous, so each is one action with its early returns as
guards or as outcomes: `CompleteAcceptance` keeps the ticks when a later gate
throws; `CompleteIntegrate` is denied, fails or integrates; `Publish` uses up the
key before the policy is asked. An apply that needs approval waits for it unless the
request carries an `approval_token`, and that token is compared with nothing
(`publish-orchestrator.ts:98`; `AwaitsApproval`); only `ApprovePublish` checks one.
`AppliesWithinPolicy` is therefore about the repository policy alone, and the missing
approval is the run `bad_appliesareapproved`. `CheckTimeouts` visits all tasks in one step;
nothing in the repository calls it, so it may happen at any time and nothing is
assumed to make it happen. `AcceptanceResult` takes what `JobDispatch`'s `Handle`
can do to a task in an acceptance job, at any time, late and repeatedly.

Abstracted: `startIntegration` writes `original_base_sha` and `repo_ref.base_sha`
together and nothing changes either, so `validateBaseSha` compares a value with
itself and the model keeps of `main_updated_sha` only its relation to the base;
"stale" stands for the stale statuses that stop acceptance (stale, mixed,
unknown); progress, branch names, warnings, audit events and external references
are left out (no guard reads them). What else dispatch does to jobs, leases and slots
is `JobDispatch`'s subject.

### CorePersistence

State: the memory of the process (`tasks`, `jobs`, `keys`, the dispatch calls and
polls under way), the promise chain `persistenceQueue` (`pass`, the pass that
runs, cut into its writes; `queued`, those behind it; `outcome`, how the last one
ended), `storageError` (`error`), one request whose answer is followed
(`request`), `redis`, and histories: `answered` joins what all successful answers
vouched for, `revived` names the tasks a dispatch call overwrote with the older
record it remembered.

An operation is what it does to a task's version, state and active job, and
whether it schedules a pass: most do through the event they record; `updateTask`
of the documents and tracker routes does not. `WriteTask` is the compare-and-set script:
`same` says that Redis holds the very record of memory, which the script accepts
again. `persistCoreState` iterates over the live map, so it writes the record
there is when it gets to a task, and `getJobsForTask` copies, so a job may be
written older than it is. `Flush` is the `onSend` hook: it awaits the passes
queued so far and is answered with the outcome of the last. `Crash` may come
between any two writes; `Restart` is `restoreCoreState`.

Abstracted: events, results, audit events, checkpoints and retrospectives travel
in the same pass and nothing reads them back into a decision; records expire in
Redis after days (`taskTtl`, `jobTtl`); a restart that meets no Redis does not
start. Versions count from what the process restored.

### ResourceLocks and LockService

`LockService` is the abstract promise: a resource is entrusted to nobody or to
one job and never passes from one to another without having been free.
`ResourceLocks` is `ConcurrencyManager`: `locks` with their owner and expiry, the
clean-up every query starts with (`Cleaned`), release of one or of all locks of a
job, and the optimistic version of a task. `granted` is a history: until when a
job was told it holds a resource. The refinement maps the service's `holders` to
the jobs whose granted time is not over (`Holders`), so a late release that freed
the lock of the next holder would break it. The code asks for no lock around a
dispatch; `JobDispatch` shows what follows.

### LeaseRecovery

`acquire` and `heartbeat` set the expiry and the last heartbeat together, so a
lease is its age, counted in halves of its duration (five heartbeat intervals,
the scanner's threshold, are half of it). `Scan` visits every task in an active
state with a leased active job and applies the decision of `OrphanRecovery`:
block, or retry, which is refused by dispatch because the task is in its active
state. `Operate` moves tasks by the table through acceptance and integration to publication,
or resumes them. `dead` and `silence` are facts about the worker that the code cannot see;
`found` counts the scans that found a job an orphan since its worker was last heard.
Nothing in the server calls `startOrphanScanner` (`control-plane-store.ts:380`) or asks for
a scan, so a scan may happen at any time and none has to: that dead work is recovered at
all is not promised here, only that what a scan finds is recovered by it
(`OrphansAreRecovered`), which the code does not do.

### WorkerExecution

One job from `submitJob` to the end of `waitForJob`: `Route` is
`BackendRouter.route`; `execs` lists what adapters were given and how far each
execution is; `active` is the executor's record of the job. Adapters are of three
kinds, which differ in what a cancel does: it deletes the record (simulated),
kills a process that was started (process), or leaves the request running
(completion). The failover is cut at its two awaits (`LeaveWorker`, `Resubmit`,
`Moved`), so that a shutdown can fall between them.

### ServerManager

Every await of `ensureServerReady`, `start`, `stop` and `waitForReady` is a step
of the calling job (`Steps`); `Exit` and `HealthCheck` come from the process and
the intervals. `process`, `healthy` and `checking` are single fields that all
calls share, as in the code: one call may stop or forget the process of another.
A call may throw: where the configuration cannot be written (`Unwritten`), and where a
server answers but another call's `stop` has set `this.process` to null meanwhile
(`Ready`; `opencode-server-manager.ts:164` reads its `pid`), which leaves a healthy
status without a process and without health checks. The five seconds of a stop kill
whatever process is remembered when they are over (`Stopped`). An interval that is
replaced by a second one can no longer be cleared (`stray`).

### SpawnControl

One scope of the spawn control: token bucket, active agents, queue, and the timer
of each waiting request. `policy` is chosen at the start, so all combinations of
`queue` and `reject` are explored. Time is an integer clock; requests arrive only
while their time-outs still fit in it. The loop of `processQueue` is described
by how many requests it answers (`Passes`): as many as the queue or the bucket allows,
late ones without a token. A token is counted in `Unit` parts, of which the bucket rounds
`Epsilon` away at either end (`Rounded`; `web/src/domain/agent/index.ts:205-217`). So the
plain bound, burst and refill, does not hold: an amount just short of full counts as full,
every time. `SpawnsKeepTheRate` is the bound that does hold, with a spawn at the price
of a token less `Epsilon`. Rounding down works the other way: a bucket that is looked at
before it has gained `Epsilon` never gains anything.

### SessionPool

The registry (`sessions`), the ids the server has handed out (`born`) and, per
job, where `execute` is (`run`). A lease of five minutes is shorter than a job may
take, so `LeaseRunsOut` may come at any time while the job goes on; `intime` is
the history that it has not come yet. `Collected`, `Cancelled` and `Poll` release,
bury or keep the session as the adapter and the executor do, in their order.

### EventStream

What a session says (`log`), what reached the job's event container by the first
answer and by the poll (`stream`), and the escalations of the result. `Parsed` has
the short and long names of `parseTranscriptItem`; `Escalations` the normalization
of permission requests. A result keeps its escalations as a set: nothing reads their
order, and repeats are in `stream`. `heard` tells a result whose output was fetched
from one that was reported as a success without it.

### TaskRecords

One task of `agent-taskstate-js` over Redis. An operation is a sequence of
requests, each a step; `op` holds what the client has read. A client may fail
between any two (`Fail`). `past` remembers whether an operation has failed, or has
shared its time with a deletion, since no promise of the package covers either.

### TaskReferences

Links of a task to tracker entities, over Redis, with the two indexes that are
read and written back, and `external_refs` on the task; and the document of the
task with its acknowledgements and the stale check. `settled` is the history of
what was done while no other operation of its kind was in flight: only that is
promised to stay. Of an entity the task was unlinked from, the list of the task may
still name a link, though none is stored: an operation that read the list before
writes it back (`WriteIndex`), and as `deleteEntityLink` then does not find the link, no
later unlink takes the name out again.

### WorkerRuntime

A session is either owned by a caller, each of whose calls is synchronous, or by
the bridge to a worker adapter, which awaits (`bridged`); a job that is started again
replaces its session, and late answers end the old one. Inputs are admitted with
a delivery (`steer` or `queue`) and promoted to turns up to the first that is queued;
`tools` are the open registrations of a tool, of which the latest counts; `asks`
are the starts, polls and interruptions under way with the answers they carry. Only tests
construct the runtime.

`SessionIsOrderly` promises what the code keeps and the documents ask for: queued inputs
first in, first out, whatever is steered between them, and limits on what is sent. It
does not promise that a steered input is promoted at the next boundary, nor that
promotion keeps to `max_turns`; the code does neither (section 4).

## 4. Runs

Bounds: `JobIds` bounds the number of dispatch calls ever made (`createId` returns
fresh ids), `MaxRevision` the development rounds, `MaxVersion` the changes of a
task or document, `MaxOps` the operations that begin, `MaxTime` the clock,
`MaxTurns`, `MaxCalls`, `MaxRegistrations`, `MaxSaid` and `MaxErrors` what a session does,
`Calls` the dispatch calls in flight together. Deadlock checking is off because the
models stop when these are used up and every task is terminal.

| Run | Instance | Shows |
|---|---|---|
| `dispatch` | 1 task, 2 jobs, workers codex and google_antigravity with one slot each, 1 retry, 1 rework, reported counts of 0, weak fairness | the safety invariants and both action properties of `JobDispatch`; every job a worker took is completed or failed |
| `release` | two scenes. "rounds": 1 task, 2 revisions, 1 checklist item, the default policy, one dispatch call in flight. "sharing": 2 tasks, one with optional checks, 1 key, acceptance recorded by hand. All results and reports, mode apply | nothing passes a gate it has not been through or leaves its evidence behind; ticks, repository policy and run records hold; a key starts one publication |
| `persist` | 1 task, 1 job, 3 versions, 1 pass queued behind the one that runs | a request answered with success is in Redis whatever passes conflict or break and wherever the process crashes; no task waits for a job of a dead process |
| `answers` | 2 tasks, 1 key, 1 version, 1 pass queued, no recorded transitions, weak fairness | what was answered is known after a restart; every request is answered |
| `services` | locks: 2 jobs, 2 resources, durations 0 and 2; sessions: 2 sessions, 3 jobs; events: 3 items; records: 2 clients, 1 item, 5 operations; links and documents: 2 clients, 2 entities, 3 operations; runtime: 2 clients, 2 inputs | the safety of the components around the store |
| `progress` | 1 task, 3 jobs (leases); 2 callers (server); the failover chain of one job (worker); 3 requests, 1 agent, 1 token of 8 parts of which 4 are rounded away (agents); weak fairness but for the leases | what is started ends, in order and within its limits; only silent work is blocked |
| `bad_terminalisfinal` | `dispatch` without fairness, 2 slots per worker | a dispatch call revives a cancelled task |
| `bad_retriesarebounded` | the same with 1 job | a worker that reports `retry_count` 0 is retried beyond the limit |
| `bad_acceptanceisindependent`, `bad_appliesareapproved` | `release` | old evidence opens the gate; any token starts an apply that needs approval |
| `bad_onlystalewritesarerefused` | `persist` with 2 passes queued | the only writer is refused |
| `bad_orphansarerecovered` | `progress` | an orphan is found again by the next scan |

Two jobs of one task are enough for every race there is between dispatch calls,
since all of them are between a call in flight and one other actor; two workers
make both branches of failover happen (codex fails over, the last of the chain
does not), and one slot per worker makes the second call meet the limit. Two
revisions are what it takes for evidence of one revision to meet another, and
two tasks for a key to be shared. In "rounds" no operator goes beyond the routine
(resume, turn down, give up), in "sharing" one accepts by hand. One dispatch call in
flight is enough for a stale write-back, whose record can be as old as the first revision;
several calls at once are explored in `dispatch`. In `persist` a
task changes three times between two writes, so that results (two versions at
once) meet dispatch calls and operators; in `answers` a pass visits two tasks in
either order, one of them new.

In `services` a lock of duration 2 expires under its holder while the clock goes
to 3, and another job takes it before the late release; three jobs and two
sessions make one job take over the session of a late one while a third competes
for it; two clients are what a race needs, and the bound on operations leaves
room for what follows it (a deletion after a failure, an unlink after two
concurrent links, a check that spans an acknowledgement and a resolution).
In `progress` three spawns fill the queue while one agent runs; two callers stop
each other's process; the chain of workers has three members, so a job can fail
over twice and be cancelled or outlive a shutdown at each. A bucket of one token that gains
three parts of eight per tick is rounded down to nothing after one tick and up to full
after two, and a queued spawn waits those two.

Fairness: `submitJob` and `waitForJob` are bounded by time-outs in the executor,
so calls in flight and polls come back (weak fairness of each job's settling
actions). Nobody has to post results, cancel or dispatch. `ReleaseFlow` has no
liveness property: nothing schedules its clients, its operators or
`checkTimeouts`. In `CorePersistence` promises are run and Redis answers each
command, be it with an error (weak fairness of `Flush` and of the pass's steps);
nothing makes a crashed process come back. In `progress`: the awaits of a server
call, all of which end by a timer, a file that is written or not, or a closed process
(`Steps`); adapters answer and the deadline of `waitForJob` passes (`Answered`,
`TimeOut`); the timer of a queued spawn fires, as the clock goes on (`QueueTimesOut`,
`Tick`). Nothing makes a scan come, no process has to start, answer or end by itself,
no agent has to be unregistered, and the queue processor need not run.

The six disagreements, each a run with a counterexample of a few steps:

- `TerminalIsFinal`: a stale dispatch call revives a cancelled task
  (`docs/state-machine.md:34`);
- `RetriesAreBounded`: a worker's own `retry_count` replaces the tracked one, so with 0
  reported each time a stage is retried without end (`docs/project/ADD_REQUIREMENTS.md:137`);
- `AcceptanceIsIndependent`: after a rework the old verdict and ticks open the gate;
- `AppliesAreApproved`: an apply that requires approval starts on any string sent as
  `approval_token` (`docs/api-contract.md:237`, `docs/state-machine.md:112`);
- `OnlyStaleWritesAreRefused`: the compare-and-set accepts a record over its direct
  predecessor only, but a result raises the version by two between two writes: the only
  writer is refused from then on, and so is every request until a restart;
- `OrphansAreRecovered`: an orphan in development with a retry left is dispatched while it
  is in its active state, which dispatch refuses, and the next scan finds it again
  (`docs/lock-and-lease.md:104`).

Others were met while modelling and are visible in the modules, without a run of
their own. In the core:

- a repeated result is applied again (`PostResult` has no guard on the job's
  results), and an integration reported with conflicts is integrated
  (`CompleteIntegrate` looks at checks and the base only);
- a retried dev job keeps developing without a lease
  (`docs/execution-reliability.md:105`; `Retry`);
- two concurrent calls of `dispatch` start two jobs of one task
  (`docs/lock-and-lease.md:18`; `BeginDispatch` takes no lock);
- a dispatch call that comes back erases ticks, verdict, logs and documents stored while it
  awaited (`DispatchAccepted`);
- a transient failure of an acceptance job goes to rework with a retry left
  (`docs/execution-reliability.md:41`; `Validated`, `ValidationFailure`), and a plan
  job without retries goes to rework instead of blocked (`:39`; `FinalFailure`);
- a recorded transition accepts a task without the gate
  (`docs/state-machine.md:97`; `RecordTransition`);
- an integration resumed after its time-out is not timed any more
  (`docs/state-machine.md:107`; `TimedOut` looks at running runs only);
- documents resolved, acknowledged or checked and trackers linked are answered
  with success although no pass is scheduled for them (`UpdateTask`);
- a crash between the write of a task and that of its job leaves a task waiting
  for a job nobody knows (`docs/api-contract.md:74`; `WriteTask`, `WriteJob`);
- jobs whose submission was refused, or that were answered through the REST
  route, stay pending, so a restart blocks their task although it has moved on
  (`Interrupted`);
- several instances may share a Redis (`docs/DEPLOYMENT.md:118`), but a process
  reads it only when it starts;
- a publication starts without a key (`docs/api-contract.md:238`) and completes
  without an external reference (`docs/state-machine.md:113`).

Around workers, servers and sessions:

- a job cancelled before its command is spawned leaves the process running, and
  `glm5-adapter.ts:184` writes its status over a cancellation (`AfterCancel`);
- a failover that outlives a shutdown writes its record back (`Moved`);
- two concurrent callers of `ensureServerReady` spawn two server processes, of
  which one is forgotten (`Spawn`); the five-second timer of a stop kills the successor of
  the process it was meant for (`Stopped`); a call whose process was forgotten throws and
  leaves a healthy status without a process (`Ready`); the orphan scanner and
  `checkTimeouts` are never started;
- the lease of a session, five minutes, is shorter than the ten a job may take
  (`LeaseRunsOut`), so `InTimeJobsAreAlone` speaks of jobs in time only;
- when the output of a finished session cannot be fetched, the job succeeds
  without the permissions it asked for (`PollCompletes`;
  `docs/project/OPENCODE_SERVE_PHASE2B_REQUIREMENTS.md:112`); a transcript fetched in
  two parts reports its escalations twice;
- `executeWithServe` marks a fallback as used without falling back
  (`opencode-serve-adapter.ts:477`);
- a steering input waits behind a queued one, since promotion stops at the first that is
  queued (`PromoteAdmittedInputs`; `worker-runtime.ts:352-374`), although
  `docs/project/WORKER_RUNTIME_SESSION_REQUIREMENTS.md:37` has it promoted at the next safe
  boundary; promoted inputs exceed `max_turns` (WR-REQ-002 at `:48` there); polling a
  running job uses up its session's turns, and an ended session can be completed or
  interrupted again. A policy with `max_turns` 0 is not modelled.

In spawn control and in the packages:

- `queueRequest` answers `queue` without queueing; `processQueue` reads the number
  of agents once and registration comes later, so `max_concurrent_agents` can be
  exceeded; a timer that is never cleared counts a rejection for a spawn that was
  allowed; the bucket's rounding lets a steady stream of spawns exceed burst and refill, and
  starves one that is asked too often (`Rounded`);
- `agent-taskstate-js`: updates are lost to each other, an update in flight brings a
  deleted task back (`WriteTask`), and what is created during a deletion stays
  (hence `"overlap"`);
- tracker links: concurrent links lose index entries and references
  (`WriteIndex`), and unlinking leaves `external_refs` as they were (`Unlinked`);
- an acknowledgement repeated for an older version keeps its place, so a later one
  wins (`AckDocs`), and a stale check undoes what came while it awaited (`Checked`).

## 5. Proofs

`JobDispatch_proofs` proves for every set of tasks and jobs, every limit,
every policy and every count a worker may report: type correctness, the six safety
invariants and both action properties. The argument: what a result does is a
function on views, so
`HandleFine` says once for all results that handling moves the task at most once
and along the table, takes nothing and un-finalizes nothing. `IInv` strengthens
the checked invariants by what is true of unused jobs (`Records`), of polls
(`PolledIsSubmitted`), of retries (`RetriesTracked`: the tracker is ahead of what
was granted until a worker lowers it) and of remembered tasks (`SnapshotIsItsOwn`): without
the last, the write-back of an old record could bring back an active job of another
task. `CapacityIsRespected` adds cardinalities on top.

`ReleaseFlow_proofs` proves every property of `release` for any tasks, keys, dispatch calls,
items, policies, results and recorded transitions. Tasks meet only in `keys`, so the
invariant is a conjunction of one `TaskOK` per task and of the key's history. `TaskOK`
strengthens the checked invariants by `RunOK` (what a closed run says about the checks, and
that an integration that exists has a run) and by the gates of a blocked task being those of
where it resumes. Each action is then shown to *keep* one task's `TaskOK` and its ticks
(`Keeps`); `TaskStep` and `StoreStep` lift that to the whole state, and
`CheckTimeoutsStep` is the one action that uses it for all tasks at once. A dispatch call
that comes back does not keep the ticks. It is harmless for another reason (`CallsOK`): what
it remembers is out of date but sound in itself (`SeenOK`), and puts the task before its
acceptance, where nothing is claimed of its evidence (`ReturnHolds`).

`CorePersistence_proofs` proves its four invariants for any tasks, jobs, keys and
bounds. None of them is inductive: that a success is stored is decided when the
answer is given, from what happened while it waited. `IInv` says where the data is
in between. `Behind`: Redis is never ahead of memory. `Promised`: memory keeps what
it vouched for. `Covered`: the pass that runs has carried to Redis what the request
was promised, for the tasks it has visited and, while it writes jobs, for those it
still has in hand (`PassOK` puts these copies between Redis and memory).
`LastPassCovers`: the pass whose end answers the request is one that started after
it. An operation in memory only grows what there is (`Grows`, `WorkStep`); a write
of a pass moves its frontier, one lemma per write; the end of a pass turns `Covered`
into `Durable` (`PassEndsStep`). The argument never looks at which records the
compare-and-set accepts: one writer that never steps back needs it not. It does step
back where a dispatch call stores the record it remembered, which is why those
tasks (`revived`) are exempt from the promise about versions.

`TaskRecords_proofs` proves `RecordsAreKept` for any clients, items and requested
states. `RecordsInv` has two parts. While no operation has met a deletion
(`Safe`): a deletion is alone (`Alone`) and has taken the task away before it wipes
the history (`Wiped`), and the history knows the status and whatever a client in
flight will write over it (`Recorded`). While nothing has failed either (`Clean`):
every item is in the index or its creator is about to put it there (`Reached`), who
resolves an item finds it (`Resolved`), a deletion has emptied what it has passed
(`Passed`), and a deleted task is empty (`Emptied`). A client in the middle of
another operation excludes a deletion, which is why only items can disturb `Clean`
(`MoveClean`).

`SessionPool_proofs` proves `InTimeJobsAreAlone` and `PooledSessionsAreFree` for any
sessions, jobs and kinds of jobs. Neither is inductive; `SessionsInv` says who holds
what. A session in the pool is unleased and healthy (`Free`, part of the type of a
record). A registered session has an id that was handed out (`Known`), so an id the
registry has forgotten does not come back to a second job. A job that works in time
holds the lease of its session, and that lease is not late, unless the registry has
forgotten the session (`Held`). `Quiet` covers every step that brings nobody into a
session and takes no lease from those in time; `Enters` covers the two that do bring
somebody in, `Reuse` and `ServerAnswers`.

`WorkerRuntime_proofs` proves `SessionIsOrderly` for any inputs, clients and limits, with
two invariants. `RuntimeInv` is about the bridge: it stores its session when it knows
of the job (`StoredWithJob`), who starts one has no answer to hear yet
(`StartsUnanswered`), polls and
interruptions are about a job the adapter has taken (`AskedOfJob`), and a success on
its way is still one (`SuccessStands`). `AnsweredStep` covers the answers of polls and
of interruptions alike. `TurnsInv` is about inputs and turns: promoted inputs are the
first that were admitted, their turns come in the same order, and every turn that was
sent is among the first `max_turns`; a session of the bridge has no inputs, which is
why the turns its start writes take nothing away (`SubmittedTurns`). `PromoteStep` does
not use how many inputs are taken, only that nobody who waits before one of them is
left behind.

`Services_proofs` proves the remaining properties of `Services`, and carries those of
the three modules above over to it. They are proved about instances of their own
(`PoolProofs`, `RecordProofs`, `RuntimeProofs`), which `SamePool`, `SameRecords` and
`SameRuntime` identify with the instances of `Services`.

- Locks: the refinement of `LockService` and `NoLostUpdate`, for any jobs, resources,
  durations and clock. `Backed`: whoever was granted a time that is not over owns the
  lock, with at least that expiry - so two holders would be two owners. `Counted`: no
  update has won on a version that is still to come, so the next win on a version is
  its first. The refinement maps `Acquire` to `Take`, and a tick, a release of one or
  of all locks to `Leave` with the set of resources they free.
- Events: `HeardInv` says that the stream holds only what the session's items parse
  to, and all of them once the output was fetched (`Fetched`).
- Links: `LinksAreKept` is not inductive, because operations write back lists they
  read before. `LinkInv` adds what each operation in flight carries: what it has done
  (`Progress`), that what it will write keeps the settled links (`Spares`), and that it
  brings back none with an entity that is unlinked (`Shuns`). `Alone` ties the history
  of who met whom to the operations in flight. `Shuns` does not hold of the names in
  the task's list, only of stored links: a form of `UnlinkedIsGone` about all names in
  the list holds with three operations and fails with four.
- Documents: `KnownInv` says that a settled acknowledgement or version is also in the
  copy of every check in flight (`Remembers`), so writing it back loses nothing.

`Progress_proofs` proves the safety properties of `Progress`, for any tasks, jobs,
workers, requests and limits.

- Worker executor: `WorkerInv` gives every worker its rank in the failover chain.
  Executions are in the order of ranks (`InTurn`), a submission in flight aims past
  all of them (`Aimed`), and the record of a job names the worker that has it
  (`Recorded`): without the last, a failover that looks at the record could go back in
  the chain. `EachWorkerOnce` follows.
- Spawns: `RateInv` adds what the bucket holds to what was allowed, a spawn at `Unit` less
  `Epsilon`, and says that a bucket that is not full has `Epsilon` in reserve: what is
  rounded up was paid for by a spawn since it was full (`RefillRate`, `TakeRate`). `WaitInv` says
  that the queue is a part of the arrivals in their order (`InOrder`) and holds just
  those that wait (`WaitersQueue`), so what `processQueue` takes from its front has
  nobody before it.
- Leases: `LeaseInv` says that a worker with a lease has been silent for as long as
  the lease is old, since `acquire` and `heartbeat` set both; hence the scanner's test of
  the age is one of the silence.

Only model-checked: the liveness properties (`EveryJobConcludes`,
`RequestsAreAnswered`, `EveryCallEnds`, `EveryWaitEnds`,
`EveryWaiterIsAnswered`: liveness under fairness is out of the prover's reach), and the
`bad_*` runs. Every invariant and every action property of the passing runs is a
theorem.

Assumptions: `ConstantsAssumption` (absent values differ from ids, limits are
naturals, finitely many job ids), `ReleaseAssumption` and `PersistenceAssumption`
(the constants have the types their comments give), `NoneIsNoRecord`, `NoneIsNoLock` and
`NoneIsNoWorker` (the absent value is no record, no lock, no job), `LocksAssumption`
(durations and bounds are naturals), `ProgressAssumption` (the stage and the adapters
are of those there are, the bucket holds a token at least and rounds away less than one,
the absent value is no number), `LinksAssumption` (the list of a task is under a key of its own),
`RuntimeAssumption` (limits are naturals, no input is named like the turns of others)
and `SaidAssumption` (what a session says has a type). `TaskRecords` needs none.

## 6. Not modelled

- Instructions, context bundles, checkpoints, stage validation: text assembly and
  schema checks; the validators' verdict is an input of `JobDispatch`.
- The doom-loop detector (`src/domain/doom-loop`). In the server it sees one transition per
  fresh job id (`dispatch-orchestrator.ts:261`, `result-orchestrator.ts:548`), so it never
  finds a loop and no decision depends on it, whatever `docs/project/RUNBOOK.md:858` says of
  it; `checkLoop` has no caller, and `trackTransition` takes any two states.
- Risk, side effects, capabilities, the run-system gate: pure classification,
  advisory by default.
- Parsing, prompts, tool plans, process and file I/O of the worker adapters: what
  they do to a job's record is in `WorkerExecution`, the text they read is not.
- Monitoring, alerts, runs, retrospectives, improvement observations: they observe
  and nothing reads them back into a decision.
- LiteLLM and taskstate clients, GitHub environments and projects: clients of other
  services.
- Routes, authentication, TLS, health, configuration, command line, workspaces, web
  UI: thin layers over what is modelled, start-up code, the disk, and display.
- `src/infrastructure/session-executor`: a second copy of the session executor that
  nothing constructs.
