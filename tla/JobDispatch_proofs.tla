-------------------------- MODULE JobDispatch_proofs --------------------------
(***************************************************************************)
(* Proofs about JobDispatch for every set of tasks, job ids and workers,   *)
(* every limit and every retry policy.                                     *)
(*                                                                         *)
(* The argument: what a result does is a function on views, so lemmas      *)
(* about Handle say once what no result can do; the inductive invariant    *)
(* IInv adds to the checked invariants what is true of unused jobs, of     *)
(* polls and of the remembered tasks.                                      *)
(***************************************************************************)
EXTENDS JobDispatch, FiniteSetTheorems, TLAPS

-----------------------------------------------------------------------------
(* Facts about the transition table *)

LEMMA TableTypes ==
  /\ \A s \in TaskStates : AllowedTransitions[s] \subseteq TaskStates
  /\ \A s \in TerminalStates : s \in TaskStates /\ AllowedTransitions[s] = {}
  /\ \A s \in TerminalStates : AllowedDispatchStage[s] = "none"
  /\ \A s \in TaskStates : AllowedDispatchStage[s] \in Stages \union {"none"}
  /\ \A g \in Stages : StageToActiveState[g] \in TaskStates
  /\ {"planned", "dev_completed", "rework_required", "blocked", "cancelled", "queued"} \subseteq TaskStates
<1>1. \A s \in TaskStates : Forward[s] \subseteq TaskStates
  BY DEF Forward, TaskStates, ActiveStates, RestingStates, TerminalStates
<1>2. \A s \in TaskStates : AllowedTransitions[s] \subseteq TaskStates
  BY <1>1 DEF AllowedTransitions, TaskStates, StopStates, ActiveStates, RestingStates, TerminalStates
<1>3. \A s \in TerminalStates : s \in TaskStates /\ AllowedTransitions[s] = {}
  BY DEF AllowedTransitions, TaskStates
<1>4. \A s \in TerminalStates : AllowedDispatchStage[s] = "none"
  BY DEF AllowedDispatchStage, TaskStates, TerminalStates
<1>5. \A s \in TaskStates : AllowedDispatchStage[s] \in Stages \union {"none"}
  BY DEF AllowedDispatchStage, Stages
<1>6. \A g \in Stages : StageToActiveState[g] \in TaskStates
  BY DEF StageToActiveState, Stages, TaskStates, ActiveStates
<1>7. {"planned", "dev_completed", "rework_required", "blocked", "cancelled", "queued"} \subseteq TaskStates
  BY DEF TaskStates, RestingStates, TerminalStates
<1> QED BY <1>2, <1>3, <1>4, <1>5, <1>6, <1>7

-----------------------------------------------------------------------------
(* What a result can do to a view *)

(* A view of a job of stage g as the invariants want it. *)
GoodView(v, g) ==
  /\ v \in View
  /\ v.tries <= MaxRetries[g]
  /\ v.granted.lowered \/ v.granted.times <= v.tries
  /\ v.leased => v.slotted
  /\ v.settled => ~v.slotted

(* What every result does: it moves the task at most once and along the    *)
(* table, not at all when it throws; it names no other active job, takes   *)
(* no lease and no slot and does not un-finalize the job.                  *)
Yields(v, w) ==
  /\ w.task.state = v.task.state \/ CanTransition(v.task.state, w.task.state)
  /\ w.threw /\ ~v.threw => w.task.state = v.task.state
  /\ w.task.active = v.task.active
  /\ w.leased => v.leased
  /\ w.slotted => v.slotted
  /\ v.settled => w.settled

Fine(v, w, g) == GoodView(w, g) /\ Yields(v, w)

UsedJob == [task : Tasks, stage : Stages, worker : WorkerTypes, status : JobStatus, submitted : BOOLEAN]

LEMMA MoveFine ==
  ASSUME NEW g \in Stages, NEW v, GoodView(v, g), NEW task \in Task, NEW to \in TaskStates,
         task.active = v.task.active, task.state = v.task.state
  PROVE  Fine(v, Move(v, task, to), g)
<1>1. CASE CanTransition(task.state, to)
  <2> DEFINE moved == [task EXCEPT !.state = to]
             w == [v EXCEPT !.task = moved]
  <2>1. moved \in Task /\ moved.active = v.task.active /\ moved.state = to
    BY DEF Task
  <2>2. w.task = moved /\ v \in View /\ w \in View
    BY <2>1 DEF GoodView, View
  <2>3. /\ w.tries = v.tries /\ w.granted = v.granted /\ w.leased = v.leased /\ w.slotted = v.slotted
        /\ w.settled = v.settled /\ w.threw = v.threw
    BY <2>2 DEF View
  <2>4. Yields(v, w)
    BY <1>1, <2>1, <2>2, <2>3 DEF Yields
  <2>5. GoodView(w, g)
    BY <2>2, <2>3 DEF GoodView
  <2> QED BY <1>1, <2>4, <2>5 DEF Fine, Move
<1>2. CASE ~CanTransition(task.state, to)
  BY <1>2 DEF Move, Fine, GoodView, Yields, View
<1> QED BY <1>1, <1>2

LEMMA FinalizeFine ==
  ASSUME NEW g \in Stages, NEW v, NEW w, GoodView(v, g), Fine(v, w, g)
  PROVE  Fine(v, Finalize(w), g)
BY DEF Finalize, Fine, GoodView, Yields, View

LEMMA FineTransitive ==
  ASSUME NEW g \in Stages, NEW u, NEW v, NEW w, Fine(u, v, g), Fine(v, w, g),
         \/ u.task.state = v.task.state /\ u.threw = v.threw
         \/ v.task.state = w.task.state /\ v.threw = w.threw
  PROVE  Fine(u, w, g)
BY DEF Fine, Yields

LEMMA GrantedFields ==
  ASSUME NEW n \in Nat, NEW b \in BOOLEAN
  PROVE  LET x == [times |-> n, lowered |-> b]
         IN  x \in Granted /\ x.times = n /\ x.lowered = b
BY DEF Granted

LEMMA GivenFields ==
  ASSUME NEW v \in View, NEW x \in Granted
  PROVE  LET u == [v EXCEPT !.leased = FALSE, !.granted = x]
         IN  /\ u \in View /\ u.tries = v.tries /\ u.granted = x
             /\ u.task = v.task /\ ~u.leased /\ u.slotted = v.slotted
             /\ u.settled = v.settled /\ u.threw = v.threw
BY DEF View

LEMMA RetryFine ==
  ASSUME NEW job \in UsedJob, NEW v, GoodView(v, job.stage),
         NEW count \in Nat, count < MaxRetries[job.stage]
  PROVE  Fine(v, Retry(v, job, count), job.stage)
<1> DEFINE g == job.stage
           lowered == v.granted.lowered \/ count < v.tries
           times == GrantOne(v.granted.times, g)
           known == [times |-> v.granted.times, lowered |-> lowered]
           given == [times |-> times, lowered |-> lowered]
           u == [v EXCEPT !.tries = count + 1, !.granted = known]
           w == Move(u, v.task, StageToActiveState[g])
           z == [w EXCEPT !.leased = FALSE, !.granted = given]
<1>1. /\ g \in Stages /\ StageToActiveState[g] \in TaskStates /\ MaxRetries[g] \in Nat
      /\ v \in View /\ v.task \in Task /\ v.granted.times \in Nat /\ v.tries \in Nat
  BY TableTypes, ConstantsAssumption DEF UsedJob, GoodView, View, Granted
<1>2. lowered \in BOOLEAN /\ times \in Nat /\ times <= v.granted.times + 1
  BY <1>1 DEF GrantOne
<1>3. lowered \/ (v.granted.times <= v.tries /\ v.tries <= count)
  <2>1. CASE v.granted.lowered \/ count < v.tries
    BY <2>1
  <2>2. CASE ~v.granted.lowered /\ ~(count < v.tries)
    BY <1>1, <2>2 DEF GoodView
  <2> QED BY <2>1, <2>2
<1>4. (lowered \/ v.granted.times <= count + 1) /\ (lowered \/ times <= count + 1)
  BY <1>1, <1>2, <1>3
<1> HIDE DEF lowered, times
<1>5. /\ known \in Granted /\ known.times = v.granted.times /\ known.lowered = lowered
      /\ given \in Granted /\ given.times = times /\ given.lowered = lowered
  BY <1>1, <1>2, GrantedFields
<1> HIDE DEF known, given
<1>6. /\ u \in View /\ u.tries = count + 1 /\ u.granted = known
      /\ u.task = v.task /\ u.leased = v.leased /\ u.slotted = v.slotted
      /\ u.settled = v.settled /\ u.threw = v.threw
  <2> DEFINE n == count + 1
  <2>1. v \in View /\ known \in Granted /\ n \in Nat
    BY <1>1, <1>5
  <2>2. u = [v EXCEPT !.tries = n, !.granted = known]
    OBVIOUS
  <2> HIDE DEF u, n
  <2>3. /\ u \in View /\ u.tries = n /\ u.granted = known
        /\ u.task = v.task /\ u.leased = v.leased /\ u.slotted = v.slotted
        /\ u.settled = v.settled /\ u.threw = v.threw
    BY ONLY <2>1, <2>2 DEF View
  <2> QED BY <2>3 DEF n
<1> HIDE DEF u
<1>7. GoodView(u, g) /\ Fine(v, u, g)
  BY <1>1, <1>4, <1>5, <1>6 DEF Fine, GoodView, Yields
<1>8. Fine(u, w, g) /\ (w.threw \/ w.tries = count + 1)
  <2>1. Fine(u, w, g)
    BY <1>1, <1>6, <1>7, MoveFine
  <2>2. CASE CanTransition(v.task.state, StageToActiveState[g])
    <3>1. w = [u EXCEPT !.task = [v.task EXCEPT !.state = StageToActiveState[g]]]
      BY <2>2 DEF Move
    <3> QED BY <1>6, <2>1, <3>1 DEF View
  <2>3. CASE ~CanTransition(v.task.state, StageToActiveState[g])
    BY <1>6, <2>1, <2>3 DEF Move, View
  <2> QED BY <2>2, <2>3
<1>9. Fine(v, w, g)
  BY <1>1, <1>6, <1>7, <1>8, FineTransitive
<1> HIDE DEF w
<1>10. /\ w \in View
       /\ z \in View /\ z.tries = w.tries /\ z.task = w.task /\ ~z.leased
       /\ z.slotted = w.slotted /\ z.settled = w.settled /\ z.threw = w.threw
       /\ z.granted = given
  <2>1. w \in View
    BY <1>8 DEF Fine, GoodView
  <2> QED BY <1>5, <2>1, GivenFields
<1> HIDE DEF z
<1>11. ASSUME ~w.threw PROVE Fine(v, z, g)
  <2>1. Fine(w, z, g)
    BY <1>4, <1>5, <1>8, <1>10, <1>11 DEF Fine, GoodView, Yields
  <2> QED BY <1>1, <1>9, <1>10, <2>1, FineTransitive
<1>12. Retry(v, job, count) = IF w.threw THEN w ELSE z
  BY DEF Retry, lowered, times, known, given, u, w, z
<1> QED BY <1>9, <1>11, <1>12

LEMMA FailoverFine ==
  ASSUME NEW job \in UsedJob, NEW v, GoodView(v, job.stage)
  PROVE  Fine(v, Failover(v, job), job.stage)
<1> DEFINE u == [v EXCEPT !.leased = FALSE]
<1>1. job.stage \in Stages /\ StageToActiveState[job.stage] \in TaskStates
  BY TableTypes DEF UsedJob
<1>2. Fine(v, u, job.stage) /\ u.task = v.task /\ u.threw = v.threw /\ v.task \in Task
  BY DEF GoodView, Fine, Yields, View
<1>3. Fine(u, Move(u, v.task, StageToActiveState[job.stage]), job.stage)
  BY <1>1, <1>2, MoveFine DEF Fine
<1> QED BY <1>1, <1>2, <1>3, FineTransitive DEF Failover

(* The task moves on and the job is finalized. *)
LEMMA MoveFinalizeFine ==
  ASSUME NEW g \in Stages, NEW v, GoodView(v, g), NEW task \in Task, NEW to \in TaskStates,
         task.active = v.task.active, task.state = v.task.state
  PROVE  Fine(v, Finalize(Move(v, task, to)), g)
BY MoveFine, FinalizeFine

LEMMA FinalFailureFine ==
  ASSUME NEW job \in UsedJob, NEW v, GoodView(v, job.stage)
  PROVE  Fine(v, FinalFailure(v, job), job.stage)
<1> DEFINE previous == IF v.task.rework.stage = job.stage THEN v.task.rework.attempt ELSE 0
           reworked == [v.task EXCEPT !.rework = [stage |-> job.stage, attempt |-> previous + 1]]
<1>1. job.stage \in Stages
  BY DEF UsedJob
<1>2. v.task \in Task
  BY DEF GoodView, View
<1>3. previous \in 0 .. MaxReworkAttempts /\ MaxReworkAttempts \in Nat
  BY <1>2, ConstantsAssumption DEF Task, Rework
<1>4. CASE previous >= MaxReworkAttempts
  BY <1>1, <1>2, <1>4, TableTypes, MoveFinalizeFine DEF FinalFailure
<1>5. CASE ~(previous >= MaxReworkAttempts)
  <2>1. previous + 1 \in 0 .. MaxReworkAttempts
    BY <1>3, <1>5
  <2>2. [stage |-> job.stage, attempt |-> previous + 1] \in Rework
    BY <1>1, <2>1 DEF Rework
  <2>3. reworked \in Task /\ reworked.active = v.task.active /\ reworked.state = v.task.state
    BY <1>2, <2>2 DEF Task
  <2>4. Fine(v, Finalize(Move(v, reworked, "rework_required")), job.stage)
    BY <1>1, <2>3, TableTypes, MoveFinalizeFine
  <2> QED BY <1>5, <2>4 DEF FinalFailure
<1> QED BY <1>4, <1>5

LEMMA SucceedFine ==
  ASSUME NEW job \in UsedJob, NEW v, GoodView(v, job.stage), NEW verdict
  PROVE  Fine(v, Succeed(v, job, verdict), job.stage)
<1>1. job.stage \in Stages /\ v.task \in Task
  BY DEF UsedJob, GoodView, View
<1>2. SuccessState(job.stage) \in TaskStates
  BY TableTypes DEF SuccessState
<1>3. Fine(v, v, job.stage)
  BY DEF Fine, Yields
<1>4. Fine(v, Finalize(v), job.stage)
  BY <1>1, <1>3, FinalizeFine
<1>5. Fine(v, Finalize(Move(v, v.task, SuccessState(job.stage))), job.stage)
  BY <1>1, <1>2, MoveFinalizeFine
<1>6. Fine(v, Finalize(Move(v, v.task, "rework_required")), job.stage)
  BY <1>1, TableTypes, MoveFinalizeFine
<1> QED BY <1>4, <1>5, <1>6 DEF Succeed

LEMMA FailFine ==
  ASSUME NEW job \in UsedJob, NEW v, GoodView(v, job.stage), NEW result \in Results
  PROVE  Fine(v, Fail(v, job, result), job.stage)
<1> DEFINE count == IF result.count = NoCount THEN v.tries ELSE result.count
<1>1. count \in Nat
  BY ConstantsAssumption DEF GoodView, View, Results
<1>2. Fine(v, Failover(v, job), job.stage) /\ Fine(v, FinalFailure(v, job), job.stage)
  BY FailoverFine, FinalFailureFine
<1>3. count < MaxRetries[job.stage] => Fine(v, Retry(v, job, count), job.stage)
  BY <1>1, RetryFine
<1> QED BY <1>2, <1>3 DEF Fail

LEMMA ValidationFailureFine ==
  ASSUME NEW job \in UsedJob, NEW v, GoodView(v, job.stage), NEW kind
  PROVE  Fine(v, ValidationFailure(v, job, kind), job.stage)
<1> DEFINE to == IF kind = "denied" THEN "blocked" ELSE "rework_required"
<1>1. job.stage \in Stages /\ v.task \in Task /\ v.tries \in Nat
  BY DEF UsedJob, GoodView, View
<1>2. to \in TaskStates
  BY TableTypes
<1>3. Fine(v, Finalize(Move(v, v.task, to)), job.stage)
  BY <1>1, <1>2, MoveFinalizeFine
<1>4. v.tries < MaxRetries[job.stage] => Fine(v, Retry(v, job, v.tries), job.stage)
  BY <1>1, RetryFine
<1> QED BY <1>3, <1>4 DEF ValidationFailure

(* Whatever the result, the stage and the state of the task.               *)
LEMMA HandleFine ==
  ASSUME NEW job \in UsedJob, NEW v, GoodView(v, job.stage), NEW result \in Results
  PROVE  Fine(v, Handle(v, job, result), job.stage)
<1> DEFINE kind == Validated(job, result)
<1>1. job.stage \in Stages /\ v.task \in Task /\ v.tries \in Nat
  BY DEF UsedJob, GoodView, View
<1>2. Fine(v, [v EXCEPT !.threw = TRUE], job.stage)
  BY DEF Fine, GoodView, Yields, View
<1>3. Fine(v, BlockedResult(v), job.stage)
  BY <1>1, TableTypes, MoveFine DEF BlockedResult
<1>4. Fine(v, ValidationFailure(v, job, kind), job.stage)
  BY ValidationFailureFine
<1>5. Fine(v, Succeed(v, job, result.verdict), job.stage) /\ Fine(v, Fail(v, job, result), job.stage)
  BY SucceedFine, FailFine
<1>6. kind \in {"succeeded", "blocked", "failed_logic", "failed_transient",
                "malformed", "denied", "off_stage", "wrong_ref"}
  BY DEF Validated, Results
<1> HIDE DEF kind
<1>7. CASE kind \in {"malformed", "denied", "off_stage"}
  BY <1>4, <1>7 DEF Handle, kind
<1>8. CASE kind = "wrong_ref"
  BY <1>2, <1>8 DEF Handle, kind
<1>9. CASE kind = "blocked"
  BY <1>3, <1>9 DEF Handle, kind
<1>10. CASE kind \in {"succeeded", "failed_logic", "failed_transient"}
  BY <1>5, <1>10 DEF Handle, kind
<1> QED BY <1>6, <1>7, <1>8, <1>9, <1>10

-----------------------------------------------------------------------------
(* The inductive invariant *)

Records ==
  \A j \in JobIds :
    IF jobs[j].status = "unused"
      THEN /\ jobs[j] = UnusedJob
           /\ j \notin leases /\ j \notin slots /\ j \notin submitting
           /\ j \notin polling /\ j \notin finalized
      ELSE jobs[j] \in UsedJob

PolledIsSubmitted == \A j \in polling : jobs[j].submitted

(* A remembered task may be old, but what it names as active is true.      *)
SnapshotIsItsOwn ==
  \A j \in submitting :
    LET a == snapshot[j].active
    IN  a # NoJob => jobs[a].task = jobs[j].task /\ jobs[a].submitted

(* The tracked counter keeps to the policy, and to what was granted as     *)
(* long as no worker lowered it.                                           *)
RetriesTracked ==
  \A t \in Tasks, g \in Stages :
    /\ retries[t][g] <= MaxRetries[g]
    /\ granted[t][g].lowered \/ granted[t][g].times <= retries[t][g]

IInv ==
  /\ TypeOK
  /\ LeaseWithinSlot
  /\ FinalizedHoldsNothing
  /\ InFlightIsIntact
  /\ ActiveJobIsItsOwn
  /\ RetriesTracked
  /\ Records
  /\ PolledIsSubmitted
  /\ SnapshotIsItsOwn

LEMMA InitIInv == Init => IInv
<1> SUFFICES ASSUME Init PROVE IInv
  OBVIOUS
<1>1. NewTask \in Task
  BY ConstantsAssumption, TableTypes DEF NewTask, Task, NoRework, Rework
<1>2. UnusedJob \in Job
  BY DEF UnusedJob, Job, JobStatus
<1>3. TypeOK
  BY <1>1, <1>2 DEF Init, TypeOK, Granted, NothingGranted
<1>4. LeaseWithinSlot /\ FinalizedHoldsNothing /\ InFlightIsIntact
  BY DEF Init, LeaseWithinSlot, FinalizedHoldsNothing, InFlightIsIntact
<1>5. ActiveJobIsItsOwn
  BY DEF Init, ActiveJobIsItsOwn, NewTask
<1>6. RetriesTracked
  BY ConstantsAssumption DEF Init, RetriesTracked, NothingGranted
<1>7. Records /\ PolledIsSubmitted /\ SnapshotIsItsOwn
  BY DEF Init, Records, PolledIsSubmitted, SnapshotIsItsOwn, UnusedJob
<1> QED BY <1>3, <1>4, <1>5, <1>6, <1>7 DEF IInv

(* The view a result of the active job is handled on is a good one.        *)
LEMMA ViewIsGood ==
  ASSUME IInv, NEW j \in JobIds, IsActive(j)
  PROVE  /\ jobs[j] \in UsedJob /\ jobs[j].submitted /\ j \notin submitting
         /\ GoodView(ViewOf(j), jobs[j].stage)
         /\ ViewOf(j).task = tasks[jobs[j].task] /\ ~ViewOf(j).threw
<1>1. jobs[j] \in UsedJob
  BY DEF IInv, Records, IsActive
<1>2. jobs[j].task \in Tasks /\ jobs[j].stage \in Stages /\ j # NoJob
  BY <1>1, ConstantsAssumption DEF UsedJob
<1>3. jobs[j].submitted
  BY <1>2 DEF IInv, ActiveJobIsItsOwn, IsActive
<1>4. j \notin submitting
  BY <1>3 DEF IInv, InFlightIsIntact
<1>5. ViewOf(j) \in View
  BY <1>2 DEF IInv, TypeOK, ViewOf, View
<1>6. /\ ViewOf(j).tries <= MaxRetries[jobs[j].stage]
      /\ ViewOf(j).granted.lowered \/ ViewOf(j).granted.times <= ViewOf(j).tries
  BY <1>2 DEF IInv, RetriesTracked, ViewOf
<1>7. (ViewOf(j).leased => ViewOf(j).slotted) /\ (ViewOf(j).settled => ~ViewOf(j).slotted)
  BY DEF IInv, LeaseWithinSlot, FinalizedHoldsNothing, ViewOf
<1>8. ViewOf(j).task = tasks[jobs[j].task] /\ ~ViewOf(j).threw
  BY DEF ViewOf
<1> QED BY <1>1, <1>3, <1>4, <1>5, <1>6, <1>7, <1>8 DEF GoodView

(* Only the status of a job changes, from one that is in use to another.   *)
SameJobs(j) ==
  \/ jobs' = jobs
  \/ \E s \in {"completed", "failed"} : jobs' = [jobs EXCEPT ![j].status = s]

LEMMA SameJobsFacts ==
  ASSUME IInv, NEW j \in JobIds, jobs[j] \in UsedJob, jobs[j].status # "unused", SameJobs(j)
  PROVE  /\ jobs' \in [JobIds -> Job]
         /\ \A i \in JobIds : /\ jobs'[i].task = jobs[i].task
                              /\ jobs'[i].submitted = jobs[i].submitted
                              /\ i # j => jobs'[i] = jobs[i]
         /\ jobs'[j] \in UsedJob /\ jobs'[j].status # "unused"
<1>1. CASE jobs' = jobs
  BY <1>1 DEF IInv, TypeOK
<1>2. ASSUME NEW s \in {"completed", "failed"}, jobs' = [jobs EXCEPT ![j].status = s]
      PROVE  /\ jobs' \in [JobIds -> Job]
             /\ \A i \in JobIds : /\ jobs'[i].task = jobs[i].task
                                  /\ jobs'[i].submitted = jobs[i].submitted
                                  /\ i # j => jobs'[i] = jobs[i]
             /\ jobs'[j] \in UsedJob /\ jobs'[j].status # "unused"
  <2>1. jobs \in [JobIds -> Job] /\ jobs[j] \in Job
    BY DEF IInv, TypeOK
  <2>2. [jobs[j] EXCEPT !.status = s] \in Job /\ [jobs[j] EXCEPT !.status = s] \in UsedJob
    BY <2>1 DEF Job, UsedJob, JobStatus
  <2>3. /\ [jobs[j] EXCEPT !.status = s].task = jobs[j].task
        /\ [jobs[j] EXCEPT !.status = s].submitted = jobs[j].submitted
        /\ [jobs[j] EXCEPT !.status = s].status = s
    BY <2>1 DEF Job
  <2>4. jobs'[j] = [jobs[j] EXCEPT !.status = s] /\ \A i \in JobIds : i # j => jobs'[i] = jobs[i]
    BY <1>2, <2>1
  <2>5. jobs' \in [JobIds -> Job]
    BY <1>2, <2>1, <2>2
  <2> QED BY <2>2, <2>3, <2>4, <2>5
<1> QED BY <1>1, <1>2 DEF SameJobs

(* A result handled on the view of the active job keeps the invariant.     *)
LEMMA InstallIInv ==
  ASSUME IInv, NEW j \in JobIds, IsActive(j), NEW v, Fine(ViewOf(j), v, jobs[j].stage),
         Install(j, v), SameJobs(j), polling' \subseteq polling, UNCHANGED <<submitting, snapshot>>
  PROVE  IInv'
<1> DEFINE t == jobs[j].task
           g == jobs[j].stage
<1>1. /\ jobs[j] \in UsedJob /\ jobs[j].submitted /\ j \notin submitting
      /\ ViewOf(j).task = tasks[t] /\ t \in Tasks /\ g \in Stages
  BY ViewIsGood DEF UsedJob
<1>2. jobs[j].status # "unused"
  BY DEF IsActive
<1>3. /\ jobs' \in [JobIds -> Job]
      /\ \A i \in JobIds : /\ jobs'[i].task = jobs[i].task
                           /\ jobs'[i].submitted = jobs[i].submitted
                           /\ i # j => jobs'[i] = jobs[i]
      /\ jobs'[j] \in UsedJob /\ jobs'[j].status # "unused"
  BY <1>1, <1>2, SameJobsFacts
<1>4. /\ v \in View /\ v.tries <= MaxRetries[g]
      /\ v.granted.lowered \/ v.granted.times <= v.tries
      /\ (v.leased => v.slotted) /\ (v.settled => ~v.slotted)
  BY DEF Fine, GoodView
<1>5. /\ v.task.active = tasks[t].active
      /\ (v.leased => j \in leases) /\ (v.slotted => j \in slots) /\ (j \in finalized => v.settled)
  BY <1>1 DEF Fine, Yields, ViewOf
<1>6. /\ tasks' = [tasks EXCEPT ![t] = v.task]
      /\ retries' = [retries EXCEPT ![t][g] = v.tries]
      /\ granted' = [granted EXCEPT ![t][g] = v.granted]
      /\ leases' = Member(leases, j, v.leased)
      /\ slots' = Member(slots, j, v.slotted)
      /\ finalized' = Member(finalized, j, v.settled)
  BY DEF Install
<1>7. /\ leases' \subseteq leases /\ (j \in leases' => v.leased)
      /\ slots' \subseteq slots /\ slots \subseteq slots' \union {j} /\ (v.slotted => j \in slots')
      /\ (j \in slots' => v.slotted)
      /\ finalized' \subseteq finalized \union {j} /\ (j \in finalized' => v.settled)
      /\ leases \subseteq leases' \union {j}
  BY <1>5, <1>6 DEF Member
<1>8. TypeOK'
  <2>1. tasks' \in [Tasks -> Task]
    BY <1>1, <1>4, <1>6 DEF IInv, TypeOK, View
  <2>2. retries' \in [Tasks -> [Stages -> Nat]]
    BY <1>1, <1>4, <1>6 DEF IInv, TypeOK, View
  <2>3. granted' \in [Tasks -> [Stages -> Granted]]
    BY <1>1, <1>4, <1>6 DEF IInv, TypeOK, View
  <2> QED BY <1>3, <1>7, <2>1, <2>2, <2>3 DEF IInv, TypeOK
<1>9. LeaseWithinSlot'
  BY <1>4, <1>7 DEF IInv, LeaseWithinSlot
<1>10. FinalizedHoldsNothing'
  BY <1>4, <1>7, <1>9 DEF IInv, FinalizedHoldsNothing, LeaseWithinSlot
<1>11. \A u \in Tasks : tasks'[u].active = tasks[u].active
  BY <1>5, <1>6 DEF IInv, TypeOK
<1>12. InFlightIsIntact'
  BY <1>1, <1>3, <1>7, <1>11 DEF IInv, TypeOK, InFlightIsIntact
<1>13. ActiveJobIsItsOwn'
  <2> SUFFICES ASSUME NEW u \in Tasks, tasks[u].active # NoJob
               PROVE  jobs'[tasks[u].active].task = u /\ jobs'[tasks[u].active].submitted
    BY <1>11 DEF ActiveJobIsItsOwn
  <2>1. tasks[u].active \in JobIds
    BY DEF IInv, TypeOK, Task
  <2> QED BY <1>3, <2>1 DEF IInv, ActiveJobIsItsOwn
<1>14. RetriesTracked'
  BY <1>1, <1>4, <1>6 DEF IInv, TypeOK, RetriesTracked
<1>15. Records'
  <2> SUFFICES ASSUME NEW i \in JobIds
               PROVE  IF jobs'[i].status = "unused"
                        THEN /\ jobs'[i] = UnusedJob
                             /\ i \notin leases' /\ i \notin slots' /\ i \notin submitting
                             /\ i \notin polling' /\ i \notin finalized'
                        ELSE jobs'[i] \in UsedJob
    BY DEF Records
  <2>1. CASE i = j
    BY <1>3, <2>1
  <2>2. CASE i # j
    BY <1>3, <1>7, <2>2 DEF IInv, Records
  <2> QED BY <2>1, <2>2
<1>16. PolledIsSubmitted'
  BY <1>3 DEF IInv, TypeOK, PolledIsSubmitted
<1>17. SnapshotIsItsOwn'
  <2> SUFFICES ASSUME NEW i \in submitting, snapshot[i].active # NoJob
               PROVE  /\ jobs'[snapshot[i].active].task = jobs'[i].task
                      /\ jobs'[snapshot[i].active].submitted
    BY DEF SnapshotIsItsOwn
  <2>1. i \in JobIds /\ snapshot[i].active \in JobIds
    BY DEF IInv, TypeOK, Task
  <2> QED BY <1>3, <2>1 DEF IInv, SnapshotIsItsOwn
<1> QED BY <1>8, <1>9, <1>10, <1>12, <1>13, <1>14, <1>15, <1>16, <1>17 DEF IInv

-----------------------------------------------------------------------------
(* Each action keeps the invariant *)

LEMMA BeginDispatchIInv ==
  ASSUME IInv, NEW t \in Tasks, NEW j \in JobIds, NEW w \in Selectable, BeginDispatch(t, j, w)
  PROVE  IInv'
<1> DEFINE g == AllowedDispatchStage[tasks[t].state]
           new == [task |-> t, stage |-> g, worker |-> w, status |-> "pending", submitted |-> FALSE]
<1>1. tasks[t] \in Task /\ tasks[t].state \in TaskStates
  BY DEF IInv, TypeOK, Task
<1>2. g \in Stages /\ w \in WorkerTypes
  BY <1>1, TableTypes, ConstantsAssumption DEF BeginDispatch
<1>3. new \in UsedJob /\ new \in Job
  BY <1>2 DEF UsedJob, Job, JobStatus
<1>4. /\ jobs[j] = UnusedJob /\ ~jobs[j].submitted
      /\ j \notin leases /\ j \notin slots /\ j \notin submitting
      /\ j \notin polling /\ j \notin finalized
  <2>1. jobs[j].status = "unused"
    BY DEF BeginDispatch
  <2>2. ~UnusedJob.submitted
    BY DEF UnusedJob
  <2> QED BY <2>1, <2>2 DEF IInv, Records
<1>5. /\ jobs' = [jobs EXCEPT ![j] = new]
      /\ leases' = leases \union {j} /\ slots' = slots \union {j}
      /\ submitting' = submitting \union {j}
      /\ snapshot' = [snapshot EXCEPT ![j] = tasks[t]]
      /\ UNCHANGED <<tasks, retries, granted, polling, finalized>>
  BY DEF BeginDispatch
<1>6. jobs \in [JobIds -> Job] /\ snapshot \in [JobIds -> Task]
  BY DEF IInv, TypeOK
<1>7. jobs'[j] = new /\ \A i \in JobIds : i # j => jobs'[i] = jobs[i]
  BY <1>5, <1>6
<1>8. TypeOK'
  BY <1>1, <1>3, <1>5 DEF IInv, TypeOK
<1>9. LeaseWithinSlot' /\ FinalizedHoldsNothing'
  BY <1>4, <1>5 DEF IInv, LeaseWithinSlot, FinalizedHoldsNothing
<1>10. \A u \in Tasks : tasks[u].active # j
  BY <1>4, ConstantsAssumption DEF IInv, ActiveJobIsItsOwn
<1>11. InFlightIsIntact'
  BY <1>5, <1>6, <1>7, <1>10 DEF IInv, TypeOK, InFlightIsIntact
<1>12. ActiveJobIsItsOwn'
  <2> SUFFICES ASSUME NEW u \in Tasks, tasks[u].active # NoJob
               PROVE  jobs'[tasks[u].active].task = u /\ jobs'[tasks[u].active].submitted
    BY <1>5 DEF ActiveJobIsItsOwn
  <2>1. tasks[u].active \in JobIds /\ tasks[u].active # j
    BY <1>10 DEF IInv, TypeOK, Task
  <2> QED BY <1>7, <2>1 DEF IInv, ActiveJobIsItsOwn
<1>13. RetriesTracked'
  BY <1>5 DEF IInv, RetriesTracked
<1>14. Records'
  <2> SUFFICES ASSUME NEW i \in JobIds
               PROVE  IF jobs'[i].status = "unused"
                        THEN /\ jobs'[i] = UnusedJob
                             /\ i \notin leases' /\ i \notin slots' /\ i \notin submitting'
                             /\ i \notin polling' /\ i \notin finalized'
                        ELSE jobs'[i] \in UsedJob
    BY DEF Records
  <2>1. CASE i = j
    BY <1>3, <1>7, <2>1
  <2>2. CASE i # j
    BY <1>5, <1>7, <2>2 DEF IInv, Records
  <2> QED BY <2>1, <2>2
<1>15. PolledIsSubmitted'
  BY <1>4, <1>5, <1>7 DEF IInv, TypeOK, PolledIsSubmitted
<1>16. SnapshotIsItsOwn'
  <2> SUFFICES ASSUME NEW i \in submitting', snapshot'[i].active # NoJob
               PROVE  /\ jobs'[snapshot'[i].active].task = jobs'[i].task
                      /\ jobs'[snapshot'[i].active].submitted
    BY DEF SnapshotIsItsOwn
  <2>1. CASE i = j
    <3>1. snapshot'[i] = tasks[t] /\ tasks[t].active \in JobIds /\ tasks[t].active # j
      BY <1>1, <1>5, <1>6, <1>10, <2>1 DEF Task
    <3> QED BY <1>7, <2>1, <3>1 DEF IInv, ActiveJobIsItsOwn
  <2>2. CASE i # j
    <3>1. i \in submitting /\ i \in JobIds /\ snapshot'[i] = snapshot[i]
      BY <1>5, <1>6, <2>2 DEF IInv, TypeOK
    <3>2. snapshot[i].active \in JobIds
      BY <1>6, <3>1 DEF Task
    <3>3. jobs[snapshot[i].active].submitted /\ jobs[snapshot[i].active].task = jobs[i].task
      BY <3>1 DEF IInv, SnapshotIsItsOwn
    <3>4. snapshot[i].active # j
      BY <1>4, <3>3
    <3> QED BY <1>7, <2>2, <3>1, <3>2, <3>3, <3>4
  <2> QED BY <2>1, <2>2
<1> QED BY <1>8, <1>9, <1>11, <1>12, <1>13, <1>14, <1>15, <1>16 DEF IInv

(* DispatchIncapable, Cancel and RecordTransition only set a state.        *)
LEMMA SetStateIInv ==
  ASSUME IInv, NEW t \in Tasks, NEW to \in TaskStates,
         tasks' = [tasks EXCEPT ![t].state = to],
         UNCHANGED <<jobs, leases, slots, retries, granted, submitting, snapshot, polling, finalized>>
  PROVE  IInv'
<1>1. tasks \in [Tasks -> Task]
  BY DEF IInv, TypeOK
<1>2. [tasks[t] EXCEPT !.state = to] \in Task
  BY <1>1 DEF Task
<1>3. [tasks[t] EXCEPT !.state = to].active = tasks[t].active
  BY <1>1 DEF Task
<1>4. tasks' \in [Tasks -> Task] /\ \A u \in Tasks : tasks'[u].active = tasks[u].active
  BY <1>1, <1>2, <1>3
<1>5. TypeOK'
  BY <1>4 DEF IInv, TypeOK
<1>6. InFlightIsIntact' /\ ActiveJobIsItsOwn'
  BY <1>4 DEF IInv, InFlightIsIntact, ActiveJobIsItsOwn
<1>7. LeaseWithinSlot' /\ FinalizedHoldsNothing' /\ RetriesTracked'
  BY DEF IInv, LeaseWithinSlot, FinalizedHoldsNothing, RetriesTracked
<1>8. Records' /\ PolledIsSubmitted' /\ SnapshotIsItsOwn'
  BY DEF IInv, Records, PolledIsSubmitted, SnapshotIsItsOwn
<1> QED BY <1>5, <1>6, <1>7, <1>8 DEF IInv

(* The return of a submission writes a record over the job's task: the     *)
(* remembered one with another state, and an active job of that task.      *)
LEMMA WriteBackIInv ==
  ASSUME IInv, NEW j \in submitting, NEW task \in Task,
         task.active # NoJob => jobs'[task.active].task = jobs[j].task /\ jobs'[task.active].submitted,
         tasks' = [tasks EXCEPT ![jobs[j].task] = task],
         \/ jobs' = jobs /\ polling' = polling
         \/ jobs' = [jobs EXCEPT ![j].submitted = TRUE] /\ polling' = polling \union {j},
         submitting' = submitting \ {j},
         snapshot' = [snapshot EXCEPT ![j] = NewTask],
         UNCHANGED <<leases, slots, retries, granted, finalized>>
  PROVE  IInv'
<1>1. /\ j \in JobIds /\ jobs \in [JobIds -> Job] /\ jobs[j] \in Job
      /\ tasks \in [Tasks -> Task] /\ snapshot \in [JobIds -> Task]
  BY DEF IInv, TypeOK
<1>2. jobs[j] \in UsedJob /\ jobs[j].status = "pending"
  BY <1>1 DEF IInv, Records, InFlightIsIntact
<1>3. /\ jobs' \in [JobIds -> Job]
      /\ jobs'[j] \in UsedJob /\ jobs'[j].status = "pending" /\ jobs'[j].task = jobs[j].task
      /\ \A i \in JobIds : i # j => jobs'[i] = jobs[i]
      /\ j \in polling' => jobs'[j].submitted
  <2>1. CASE jobs' = jobs /\ polling' = polling
    BY <1>1, <1>2, <2>1 DEF IInv, PolledIsSubmitted
  <2>2. CASE jobs' = [jobs EXCEPT ![j].submitted = TRUE] /\ polling' = polling \union {j}
    <3>1. [jobs[j] EXCEPT !.submitted = TRUE] \in Job /\ [jobs[j] EXCEPT !.submitted = TRUE] \in UsedJob
      BY <1>1, <1>2 DEF Job, UsedJob
    <3>2. jobs'[j] = [jobs[j] EXCEPT !.submitted = TRUE]
      BY <1>1, <2>2
    <3> QED BY <1>1, <1>2, <2>2, <3>1, <3>2 DEF Job
  <2> QED BY <2>1, <2>2
<1>4. \A i \in JobIds : jobs'[i].task = jobs[i].task /\ (jobs[i].submitted => jobs'[i].submitted)
  <2>1. ~jobs[j].submitted
    BY DEF IInv, InFlightIsIntact
  <2> QED BY <1>3, <2>1
<1>5. NewTask \in Task
  BY ConstantsAssumption, TableTypes DEF NewTask, Task, NoRework, Rework
<1>6. jobs[j].task \in Tasks /\ tasks'[jobs[j].task] = task
      /\ \A u \in Tasks : u # jobs[j].task => tasks'[u] = tasks[u]
  BY <1>1, <1>2 DEF UsedJob
<1>7. TypeOK'
  <2>1. tasks' \in [Tasks -> Task] /\ snapshot' \in [JobIds -> Task]
    BY <1>1, <1>5
  <2> QED BY <1>1, <1>3, <2>1 DEF IInv, TypeOK
<1>8. LeaseWithinSlot' /\ FinalizedHoldsNothing' /\ RetriesTracked'
  BY DEF IInv, LeaseWithinSlot, FinalizedHoldsNothing, RetriesTracked
<1>9. ActiveJobIsItsOwn'
  <2> SUFFICES ASSUME NEW u \in Tasks, tasks'[u].active # NoJob
               PROVE  jobs'[tasks'[u].active].task = u /\ jobs'[tasks'[u].active].submitted
    BY DEF ActiveJobIsItsOwn
  <2>1. CASE u = jobs[j].task
    BY <1>6, <2>1
  <2>2. CASE u # jobs[j].task
    <3>1. tasks'[u] = tasks[u] /\ tasks[u].active \in JobIds
      BY <1>1, <1>6, <2>2 DEF Task
    <3>2. jobs[tasks[u].active].task = u /\ jobs[tasks[u].active].submitted
      BY <3>1 DEF IInv, ActiveJobIsItsOwn
    <3> QED BY <1>4, <3>1, <3>2
  <2> QED BY <2>1, <2>2
<1>10. InFlightIsIntact'
  <2> SUFFICES ASSUME NEW i \in submitting, i # j
               PROVE  /\ jobs'[i].status = "pending" /\ ~jobs'[i].submitted
                      /\ i \in leases /\ i \in slots
                      /\ \A u \in Tasks : tasks'[u].active # i
    BY DEF InFlightIsIntact
  <2>1. i \in JobIds /\ jobs'[i] = jobs[i] /\ i # NoJob
    BY <1>3, ConstantsAssumption DEF IInv, TypeOK
  <2>2. jobs[i].status = "pending" /\ ~jobs[i].submitted /\ i \in leases /\ i \in slots
    BY DEF IInv, InFlightIsIntact
  <2> QED BY <1>9, <2>1, <2>2 DEF ActiveJobIsItsOwn
<1>11. Records'
  <2> SUFFICES ASSUME NEW i \in JobIds
               PROVE  IF jobs'[i].status = "unused"
                        THEN /\ jobs'[i] = UnusedJob
                             /\ i \notin leases /\ i \notin slots /\ i \notin submitting'
                             /\ i \notin polling' /\ i \notin finalized
                        ELSE jobs'[i] \in UsedJob
    BY DEF Records
  <2>1. CASE i = j
    BY <1>3, <2>1
  <2>2. CASE i # j
    BY <1>3, <2>2 DEF IInv, Records
  <2> QED BY <2>1, <2>2
<1>12. PolledIsSubmitted'
  BY <1>3, <1>4 DEF IInv, TypeOK, PolledIsSubmitted
<1>13. SnapshotIsItsOwn'
  <2> SUFFICES ASSUME NEW i \in submitting, i # j, snapshot'[i].active # NoJob
               PROVE  /\ jobs'[snapshot'[i].active].task = jobs'[i].task
                      /\ jobs'[snapshot'[i].active].submitted
    BY DEF SnapshotIsItsOwn
  <2>1. i \in JobIds /\ snapshot'[i] = snapshot[i] /\ snapshot[i].active \in JobIds
    BY <1>1 DEF IInv, TypeOK, Task
  <2>2. jobs[snapshot[i].active].task = jobs[i].task /\ jobs[snapshot[i].active].submitted
    BY <2>1 DEF IInv, SnapshotIsItsOwn
  <2> QED BY <1>4, <2>1, <2>2
<1> QED BY <1>7, <1>8, <1>9, <1>10, <1>11, <1>12, <1>13 DEF IInv

LEMMA SubmissionIInv ==
  ASSUME IInv, NEW j \in JobIds, SubmissionAccepted(j) \/ SubmissionRefused(j)
  PROVE  IInv'
<1>1. j \in submitting /\ jobs[j] \in Job /\ snapshot[j] \in Task
  BY DEF IInv, TypeOK, SubmissionAccepted, SubmissionRefused
<1>2. jobs[j] \in UsedJob
  BY <1>1 DEF IInv, Records, InFlightIsIntact
<1>3. snapshot[j].active # NoJob =>
        /\ snapshot[j].active \in JobIds
        /\ jobs[snapshot[j].active].task = jobs[j].task /\ jobs[snapshot[j].active].submitted
  BY <1>1 DEF IInv, SnapshotIsItsOwn, Task
<1>4. ASSUME SubmissionAccepted(j) PROVE IInv'
  <2> DEFINE task == [snapshot[j] EXCEPT !.active = j, !.state = StageToActiveState[jobs[j].stage]]
  <2>1. StageToActiveState[jobs[j].stage] \in TaskStates
    BY <1>2, TableTypes DEF UsedJob
  <2>2. task \in Task /\ task.active = j
    BY <1>1, <2>1 DEF Task
  <2>3. jobs' = [jobs EXCEPT ![j].submitted = TRUE] /\ jobs \in [JobIds -> Job]
    BY <1>4 DEF SubmissionAccepted, IInv, TypeOK
  <2>4. jobs'[j] = [jobs[j] EXCEPT !.submitted = TRUE]
    BY <2>3
  <2>5. jobs'[j].task = jobs[j].task /\ jobs'[j].submitted
    BY <1>1, <2>4 DEF Job
  <2>6. /\ tasks' = [tasks EXCEPT ![jobs[j].task] = task]
        /\ polling' = polling \union {j} /\ submitting' = submitting \ {j}
        /\ snapshot' = [snapshot EXCEPT ![j] = NewTask]
        /\ UNCHANGED <<leases, slots, retries, granted, finalized>>
    BY <1>4 DEF SubmissionAccepted
  <2> HIDE DEF task
  <2> QED BY <1>1, <2>2, <2>3, <2>5, <2>6, WriteBackIInv
<1>5. ASSUME SubmissionRefused(j) PROVE IInv'
  <2>1. /\ submitting' = submitting \ {j}
        /\ snapshot' = [snapshot EXCEPT ![j] = NewTask]
        /\ UNCHANGED <<jobs, leases, slots, retries, granted, polling, finalized>>
    BY <1>5 DEF SubmissionRefused
  <2>2. CASE tasks' = [tasks EXCEPT ![jobs[j].task] = [snapshot[j] EXCEPT !.state = "blocked"]]
    <3> DEFINE task == [snapshot[j] EXCEPT !.state = "blocked"]
    <3>1. task \in Task /\ task.active = snapshot[j].active
      BY <1>1, TableTypes DEF Task
    <3>2. task.active # NoJob => jobs'[task.active].task = jobs[j].task /\ jobs'[task.active].submitted
      BY <1>3, <2>1, <3>1
    <3> HIDE DEF task
    <3>3. tasks' = [tasks EXCEPT ![jobs[j].task] = task]
      BY <2>2 DEF task
    <3> QED BY <1>1, <2>1, <3>1, <3>2, <3>3, WriteBackIInv
  <2>3. CASE UNCHANGED tasks
    <3> DEFINE task == tasks[jobs[j].task]
    <3>1. jobs[j].task \in Tasks /\ tasks \in [Tasks -> Task]
      BY <1>2 DEF UsedJob, IInv, TypeOK
    <3>2. task \in Task /\ tasks' = [tasks EXCEPT ![jobs[j].task] = task]
      BY <2>3, <3>1
    <3>3. task.active # NoJob => jobs'[task.active].task = jobs[j].task /\ jobs'[task.active].submitted
      BY <2>1, <3>1 DEF IInv, ActiveJobIsItsOwn
    <3> HIDE DEF task
    <3> QED BY <1>1, <2>1, <3>2, <3>3, WriteBackIInv
  <2> QED BY <1>5, <2>2, <2>3 DEF SubmissionRefused
<1> QED BY <1>4, <1>5

LEMMA PollFailureIsResult == PollFailures \subseteq Results /\ PollFailures # {}
<1> DEFINE failure == [kind |-> "failed_transient", verdict |-> "none", count |-> NoCount]
<1>1. PollFailures \subseteq Results
  BY ConstantsAssumption DEF PollFailures, Results, Verdicts
<1>2. failure \in PollFailures
  BY DEF PollFailures
<1> QED BY <1>1, <1>2

LEMMA PostResultIInv ==
  ASSUME IInv, NEW j \in JobIds, NEW r \in Results, PostResult(j, r)
  PROVE  IInv'
<1>1. IsActive(j) /\ Install(j, Handle(ViewOf(j), jobs[j], r))
      /\ UNCHANGED <<jobs, submitting, snapshot, polling>>
  BY DEF PostResult
<1>2. Fine(ViewOf(j), Handle(ViewOf(j), jobs[j], r), jobs[j].stage)
  BY <1>1, ViewIsGood, HandleFine
<1>3. SameJobs(j)
  BY <1>1 DEF SameJobs
<1> QED BY <1>1, <1>2, <1>3, InstallIInv

(* Two results of one step: the second is handled only after the first     *)
(* threw, and a handler that threw has not moved the task.                 *)
LEMMA SecondResultFine ==
  ASSUME IInv, NEW j \in JobIds, IsActive(j), NEW r \in Results,
         Handle(ViewOf(j), jobs[j], r).threw, NEW f \in PollFailures
  PROVE  Fine(ViewOf(j),
              Handle([Handle(ViewOf(j), jobs[j], r) EXCEPT !.threw = FALSE], jobs[j], f),
              jobs[j].stage)
<1> DEFINE v == ViewOf(j)
           first == Handle(v, jobs[j], r)
           again == [first EXCEPT !.threw = FALSE]
           second == Handle(again, jobs[j], f)
           g == jobs[j].stage
<1>1. jobs[j] \in UsedJob /\ GoodView(v, g) /\ ~v.threw /\ g \in Stages
  BY ViewIsGood DEF UsedJob
<1>2. Fine(v, first, g)
  BY <1>1, HandleFine
<1> HIDE DEF v, first, g
<1>3. first.threw
  BY DEF first, v
<1>4. first \in View
  BY <1>2 DEF Fine, GoodView
<1>5. v \in View
  BY <1>1 DEF GoodView
<1>6. again \in View /\ ~again.threw /\ again.task = first.task /\ again.tries = first.tries
      /\ again.granted = first.granted /\ again.leased = first.leased /\ again.slotted = first.slotted /\ again.settled = first.settled
  BY <1>4 DEF View
<1> HIDE DEF again
<1>7. GoodView(again, g)
  BY <1>2, <1>6 DEF Fine, GoodView
<1>8. v.task.state = again.task.state /\ v.threw = again.threw
  BY <1>1, <1>2, <1>3, <1>5, <1>6 DEF Fine, Yields, View
<1>9. Fine(v, again, g)
  BY <1>2, <1>6, <1>7, <1>8 DEF Fine, Yields
<1>10. Fine(again, second, g)
  BY <1>1, <1>7, PollFailureIsResult, HandleFine DEF g
<1> HIDE DEF second
<1>11. Fine(v, second, g)
  BY <1>1, <1>8, <1>9, <1>10, FineTransitive
<1> QED BY <1>11 DEF v, first, again, second, g

(* A poll that comes back for a job no longer active only closes the job.  *)
LEMMA IdlePollIInv ==
  ASSUME IInv, NEW j \in polling, SameJobs(j), polling' = polling \ {j},
         UNCHANGED <<tasks, retries, granted, leases, slots, finalized, submitting, snapshot>>
  PROVE  IInv'
<1>1. j \in JobIds /\ jobs[j].submitted /\ j \notin submitting
  BY DEF IInv, TypeOK, PolledIsSubmitted, InFlightIsIntact
<1>2. jobs[j] \in UsedJob /\ jobs[j].status # "unused"
  BY <1>1 DEF IInv, Records
<1>3. /\ jobs' \in [JobIds -> Job]
      /\ \A i \in JobIds : /\ jobs'[i].task = jobs[i].task
                           /\ jobs'[i].submitted = jobs[i].submitted
                           /\ i # j => jobs'[i] = jobs[i]
      /\ jobs'[j] \in UsedJob /\ jobs'[j].status # "unused"
  BY <1>1, <1>2, SameJobsFacts
<1>4. TypeOK'
  BY <1>3 DEF IInv, TypeOK
<1>5. LeaseWithinSlot' /\ FinalizedHoldsNothing' /\ RetriesTracked'
  BY DEF IInv, LeaseWithinSlot, FinalizedHoldsNothing, RetriesTracked
<1>6. InFlightIsIntact'
  BY <1>1, <1>3 DEF IInv, TypeOK, InFlightIsIntact
<1>7. ActiveJobIsItsOwn'
  <2> SUFFICES ASSUME NEW u \in Tasks, tasks[u].active # NoJob
               PROVE  jobs'[tasks[u].active].task = u /\ jobs'[tasks[u].active].submitted
    BY DEF ActiveJobIsItsOwn
  <2>1. tasks[u].active \in JobIds
    BY DEF IInv, TypeOK, Task
  <2> QED BY <1>3, <2>1 DEF IInv, ActiveJobIsItsOwn
<1>8. Records'
  <2> SUFFICES ASSUME NEW i \in JobIds
               PROVE  IF jobs'[i].status = "unused"
                        THEN /\ jobs'[i] = UnusedJob
                             /\ i \notin leases /\ i \notin slots /\ i \notin submitting
                             /\ i \notin polling' /\ i \notin finalized
                        ELSE jobs'[i] \in UsedJob
    BY DEF Records
  <2> QED BY <1>3 DEF IInv, Records
<1>9. PolledIsSubmitted'
  BY <1>3 DEF IInv, TypeOK, PolledIsSubmitted
<1>10. SnapshotIsItsOwn'
  <2> SUFFICES ASSUME NEW i \in submitting, snapshot[i].active # NoJob
               PROVE  /\ jobs'[snapshot[i].active].task = jobs'[i].task
                      /\ jobs'[snapshot[i].active].submitted
    BY DEF SnapshotIsItsOwn
  <2>1. i \in JobIds /\ snapshot[i].active \in JobIds
    BY DEF IInv, TypeOK, Task
  <2> QED BY <1>3, <2>1 DEF IInv, SnapshotIsItsOwn
<1> QED BY <1>4, <1>5, <1>6, <1>7, <1>8, <1>9, <1>10 DEF IInv

(* A poll either closes its job only, or installs a result that yields.    *)
LEMMA PollCases ==
  ASSUME IInv, NEW j \in JobIds, NEW r \in Results, PollReturns(j, r) \/ PollThrows(j)
  PROVE  /\ j \in polling /\ polling' = polling \ {j} /\ UNCHANGED <<submitting, snapshot>>
         /\ SameJobs(j)
         /\ \/ UNCHANGED <<tasks, retries, granted, leases, slots, finalized>>
            \/ IsActive(j) /\ \E v : Fine(ViewOf(j), v, jobs[j].stage) /\ Install(j, v)
<1>1. ASSUME PollThrows(j), IsActive(j)
      PROVE  \E v : Fine(ViewOf(j), v, jobs[j].stage) /\ Install(j, v)
  <2>1. PICK f \in PollFailures : Install(j, Handle(ViewOf(j), jobs[j], f))
    BY <1>1 DEF PollThrows
  <2>2. Fine(ViewOf(j), Handle(ViewOf(j), jobs[j], f), jobs[j].stage)
    BY <1>1, ViewIsGood, HandleFine, PollFailureIsResult
  <2> QED BY <2>1, <2>2
<1>2. CASE PollThrows(j)
  BY <1>1, <1>2 DEF PollThrows, SameJobs
<1>3. CASE PollReturns(j, r)
  <2> DEFINE first  == Handle(ViewOf(j), jobs[j], r)
             again  == [first EXCEPT !.threw = FALSE]
             threw  == IsActive(j) /\ first.threw
  <2>1. /\ j \in polling /\ polling' = polling \ {j} /\ UNCHANGED <<submitting, snapshot>>
        /\ jobs' = [jobs EXCEPT ![j].status = IF threw THEN "failed" ELSE "completed"]
    BY <1>3 DEF PollReturns
  <2>2. SameJobs(j)
    BY <2>1 DEF SameJobs
  <2>3. CASE threw
    <3>1. PICK f \in PollFailures : Install(j, Handle(again, jobs[j], f))
      BY <1>3, <2>3 DEF PollReturns
    <3>2. Fine(ViewOf(j), Handle(again, jobs[j], f), jobs[j].stage)
      BY <2>3, SecondResultFine
    <3> QED BY <2>1, <2>2, <2>3, <3>1, <3>2
  <2>4. CASE ~IsActive(j)
    <3>1. UNCHANGED <<tasks, retries, granted, leases, slots, finalized>>
      BY <1>3, <2>4 DEF PollReturns
    <3> QED BY <2>1, <2>2, <3>1
  <2>5. CASE IsActive(j) /\ ~threw
    <3>1. Install(j, first)
      BY <1>3, <2>5 DEF PollReturns
    <3>2. Fine(ViewOf(j), first, jobs[j].stage)
      BY <2>5, ViewIsGood, HandleFine
    <3> QED BY <2>1, <2>2, <2>5, <3>1, <3>2
  <2> QED BY <2>3, <2>4, <2>5
<1> QED BY <1>2, <1>3

LEMMA PollIInv ==
  ASSUME IInv, NEW j \in JobIds, NEW r \in Results, PollReturns(j, r) \/ PollThrows(j)
  PROVE  IInv'
<1>1. /\ j \in polling /\ polling' = polling \ {j} /\ UNCHANGED <<submitting, snapshot>>
      /\ SameJobs(j)
  BY PollCases
<1>2. CASE UNCHANGED <<tasks, retries, granted, leases, slots, finalized>>
  BY <1>1, <1>2, IdlePollIInv
<1>3. ASSUME IsActive(j), NEW v, Fine(ViewOf(j), v, jobs[j].stage), Install(j, v)
      PROVE  IInv'
  BY <1>1, <1>3, InstallIInv
<1> QED BY <1>2, <1>3, PollCases

LEMMA NextIInv == IInv /\ [Next]_vars => IInv'
<1> SUFFICES ASSUME IInv, [Next]_vars PROVE IInv'
  OBVIOUS
<1>1. ASSUME NEW t \in Tasks, NEW j \in JobIds, NEW w \in Selectable, BeginDispatch(t, j, w)
      PROVE  IInv'
  BY <1>1, BeginDispatchIInv
<1>2. ASSUME NEW t \in Tasks, DispatchIncapable(t) PROVE IInv'
  BY <1>2, SetStateIInv, TableTypes DEF DispatchIncapable
<1>3. ASSUME NEW t \in Tasks, Cancel(t) PROVE IInv'
  BY <1>3, SetStateIInv, TableTypes DEF Cancel
<1>4. ASSUME NEW t \in Tasks, NEW to \in TaskStates, RecordTransition(t, to) PROVE IInv'
  BY <1>4, SetStateIInv DEF RecordTransition
<1>5. ASSUME NEW j \in JobIds, SubmissionAccepted(j) \/ SubmissionRefused(j) PROVE IInv'
  BY <1>5, SubmissionIInv
<1>6. ASSUME NEW j \in JobIds, NEW r \in Results, PostResult(j, r) PROVE IInv'
  BY <1>6, PostResultIInv
<1>7. ASSUME NEW j \in JobIds, NEW r \in Results, PollReturns(j, r) PROVE IInv'
  BY <1>7, PollIInv
<1>8. ASSUME NEW j \in JobIds, PollThrows(j) PROVE IInv'
  BY <1>8, PollIInv, PollFailureIsResult
<1>9. ASSUME UNCHANGED vars PROVE IInv'
  BY <1>9 DEF vars, IInv, TypeOK, LeaseWithinSlot, FinalizedHoldsNothing, InFlightIsIntact,
              ActiveJobIsItsOwn, RetriesTracked, Records, PolledIsSubmitted, SnapshotIsItsOwn
<1> QED BY <1>1, <1>2, <1>3, <1>4, <1>5, <1>6, <1>7, <1>8, <1>9 DEF Next, TaskStep, JobStep

-----------------------------------------------------------------------------
(* Theorems *)

LEMMA Invariance == Spec => []IInv
<1>1. Init => IInv
  BY InitIInv
<1>2. IInv /\ [Next]_vars => IInv'
  BY NextIInv
<1> QED BY <1>1, <1>2, PTL DEF Spec

(* Type correctness, with the bound on rework attempts, for every limit.   *)
THEOREM TypeCorrect == Spec => []TypeOK
BY Invariance, PTL DEF IInv

(* Execution stays within the concurrency slots: dispatch takes lease and  *)
(* slot together and every handler gives the lease back first.             *)
THEOREM LeasesWithinSlots == Spec => []LeaseWithinSlot
BY Invariance, PTL DEF IInv

(* finalizeJob is final for the job's lease and slot.                      *)
THEOREM FinalizedJobsHoldNothing == Spec => []FinalizedHoldsNothing
BY Invariance, PTL DEF IInv

(* A dispatch that awaits submitJob keeps its lease and slot.              *)
THEOREM InFlightJobsIntact == Spec => []InFlightIsIntact
BY Invariance, PTL DEF IInv

(* active_job_id stays truthful across write-backs of stale task records.  *)
THEOREM ActiveJobsOwn == Spec => []ActiveJobIsItsOwn
BY Invariance, PTL DEF IInv

(* More retries than the policy allows take a worker that reports a count  *)
(* below the tracked one, for every policy and every reported count.       *)
THEOREM RetriesBounded == Spec => []RetriesWithinPolicy
<1>1. IInv => RetriesWithinPolicy
  <2> SUFFICES ASSUME IInv, NEW t \in Tasks, NEW g \in Stages, ~granted[t][g].lowered
               PROVE  ~(granted[t][g].times > MaxRetries[g])
    BY DEF RetriesWithinPolicy
  <2>1. granted[t][g].times <= retries[t][g] /\ retries[t][g] <= MaxRetries[g]
    BY DEF IInv, RetriesTracked
  <2>2. granted[t][g].times \in Nat /\ retries[t][g] \in Nat /\ MaxRetries[g] \in Nat
    BY ConstantsAssumption DEF IInv, TypeOK, Granted
  <2> QED BY <2>1, <2>2
<1> QED BY <1>1, Invariance, PTL

(* What one step may do to the state of a task.                            *)
LEMMA StateStep ==
  ASSUME IInv, [Next]_vars, NEW t \in Tasks
  PROVE  /\ \/ tasks'[t].state = tasks[t].state
            \/ CanTransition(tasks[t].state, tasks'[t].state)
            \/ \E j \in submitting \ submitting' : jobs[j].task = t
         /\ (tasks[t].state \in TerminalStates /\ ~DispatchInFlight(t)) => ~DispatchInFlight(t)'
<1>1. tasks \in [Tasks -> Task] /\ tasks[t].state \in TaskStates
  BY DEF IInv, TypeOK, Task
<1>2. ASSUME NEW u \in Tasks, NEW j \in JobIds, NEW w \in Selectable, BeginDispatch(u, j, w)
      PROVE  /\ tasks' = tasks
             /\ (tasks[t].state \in TerminalStates /\ ~DispatchInFlight(t)) => ~DispatchInFlight(t)'
  <2>1. tasks' = tasks
    BY <1>2 DEF BeginDispatch
  <2>2. submitting' = submitting \union {j} /\ \A i \in JobIds : i # j => jobs'[i] = jobs[i]
    BY <1>2 DEF BeginDispatch, IInv, TypeOK
  <2>3. jobs'[j].task = u /\ j \notin submitting
    BY <1>2 DEF BeginDispatch, IInv, TypeOK, Records
  <2>4. AllowedDispatchStage[tasks[u].state] # "none"
    BY <1>2 DEF BeginDispatch
  <2>5. tasks[t].state \in TerminalStates => u # t
    BY <2>4, TableTypes
  <2> QED BY <2>1, <2>2, <2>3, <2>5 DEF DispatchInFlight, IInv, TypeOK
<1>3. ASSUME NEW u \in Tasks, NEW to \in TaskStates, CanTransition(tasks[u].state, to),
             tasks' = [tasks EXCEPT ![u].state = to]
      PROVE  tasks'[t].state = tasks[t].state \/ CanTransition(tasks[t].state, tasks'[t].state)
  <2>1. CASE u = t
    <3>1. tasks'[t] = [tasks[t] EXCEPT !.state = to] /\ tasks[t] \in Task
      BY <1>1, <1>3, <2>1
    <3>2. tasks'[t].state = to
      BY <3>1 DEF Task
    <3> QED BY <1>3, <2>1, <3>2
  <2>2. CASE u # t
    BY <1>1, <1>3, <2>2
  <2> QED BY <2>1, <2>2
<1>4. ASSUME NEW u \in Tasks, DispatchIncapable(u)
      PROVE  tasks' = [tasks EXCEPT ![u].state = "blocked"] /\ CanTransition(tasks[u].state, "blocked")
  <2>1. tasks[u].state \in TaskStates /\ AllowedDispatchStage[tasks[u].state] # "none"
    BY <1>4 DEF DispatchIncapable, IInv, TypeOK, Task
  <2>2. tasks[u].state \notin TerminalStates
    BY <2>1, TableTypes
  <2> QED BY <1>4, <2>1, <2>2 DEF DispatchIncapable, CanTransition, AllowedTransitions, StopStates
<1>5. ASSUME NEW u \in Tasks, Cancel(u)
      PROVE  tasks' = [tasks EXCEPT ![u].state = "cancelled"] /\ CanTransition(tasks[u].state, "cancelled")
  <2>1. tasks[u].state \in TaskStates
    BY <1>5 DEF IInv, TypeOK, Task
  <2> QED BY <1>5, <2>1 DEF Cancel, CanTransition, AllowedTransitions, StopStates
<1>6. ASSUME NEW j \in JobIds, SubmissionAccepted(j) \/ SubmissionRefused(j)
      PROVE  /\ \/ tasks'[t].state = tasks[t].state
                \/ \E i \in submitting \ submitting' : jobs[i].task = t
             /\ ~DispatchInFlight(t) => ~DispatchInFlight(t)'
  <2>1. j \in submitting /\ submitting' = submitting \ {j}
    BY <1>6 DEF SubmissionAccepted, SubmissionRefused
  <2>2. \A i \in JobIds : i # j => jobs'[i] = jobs[i]
    BY <1>6 DEF SubmissionAccepted, SubmissionRefused, IInv, TypeOK
  <2>3. ~DispatchInFlight(t) => ~DispatchInFlight(t)'
    BY <2>1, <2>2 DEF DispatchInFlight, IInv, TypeOK
  <2>4. jobs[j].task # t => tasks'[t] = tasks[t]
    BY <1>1, <1>6 DEF SubmissionAccepted, SubmissionRefused
  <2> QED BY <2>1, <2>3, <2>4
<1>7. ASSUME NEW j \in JobIds, IsActive(j), NEW v, Fine(ViewOf(j), v, jobs[j].stage), Install(j, v)
      PROVE  tasks'[t].state = tasks[t].state \/ CanTransition(tasks[t].state, tasks'[t].state)
  <2>1. ViewOf(j).task = tasks[jobs[j].task] /\ tasks' = [tasks EXCEPT ![jobs[j].task] = v.task]
    BY <1>7, ViewIsGood DEF Install
  <2>2. v.task.state = tasks[jobs[j].task].state \/ CanTransition(tasks[jobs[j].task].state, v.task.state)
    BY <1>7, <2>1 DEF Fine, Yields
  <2> QED BY <1>1, <2>1, <2>2
<1>8. ASSUME NEW j \in JobIds, jobs[j] \in UsedJob, jobs[j].status # "unused", SameJobs(j),
             UNCHANGED submitting
      PROVE  ~DispatchInFlight(t) => ~DispatchInFlight(t)'
  <2>1. \A i \in JobIds : jobs'[i].task = jobs[i].task
    BY <1>8, SameJobsFacts
  <2> QED BY <1>8, <2>1 DEF DispatchInFlight, IInv, TypeOK
<1>9. ASSUME NEW j \in JobIds, NEW r \in Results, PostResult(j, r)
      PROVE  /\ tasks'[t].state = tasks[t].state \/ CanTransition(tasks[t].state, tasks'[t].state)
             /\ ~DispatchInFlight(t) => ~DispatchInFlight(t)'
  <2>1. IsActive(j) /\ Install(j, Handle(ViewOf(j), jobs[j], r)) /\ UNCHANGED <<jobs, submitting>>
    BY <1>9 DEF PostResult
  <2>2. Fine(ViewOf(j), Handle(ViewOf(j), jobs[j], r), jobs[j].stage)
    BY <2>1, ViewIsGood, HandleFine
  <2>3. tasks'[t].state = tasks[t].state \/ CanTransition(tasks[t].state, tasks'[t].state)
    BY <1>7, <2>1, <2>2
  <2> QED BY <2>1, <2>3 DEF DispatchInFlight
<1>10. ASSUME NEW j \in JobIds, NEW r \in Results, PollReturns(j, r) \/ PollThrows(j)
       PROVE  /\ tasks'[t].state = tasks[t].state \/ CanTransition(tasks[t].state, tasks'[t].state)
              /\ ~DispatchInFlight(t) => ~DispatchInFlight(t)'
  <2>1. /\ j \in polling /\ UNCHANGED submitting /\ SameJobs(j)
        /\ \/ UNCHANGED <<tasks, retries, granted, leases, slots, finalized>>
           \/ IsActive(j) /\ \E v : Fine(ViewOf(j), v, jobs[j].stage) /\ Install(j, v)
    BY <1>10, PollCases
  <2>2. jobs[j] \in UsedJob /\ jobs[j].status # "unused"
    BY <2>1 DEF IInv, Records
  <2>3. ~DispatchInFlight(t) => ~DispatchInFlight(t)'
    BY <1>8, <2>1, <2>2
  <2> QED BY <1>7, <2>1, <2>3
<1>11. CASE UNCHANGED vars
  BY <1>11 DEF vars, DispatchInFlight
<1>12. ASSUME NEW u \in Tasks, DispatchIncapable(u) \/ Cancel(u) \/ \E to \in TaskStates : RecordTransition(u, to)
       PROVE  /\ tasks'[t].state = tasks[t].state \/ CanTransition(tasks[t].state, tasks'[t].state)
              /\ ~DispatchInFlight(t) => ~DispatchInFlight(t)'
  <2>1. UNCHANGED <<jobs, submitting>>
    BY <1>12 DEF DispatchIncapable, Cancel, RecordTransition
  <2>2. tasks'[t].state = tasks[t].state \/ CanTransition(tasks[t].state, tasks'[t].state)
    BY <1>3, <1>4, <1>5, <1>12, TableTypes DEF RecordTransition
  <2> QED BY <2>1, <2>2 DEF DispatchInFlight
<1>13. CASE TaskStep
  BY <1>2, <1>12, <1>13 DEF TaskStep
<1>14. CASE JobStep
  BY <1>6, <1>9, <1>10, <1>14, PollFailureIsResult DEF JobStep
<1> QED BY <1>11, <1>13, <1>14 DEF Next

(* No handler, no operator and no stale record but that of a dispatch call *)
(* coming back moves a task outside the table of allowed transitions.      *)
THEOREM TableIsKept == Spec => OnlyStaleDispatchSkipsTable
<1>1. IInv /\ [Next]_vars =>
        [\A t \in Tasks :
           \/ tasks'[t].state = tasks[t].state
           \/ CanTransition(tasks[t].state, tasks'[t].state)
           \/ \E j \in submitting \ submitting' : jobs[j].task = t]_vars
  BY StateStep
<1> QED BY <1>1, Invariance, PTL DEF Spec, OnlyStaleDispatchSkipsTable

(* A terminal task without a dispatch call in flight never changes again.  *)
THEOREM SettledStaysSettled == Spec => SettledIsForever
<1>1. ASSUME IInv, [Next]_vars, NEW t \in Tasks, Settled(t)
      PROVE  Settled(t)' /\ tasks'[t].state = tasks[t].state
  <2>1. tasks[t].state \in TerminalStates /\ ~DispatchInFlight(t)
    BY <1>1 DEF Settled
  <2>2. ~\E j \in submitting \ submitting' : jobs[j].task = t
    BY <2>1 DEF DispatchInFlight
  <2>3. ~CanTransition(tasks[t].state, tasks'[t].state)
    BY <2>1, TableTypes DEF CanTransition
  <2>4. tasks'[t].state = tasks[t].state /\ ~DispatchInFlight(t)'
    BY <1>1, <2>1, <2>2, <2>3, StateStep
  <2> QED BY <2>1, <2>4 DEF Settled
<1>2. IInv /\ [Next]_vars =>
        [\A t \in Tasks : Settled(t) => Settled(t)' /\ tasks'[t].state = tasks[t].state]_vars
  BY <1>1
<1> QED BY <1>2, Invariance, PTL DEF Spec, SettledIsForever

-----------------------------------------------------------------------------
(* The concurrency limits *)

(* Every action but BeginDispatch only gives slots back.                   *)
LEMMA SlotsOnlyShrink ==
  ASSUME IInv, [Next]_vars,
         ~\E t \in Tasks, j \in JobIds, w \in Selectable : BeginDispatch(t, j, w)
  PROVE  slots' \subseteq slots /\ \A i \in JobIds : jobs'[i].worker = jobs[i].worker
<1>1. jobs \in [JobIds -> Job]
  BY DEF IInv, TypeOK
<1>2. ASSUME NEW j \in JobIds, SameJobs(j)
      PROVE  \A i \in JobIds : jobs'[i].worker = jobs[i].worker
  <2>1. ASSUME NEW s \in {"completed", "failed"}, jobs' = [jobs EXCEPT ![j].status = s],
               NEW i \in JobIds
        PROVE  jobs'[i].worker = jobs[i].worker
    BY <1>1, <2>1 DEF Job
  <2> QED BY <1>2, <2>1 DEF SameJobs
<1>3. ASSUME NEW j \in JobIds, NEW v, IsActive(j), Fine(ViewOf(j), v, jobs[j].stage), Install(j, v)
      PROVE  slots' \subseteq slots
  BY <1>3 DEF Fine, Yields, ViewOf, Install, Member
<1>4. ASSUME NEW j \in JobIds, NEW r \in Results, PostResult(j, r)
      PROVE  slots' \subseteq slots /\ jobs' = jobs
  <2>1. IsActive(j) /\ Install(j, Handle(ViewOf(j), jobs[j], r)) /\ jobs' = jobs
    BY <1>4 DEF PostResult
  <2>2. Fine(ViewOf(j), Handle(ViewOf(j), jobs[j], r), jobs[j].stage)
    BY <2>1, ViewIsGood, HandleFine
  <2> QED BY <1>3, <2>1, <2>2
<1>5. ASSUME NEW j \in JobIds, NEW r \in Results, PollReturns(j, r) \/ PollThrows(j)
      PROVE  slots' \subseteq slots /\ \A i \in JobIds : jobs'[i].worker = jobs[i].worker
  BY <1>2, <1>3, <1>5, PollCases
<1>6. ASSUME NEW j \in JobIds, SubmissionAccepted(j) \/ SubmissionRefused(j)
      PROVE  slots' = slots /\ \A i \in JobIds : jobs'[i].worker = jobs[i].worker
  <2>1. CASE SubmissionAccepted(j)
    <3>1. slots' = slots /\ jobs' = [jobs EXCEPT ![j].submitted = TRUE]
      BY <2>1 DEF SubmissionAccepted
    <3> QED BY <1>1, <3>1 DEF Job
  <2>2. CASE SubmissionRefused(j)
    BY <2>2 DEF SubmissionRefused
  <2> QED BY <1>6, <2>1, <2>2
<1>7. CASE UNCHANGED vars
  BY <1>7 DEF vars
<1>8. CASE TaskStep
  BY <1>8 DEF TaskStep, DispatchIncapable, Cancel, RecordTransition
<1>9. CASE JobStep
  BY <1>4, <1>5, <1>6, <1>9, PollFailureIsResult DEF JobStep
<1> QED BY <1>7, <1>8, <1>9 DEF Next

LEMMA CapacityStep == IInv /\ CapacityRespected /\ [Next]_vars => CapacityRespected'
<1> SUFFICES ASSUME IInv, CapacityRespected, [Next]_vars PROVE CapacityRespected'
  OBVIOUS
<1>1. slots \subseteq JobIds /\ IsFiniteSet(slots)
  BY ConstantsAssumption, FS_Subset DEF IInv, TypeOK
<1>2. Cardinality(slots) \in Nat /\ MaxGlobal \in Nat /\ MaxPerWorker \in Nat
  BY <1>1, FS_CardinalityType, ConstantsAssumption
<1>3. \A w \in WorkerTypes : /\ OfWorker(slots, w) \subseteq slots
                             /\ IsFiniteSet(OfWorker(slots, w))
                             /\ Cardinality(OfWorker(slots, w)) \in Nat
  BY <1>1, FS_Subset, FS_CardinalityType DEF OfWorker
<1>4. CASE ~\E t \in Tasks, j \in JobIds, w \in Selectable : BeginDispatch(t, j, w)
  <2>1. slots' \subseteq slots /\ \A i \in JobIds : jobs'[i].worker = jobs[i].worker
    BY <1>4, SlotsOnlyShrink
  <2>2. Cardinality(slots') \in Nat /\ Cardinality(slots') <= Cardinality(slots)
    BY <1>1, <2>1, FS_Subset, FS_CardinalityType
  <2>3. ASSUME NEW w \in WorkerTypes
        PROVE  Cardinality(OfWorker(slots, w)') <= MaxPerWorker
    <3>1. OfWorker(slots, w)' \subseteq OfWorker(slots, w)
      BY <1>1, <2>1 DEF OfWorker
    <3>2. /\ Cardinality(OfWorker(slots, w)') \in Nat
          /\ Cardinality(OfWorker(slots, w)') <= Cardinality(OfWorker(slots, w))
      BY <1>3, <3>1, FS_Subset, FS_CardinalityType
    <3>3. Cardinality(OfWorker(slots, w)) <= MaxPerWorker
      BY DEF CapacityRespected
    <3> QED BY <1>2, <1>3, <3>2, <3>3
  <2> QED BY <1>2, <2>2, <2>3 DEF CapacityRespected
<1>5. ASSUME NEW t \in Tasks, NEW j \in JobIds, NEW w \in Selectable, BeginDispatch(t, j, w)
      PROVE  CapacityRespected'
  <2>1. /\ Cardinality(slots) < MaxGlobal /\ Cardinality(OfWorker(slots, w)) < MaxPerWorker
        /\ slots' = slots \union {j} /\ jobs[j].status = "unused"
    BY <1>5 DEF BeginDispatch, CanAccept
  <2>2. j \notin slots
    BY <2>1 DEF IInv, Records
  <2>3. jobs'[j].worker = w /\ \A i \in JobIds : i # j => jobs'[i] = jobs[i]
    BY <1>5 DEF BeginDispatch, IInv, TypeOK
  <2>4. Cardinality(slots') = Cardinality(slots) + 1
    BY <1>1, <2>1, <2>2, FS_AddElement
  <2>5. ASSUME NEW x \in WorkerTypes
        PROVE  Cardinality(OfWorker(slots, x)') <= MaxPerWorker
    <3>1. CASE x = w
      <4>1. OfWorker(slots, x)' = OfWorker(slots, w) \union {j} /\ j \notin OfWorker(slots, w)
        BY <1>1, <2>1, <2>2, <2>3, <3>1 DEF OfWorker
      <4>2. Cardinality(OfWorker(slots, x)') = Cardinality(OfWorker(slots, w)) + 1
        BY <1>3, <3>1, <4>1, FS_AddElement
      <4> QED BY <1>2, <1>3, <2>1, <3>1, <4>2
    <3>2. CASE x # w
      <4>1. OfWorker(slots, x)' = OfWorker(slots, x)
        BY <1>1, <2>1, <2>2, <2>3, <3>2 DEF OfWorker
      <4> QED BY <4>1 DEF CapacityRespected
    <3> QED BY <3>1, <3>2
  <2> QED BY <1>2, <2>1, <2>4, <2>5 DEF CapacityRespected
<1> QED BY <1>4, <1>5

(* No interleaving of dispatch calls exceeds a concurrency limit, because  *)
(* the check and the registration are one synchronous block.               *)
THEOREM CapacityIsRespected == Spec => []CapacityRespected
<1>1. Init => CapacityRespected
  BY FS_EmptySet, ConstantsAssumption DEF Init, CapacityRespected, OfWorker
<1>2. IInv /\ CapacityRespected /\ [Next]_vars => CapacityRespected'
  BY CapacityStep
<1> QED BY <1>1, <1>2, Invariance, PTL DEF Spec
=============================================================================
