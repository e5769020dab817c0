-------------------------- MODULE ReleaseFlow_proofs --------------------------
(***************************************************************************)
(* Proofs about ReleaseFlow for every set of tasks, keys and checklist     *)
(* items, every repository policy and every set of recorded transitions.   *)
(*                                                                         *)
(* The argument: all properties but the one about keys speak of one task   *)
(* at a time, so TaskOK collects what holds of a task, lemmas say that     *)
(* each handler keeps it as a function on task records, and one lemma      *)
(* carries that over to the state.                                         *)
(***************************************************************************)
EXTENDS ReleaseFlow, TLAPS

-----------------------------------------------------------------------------
(* Facts about the states *)

LEMMA StateFacts ==
  /\ BeyondAcceptance \subseteq TaskStates /\ BeyondIntegration \subseteq BeyondAcceptance
  /\ {"accepting", "developing", "dev_completed", "rework_required", "blocked", "cancelled",
      "failed"} \subseteq TaskStates \ BeyondAcceptance
BY DEF TaskStates, ActiveStates, RestingStates, TerminalStates, BeyondAcceptance, BeyondIntegration

-----------------------------------------------------------------------------
(* What holds of one task: p are the gates its revision has passed, r is   *)
(* whether an operator went beyond the routine.                            *)

GatesOK(task, p, r) ==
  ~r => /\ Position(task) \in BeyondAcceptance  => "acceptance" \in p
        /\ Position(task) \in BeyondIntegration => "integration" \in p

EvidenceOK(task, r) ==
  ~r /\ Position(task) \in BeyondAcceptance
  => task.listed /\ Items \subseteq task.ticked /\ task.logs

ApplyOK(t, task, r) ==
  /\ ~r
  /\ Position(task) \in {"publish_pending_approval", "publishing", "published"}
  /\ task.mode = "apply"
  => PublishPolicy(task, Policy[t])

(* An integration that exists has a run; that is why its report, whatever  *)
(* the order, closes the run together with the checks.                     *)
RunOK(task) ==
  /\ task.integration = "present" => task.integrationRun # "none"
  /\ task.integrationRun = "succeeded" <=> task.checks

TaskOK(t, task, p, r) ==
  /\ task \in Task /\ (task.ticked # {} => task.listed)
  /\ p \in SUBSET Gates /\ r \in BOOLEAN
  /\ GatesOK(task, p, r) /\ EvidenceOK(task, r) /\ ApplyOK(t, task, r) /\ RunOK(task)

(* A step of task t: it keeps TaskOK and takes no tick back. *)
Keeps(t, task, new, p, r) == TaskOK(t, new, p, r) /\ task.ticked \subseteq new.ticked

(* What a dispatch call remembers was the record of a task once.  Such a   *)
(* record is no longer up to date, but it is sound in itself.              *)
SeenOK(task) ==
  /\ task \in Task /\ (task.ticked # {} => task.listed)
  /\ RunOK(task)
  /\ DispatchedStage(task) \in {"dev", "acceptance"}

CallsOK == calls \in [Calls -> Call] /\ \A c \in Calls : calls[c] # Idle => SeenOK(calls[c].seen)

(* What steps of one task hardly touch. *)
Rest ==
  /\ CallsOK
  /\ keys \in [Keys -> Tasks \union {NoTask}]
  /\ revision \in [Tasks -> 1 .. MaxRevision]
  /\ starts \in [Keys -> 0 .. 2]
  /\ OneStartPerKey

IInv ==
  /\ tasks \in [Tasks -> Task]
  /\ passed \in [Tasks -> SUBSET Gates]
  /\ recorded \in [Tasks -> BOOLEAN]
  /\ \A t \in Tasks : TaskOK(t, tasks[t], passed[t], recorded[t])
  /\ Rest

LEMMA Invariants ==
  IInv => /\ TypeOK /\ GatesComeFirst /\ AcceptedOnEvidence /\ AppliesWithinPolicy
          /\ OneStartPerKey /\ RunsTellTheTruth
BY DEF IInv, Rest, CallsOK, TypeOK, TaskOK, GatesComeFirst, GatesOK, AcceptedOnEvidence, EvidenceOK,
       AppliesWithinPolicy, ApplyOK, RunsTellTheTruth, RunOK

LEMMA RestStays ==
  ASSUME IInv, UNCHANGED <<calls, keys, revision, starts>>
  PROVE  Rest'
<1>1. CallsOK'
  BY DEF IInv, Rest, CallsOK
<1> QED BY <1>1 DEF IInv, Rest, OneStartPerKey

-----------------------------------------------------------------------------
(* Task records *)

(* Entering a state short of the gates. *)
LEMMA EnterEarly ==
  ASSUME NEW t \in Tasks, NEW task, NEW p, NEW r, TaskOK(t, task, p, r),
         NEW to \in TaskStates \ BeyondAcceptance, to # "blocked"
  PROVE  TaskOK(t, Enter(task, to), p, r)
<1> DEFINE new == Enter(task, to)
<1>1. new \in Task /\ new.state = to
  BY DEF TaskOK, Enter, Task
<1>2. Position(new) = to /\ to \notin BeyondIntegration
  BY <1>1, StateFacts DEF Position
<1>3. to \notin {"publish_pending_approval", "publishing", "published"}
  BY DEF BeyondAcceptance
<1>4. /\ new.ticked = task.ticked /\ new.listed = task.listed /\ new.logs = task.logs
      /\ new.integration = task.integration /\ new.integrationRun = task.integrationRun
      /\ new.checks = task.checks
  BY DEF TaskOK, Enter, Task
<1> QED BY <1>1, <1>2, <1>3, <1>4 DEF TaskOK, GatesOK, EvidenceOK, ApplyOK, RunOK

(* Ticks may be added to a checklist, logs arrive and a run time out; the  *)
(* rest of what the invariants read stays.                                 *)
Resembles(task, new) ==
  /\ new \in Task
  /\ new.mode = task.mode /\ new.main = task.main /\ new.checks = task.checks
  /\ new.integration = task.integration
  /\ \/ new.integrationRun = task.integrationRun
     \/ new.integrationRun = "timeout" /\ ~task.checks
  /\ task.ticked \subseteq new.ticked
  /\ task.listed => new.listed
  /\ task.logs => new.logs
  /\ new.ticked # {} => new.listed

LEMMA SamePosition ==
  ASSUME NEW t \in Tasks, NEW task, NEW new, NEW p, NEW r,
         TaskOK(t, task, p, r), Resembles(task, new), Position(new) = Position(task)
  PROVE  Keeps(t, task, new, p, r)
<1>1. GatesOK(new, p, r) /\ EvidenceOK(new, r)
  BY DEF TaskOK, GatesOK, EvidenceOK, Resembles
<1>2. PublishPolicy(new, Policy[t]) <=> PublishPolicy(task, Policy[t])
  BY DEF PublishPolicy, Resembles
<1>3. ApplyOK(t, new, r)
  BY <1>2 DEF TaskOK, ApplyOK, Resembles
<1>4. RunOK(new)
  BY DEF TaskOK, RunOK, Resembles
<1> QED BY <1>1, <1>3, <1>4 DEF TaskOK, Keeps, Resembles

(* An operator who goes beyond the routine may change the position too. *)
LEMMA AnyPosition ==
  ASSUME NEW t \in Tasks, NEW task, NEW new, NEW p, NEW r,
         TaskOK(t, task, p, r), Resembles(task, new)
  PROVE  Keeps(t, task, new, p, TRUE)
<1>1. GatesOK(new, p, TRUE) /\ EvidenceOK(new, TRUE) /\ ApplyOK(t, new, TRUE)
  BY DEF TaskOK, GatesOK, EvidenceOK, ApplyOK, Resembles
<1>2. RunOK(new)
  BY DEF TaskOK, RunOK, Resembles
<1> QED BY <1>1, <1>2 DEF TaskOK, Keeps, Resembles

(* A move along the positions short of the gates, with what a job brings.  *)
LEMMA EarlyPosition ==
  ASSUME NEW t \in Tasks, NEW task, NEW new, NEW p, NEW r, NEW q, TaskOK(t, task, p, r),
         new \in Task, Position(new) \notin BeyondAcceptance, q \in SUBSET Gates,
         new.checks = task.checks, new.integration = task.integration,
         new.integrationRun = task.integrationRun,
         task.ticked \subseteq new.ticked, new.ticked # {} => new.listed
  PROVE  Keeps(t, task, new, q, r)
<1>1. GatesOK(new, q, r) /\ EvidenceOK(new, r)
  BY StateFacts DEF TaskOK, GatesOK, EvidenceOK
<1>2. ApplyOK(t, new, r)
  BY DEF ApplyOK, BeyondAcceptance
<1>3. RunOK(new)
  BY DEF TaskOK, RunOK
<1> QED BY <1>1, <1>2, <1>3 DEF TaskOK, Keeps

-----------------------------------------------------------------------------
(* The state *)

(* What a step of task t does to the state it does to one task. *)
LEMMA StoreStep ==
  ASSUME IInv, NEW t \in Tasks, NEW new,
         Keeps(t, tasks[t], new, passed'[t], recorded'[t]),
         Store(t, new),
         passed' = [passed EXCEPT ![t] = passed'[t]],
         recorded' = [recorded EXCEPT ![t] = recorded'[t]],
         Rest'
  PROVE  IInv' /\ \A u \in Tasks : tasks[u].ticked \subseteq tasks'[u].ticked
<1>1. TaskOK(t, new, passed'[t], recorded'[t]) /\ tasks[t].ticked \subseteq new.ticked
  BY DEF Keeps
<1>2. new \in Task /\ passed'[t] \in SUBSET Gates /\ recorded'[t] \in BOOLEAN
  BY <1>1 DEF TaskOK
<1>3. /\ tasks' \in [Tasks -> Task] /\ passed' \in [Tasks -> SUBSET Gates]
      /\ recorded' \in [Tasks -> BOOLEAN]
      /\ tasks'[t] = new
      /\ \A u \in Tasks \ {t} :
           tasks'[u] = tasks[u] /\ passed'[u] = passed[u] /\ recorded'[u] = recorded[u]
  BY <1>2 DEF IInv, Store
<1>4. \A u \in Tasks : TaskOK(u, tasks'[u], passed'[u], recorded'[u])
  <2> TAKE u \in Tasks
  <2>1. CASE u = t  BY <2>1, <1>1, <1>3
  <2>2. CASE u # t
    <3>1. /\ tasks'[u] = tasks[u] /\ passed'[u] = passed[u] /\ recorded'[u] = recorded[u]
          /\ TaskOK(u, tasks[u], passed[u], recorded[u])
      BY <2>2, <1>3 DEF IInv
    <3> QED BY <3>1
  <2> QED BY <2>1, <2>2
<1>5. IInv'
  <2>1. (\A u \in Tasks : TaskOK(u, tasks[u], passed[u], recorded[u]))'
    BY <1>4
  <2> QED BY <1>3, <2>1 DEF IInv
<1>6. \A u \in Tasks : tasks[u].ticked \subseteq tasks'[u].ticked
  BY <1>1, <1>3
<1> QED BY <1>5, <1>6

(* Most handlers leave everything but the tasks alone. *)
LEMMA TaskOnly ==
  ASSUME IInv, NEW t \in Tasks, NEW new,
         Keeps(t, tasks[t], new, passed[t], recorded[t]),
         Store(t, new), UNCHANGED <<calls, keys, revision, passed, recorded, starts>>
  PROVE  IInv' /\ \A u \in Tasks : tasks[u].ticked \subseteq tasks'[u].ticked
<1>1. passed' = [passed EXCEPT ![t] = passed'[t]] /\ recorded' = [recorded EXCEPT ![t] = recorded'[t]]
  BY DEF IInv
<1>2. Rest'
  BY RestStays
<1> QED BY <1>1, <1>2, StoreStep

-----------------------------------------------------------------------------
(* The actions *)

Harmless == IInv' /\ \A u \in Tasks : tasks[u].ticked \subseteq tasks'[u].ticked

(* The record a dispatch or its refusal leaves: task as it was read, on    *)
(* its way to a state short of the gates.                                  *)
LEMMA DispatchedRecord ==
  ASSUME NEW task, SeenOK(task), NEW new, NEW job \in {"dev", "acceptance"},
         LET to == StageToActiveState[DispatchedStage(task)]
         IN  new = [Enter(task, to) EXCEPT !.job = job] \/ new = Block(task, to)
  PROVE  /\ new \in Task /\ Position(new) \notin BeyondAcceptance
         /\ new.checks = task.checks /\ new.integration = task.integration
         /\ new.integrationRun = task.integrationRun
         /\ new.ticked = task.ticked /\ new.listed = task.listed
<1> DEFINE to == StageToActiveState[DispatchedStage(task)]
<1>1. task \in Task /\ to \in {"developing", "accepting"}
  BY DEF SeenOK, StageToActiveState, Stages
<1> HIDE DEF to
<1>2. CASE new = [Enter(task, to) EXCEPT !.job = job]
  <2>1. new \in Task /\ new.state = to
    BY <1>1, <1>2, StateFacts DEF Task, Enter
  <2>2. Position(new) = to
    BY <1>1, <2>1 DEF Position
  <2> QED BY <1>1, <1>2, <2>1, <2>2, StateFacts DEF Task, Enter
<1>3. CASE new = Block(task, to)
  <2>1. new \in Task /\ new.state = "blocked" /\ new.resume = to
    BY <1>1, <1>3, StateFacts DEF Task, Block
  <2>2. Position(new) = to
    BY <2>1 DEF Position
  <2> QED BY <1>1, <1>3, <2>1, <2>2, StateFacts DEF Task, Block
<1> QED BY <1>2, <1>3 DEF to

LEMMA BeginDispatchStep ==
  ASSUME IInv, NEW t \in Tasks, NEW c \in Calls, BeginDispatch(t, c)
  PROVE  Harmless
<1>1. TaskOK(t, tasks[t], passed[t], recorded[t]) /\ t # NoTask
  BY ReleaseAssumption DEF IInv
<1>2. SeenOK(tasks[t]) /\ tasks[t] \in Task
  BY <1>1 DEF TaskOK, SeenOK, BeginDispatch
<1>3. calls' = [calls EXCEPT ![c] = [task |-> t, seen |-> tasks[t]]] /\ calls \in [Calls -> Call]
  BY DEF BeginDispatch, IInv, Rest, CallsOK
<1>4. [task |-> t, seen |-> tasks[t]] \in Call
  BY <1>2 DEF Call
<1>5. \A d \in Calls : calls'[d] # Idle => SeenOK(calls'[d].seen)
  <2> TAKE d \in Calls
  <2>1. CASE d = c
    BY <2>1, <1>2, <1>3
  <2>2. CASE d # c
    <3>1. calls'[d] = calls[d]
      BY <2>2, <1>3
    <3> QED BY <3>1 DEF IInv, Rest, CallsOK
  <2> QED BY <2>1, <2>2
<1>6. (\A d \in Calls : calls[d] # Idle => SeenOK(calls[d].seen))'
  BY <1>5
<1>7. CallsOK'
  BY <1>3, <1>4, <1>6 DEF CallsOK
<1>8. tasks' = tasks /\ UNCHANGED <<keys, revision, passed, recorded, starts>>
  BY DEF BeginDispatch
<1>9. Rest'
  BY <1>7, <1>8 DEF IInv, Rest, OneStartPerKey
<1> QED BY <1>8, <1>9 DEF IInv, Harmless

LEMMA DispatchIncapableStep ==
  ASSUME IInv, NEW t \in Tasks, DispatchIncapable(t)
  PROVE  Harmless
<1> DEFINE new == Block(tasks[t], StageToActiveState[DispatchedStage(tasks[t])])
<1>1. TaskOK(t, tasks[t], passed[t], recorded[t]) /\ passed[t] \in SUBSET Gates
  BY DEF IInv
<1>2. SeenOK(tasks[t])
  BY <1>1 DEF TaskOK, SeenOK, DispatchIncapable
<1>3. /\ new \in Task /\ Position(new) \notin BeyondAcceptance
      /\ new.checks = tasks[t].checks /\ new.integration = tasks[t].integration
      /\ new.integrationRun = tasks[t].integrationRun
      /\ new.ticked = tasks[t].ticked /\ new.listed = tasks[t].listed
  BY <1>2, DispatchedRecord
<1> HIDE DEF new
<1>4. Keeps(t, tasks[t], new, passed[t], recorded[t])
  BY <1>1, <1>3, EarlyPosition DEF TaskOK
<1> QED BY <1>4, TaskOnly DEF DispatchIncapable, Harmless, new

(* A call that comes back: the remembered record is sound, wherever the    *)
(* task has gone, and the task is short of the gates with it.              *)
Returns(c) ==
  /\ calls[c] # Idle /\ calls' = [calls EXCEPT ![c] = Idle]
  /\ \A t \in Tasks : \/ tasks'[t].ticked = tasks[t].ticked
                      \/ calls[c].task = t /\ tasks'[t].ticked = calls[c].seen.ticked

LEMMA ReturnHolds ==
  ASSUME IInv, NEW c \in Calls, ReturnStep(c)
  PROVE  IInv' /\ Returns(c)
<1> DEFINE t    == calls[c].task
           seen == calls[c].seen
           to   == StageToActiveState[DispatchedStage(seen)]
<1>1. calls[c] # Idle /\ calls' = [calls EXCEPT ![c] = Idle]
  BY DEF ReturnStep, DispatchAccepted, DispatchRefused
<1>2. SeenOK(seen) /\ t \in Tasks /\ calls \in [Calls -> Call]
  BY <1>1 DEF IInv, Rest, CallsOK, Call
<1>3. UNCHANGED <<keys, revision, passed, recorded, starts>>
  BY DEF ReturnStep, DispatchAccepted, DispatchRefused
<1>4. Rest'
  <2>1. \A d \in Calls : calls'[d] # Idle => SeenOK(calls'[d].seen)
    <3> TAKE d \in Calls
    <3>1. CASE d = c
      BY <3>1, <1>1, <1>2
    <3>2. CASE d # c
      <4>1. calls'[d] = calls[d]
        BY <3>2, <1>1
      <4> QED BY <4>1 DEF IInv, Rest, CallsOK
    <3> QED BY <3>1, <3>2
  <2>2. (\A d \in Calls : calls[d] # Idle => SeenOK(calls[d].seen))'
    BY <2>1
  <2>3. CallsOK'
    BY <1>1, <1>2, <2>2 DEF CallsOK, Call
  <2> QED BY <1>3, <2>3 DEF IInv, Rest, OneStartPerKey
<1>5. \/ tasks' = tasks
      \/ \E new : /\ Store(t, new)
                  /\ \/ new = [Enter(seen, to) EXCEPT !.job = DispatchedStage(seen)]
                     \/ new = Block(seen, to)
  BY DEF ReturnStep, DispatchAccepted, DispatchRefused
<1>6. CASE tasks' = tasks
  <2>1. IInv'
    BY <1>3, <1>4, <1>6 DEF IInv
  <2> QED BY <2>1, <1>1, <1>6 DEF Returns
<1>7. ASSUME NEW new, Store(t, new),
             \/ new = [Enter(seen, to) EXCEPT !.job = DispatchedStage(seen)]
             \/ new = Block(seen, to)
      PROVE  IInv' /\ Returns(c)
  <2>1. DispatchedStage(seen) \in {"dev", "acceptance"}
    BY <1>2 DEF SeenOK
  <2>2. /\ new \in Task /\ Position(new) \notin BeyondAcceptance
        /\ new.checks = seen.checks /\ new.integration = seen.integration
        /\ new.integrationRun = seen.integrationRun
        /\ new.ticked = seen.ticked /\ new.listed = seen.listed
    BY <1>2, <1>7, <2>1, DispatchedRecord
  <2>3. passed[t] \in SUBSET Gates /\ recorded[t] \in BOOLEAN
    BY <1>2 DEF IInv
  <2>4. TaskOK(t, new, passed[t], recorded[t])
    <3>1. GatesOK(new, passed[t], recorded[t]) /\ EvidenceOK(new, recorded[t])
      BY <2>2, StateFacts DEF GatesOK, EvidenceOK
    <3>2. ApplyOK(t, new, recorded[t])
      BY <2>2 DEF ApplyOK, BeyondAcceptance
    <3>3. RunOK(new) /\ (new.ticked # {} => new.listed)
      BY <1>2, <2>2 DEF SeenOK, RunOK
    <3> QED BY <2>2, <2>3, <3>1, <3>2, <3>3 DEF TaskOK
  <2>5. /\ tasks' \in [Tasks -> Task] /\ tasks'[t] = new
        /\ \A u \in Tasks \ {t} : tasks'[u] = tasks[u]
    BY <1>2, <1>7, <2>2 DEF IInv, Store
  <2>6. \A u \in Tasks : TaskOK(u, tasks'[u], passed'[u], recorded'[u])
    <3> TAKE u \in Tasks
    <3>1. CASE u = t
      BY <3>1, <1>3, <2>4, <2>5
    <3>2. CASE u # t
      <4>1. tasks'[u] = tasks[u] /\ TaskOK(u, tasks[u], passed[u], recorded[u])
        BY <3>2, <2>5 DEF IInv
      <4> QED BY <4>1, <1>3
    <3> QED BY <3>1, <3>2
  <2>7. (\A u \in Tasks : TaskOK(u, tasks[u], passed[u], recorded[u]))'
    BY <2>6
  <2>8. IInv'
    BY <1>3, <1>4, <2>5, <2>7 DEF IInv
  <2>9. \A u \in Tasks : \/ tasks'[u].ticked = tasks[u].ticked
                         \/ t = u /\ tasks'[u].ticked = seen.ticked
    BY <2>2, <2>5
  <2> QED BY <1>1, <2>8, <2>9 DEF Returns
<1> QED BY <1>5, <1>6, <1>7

LEMMA DevSucceededStep ==
  ASSUME IInv, NEW t \in Tasks, NEW log \in BOOLEAN, DevSucceeded(t, log)
  PROVE  Harmless
<1> DEFINE new == [Enter(tasks[t], "dev_completed") EXCEPT !.logs = @ \/ log]
<1>1. TaskOK(t, tasks[t], passed[t], recorded[t]) /\ tasks[t] \in Task
  BY DEF IInv, TaskOK
<1>2. new \in Task
  BY <1>1, StateFacts DEF Task, Enter
<1>3. /\ new.state = "dev_completed" /\ new.checks = tasks[t].checks
      /\ new.integration = tasks[t].integration /\ new.integrationRun = tasks[t].integrationRun
      /\ new.ticked = tasks[t].ticked /\ new.listed = tasks[t].listed
  BY <1>1 DEF Task, Enter
<1>4. Position(new) \notin BeyondAcceptance
  BY <1>3, StateFacts DEF Position
<1>5. Keeps(t, tasks[t], new, {}, recorded[t])
  BY <1>1, <1>2, <1>3, <1>4, EarlyPosition DEF TaskOK
<1>6. Rest'
  <2>1. revision' \in [Tasks -> 1 .. MaxRevision]
    BY ReleaseAssumption DEF DevSucceeded, IInv, Rest
  <2>2. CallsOK'
    BY DEF DevSucceeded, IInv, Rest, CallsOK
  <2> QED BY <2>1, <2>2 DEF DevSucceeded, IInv, Rest, OneStartPerKey
<1>7. /\ Store(t, new) /\ passed'[t] = {} /\ recorded' = recorded
      /\ passed' = [passed EXCEPT ![t] = passed'[t]]
      /\ recorded' = [recorded EXCEPT ![t] = recorded'[t]]
  BY DEF DevSucceeded, IInv
<1> QED BY <1>5, <1>6, <1>7, StoreStep DEF Harmless

LEMMA AcceptanceResultStep ==
  ASSUME IInv, NEW t \in Tasks, NEW r \in Outcomes, AcceptanceResult(t, r)
  PROVE  Harmless
<1> DEFINE task  == tasks[t]
           moved == CASE r.to = "stay"    -> task
                      [] r.to = "blocked" -> Block(task, "accepting")
                      [] OTHER            -> Enter(task, r.to)
           new   == [moved EXCEPT
                       !.verdict = IF r.verdict = "none" THEN @ ELSE r.verdict,
                       !.logs = @ \/ r.log,
                       !.listed = @ \/ r.to = "stay",
                       !.ticked = ChecklistAfter(task, r.to)]
<1>1. TaskOK(t, task, passed[t], recorded[t])
  BY DEF IInv
<1>2. /\ r.to \in {"stay", "rework_required", "blocked", "accepting"}
      /\ r.verdict \in Verdicts /\ r.log \in BOOLEAN
  BY ReleaseAssumption DEF AcceptanceResults, Verdicts
<1>3. moved \in Task
  BY <1>1, <1>2, StateFacts DEF TaskOK, Task, Enter, Block
<1>4. /\ moved.verdict = task.verdict /\ moved.logs = task.logs
      /\ moved.listed = task.listed /\ moved.ticked = task.ticked
      /\ moved.checks = task.checks /\ moved.integration = task.integration
      /\ moved.integrationRun = task.integrationRun
      /\ moved.mode = task.mode /\ moved.main = task.main
  BY <1>1, <1>2 DEF TaskOK, Task, Enter, Block
<1>5. /\ task.ticked \subseteq ChecklistAfter(task, r.to) /\ ChecklistAfter(task, r.to) \in SUBSET Items
      /\ ChecklistAfter(task, r.to) # {} => task.listed
  BY <1>1 DEF TaskOK, Task, ChecklistAfter
<1>6. /\ passed'[t] = passed[t] \/ passed'[t] = passed[t] \union {"verdict"}
      /\ passed' = [passed EXCEPT ![t] = passed'[t]] /\ recorded' = recorded
      /\ recorded' = [recorded EXCEPT ![t] = recorded'[t]]
      /\ Rest'
  BY RestStays DEF AcceptanceResult, IInv
<1>7. new \in Task
  BY <1>2, <1>3, <1>5 DEF Task
<1>8. /\ new.state = moved.state /\ new.resume = moved.resume
      /\ new.mode = task.mode /\ new.main = task.main /\ new.checks = task.checks
      /\ new.integration = task.integration
      /\ new.integrationRun = task.integrationRun
      /\ new.ticked = ChecklistAfter(task, r.to)
      /\ task.listed => new.listed
      /\ task.logs => new.logs
  BY <1>3, <1>4 DEF Task
<1>9. Keeps(t, task, new, passed'[t], recorded[t])
  <2>0. passed'[t] \in SUBSET Gates
    BY <1>1, <1>6 DEF TaskOK, Gates
  <2>1. CASE r.to = "stay"
    <3>1. Position(new) = Position(task)
      BY <2>1, <1>8 DEF Position
    <3>2. new.ticked # {} => new.listed
      BY <1>5, <1>8
    <3>3. Resembles(task, new)
      BY <3>2, <1>5, <1>7, <1>8 DEF Resembles
    <3>4. Keeps(t, task, new, passed[t], recorded[t])
      BY <3>1, <3>3, <1>1, SamePosition
    <3> HIDE DEF new
    <3>5. GatesOK(new, passed'[t], recorded[t])
      BY <3>4, <1>6 DEF Keeps, TaskOK, GatesOK
    <3> QED BY <2>0, <3>4, <3>5 DEF Keeps, TaskOK
  <2>2. CASE r.to # "stay"
    <3>1. moved.state = r.to /\ (r.to = "blocked" => moved.resume = "accepting")
      BY <2>2, <1>1, <1>2 DEF TaskOK, Task, Enter, Block
    <3>2. Position(new) \notin BeyondAcceptance
      BY <3>1, <2>2, <1>2, <1>8, StateFacts DEF Position
    <3>3. new.ticked # {} => new.listed
      BY <1>5, <1>8
    <3> HIDE DEF new
    <3> QED BY <2>0, <3>2, <3>3, <1>1, <1>5, <1>7, <1>8, EarlyPosition DEF TaskOK
  <2> QED BY <2>1, <2>2
<1>10. Store(t, new)
  BY DEF AcceptanceResult
<1> QED BY <1>6, <1>9, <1>10, StoreStep DEF Harmless

LEMMA CompleteAcceptanceStep ==
  ASSUME IInv, NEW t \in Tasks, NEW items \in SUBSET Items, NEW override \in BOOLEAN,
         CompleteAcceptance(t, items, override)
  PROVE  Harmless
<1> DEFINE task   == tasks[t]
           ticked == Ticked(task, items)
           done   == [Enter(task, "accepted") EXCEPT !.ticked = ticked, !.verdict = "accept"]
           kept   == [task EXCEPT !.ticked = ticked]
<1>1. TaskOK(t, task, passed[t], recorded[t])
  BY DEF IInv
<1>2. /\ ticked \in SUBSET Items /\ task.ticked \subseteq ticked
      /\ ticked # {} => task.listed
  BY <1>1 DEF TaskOK, Task, Ticked
<1>3. /\ passed' = [passed EXCEPT ![t] = passed'[t]]
      /\ recorded' = recorded /\ recorded' = [recorded EXCEPT ![t] = recorded'[t]]
      /\ Rest'
  BY RestStays DEF CompleteAcceptance, IInv
<1>4. CASE GateOpens(task, ticked, override)
  <2>1. Store(t, done) /\ passed'[t] = passed[t] \union {"acceptance"}
    BY <1>4 DEF CompleteAcceptance, IInv
  <2>2. done \in Task
    <3>1. Enter(task, "accepted") \in Task
      BY <1>1, StateFacts DEF TaskOK, Task, Enter, BeyondAcceptance
    <3>2. "accept" \in Verdicts
      BY DEF Verdicts
    <3> QED BY <1>2, <3>1, <3>2 DEF Task
  <2>3. /\ done.state = "accepted" /\ done.ticked = ticked /\ done.listed = task.listed
        /\ done.logs = task.logs /\ done.checks = task.checks
        /\ done.integration = task.integration /\ done.integrationRun = task.integrationRun
    BY <1>1 DEF TaskOK, Task, Enter
  <2>4. GatesOK(done, passed'[t], recorded[t])
    BY <2>1, <2>3 DEF GatesOK, Position, BeyondIntegration
  <2>5. EvidenceOK(done, recorded[t]) /\ ApplyOK(t, done, recorded[t]) /\ RunOK(done)
    BY <1>1, <1>4, <2>3 DEF EvidenceOK, ApplyOK, RunOK, GateOpens, Position, TaskOK
  <2>6. Keeps(t, task, done, passed'[t], recorded'[t])
    BY <1>1, <1>2, <1>3, <2>1, <2>2, <2>3, <2>4, <2>5 DEF TaskOK, Keeps, Gates
  <2> QED BY <1>3, <2>1, <2>6, StoreStep DEF Harmless
<1>5. CASE ~GateOpens(task, ticked, override)
  <2>1. Store(t, kept) /\ passed' = passed
    BY <1>5 DEF CompleteAcceptance
  <2>2. /\ kept \in Task /\ Position(kept) = Position(task)
        /\ kept.mode = task.mode /\ kept.main = task.main /\ kept.checks = task.checks
        /\ kept.integration = task.integration
        /\ kept.integrationRun = task.integrationRun /\ kept.ticked = ticked
        /\ kept.listed = task.listed /\ kept.logs = task.logs
    BY <1>1, <1>2 DEF TaskOK, Task, Position
  <2>3. Resembles(task, kept)
    BY <1>2, <2>2 DEF Resembles
  <2>4. Keeps(t, task, kept, passed[t], recorded[t])
    BY <1>1, <2>2, <2>3, SamePosition
  <2> QED BY <1>3, <2>1, <2>4, StoreStep DEF Harmless
<1> QED BY <1>4, <1>5

LEMMA DocsStep ==
  ASSUME IInv, NEW t \in Tasks, ResolveDocs(t) \/ StaleDocsFound(t)
  PROVE  Harmless
<1>1. TaskOK(t, tasks[t], passed[t], recorded[t])
  BY DEF IInv
<1>2. PICK stale \in BOOLEAN : Store(t, [tasks[t] EXCEPT !.stale = stale])
  BY DEF ResolveDocs, StaleDocsFound
<1> DEFINE new == [tasks[t] EXCEPT !.stale = stale]
<1>3. Resembles(tasks[t], new) /\ Position(new) = Position(tasks[t])
  BY <1>1 DEF TaskOK, Task, Resembles, Position
<1>4. Keeps(t, tasks[t], new, passed[t], recorded[t])
  BY <1>1, <1>3, SamePosition
<1> QED BY <1>2, <1>4, TaskOnly DEF ResolveDocs, StaleDocsFound, Harmless

LEMMA IntegrateStep ==
  ASSUME IInv, NEW t \in Tasks, Integrate(t)
  PROVE  Harmless
<1> DEFINE task == tasks[t]
           new  == [Enter(task, "integrating") EXCEPT
                      !.integration = "present", !.checks = FALSE, !.main = "absent",
                      !.integrationRun = "running"]
<1>1. TaskOK(t, task, passed[t], recorded[t])
  BY DEF IInv
<1>2. "running" \in RunStatus /\ "absent" \in MainShas
  BY DEF RunStatus, MainShas
<1>3. "integrating" \in TaskStates
  BY StateFacts DEF BeyondAcceptance
<1>4. /\ new \in Task /\ new.state = "integrating" /\ new.ticked = task.ticked
      /\ new.listed = task.listed /\ new.logs = task.logs /\ new.integration = "present"
      /\ new.checks = FALSE /\ new.integrationRun = "running"
  BY <1>1, <1>2, <1>3 DEF TaskOK, Task, Enter
<1>5. /\ Store(t, new) /\ passed'[t] = passed[t] \ {"integration"}
      /\ passed' = [passed EXCEPT ![t] = passed'[t]]
      /\ recorded' = recorded /\ recorded' = [recorded EXCEPT ![t] = recorded'[t]]
      /\ Rest'
  BY RestStays DEF Integrate, IInv
<1>6. Position(task) = "accepted" /\ Position(new) = "integrating"
  BY <1>4 DEF Integrate, Position
<1>7. GatesOK(new, passed'[t], recorded[t]) /\ EvidenceOK(new, recorded[t])
  BY <1>1, <1>4, <1>5, <1>6
     DEF TaskOK, GatesOK, EvidenceOK, BeyondAcceptance, BeyondIntegration
<1>8. ApplyOK(t, new, recorded[t]) /\ RunOK(new)
  BY <1>2, <1>4, <1>6 DEF ApplyOK, RunOK
<1>9. Keeps(t, task, new, passed'[t], recorded'[t])
  BY <1>1, <1>4, <1>5, <1>7, <1>8 DEF TaskOK, Keeps
<1> QED BY <1>5, <1>9, StoreStep DEF Harmless

(* A report that passed the policy: the run and the checks agree after it. *)
LEMMA IntegratedRun ==
  ASSUME NEW t \in Tasks, NEW p, NEW r, NEW task, TaskOK(t, task, p, r),
         task.integration = "present", NEW report \in Reports
  PROVE  LET done == IntegratedWith(task, report)
         IN  /\ done \in Task /\ RunOK(done) /\ done.checks = report.checks
             /\ done.state = task.state /\ done.resume = task.resume
             /\ done.ticked = task.ticked /\ done.listed = task.listed /\ done.logs = task.logs
<1> DEFINE done == IntegratedWith(task, report)
           sha == IF report.main = "absent" THEN task.main ELSE report.main
           run == IF task.integrationRun = "none" THEN task.integrationRun
                  ELSE IF report.checks THEN "succeeded" ELSE "failed"
<1>1. /\ task \in Task /\ task.main \in MainShas /\ task.integrationRun \in RunStatus
      /\ report.checks \in BOOLEAN /\ report.main \in MainShas
      /\ task.integrationRun # "none"
  BY DEF TaskOK, Task, RunOK, Reports
<1>2. sha \in MainShas
  BY <1>1
<1>3. /\ run \in RunStatus /\ run # "none"
      /\ run = "succeeded" <=> report.checks
  BY <1>1 DEF RunStatus
<1>4. done = [task EXCEPT !.checks = report.checks, !.main = sha, !.integrationRun = run]
  BY <1>1 DEF IntegratedWith, Task
<1>5. done \in Task /\ done.integrationRun = run /\ done.checks = report.checks
  BY <1>1, <1>2, <1>3, <1>4 DEF Task
<1>6. /\ done.state = task.state /\ done.resume = task.resume
      /\ done.ticked = task.ticked /\ done.listed = task.listed /\ done.logs = task.logs
  BY <1>1, <1>4 DEF Task
<1>7. RunOK(done)
  BY <1>3, <1>5 DEF RunOK
<1> QED BY <1>5, <1>6, <1>7

(* A task that stops or goes on keeps everything else. *)
LEMMA Moved ==
  ASSUME NEW task \in Task, task.ticked # {} => task.listed,
         NEW to \in TaskStates, NEW new,
         new = Block(task, to) \/ (new = Enter(task, to) /\ to # "blocked")
  PROVE  /\ Position(new) = to /\ Resembles(task, new)
         /\ new.integrationRun = task.integrationRun /\ new.publishRun = task.publishRun
<1>1. new \in Task
  <2>1. CASE new = Block(task, to)
    BY <2>1, StateFacts DEF Task, Block
  <2>2. CASE new = Enter(task, to)
    BY <2>2 DEF Task, Enter
  <2> QED BY <2>1, <2>2
<1>2. Position(new) = to
  <2>1. CASE new = Block(task, to)
    <3>1. new.state = "blocked" /\ new.resume = to
      BY <2>1 DEF Task, Block
    <3> QED BY <3>1 DEF Position
  <2>2. CASE new = Enter(task, to) /\ to # "blocked"
    <3>1. new.state = to
      BY <2>2 DEF Task, Enter
    <3> QED BY <3>1, <2>2 DEF Position
  <2> QED BY <2>1, <2>2
<1>3. /\ new.mode = task.mode /\ new.main = task.main /\ new.checks = task.checks
      /\ new.integration = task.integration
      /\ new.integrationRun = task.integrationRun /\ new.publishRun = task.publishRun
      /\ new.ticked = task.ticked /\ new.listed = task.listed /\ new.logs = task.logs
  BY DEF Task, Block, Enter
<1> QED BY <1>1, <1>2, <1>3 DEF Resembles

LEMMA CompleteIntegrateStep ==
  ASSUME IInv, NEW t \in Tasks, NEW report \in Answers, CompleteIntegrate(t, report)
  PROVE  Harmless
<1> DEFINE task == tasks[t]
           done == IntegratedWith(task, report)
           ok   == IntegrationPolicy(task, Policy[t], report)
<1>1. TaskOK(t, task, passed[t], recorded[t]) /\ task.state = "integrating"
  BY DEF IInv, CompleteIntegrate
<1>2. /\ done \in Task /\ RunOK(done) /\ done.checks = report.checks
      /\ done.ticked = task.ticked /\ done.listed = task.listed /\ done.logs = task.logs
  BY <1>1, IntegratedRun, ReleaseAssumption DEF CompleteIntegrate
<1>3. Position(task) = "integrating"
  BY <1>1 DEF Position
<1>4. {"integrating", "integrated"} \subseteq TaskStates
  BY StateFacts DEF BeyondAcceptance
<1>5. PICK new : /\ Store(t, new)
                 /\ \/ new = Block(task, "integrating")
                    \/ new = Block(done, "integrating")
                    \/ new = Enter(done, "integrated")
  BY DEF CompleteIntegrate
<1>6. /\ tasks'[t] = new
      /\ passed'[t] = IF new.state = "integrated" THEN passed[t] \union {"integration"} ELSE passed[t]
      /\ passed' = [passed EXCEPT ![t] = passed'[t]]
      /\ recorded' = recorded /\ recorded' = [recorded EXCEPT ![t] = recorded'[t]]
      /\ Rest'
  BY <1>5, RestStays DEF CompleteIntegrate, IInv, Store
<1>7. task \in Task /\ (task.ticked # {} => task.listed) /\ passed[t] \in SUBSET Gates
  BY <1>1 DEF TaskOK
<1>8. Keeps(t, task, new, passed'[t], recorded[t])
  <2>1. CASE new = Block(task, "integrating")
    <3>1. new.state # "integrated"
      BY <2>1, <1>7 DEF Block, Task
    <3>2. Resembles(task, new) /\ Position(new) = "integrating"
      BY <2>1, <1>4, <1>7, Moved
    <3> QED BY <3>1, <3>2, <1>1, <1>3, <1>6, SamePosition
  <2>2. CASE new = Block(done, "integrating") \/ new = Enter(done, "integrated")
    <3>1. PICK to \in {"integrating", "integrated"} :
            /\ Position(new) = to /\ Resembles(done, new)
            /\ new.integrationRun = done.integrationRun
            /\ to = "integrated" => new.state = "integrated"
      <4>1. CASE new = Block(done, "integrating")
        BY <4>1, <1>2, <1>4, <1>7, Moved
      <4>2. CASE new = Enter(done, "integrated")
        <5>1. new.state = "integrated"
          BY <4>2, <1>2 DEF Enter, Task
        <5> QED BY <4>2, <5>1, <1>2, <1>4, <1>7, Moved
      <4> QED BY <2>2, <4>1, <4>2
    <3>2. /\ new \in Task /\ task.ticked \subseteq new.ticked
          /\ new.ticked # {} => new.listed
          /\ task.listed => new.listed
          /\ task.logs => new.logs
          /\ new.checks = done.checks /\ new.integration = done.integration
      BY <3>1, <1>2 DEF Resembles
    <3>3. RunOK(new)
      BY <3>1, <3>2, <1>2 DEF RunOK
    <3>4. /\ "acceptance" \in passed'[t] <=> "acceptance" \in passed[t]
          /\ new.state = "integrated" => "integration" \in passed'[t]
          /\ passed'[t] \in SUBSET Gates
      BY <1>6, <1>7 DEF Gates
    <3>5. EvidenceOK(new, recorded[t])
      BY <3>2, <1>1, <1>3 DEF TaskOK, EvidenceOK, BeyondAcceptance
    <3>6. GatesOK(new, passed'[t], recorded[t])
      BY <3>1, <3>4, <1>1, <1>3
         DEF TaskOK, GatesOK, BeyondAcceptance, BeyondIntegration
    <3>7. ApplyOK(t, new, recorded[t])
      BY <3>1 DEF ApplyOK
    <3> QED BY <3>2, <3>3, <3>4, <3>5, <3>6, <3>7, <1>1 DEF TaskOK, Keeps
  <2> QED BY <2>1, <2>2, <1>5
<1> QED BY <1>5, <1>6, <1>8, StoreStep DEF Harmless

LEMMA PublishStep ==
  ASSUME IInv, NEW t \in Tasks, NEW mode \in Modes, NEW key \in Keys \union {NoKey},
         NEW tokenGiven \in BOOLEAN, Publish(t, mode, key, tokenGiven)
  PROVE  Harmless
<1> DEFINE task == tasks[t]
           planned == [task EXCEPT !.mode = mode, !.approved = FALSE]
<1>1. TaskOK(t, task, passed[t], recorded[t]) /\ task.state = "integrated"
  BY DEF IInv, Publish
<1>2. Position(task) = "integrated"
  BY <1>1 DEF Position
<1>3. {"integrated", "publish_pending_approval", "publishing"} \subseteq TaskStates
  BY StateFacts DEF BeyondAcceptance
<1>4. /\ passed' = passed /\ passed' = [passed EXCEPT ![t] = passed'[t]]
      /\ recorded' = recorded /\ recorded' = [recorded EXCEPT ![t] = recorded'[t]]
  BY DEF Publish, IInv
<1>5. keys' \in [Keys -> Tasks \union {NoTask}] /\ CallsOK' /\ revision' = revision
  BY DEF Publish, IInv, Rest, CallsOK
<1>6. starts' \in [Keys -> 0 .. 2] /\ OneStartPerKey'
  <2>1. \A k \in Keys :
          /\ keys[k] \in Tasks \union {NoTask} /\ starts[k] \in 0 .. 2
          /\ starts[k] <= 1 /\ (starts[k] = 1 => keys[k] # NoTask)
    BY DEF IInv, Rest, OneStartPerKey
  <2>2. \A k \in Keys : keys'[k] = IF k = key THEN t ELSE keys[k]
    BY DEF Publish
  <2>3. key \in Keys => keys[key] = NoTask
    BY DEF Publish, KeyIsUnused
  <2>4. t # NoTask
    BY ReleaseAssumption
  <2>5. \/ starts' = starts
        \/ starts' = [k \in Keys |-> IF k = key /\ starts[k] < 2 THEN starts[k] + 1 ELSE starts[k]]
    BY DEF Publish
  <2>6. \A k \in Keys : /\ starts'[k] \in 0 .. 2 /\ starts'[k] <= 1
                        /\ starts'[k] = 1 => keys'[k] # NoTask
    <3>1. CASE starts' = starts
      BY <3>1, <2>1, <2>2, <2>4
    <3>2. CASE starts' = [k \in Keys |-> IF k = key /\ starts[k] < 2 THEN starts[k] + 1 ELSE starts[k]]
      <4> TAKE k \in Keys
      <4>1. CASE k = key
        <5>1. starts[k] = 0
          BY <4>1, <2>1, <2>3
        <5> QED BY <5>1, <4>1, <3>2, <2>2, <2>4
      <4>2. CASE k # key
        <5>1. starts'[k] = starts[k] /\ keys'[k] = keys[k]
          BY <4>2, <3>2, <2>2
        <5> QED BY <5>1, <2>1
      <4> QED BY <4>1, <4>2
    <3> QED BY <2>5, <3>1, <3>2
  <2>7. starts' \in [Keys -> 0 .. 2]
    BY <2>5, <2>6 DEF IInv, Rest
  <2> QED BY <2>6, <2>7 DEF OneStartPerKey
<1>7. PICK new : /\ Store(t, new)
                 /\ \/ new = Block(task, "integrated")
                    \/ /\ mode = "apply" => PublishPolicy(task, Policy[t])
                       /\ AwaitsApproval(t, mode, tokenGiven)
                       /\ new = [Enter(planned, "publish_pending_approval") EXCEPT !.token = TRUE]
                    \/ /\ mode = "apply" => PublishPolicy(task, Policy[t])
                       /\ ~AwaitsApproval(t, mode, tokenGiven)
                       /\ new = [Enter(planned, "publishing") EXCEPT !.publishRun = "running"]
  BY DEF Publish, Denied
<1>8. planned \in Task
  BY <1>1, ReleaseAssumption DEF TaskOK, Task
<1>9. Keeps(t, task, new, passed[t], recorded[t])
  <2>1. CASE new = Block(task, "integrated")
    <3>1. Resembles(task, new) /\ Position(new) = "integrated"
      BY <2>1, <1>1, <1>3, Moved DEF TaskOK
    <3> QED BY <3>1, <1>1, <1>2, SamePosition
  <2>2. CASE new # Block(task, "integrated")
    <3>1. PICK to \in {"publish_pending_approval", "publishing"} :
            /\ new \in Task /\ new.state = to /\ new.mode = mode
            /\ new.checks = task.checks /\ new.main = task.main
            /\ new.integration = task.integration /\ new.integrationRun = task.integrationRun
            /\ new.ticked = task.ticked /\ new.listed = task.listed /\ new.logs = task.logs
      <4>1. "running" \in RunStatus
        BY DEF RunStatus
      <4>2. /\ planned.mode = mode
            /\ planned.checks = task.checks /\ planned.main = task.main
            /\ planned.integration = task.integration /\ planned.integrationRun = task.integrationRun
            /\ planned.ticked = task.ticked /\ planned.listed = task.listed /\ planned.logs = task.logs
        BY <1>1 DEF TaskOK, Task
      <4>3. CASE new = [Enter(planned, "publish_pending_approval") EXCEPT !.token = TRUE]
        BY <4>2, <4>3, <1>3, <1>8 DEF Enter, Task
      <4>4. CASE new = [Enter(planned, "publishing") EXCEPT !.publishRun = "running"]
        BY <4>1, <4>2, <4>4, <1>3, <1>8 DEF Enter, Task
      <4> QED BY <4>3, <4>4, <2>2, <1>7
    <3>2. mode = "apply" => PublishPolicy(new, Policy[t])
      BY <2>2, <3>1, <1>7 DEF PublishPolicy
    <3>3. Position(new) = new.state
      BY <3>1 DEF Position
    <3>4. GatesOK(new, passed[t], recorded[t]) /\ EvidenceOK(new, recorded[t]) /\ RunOK(new)
      BY <3>1, <3>3, <1>1, <1>2
         DEF TaskOK, GatesOK, EvidenceOK, RunOK, BeyondAcceptance, BeyondIntegration
    <3>5. ApplyOK(t, new, recorded[t])
      BY <3>1, <3>2, <3>3 DEF ApplyOK
    <3> QED BY <3>1, <3>4, <3>5, <1>1 DEF TaskOK, Keeps
  <2> QED BY <2>1, <2>2
<1>10. Rest'
  BY <1>5, <1>6 DEF IInv, Rest
<1> QED BY <1>4, <1>7, <1>9, <1>10, StoreStep DEF Harmless

LEMMA ApprovePublishStep ==
  ASSUME IInv, NEW t \in Tasks, ApprovePublish(t)
  PROVE  Harmless
<1> DEFINE task == tasks[t]
           new  == [Enter(task, "publishing") EXCEPT
                      !.token = FALSE, !.approved = TRUE, !.publishRun = "running"]
<1>1. TaskOK(t, task, passed[t], recorded[t]) /\ Position(task) = "publish_pending_approval"
  BY DEF IInv, ApprovePublish, Position
<1>2. "running" \in RunStatus /\ "publishing" \in TaskStates
  BY StateFacts DEF RunStatus, BeyondAcceptance
<1>3. /\ new \in Task /\ new.state = "publishing" /\ new.mode = task.mode
      /\ new.checks = task.checks /\ new.main = task.main
      /\ new.integration = task.integration /\ new.integrationRun = task.integrationRun
      /\ new.ticked = task.ticked /\ new.listed = task.listed /\ new.logs = task.logs
  BY <1>1, <1>2 DEF TaskOK, Task, Enter
<1>4. Position(new) = "publishing"
  BY <1>3 DEF Position
<1>5. GatesOK(new, passed[t], recorded[t]) /\ EvidenceOK(new, recorded[t]) /\ RunOK(new)
  BY <1>1, <1>3, <1>4
     DEF TaskOK, GatesOK, EvidenceOK, RunOK, BeyondAcceptance, BeyondIntegration
<1>6. ApplyOK(t, new, recorded[t])
  BY <1>1, <1>3, <1>4 DEF TaskOK, ApplyOK, PublishPolicy
<1>7. Keeps(t, task, new, passed[t], recorded[t])
  BY <1>1, <1>3, <1>5, <1>6 DEF TaskOK, Keeps
<1> QED BY <1>7, TaskOnly DEF ApprovePublish, Harmless

LEMMA CompletePublishStep ==
  ASSUME IInv, NEW t \in Tasks, CompletePublish(t)
  PROVE  Harmless
<1> DEFINE task == tasks[t]
           run  == IF task.publishRun = "none" THEN task.publishRun ELSE "succeeded"
           new  == [Enter(task, "published") EXCEPT
                      !.publishRun = IF @ = "none" THEN @ ELSE "succeeded"]
<1>1. TaskOK(t, task, passed[t], recorded[t]) /\ Position(task) = "publishing"
  BY DEF IInv, CompletePublish, Position
<1>2. task \in Task /\ run \in RunStatus /\ "published" \in TaskStates
  BY <1>1, StateFacts DEF TaskOK, Task, RunStatus, BeyondAcceptance
<1>3. Enter(task, "published") \in Task /\ Enter(task, "published").publishRun = task.publishRun
  BY <1>2 DEF Task, Enter
<1>4. new = [Enter(task, "published") EXCEPT !.publishRun = run]
  BY <1>2 DEF Task, Enter
<1>5. new \in Task
  BY <1>2, <1>3, <1>4 DEF Task
<1>6. /\ new.state = "published" /\ new.mode = task.mode
      /\ new.checks = task.checks /\ new.main = task.main
      /\ new.integration = task.integration /\ new.integrationRun = task.integrationRun
      /\ new.ticked = task.ticked /\ new.listed = task.listed /\ new.logs = task.logs
  BY <1>2 DEF Task, Enter
<1>7. Position(new) = "published"
  BY <1>6 DEF Position
<1>8. GatesOK(new, passed[t], recorded[t]) /\ EvidenceOK(new, recorded[t]) /\ RunOK(new)
  BY <1>1, <1>6, <1>7
     DEF TaskOK, GatesOK, EvidenceOK, RunOK, BeyondAcceptance, BeyondIntegration
<1>9. ApplyOK(t, new, recorded[t])
  BY <1>1, <1>6, <1>7 DEF TaskOK, ApplyOK, PublishPolicy
<1>10. Keeps(t, task, new, passed[t], recorded[t])
  BY <1>1, <1>5, <1>6, <1>8, <1>9 DEF TaskOK, Keeps
<1> QED BY <1>10, TaskOnly DEF CompletePublish, Harmless

LEMMA TimedOutKeeps ==
  ASSUME NEW t \in Tasks, NEW task, NEW p, NEW r, TaskOK(t, task, p, r)
  PROVE  Keeps(t, task, TimedOut(task), p, r)
<1> DEFINE new == TimedOut(task)
<1>1. task \in Task /\ (task.ticked # {} => task.listed)
  BY DEF TaskOK
<1>2. "timeout" \in RunStatus /\ {"integrating", "publishing"} \subseteq TaskStates
  BY StateFacts DEF RunStatus, BeyondAcceptance
<1>3. CASE task.state = "integrating" /\ task.integrationRun = "running"
  <2>1. new = [Block(task, "integrating") EXCEPT !.integrationRun = "timeout"]
    BY <1>3 DEF TimedOut
  <2>2. /\ Resembles(task, Block(task, "integrating"))
        /\ Position(Block(task, "integrating")) = "integrating"
    BY <1>1, <1>2, Moved
  <2>3. ~task.checks
    BY <1>3 DEF TaskOK, RunOK
  <2>4. Resembles(task, new) /\ Position(new) = "integrating"
    BY <1>2, <2>1, <2>2, <2>3 DEF Resembles, Position, Task
  <2>5. Position(task) = "integrating"
    BY <1>3 DEF Position
  <2> QED BY <2>4, <2>5, SamePosition
<1>4. CASE task.state = "publishing" /\ task.publishRun = "running"
  <2>1. new = [Block(task, "publishing") EXCEPT !.publishRun = "timeout"]
    BY <1>4 DEF TimedOut
  <2>2. /\ Resembles(task, Block(task, "publishing"))
        /\ Position(Block(task, "publishing")) = "publishing"
    BY <1>1, <1>2, Moved
  <2>3. Resembles(task, new) /\ Position(new) = "publishing"
    BY <1>2, <2>1, <2>2 DEF Resembles, Position, Task
  <2>4. Position(task) = "publishing"
    BY <1>4 DEF Position
  <2> QED BY <2>3, <2>4, SamePosition
<1>5. CASE /\ ~(task.state = "integrating" /\ task.integrationRun = "running")
           /\ ~(task.state = "publishing" /\ task.publishRun = "running")
  <2>1. new = task
    BY <1>5 DEF TimedOut
  <2> QED BY <2>1 DEF Keeps
<1> QED BY <1>3, <1>4, <1>5

LEMMA CheckTimeoutsStep ==
  ASSUME IInv, NEW late \in SUBSET Tasks, CheckTimeouts(late)
  PROVE  Harmless
<1>1. /\ tasks' = [t \in Tasks |-> IF t \in late THEN TimedOut(tasks[t]) ELSE tasks[t]]
      /\ UNCHANGED <<calls, keys, revision, passed, recorded, starts>>
  BY DEF CheckTimeouts
<1>2. \A t \in Tasks : Keeps(t, tasks[t], tasks'[t], passed[t], recorded[t])
  <2> TAKE t \in Tasks
  <2>1. TaskOK(t, tasks[t], passed[t], recorded[t])
    BY DEF IInv
  <2>2. Keeps(t, tasks[t], TimedOut(tasks[t]), passed[t], recorded[t])
    BY <2>1, TimedOutKeeps
  <2>3. Keeps(t, tasks[t], tasks[t], passed[t], recorded[t])
    BY <2>1 DEF Keeps
  <2> QED BY <1>1, <2>2, <2>3
<1>3. \A t \in Tasks : /\ TaskOK(t, tasks'[t], passed'[t], recorded'[t])
                      /\ tasks'[t] \in Task /\ tasks[t].ticked \subseteq tasks'[t].ticked
  BY <1>1, <1>2 DEF Keeps, TaskOK
<1>4. (\A t \in Tasks : TaskOK(t, tasks[t], passed[t], recorded[t]))'
  BY <1>3
<1>5. tasks' \in [Tasks -> Task] /\ Rest'
  BY <1>1, <1>3, RestStays
<1> QED BY <1>1, <1>3, <1>4, <1>5 DEF IInv, Harmless

(* What an operator records in the ordinary course goes back to where the  *)
(* task stopped or short of the gates.                                     *)
LEMMA RecordTransitionStep ==
  ASSUME IInv, NEW t \in Tasks, NEW to \in TaskStates, RecordTransition(t, to)
  PROVE  Harmless
<1> DEFINE task == tasks[t]
           new  == [task EXCEPT !.state = to]
<1>1. TaskOK(t, task, passed[t], recorded[t]) /\ task \in Task /\ recorded[t] \in BOOLEAN
  BY DEF IInv, TaskOK
<1>2. Resembles(task, new) /\ new.state = to /\ new.resume = task.resume
  BY <1>1 DEF Task, Resembles, TaskOK
<1>3. /\ Store(t, new) /\ recorded'[t] = (recorded[t] \/ ~Routine(task, to))
      /\ recorded' = [recorded EXCEPT ![t] = recorded'[t]]
      /\ passed' = passed /\ passed' = [passed EXCEPT ![t] = passed'[t]]
      /\ Rest'
  BY RestStays DEF RecordTransition, IInv
<1>4. Keeps(t, task, new, passed[t], recorded'[t])
  <2>1. CASE ~Routine(task, to)
    <3>1. recorded'[t] = TRUE
      BY <2>1, <1>3
    <3> QED BY <3>1, <1>1, <1>2, AnyPosition
  <2>2. CASE Routine(task, to)
    <3>1. recorded'[t] = recorded[t]
      BY <2>2, <1>1, <1>3
    <3>2. CASE task.state = "blocked" /\ to = task.resume
      <4>1. Position(new) = Position(task)
        BY <3>2, <1>2 DEF Position
      <4> QED BY <4>1, <3>1, <1>1, <1>2, SamePosition
    <3>3. CASE to \in {"rework_required", "cancelled", "failed"}
      <4>1. Position(new) \notin BeyondAcceptance
        BY <3>3, <1>2, StateFacts DEF Position
      <4>2. Position(new) \notin {"publish_pending_approval", "publishing", "published"}
        BY <4>1 DEF BeyondAcceptance
      <4>3. GatesOK(new, passed[t], recorded[t]) /\ ApplyOK(t, new, recorded[t])
        BY <4>1, <4>2, StateFacts DEF GatesOK, ApplyOK
      <4>4. new.integrationRun = task.integrationRun
        BY <1>1 DEF Task
      <4>5. EvidenceOK(new, recorded[t]) /\ RunOK(new)
        BY <4>1, <4>4, <1>1, <1>2 DEF TaskOK, EvidenceOK, RunOK, Resembles
      <4> QED BY <4>3, <4>5, <3>1, <1>1, <1>2 DEF TaskOK, Keeps, Resembles
    <3> QED BY <3>2, <3>3, <2>2 DEF Routine
  <2> QED BY <2>1, <2>2
<1> QED BY <1>3, <1>4, StoreStep DEF Harmless

LEMMA CancelStep ==
  ASSUME IInv, NEW t \in Tasks, Cancel(t)
  PROVE  Harmless
<1> DEFINE new == Enter(tasks[t], "cancelled")
<1>1. /\ TaskOK(t, tasks[t], passed[t], recorded[t]) /\ tasks[t] \in Task
      /\ tasks[t].ticked # {} => tasks[t].listed
  BY DEF IInv, TaskOK
<1>2. TaskOK(t, new, passed[t], recorded[t])
  BY <1>1, EnterEarly, StateFacts
<1>3. new.ticked = tasks[t].ticked
  BY <1>1 DEF Task, Enter
<1>4. Keeps(t, tasks[t], new, passed[t], recorded[t])
  BY <1>2, <1>3 DEF Keeps
<1> QED BY <1>4, TaskOnly DEF Cancel, Harmless

-----------------------------------------------------------------------------
(* The invariant *)

LEMMA InitHolds == Init => IInv
<1> SUFFICES ASSUME Init PROVE IInv
  OBVIOUS
<1>1. "dev_completed" \in TaskStates /\ "dev_completed" \notin BeyondAcceptance
  BY StateFacts
<1>2. Developed \in Task
  BY <1>1 DEF Developed, Task, RunStatus, Verdicts, MainShas, PublishModes
<1>3. Position(Developed) = "dev_completed"
  BY DEF Developed, Position
<1>4. \A t \in Tasks : TaskOK(t, Developed, {}, FALSE)
  BY <1>1, <1>2, <1>3, StateFacts
     DEF TaskOK, GatesOK, EvidenceOK, ApplyOK, RunOK, Developed
<1>5. /\ tasks \in [Tasks -> Task] /\ passed \in [Tasks -> SUBSET Gates]
      /\ recorded \in [Tasks -> BOOLEAN]
  BY <1>2 DEF Init
<1>6. CallsOK
  BY DEF Init, CallsOK, Call
<1>7. Rest
  BY <1>6, ReleaseAssumption DEF Init, Rest, OneStartPerKey
<1>8. \A t \in Tasks : TaskOK(t, tasks[t], passed[t], recorded[t])
  BY <1>4 DEF Init
<1> QED BY <1>5, <1>7, <1>8 DEF IInv

LEMMA StepHolds ==
  ASSUME IInv, [Next]_vars
  PROVE  IInv' /\ (Harmless \/ \E c \in Calls : Returns(c))
<1>1. CASE UNCHANGED vars
  <2>1. UNCHANGED <<tasks, calls, keys, revision, passed, recorded, starts>>
    BY <1>1 DEF vars
  <2>2. Rest'
    BY <2>1, RestStays
  <2> QED BY <2>1, <2>2 DEF Harmless, IInv
<1>2. ASSUME NEW t \in Tasks, JobStep(t) PROVE Harmless
  BY <1>2, BeginDispatchStep, DispatchIncapableStep, DevSucceededStep, AcceptanceResultStep
     DEF JobStep
<1>3. ASSUME NEW t \in Tasks, ClientStep(t) PROVE Harmless
  BY <1>3, CompleteAcceptanceStep, DocsStep, IntegrateStep, CompleteIntegrateStep,
     PublishStep, ApprovePublishStep, CompletePublishStep DEF ClientStep
<1>4. ASSUME NEW t \in Tasks, OperatorStep(t) PROVE Harmless
  BY <1>4, CancelStep, RecordTransitionStep DEF OperatorStep
<1>5. ASSUME NEW t \in Tasks, TaskStep(t) PROVE Harmless
  BY <1>2, <1>3, <1>4, <1>5 DEF TaskStep
<1>6. ASSUME NEW late \in SUBSET Tasks, CheckTimeouts(late) PROVE Harmless
  BY <1>6, CheckTimeoutsStep
<1>7. ASSUME NEW c \in Calls, ReturnStep(c) PROVE IInv' /\ Returns(c)
  BY <1>7, ReturnHolds
<1>8. Harmless => IInv'
  BY DEF Harmless
<1> QED BY <1>1, <1>5, <1>6, <1>7, <1>8 DEF Next

LEMMA InvariantHolds == Spec => []IInv
<1>1. Init => IInv
  BY InitHolds
<1>2. IInv /\ [Next]_vars => IInv'
  BY StepHolds
<1> QED BY <1>1, <1>2, PTL DEF Spec

-----------------------------------------------------------------------------
(* The theorems *)

(* Every state is well typed and no checklist item is ticked before there  *)
(* is a checklist (ManualChecklistService).                                *)
THEOREM TypesAreRight == Spec => []TypeOK
<1>1. IInv => TypeOK
  BY Invariants
<1> QED BY <1>1, InvariantHolds, PTL

(* No revision is integrated or published that has not been through the    *)
(* gates of AcceptanceService and IntegrationOrchestrator, unless an       *)
(* operator recorded more than a resumption, a rejection or a stop.        *)
THEOREM GatesAlwaysComeFirst == Spec => []GatesComeFirst
<1>1. IInv => GatesComeFirst
  BY Invariants
<1> QED BY <1>1, InvariantHolds, PTL

(* A task beyond acceptance has its ticked checklist and its logs, though  *)
(* a dispatch call in flight (JobService.dispatch) may write back a record *)
(* without them: with such a record the task is short of acceptance again. *)
THEOREM EvidenceStays == Spec => []AcceptedOnEvidence
<1>1. IInv => AcceptedOnEvidence
  BY Invariants
<1> QED BY <1>1, InvariantHolds, PTL

(* An apply that PublishOrchestrator started or resumed, or that waits for *)
(* its approval, is within the policy of the integration the task has.     *)
THEOREM AppliesStayWithinPolicy == Spec => []AppliesWithinPolicy
<1>1. IInv => AppliesWithinPolicy
  BY Invariants
<1> QED BY <1>1, InvariantHolds, PTL

(* ControlPlaneStore.publish starts at most one publication under a key.   *)
THEOREM KeysStartOnce == Spec => []OneStartPerKey
<1>1. IInv => OneStartPerKey
  BY Invariants
<1> QED BY <1>1, InvariantHolds, PTL

(* The integration run and the checks of its integration agree, although   *)
(* completion, denial, time-out and restart write them on separate paths.  *)
THEOREM RunsAlwaysTellTheTruth == Spec => []RunsTellTheTruth
<1>1. IInv => RunsTellTheTruth
  BY Invariants
<1> QED BY <1>1, InvariantHolds, PTL

(* No step but the write-back of JobService.dispatch takes a tick back,    *)
(* and that one leaves the ticks the call had read.                        *)
THEOREM TicksStay == Spec => TicksAreKept
<1>1. IInv /\ [Next]_vars =>
        [\A t \in Tasks :
           \/ tasks[t].ticked \subseteq tasks'[t].ticked
           \/ \E c \in Calls : /\ calls[c].task = t /\ calls'[c] = Idle
                               /\ calls[c].seen.ticked \subseteq tasks'[t].ticked]_vars
  <2> SUFFICES ASSUME IInv, [Next]_vars, NEW t \in Tasks
               PROVE  \/ tasks[t].ticked \subseteq tasks'[t].ticked
                      \/ \E c \in Calls : /\ calls[c].task = t /\ calls'[c] = Idle
                                          /\ calls[c].seen.ticked \subseteq tasks'[t].ticked
    OBVIOUS
  <2>1. CASE Harmless
    BY <2>1 DEF Harmless
  <2>2. ASSUME NEW c \in Calls, Returns(c)
        PROVE  \/ tasks[t].ticked \subseteq tasks'[t].ticked
               \/ /\ calls[c].task = t /\ calls'[c] = Idle
                  /\ calls[c].seen.ticked \subseteq tasks'[t].ticked
    <3>1. calls'[c] = Idle
      BY <2>2 DEF Returns, IInv, Rest, CallsOK
    <3> QED BY <2>2, <3>1 DEF Returns
  <2> QED BY <2>1, <2>2, StepHolds
<1> QED BY <1>1, InvariantHolds, PTL DEF Spec, TicksAreKept
=============================================================================
