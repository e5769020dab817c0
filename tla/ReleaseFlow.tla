----------------------------- MODULE ReleaseFlow -----------------------------
(***************************************************************************)
(* From finished development to publication: the manual acceptance gate,   *)
(* integration into main, publication with idempotency keys and approval,  *)
(* and the time-outs of integration and publish runs.                      *)
(*                                                                         *)
(* The handlers are synchronous, so each is one action, except dispatch:   *)
(* it reads the task, awaits the worker's answer and writes back what it   *)
(* read, with all the task gained or lost meanwhile.  What makes the rest  *)
(* hard is the order in which clients, workers, operators and the clock    *)
(* call: an acceptance result can come late or twice, a completion can     *)
(* come after the time-out, an operator can record any transition of the   *)
(* table, a publish request can be repeated with the same key.             *)
(***************************************************************************)
EXTENDS TaskStateMachine

CONSTANTS
  Tasks,          \* task ids
  Keys,           \* idempotency keys clients use
  Calls,          \* dispatch calls (bound on those in flight together)
  NoTask, NoKey,  \* absent values
  Items,          \* required items of the manual checklist
  Modes,          \* publish modes clients ask for
  Policy,         \* repo_policy of each task
  Outcomes,       \* what acceptance workers report
  Answers,        \* what the caller of integrate/complete reports
  NeedsApproval,  \* tasks created with publish_plan.approval_required
  Recorded,       \* <<from, to>>: what operators record beyond the routine
  MaxRevision     \* bound on development rounds

PublishModes == {"no_op", "dry_run", "apply"}
Strategies == {"direct_push", "pull_request", "fast_forward_only"}
RepoPolicies == [ci : BOOLEAN, strategy : Strategies, bot : BOOLEAN, protected : BOOLEAN]

Verdicts == {"none", "accept", "rework"}
MainShas == {"absent", "base", "ahead"}

(* What an acceptance result does to its task, whatever its status: it     *)
(* moves it ("stay": it does not), and carries a verdict and logs unless   *)
(* it failed validation.                                                   *)
AcceptanceResults ==
  [to : {"stay"}, verdict : {"accept"}, log : BOOLEAN]
  \union [to : {"rework_required", "blocked", "accepting"}, verdict : Verdicts, log : BOOLEAN]

Reports == [checks : BOOLEAN, main : MainShas]

ASSUME ReleaseAssumption ==
  /\ NoTask \notin Tasks /\ NoKey \notin Keys
  /\ Modes \subseteq PublishModes
  /\ Policy \in [Tasks -> RepoPolicies]
  /\ Outcomes \subseteq AcceptanceResults /\ Answers \subseteq Reports
  /\ NeedsApproval \subseteq Tasks
  /\ Recorded \subseteq TaskStates \X TaskStates
  /\ MaxRevision \in Nat \ {0}

VARIABLES
  tasks,     \* TaskService.tasks
  calls,     \* the task each dispatch call in flight is for, as it read it
  keys,      \* publishIdempotencyKeys: the task each key was used for
  revision,  \* history: development rounds of each task
  passed,    \* history: the gates the current revision has gone through
  recorded,  \* history: an operator recorded more than a resumption, a rejection or a stop
  starts     \* history: publications started under each key, counted up to 2

vars == <<tasks, calls, keys, revision, passed, recorded, starts>>

-----------------------------------------------------------------------------
(* Types *)

RunStatus == {"none", "running", "succeeded", "failed", "timeout"}

(* "stale" stands for every stale_status that stops acceptance: stale,     *)
(* mixed and unknown.  integration.original_base_sha and repo_ref.base_sha *)
(* are written together and never again, so validateBaseSha compares one   *)
(* value with itself; of main_updated_sha only its relation to that value  *)
(* matters.  "approved" is history the task carries along: approvePublish  *)
(* took a token for the publication it plans.                              *)
Task ==
  [state : TaskStates, resume : TaskStates \union {"none"},
   job : {"dev", "acceptance"},
   listed : BOOLEAN, ticked : SUBSET Items, verdict : Verdicts,
   logs : BOOLEAN, stale : BOOLEAN,
   integration : {"none", "present"}, checks : BOOLEAN, main : MainShas, integrationRun : RunStatus,
   mode : PublishModes \union {"none"}, token : BOOLEAN,
   approved : BOOLEAN, publishRun : RunStatus]

(* A task whose first development round is over and has not been released. *)
Developed ==
  [state |-> "dev_completed", resume |-> "none", job |-> "dev", listed |-> FALSE, ticked |-> {}, verdict |-> "none",
   logs |-> FALSE, stale |-> FALSE,
   integration |-> "none", checks |-> FALSE, main |-> "absent", integrationRun |-> "none",
   mode |-> "none", token |-> FALSE, approved |-> FALSE, publishRun |-> "none"]

(* A worker's verdict, the manual gate, the integration. *)
Gates == {"verdict", "acceptance", "integration"}

(* transitionTask: the blocked context survives only a move to blocked. *)
Enter(task, state) == [task EXCEPT !.state = state, !.resume = "none"]
Block(task, resume) == [task EXCEPT !.state = "blocked", !.resume = resume]

Store(t, task) == tasks' = [tasks EXCEPT ![t] = task]

(* A dispatch call: not in flight, or with the task it read. *)
Idle == [task |-> NoTask, seen |-> Developed]
Call == [task : Tasks, seen : Task] \union {Idle}

-----------------------------------------------------------------------------
(* Development and acceptance jobs, as far as releases see them *)

DispatchedStage(task) == AllowedDispatchStage[task.state]

(* dispatch up to its await: the task is remembered as it is now.          *)
BeginDispatch(t, c) ==
  /\ DispatchedStage(tasks[t]) \in {"dev", "acceptance"}
  /\ calls[c] = Idle
  /\ calls' = [calls EXCEPT ![c] = [task |-> t, seen |-> tasks[t]]]
  /\ UNCHANGED <<tasks, keys, revision, passed, recorded, starts>>

(* A worker without the stage's capabilities: the task stops at once.      *)
DispatchIncapable(t) ==
  /\ DispatchedStage(tasks[t]) \in {"dev", "acceptance"}
  /\ Store(t, Block(tasks[t], StageToActiveState[DispatchedStage(tasks[t])]))
  /\ UNCHANGED <<calls, keys, revision, passed, recorded, starts>>

(* The worker took the job: the remembered task is written back, dispatched. *)
DispatchAccepted(c) ==
  LET seen  == calls[c].seen
      stage == DispatchedStage(seen)
  IN  /\ calls[c] # Idle
      /\ calls' = [calls EXCEPT ![c] = Idle]
      /\ Store(calls[c].task, [Enter(seen, StageToActiveState[stage]) EXCEPT !.job = stage])
      /\ UNCHANGED <<keys, revision, passed, recorded, starts>>

(* The worker refused: the remembered task is written back, blocked, when  *)
(* the backend was unavailable or denied; otherwise the call only throws.  *)
DispatchRefused(c) ==
  LET seen == calls[c].seen
  IN  /\ calls[c] # Idle
      /\ calls' = [calls EXCEPT ![c] = Idle]
      /\ \/ Store(calls[c].task, Block(seen, StageToActiveState[DispatchedStage(seen)]))
         \/ UNCHANGED tasks
      /\ UNCHANGED <<keys, revision, passed, recorded, starts>>

(* A dev result that succeeded: new code, for which no gate has been passed. *)
DevSucceeded(t, log) ==
  /\ tasks[t].job = "dev" /\ tasks[t].state = "developing"
  /\ revision[t] < MaxRevision
  /\ revision' = [revision EXCEPT ![t] = @ + 1]
  /\ Store(t, [Enter(tasks[t], "dev_completed") EXCEPT !.logs = @ \/ log])
  /\ passed' = [passed EXCEPT ![t] = {}]
  /\ UNCHANGED <<calls, keys, recorded, starts>>

(* Mutant: every accepting result makes a new checklist. *)
ChecklistAnew(task, to) == IF to = "stay" THEN {} ELSE task.ticked

(* An accepting result makes a checklist only if there is none. *)
ChecklistAfter(task, to) == IF to = "stay" /\ ~task.listed THEN {} ELSE task.ticked

AcceptanceResult(t, r) ==
  LET task  == tasks[t]
      moved == CASE r.to = "stay"    -> task
                 [] r.to = "blocked" -> Block(task, "accepting")
                 [] OTHER            -> Enter(task, r.to)
  IN  /\ task.job = "acceptance"
      /\ r.to # "stay" => CanTransition(task.state, r.to)
      /\ Store(t, [moved EXCEPT
                     !.verdict = IF r.verdict = "none" THEN @ ELSE r.verdict,
                     !.logs = @ \/ r.log,
                     !.listed = @ \/ r.to = "stay",
                     !.ticked = ChecklistAfter(task, r.to)])
      /\ passed' = [passed EXCEPT ![t] = IF r.verdict = "none" THEN @ ELSE @ \union {"verdict"}]
      /\ UNCHANGED <<calls, keys, revision, recorded, starts>>

-----------------------------------------------------------------------------
(* The manual gate *)

(* Mutant: a checklist that is partly done passes. *)
GateOpensEarly(task, ticked, override) ==
  /\ task.state = "accepting"
  /\ task.listed
  /\ override \/ task.verdict = "accept"
  /\ task.logs
  /\ ~task.stale

(* The gates of completeAcceptance, in its order: state, checklist,        *)
(* verdict (the worker's or an override), a log artifact, fresh documents. *)
GateOpens(task, ticked, override) ==
  /\ task.state = "accepting"
  /\ task.listed /\ Items \subseteq ticked
  /\ override \/ task.verdict = "accept"
  /\ task.logs
  /\ ~task.stale

(* Mutant: items of a checklist that does not exist are ticked. *)
TickedAnyway(task, items) == task.ticked \union items

Ticked(task, items) == IF task.listed THEN task.ticked \union items ELSE task.ticked

(* POST /acceptance/complete.  The items it ticks stay ticked when a later *)
(* gate throws.                                                            *)
CompleteAcceptance(t, items, override) ==
  LET task   == tasks[t]
      ticked == Ticked(task, items)
  IN  /\ task.state = "accepting"
      /\ IF GateOpens(task, ticked, override)
           THEN /\ Store(t, [Enter(task, "accepted") EXCEPT
                               !.ticked = ticked, !.verdict = "accept"])
                /\ passed' = [passed EXCEPT ![t] = @ \union {"acceptance"}]
           ELSE /\ Store(t, [task EXCEPT !.ticked = ticked])
                /\ UNCHANGED passed
      /\ UNCHANGED <<calls, keys, revision, recorded, starts>>

(* docs/resolve and docs/stale-check. *)
ResolveDocs(t) ==
  /\ Store(t, [tasks[t] EXCEPT !.stale = FALSE])
  /\ UNCHANGED <<calls, keys, revision, passed, recorded, starts>>

StaleDocsFound(t) ==
  /\ Store(t, [tasks[t] EXCEPT !.stale = TRUE])
  /\ UNCHANGED <<calls, keys, revision, passed, recorded, starts>>

-----------------------------------------------------------------------------
(* Integration *)

(* POST /integrate: the policy is computed and not enforced yet. *)
Integrate(t) ==
  /\ tasks[t].state = "accepted"
  /\ Store(t, [Enter(tasks[t], "integrating") EXCEPT
                 !.integration = "present", !.checks = FALSE, !.main = "absent",
                 !.integrationRun = "running"])
  /\ passed' = [passed EXCEPT ![t] = @ \ {"integration"}]
  /\ UNCHANGED <<calls, keys, revision, recorded, starts>>

(* validateIntegrationPolicy, as far as it denies. *)
IntegrationPolicy(task, policy, report) == policy.ci => report.checks

(* Mutant: the run is closed as succeeded before the checks are looked at. *)
IntegratedWithEarly(task, report) ==
  [task EXCEPT !.checks = report.checks,
               !.main = IF report.main = "absent" THEN @ ELSE report.main,
               !.integrationRun = "succeeded"]

(* What a report that passed the policy leaves in the task. *)
IntegratedWith(task, report) ==
  [task EXCEPT !.checks = report.checks,
               !.main = IF report.main = "absent" THEN @ ELSE report.main,
               !.integrationRun =
                 IF @ = "none" THEN @ ELSE IF report.checks THEN "succeeded" ELSE "failed"]

(* POST /integrate/complete: denied by policy, checks failed, or done.     *)
(* The report says nothing of the run it answers; the conflicts it may     *)
(* tell of only matter to a branch validateBaseSha never takes.            *)
CompleteIntegrate(t, report) ==
  LET task == tasks[t]
      done == IntegratedWith(task, report)
  IN  /\ task.state = "integrating" /\ task.integration = "present"
      /\ Store(t, CASE ~IntegrationPolicy(task, Policy[t], report) -> Block(task, "integrating")
                    [] /\ IntegrationPolicy(task, Policy[t], report)
                       /\ ~report.checks                        -> Block(done, "integrating")
                    [] OTHER                                     -> Enter(done, "integrated"))
      /\ passed' = [passed EXCEPT ![t] =
                      IF tasks'[t].state = "integrated" THEN @ \union {"integration"} ELSE @]
      /\ UNCHANGED <<calls, keys, revision, recorded, starts>>

-----------------------------------------------------------------------------
(* Publication *)

(* validatePublishPolicy: the control plane acts as the bot; a protected   *)
(* branch takes no direct publish under pull_request, and only a           *)
(* fast-forward, main still at the base, under fast_forward_only.          *)
PublishPolicy(task, policy) ==
  /\ policy.bot
  /\ policy.ci => task.checks
  /\ policy.protected =>
       /\ policy.strategy # "pull_request"
       /\ policy.strategy = "fast_forward_only" => task.main # "ahead"

(* Mutant: a key is looked up for the same task only. *)
KeyIsFresh(t, key) == key \notin {k \in Keys : keys[k] = t}

(* A key that was used before, by whatever task, starts nothing. *)
KeyIsUnused(t, key) == key \notin {k \in Keys : keys[k] # NoTask}

(* Mutant: a publication a person has to approve is not judged as well. *)
DeniedUnlessApproved(t, mode) ==
  mode = "apply" /\ t \notin NeedsApproval /\ ~PublishPolicy(tasks[t], Policy[t])

(* Only an apply is subject to the policy. *)
Denied(t, mode) == mode = "apply" /\ ~PublishPolicy(tasks[t], Policy[t])

(* An apply that needs approval waits for it, unless the request carries   *)
(* an approval_token; nobody looks at what that token is.                  *)
AwaitsApproval(t, mode, tokenGiven) ==
  mode = "apply" /\ t \in NeedsApproval /\ ~tokenGiven

(* POST /publish.  The key is recorded before the policy is asked, so a    *)
(* denied publish uses it up.                                              *)
Publish(t, mode, key, tokenGiven) ==
  LET task    == tasks[t]
      planned == [task EXCEPT !.mode = mode, !.approved = FALSE]
  IN  /\ task.state = "integrated"
      /\ KeyIsUnused(t, key)
      /\ keys' = [k \in Keys |-> IF k = key THEN t ELSE keys[k]]
      /\ IF Denied(t, mode)
           THEN /\ Store(t, Block(task, "integrated"))
                /\ UNCHANGED starts
           ELSE /\ Store(t, IF AwaitsApproval(t, mode, tokenGiven)
                              THEN [Enter(planned, "publish_pending_approval") EXCEPT !.token = TRUE]
                              ELSE [Enter(planned, "publishing") EXCEPT !.publishRun = "running"])
                /\ starts' = [k \in Keys |->
                                IF k = key /\ starts[k] < 2 THEN starts[k] + 1 ELSE starts[k]]
      /\ UNCHANGED <<calls, revision, passed, recorded>>

(* POST /publish/approve, the one place where a token is compared with the *)
(* pending one and with its time; one that fails there changes nothing.    *)
ApprovePublish(t) ==
  /\ tasks[t].state = "publish_pending_approval" /\ tasks[t].token
  /\ Store(t, [Enter(tasks[t], "publishing") EXCEPT
                 !.token = FALSE, !.approved = TRUE, !.publishRun = "running"])
  /\ UNCHANGED <<calls, keys, revision, passed, recorded, starts>>

CompletePublish(t) ==
  /\ tasks[t].state = "publishing"
  /\ Store(t, [Enter(tasks[t], "published") EXCEPT
                 !.publishRun = IF @ = "none" THEN @ ELSE "succeeded"])
  /\ UNCHANGED <<calls, keys, revision, passed, recorded, starts>>

-----------------------------------------------------------------------------
(* Time-outs, operators *)

(* Mutant: an integration that timed out goes on as if it were done. *)
TimedOutPast(task) ==
  CASE task.state = "integrating" /\ task.integrationRun = "running" ->
         [Block(task, "integrated") EXCEPT !.integrationRun = "timeout"]
    [] task.state = "publishing" /\ task.publishRun = "running" ->
         [Block(task, "publishing") EXCEPT !.publishRun = "timeout"]
    [] OTHER -> task

TimedOut(task) ==
  CASE task.state = "integrating" /\ task.integrationRun = "running" ->
         [Block(task, "integrating") EXCEPT !.integrationRun = "timeout"]
    [] task.state = "publishing" /\ task.publishRun = "running" ->
         [Block(task, "publishing") EXCEPT !.publishRun = "timeout"]
    [] OTHER -> task

(* checkTimeouts visits every task; time has run out for any of the runs.  *)
CheckTimeouts(late) ==
  /\ tasks' = [t \in Tasks |-> IF t \in late THEN TimedOut(tasks[t]) ELSE tasks[t]]
  /\ UNCHANGED <<calls, keys, revision, passed, recorded, starts>>

(* What an operator records in the ordinary course: a blocked task goes on *)
(* where it stopped, an acceptance is turned down, a task is given up.     *)
Routine(task, to) ==
  \/ task.state = "blocked" /\ to = task.resume
  \/ task.state = "accepting" /\ to = "rework_required"
  \/ to \in {"cancelled", "failed"}

(* POST /transitions: any move of the table; nothing but the state changes. *)
RecordTransition(t, to) ==
  /\ Routine(tasks[t], to) \/ <<tasks[t].state, to>> \in Recorded
  /\ CanTransition(tasks[t].state, to)
  /\ Store(t, [tasks[t] EXCEPT !.state = to])
  /\ recorded' = [recorded EXCEPT ![t] = @ \/ ~Routine(tasks[t], to)]
  /\ UNCHANGED <<calls, keys, revision, passed, starts>>

Cancel(t) ==
  /\ tasks[t].state \notin TerminalStates
  /\ Store(t, Enter(tasks[t], "cancelled"))
  /\ UNCHANGED <<calls, keys, revision, passed, recorded, starts>>

-----------------------------------------------------------------------------
Init ==
  /\ tasks = [t \in Tasks |-> Developed]
  /\ calls = [c \in Calls |-> Idle]
  /\ keys = [k \in Keys |-> NoTask]
  /\ revision = [t \in Tasks |-> 1]
  /\ passed = [t \in Tasks |-> {}]
  /\ recorded = [t \in Tasks |-> FALSE]
  /\ starts = [k \in Keys |-> 0]

JobStep(t) ==
  \/ \E c \in Calls : BeginDispatch(t, c)
  \/ DispatchIncapable(t)
  \/ \E log \in BOOLEAN : DevSucceeded(t, log)
  \/ \E r \in Outcomes : AcceptanceResult(t, r)

ClientStep(t) ==
  \/ \E items \in SUBSET Items, override \in BOOLEAN : CompleteAcceptance(t, items, override)
  \/ ResolveDocs(t)
  \/ StaleDocsFound(t)
  \/ Integrate(t)
  \/ \E report \in Answers : CompleteIntegrate(t, report)
  \/ \E mode \in Modes, key \in Keys \union {NoKey}, tokenGiven \in BOOLEAN :
       Publish(t, mode, key, tokenGiven)
  \/ ApprovePublish(t)
  \/ CompletePublish(t)

OperatorStep(t) == Cancel(t) \/ \E to \in TaskStates : RecordTransition(t, to)

TaskStep(t) == JobStep(t) \/ ClientStep(t) \/ OperatorStep(t)

ReturnStep(c) == DispatchAccepted(c) \/ DispatchRefused(c)

Next ==
  \/ \E t \in Tasks : TaskStep(t)
  \/ \E c \in Calls : ReturnStep(c)
  \/ \E late \in SUBSET Tasks : CheckTimeouts(late)

Spec == Init /\ [][Next]_vars

-----------------------------------------------------------------------------
(* Properties *)

(* Types; no checklist item is ticked before there is a checklist. *)
TypeOK ==
  /\ tasks \in [Tasks -> Task]
  /\ \A t \in Tasks : tasks[t].ticked # {} => tasks[t].listed
  /\ calls \in [Calls -> Call]
  /\ revision \in [Tasks -> 1 .. MaxRevision]
  /\ keys \in [Keys -> Tasks \union {NoTask}]
  /\ passed \in [Tasks -> SUBSET Gates]
  /\ recorded \in [Tasks -> BOOLEAN]
  /\ starts \in [Keys -> 0 .. 2]

(* Where a task is, or where it goes on when it is blocked. *)
Position(task) == IF task.state = "blocked" THEN task.resume ELSE task.state

BeyondAcceptance ==
  {"accepted", "integrating", "integrated", "publish_pending_approval", "publishing", "published"}
BeyondIntegration == {"integrated", "publish_pending_approval", "publishing", "published"}

(* Whatever late results, time-outs, resumptions and repeated requests do, *)
(* nothing is integrated or published that has not been through the manual *)
(* gate in its present revision, nor published without an integration      *)
(* whose checks the policy accepted - unless an operator recorded it so.   *)
GatesComeFirst ==
  \A t \in Tasks : ~recorded[t] =>
    /\ Position(tasks[t]) \in BeyondAcceptance  => "acceptance" \in passed[t]
    /\ Position(tasks[t]) \in BeyondIntegration => "integration" \in passed[t]

(* Wherever a task is beyond acceptance, the evidence it was accepted on   *)
(* is with it: every required item ticked and a log artifact, whatever a   *)
(* returning dispatch call, a late result or a resumption did to it.       *)
AcceptedOnEvidence ==
  \A t \in Tasks :
    ~recorded[t] /\ Position(tasks[t]) \in BeyondAcceptance
    => tasks[t].listed /\ Items \subseteq tasks[t].ticked /\ tasks[t].logs

(* An apply runs, or waits for its approval, only within the repository    *)
(* policy, judged by the integration the task has now - also after a       *)
(* time-out, a rework and a resumption.                                    *)
AppliesWithinPolicy ==
  \A t \in Tasks :
    /\ ~recorded[t]
    /\ Position(tasks[t]) \in {"publish_pending_approval", "publishing", "published"}
    /\ tasks[t].mode = "apply"
    => PublishPolicy(tasks[t], Policy[t])

(* One publication at most is started under a key, by whichever task, and  *)
(* the key names the task that used it.                                    *)
OneStartPerKey ==
  \A k \in Keys : starts[k] <= 1 /\ (starts[k] = 1 => keys[k] # NoTask)

(* An integration run is closed as succeeded exactly when the checks of    *)
(* the integration it belongs to passed, in whatever order reports,        *)
(* time-outs and new runs come.                                            *)
RunsTellTheTruth ==
  \A t \in Tasks : tasks[t].integrationRun = "succeeded" <=> tasks[t].checks

(* What a person ticked stays ticked through duplicate results, reworks    *)
(* and failed completions.  Only a dispatch call that comes back takes     *)
(* ticks away, and it leaves those it had read.                            *)
TicksAreKept ==
  [][\A t \in Tasks :
       \/ tasks[t].ticked \subseteq tasks'[t].ticked
       \/ \E c \in Calls : /\ calls[c].task = t /\ calls'[c] = Idle
                           /\ calls[c].seen.ticked \subseteq tasks'[t].ticked]_vars

-----------------------------------------------------------------------------
(* Statements of the documents that the code does not keep *)

(* The reason of acceptance_gate_context: what a dev job applied requires  *)
(* an independent acceptance before integration.  So a task accepted on    *)
(* the worker's verdict has a verdict on its present revision.             *)
AcceptanceIsIndependent ==
  [][\A t \in Tasks, items \in SUBSET Items :
       CompleteAcceptance(t, items, FALSE) /\ tasks'[t].state = "accepted"
       => "verdict" \in passed[t]]_vars

(* docs/api-contract.md: an apply whose plan requires approval is not      *)
(* published before the approval is complete.                              *)
AppliesAreApproved ==
  \A t \in NeedsApproval :
    ~recorded[t] /\ tasks[t].mode = "apply" /\ tasks[t].state \in {"publishing", "published"}
    => tasks[t].approved
=============================================================================
