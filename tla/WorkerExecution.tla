--------------------------- MODULE WorkerExecution ---------------------------
(***************************************************************************)
(* One job in the worker executor: the choice of a backend, the submission *)
(* to a worker's adapter, the wait that polls it, the failover to the next *)
(* worker, the timeout that cancels it, and a shutdown in the middle.      *)
(*                                                                         *)
(* The adapters are of three kinds.  "simulated" ones (Codex, Claude Code, *)
(* Antigravity) keep a record until it is cancelled; "process" ones        *)
(* (OpenCode, production Claude Code) run a command; "completion" ones     *)
(* (GLM, LM Studio) await a request that a cancel does not stop.           *)
(***************************************************************************)
EXTENDS TaskStateMachine, Sequences

CONSTANTS
  Stage,        \* the job's stage
  Kind,         \* per worker, and for "lmstudio": the kind of its adapter
  Routed,       \* the worker, stage and risk of the job are routed to LM Studio
  Present,      \* an LM Studio adapter is registered
  Fallback,     \* the stage may fall back to the external adapter
  None

VARIABLES
  execs,    \* what adapters were given: worker, kind, where it is, whether the adapter knows it
  active,   \* activeJobs of the executor: worker, execution; or None
  wait,     \* the job service: submitting, or in waitForJob
  target,   \* the worker a submission or failover is aimed at
  down      \* shutdown has cleared the executor

vars == <<execs, active, wait, target, down>>

-----------------------------------------------------------------------------
(* BackendRouter.route. *)
Route ==
  IF ~Routed THEN "external"
  ELSE IF Present THEN "lmstudio" ELSE IF Fallback THEN "external" ELSE "blocked"

Live(e) == execs[e].at \in {"starting", "running"}
Given(w, kind) == Append(execs, [worker |-> w, kind |-> kind, at |-> "starting", known |-> TRUE])

(* submitJob of the adapters: a record before anything runs, or a refusal. *)
AdapterTakes(w, kind) == execs' = Given(w, kind)

(* A command is spawned after its files are written; the others run.       *)
Starts(e) ==
  /\ execs[e].at = "starting" /\ execs' = [execs EXCEPT ![e].at = "running"]
  /\ UNCHANGED <<active, wait, target, down>>

Finishes(e) ==
  /\ execs[e].at = "running"
  /\ \E at \in {"ok"} \union (IF execs[e].kind = "simulated" THEN {} ELSE {"bad"}) :
       execs' = [execs EXCEPT ![e].at = at]
  /\ UNCHANGED <<active, wait, target, down>>

(* cancelJob of the simulated adapters. *)
CancelSimulated(x) == [x EXCEPT !.known = FALSE, !.at = "killed"]

(* ClaudeCodeExecutor.cancel and OpenCodeExecutor.cancel know the process, *)
(* once it is spawned; the adapter forgets the job if that succeeds, the   *)
(* OpenCode one in any case.                                               *)
CancelProcess(x, forget) ==
  IF x.at = "running" THEN [x EXCEPT !.known = FALSE, !.at = "killed"]
  ELSE [x EXCEPT !.known = ~forget]

(* GLM5: the record goes, the request goes on. *)
CancelCompletion(x) == IF x.at \in {"ok", "bad"} THEN x ELSE [x EXCEPT !.known = FALSE]

(* What may be left of an execution after its adapter's cancelJob. *)
AfterCancel(x) ==
  IF ~x.known THEN {x}
  ELSE CASE x.kind = "simulated"  -> {CancelSimulated(x)}
         [] x.kind = "process"    -> {CancelProcess(x, forget) : forget \in BOOLEAN}
         [] x.kind = "completion" -> {CancelCompletion(x)}

(* cancelJob answers success. *)
DidCancel(x, y) == x.known /\ ~y.known /\ (x.kind # "process" \/ y.at = "killed")

-----------------------------------------------------------------------------
(* submitJob of the executor, called by dispatch.  A refusal by LM Studio  *)
(* may be tried again with the external adapter of the same worker.        *)
Submit ==
  /\ wait = "new"
  /\ \/ /\ Route = "external" \/ (Route = "lmstudio" /\ Fallback)
        /\ AdapterTakes(target, Kind[target]) /\ wait' = "submitting"
     \/ /\ Route = "lmstudio"
        /\ AdapterTakes(target, Kind["lmstudio"]) /\ wait' = "submitting"
     \/ wait' = "refused" /\ UNCHANGED execs
  /\ UNCHANGED <<active, target, down>>

Submitted ==
  /\ wait = "submitting" /\ wait' = "waiting"
  /\ active' = [worker |-> target, exec |-> Len(execs)]
  /\ UNCHANGED <<execs, target, down>>

(* tryFailover, from the worker w: no next worker, or the next one.        *)
Failover(w) ==
  /\ target' = FailoverWorker(Stage, w)
  /\ IF target' = "none" THEN wait' = "failed" /\ active' = None
     ELSE wait' = "leaving" /\ UNCHANGED active

(* One turn of waitForJob in time: the poll, with what follows it at once. *)
(* The adapters forget what they report as finished.                       *)
Poll ==
  /\ wait = "waiting" /\ UNCHANGED down
  /\ IF active = None THEN wait' = "failed" /\ UNCHANGED <<execs, active, target>>
     ELSE LET e == active.exec
              x == execs[e]
          IN  /\ execs' = [execs EXCEPT ![e].known = @ /\ (Live(e) \/ x.kind = "simulated")]
              /\ CASE x.known /\ x.at = "ok" ->
                        wait' = "succeeded" /\ active' = None /\ UNCHANGED target
                   [] x.known /\ Live(e) -> UNCHANGED <<wait, active, target>>
                   [] OTHER -> Failover(active.worker)

(* The failover cancels the old execution and submits the job to the next  *)
(* worker, if it takes it.                                                 *)
LeaveWorker ==
  /\ wait = "leaving" /\ wait' = "moving"
  /\ \E y \in AfterCancel(execs[Len(execs)]) : execs' = [execs EXCEPT ![Len(execs)] = y]
  /\ UNCHANGED <<active, target, down>>

Resubmit ==
  /\ wait = "moving" /\ UNCHANGED down
  /\ \/ AdapterTakes(target, Kind[target]) /\ wait' = "moved" /\ UNCHANGED <<active, target>>
     \/ /\ target' = FailoverWorker(Stage, target) /\ UNCHANGED execs
        /\ IF target' = "none" \/ down THEN wait' = "failed" /\ active' = None
           ELSE wait' = "moving" /\ UNCHANGED active

(* Mutant: the record keeps the worker the job started with. *)
MovedHalf ==
  /\ wait = "moved" /\ wait' = "waiting"
  /\ active' = [worker |-> execs[1].worker, exec |-> Len(execs)]
  /\ UNCHANGED <<execs, target, down>>

(* The record is written back, also over a shutdown. *)
Moved ==
  /\ wait = "moved" /\ wait' = "waiting"
  /\ active' = [worker |-> target, exec |-> Len(execs)]
  /\ UNCHANGED <<execs, target, down>>

(* Mutant: a cancel that fails is tried again. *)
TimeOutRetried ==
  /\ wait = "waiting" /\ active # None /\ wait' = "failed"
  /\ \E y \in AfterCancel(execs[active.exec]) :
       /\ DidCancel(execs[active.exec], y)
       /\ execs' = [execs EXCEPT ![active.exec] = y]
  /\ active' = None
  /\ UNCHANGED <<target, down>>

(* The wait has lasted too long: cancelJob, then an error. *)
TimeOut ==
  /\ wait = "waiting" /\ wait' = "failed"
  /\ IF active = None THEN UNCHANGED <<execs, active>>
     ELSE LET x == execs[active.exec]
          IN  \E y \in AfterCancel(x) :
                /\ execs' = [execs EXCEPT ![active.exec] = y]
                /\ active' = IF DidCancel(x, y) THEN None ELSE active
  /\ UNCHANGED <<target, down>>

(* The simulated adapters clear their records at a shutdown. *)
Cleared(x) == IF x.kind = "simulated" THEN CancelSimulated(x) ELSE x

(* shutdown cancels what is active and forgets it and the adapters. *)
Shutdown ==
  /\ ~down /\ down' = TRUE /\ active' = None
  /\ IF active = None THEN execs' = [e \in DOMAIN execs |-> Cleared(execs[e])]
     ELSE \E y \in AfterCancel(execs[active.exec]) :
            execs' = [e \in DOMAIN execs |-> Cleared(IF e = active.exec THEN y ELSE execs[e])]
  /\ UNCHANGED <<wait, target>>

-----------------------------------------------------------------------------
Init ==
  /\ execs = <<>> /\ active = None /\ wait = "new" /\ down = FALSE
  /\ target = DefaultWorker[Stage]

Next ==
  \/ Submit \/ Submitted \/ Poll \/ LeaveWorker \/ Resubmit \/ Moved \/ TimeOut \/ Shutdown
  \/ \E e \in DOMAIN execs : Starts(e) \/ Finishes(e)

(* Adapters answer their calls; the clock reaches the timeout, which the   *)
(* next turn of the loop notices.                                          *)
Answered == Submitted \/ LeaveWorker \/ Resubmit \/ Moved
Fairness == WF_vars(Answered) /\ WF_vars(TimeOut)
Spec == Init /\ [][Next]_vars
FairSpec == Spec /\ Fairness

-----------------------------------------------------------------------------
(* A failover never returns to a worker that has had the job.              *)
EachWorkerOnce == \A e, f \in DOMAIN execs : execs[e].worker = execs[f].worker => e = f

(* A job that was submitted is settled, by a result or an error, however   *)
(* adapters fail, answer late or forget it.                                *)
EveryWaitEnds == wait = "submitting" ~> wait \in {"succeeded", "failed"}
=============================================================================
