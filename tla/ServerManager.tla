---------------------------- MODULE ServerManager ----------------------------
(***************************************************************************)
(* The manager of the OpenCode server process.  Jobs ask it concurrently   *)
(* for a ready server; it checks, stops and starts processes, and awaits   *)
(* between the test of a field and its use: a second caller may spawn a    *)
(* second process, and one call may forget the process of another, whose   *)
(* start then throws.  The processes may fail, or ignore SIGTERM, at any   *)
(* time.                                                                   *)
(***************************************************************************)
EXTENDS Naturals

CONSTANT Callers   \* calls of ensureServerReady, one each

VARIABLES
  process,    \* this.process: the number of the process, 0 when there is none
  spawned,    \* how many processes have been spawned
  alive,      \* processes that run
  killed,     \* processes that took a kill()
  healthy,    \* status.healthy
  checking,   \* the health-check interval is set
  stray,      \* an interval was set over another one, and can no longer be cleared
  call        \* per call: where it is, what follows a stop, the process it watches

vars == <<process, spawned, alive, killed, healthy, checking, stray, call>>

At(c) == call[c].at
Goes(c, at) == call' = [call EXCEPT ![c].at = at]

(* The port answers when some process listens, and may then fail as well. *)
Responses == IF alive = {} THEN {FALSE} ELSE BOOLEAN

-----------------------------------------------------------------------------
(* stop, up to its wait; there is nothing to wait for without a process or *)
(* when it was killed before.  kill() of a process that is gone does not   *)
(* set its killed flag.                                                    *)
Stop(c, next) ==
  /\ checking' = FALSE
  /\ IF process = 0 \/ process \in killed
       THEN process' = 0 /\ Goes(c, next) /\ UNCHANGED killed
       ELSE /\ killed' = killed \union ({process} \intersect alive)
            /\ call' = [call EXCEPT ![c] = [at |-> "stopping", then |-> next, watch |-> process]]
            /\ UNCHANGED process
  /\ UNCHANGED <<spawned, alive, stray>>

(* Mutant: only the close event ends the wait, and there is none for a     *)
(* process that failed before it was stopped.                              *)
StoppedByClose(c) ==
  /\ At(c) = "stopping" /\ call[c].watch \in killed \ alive
  /\ process' = 0 /\ healthy' = FALSE /\ Goes(c, call[c].then)
  /\ UNCHANGED <<spawned, alive, killed, checking, stray>>

(* The close event or, at the latest, 5 seconds end the wait.  The timer   *)
(* kills the process that is remembered when it fires, which may be the    *)
(* successor of the one this call wanted to stop.                          *)
Stopped(c) ==
  /\ At(c) = "stopping"
  /\ \/ call[c].watch \in killed \ alive /\ UNCHANGED killed
     \/ killed' = killed \union ({process} \intersect alive)
  /\ process' = 0 /\ healthy' = FALSE /\ Goes(c, call[c].then)
  /\ UNCHANGED <<spawned, alive, checking, stray>>

(* start, up to its first await. *)
Start(c) ==
  IF process # 0 THEN Stop(c, "preparing")
  ELSE Goes(c, "preparing") /\ UNCHANGED <<process, spawned, alive, killed, checking, stray>>

(* ensureServerReady, up to its first await. *)
Ensure(c) ==
  /\ At(c) = "new" /\ UNCHANGED healthy
  /\ IF process = 0 THEN Start(c)
     ELSE /\ Goes(c, IF healthy THEN "ready" ELSE "checking")
          /\ UNCHANGED <<process, spawned, alive, killed, checking, stray>>

(* healthCheck answers; without success the server is started afresh. *)
Checked(c) ==
  /\ At(c) = "checking"
  /\ \E ok \in Responses :
       /\ healthy' = ok
       /\ IF ok THEN Goes(c, "ready") /\ UNCHANGED <<process, spawned, alive, killed, checking, stray>>
          ELSE Start(c)

(* The directory and the configuration are written: a process is spawned   *)
(* and remembered, also when another one is remembered by now.             *)
Spawn(c) ==
  /\ At(c) = "preparing"
  /\ spawned' = spawned + 1 /\ process' = spawned' /\ alive' = alive \union {spawned'}
  /\ Goes(c, "waiting")
  /\ UNCHANGED <<killed, healthy, checking, stray>>

(* The directory or the configuration cannot be written. *)
Unwritten(c) ==
  /\ At(c) = "preparing" /\ Goes(c, "threw")
  /\ UNCHANGED <<process, spawned, alive, killed, healthy, checking, stray>>

(* waitForReady: a response starts the health checks, unless another call  *)
(* has forgotten the process meanwhile: its pid is read of null, and the   *)
(* call throws.                                                            *)
Ready(c) ==
  /\ At(c) = "waiting" /\ alive # {} /\ healthy' = TRUE
  /\ IF process = 0 THEN Goes(c, "threw") /\ UNCHANGED <<checking, stray>>
     ELSE Goes(c, "ready") /\ checking' = TRUE /\ stray' = (stray \/ checking)
  /\ UNCHANGED <<process, spawned, alive, killed>>

(* The startup timeout stops whatever process is remembered. *)
StartupTimesOut(c) == At(c) = "waiting" /\ Stop(c, "not ready") /\ UNCHANGED healthy

(* Every 30 seconds, by each interval; the process may be forgotten before *)
(* the answer comes.                                                       *)
HealthCheck ==
  /\ checking \/ stray
  /\ healthy' \in Responses
  /\ UNCHANGED <<process, spawned, alive, killed, checking, stray, call>>

(* A process exits; its close handler clears the status, which may speak   *)
(* of its successor.                                                       *)
Exit(p) ==
  /\ p \in alive /\ alive' = alive \ {p} /\ healthy' = FALSE
  /\ UNCHANGED <<process, spawned, killed, checking, stray, call>>

-----------------------------------------------------------------------------
Init ==
  /\ process = 0 /\ spawned = 0 /\ alive = {} /\ killed = {}
  /\ healthy = FALSE /\ checking = FALSE /\ stray = FALSE
  /\ call = [c \in Callers |-> [at |-> "new", then |-> "new", watch |-> 0]]

Steps(c) == Checked(c) \/ Spawn(c) \/ Unwritten(c) \/ Ready(c) \/ StartupTimesOut(c) \/ Stopped(c)

Next ==
  \/ HealthCheck \/ \E p \in alive : Exit(p)
  \/ \E c \in Callers : Ensure(c) \/ Steps(c)

(* Requests time out, files are written, and the timers fire. *)
Fairness == \A c \in Callers : WF_vars(Steps(c))
Spec == Init /\ [][Next]_vars
FairSpec == Spec /\ Fairness

-----------------------------------------------------------------------------
(* A call for a server ends, ready, not ready or with an exception,        *)
(* although processes fail or ignore signals, and calls stop, kill and     *)
(* forget each other's processes.                                          *)
EveryCallEnds ==
  \A c \in Callers :
    At(c) \notin {"new", "ready", "not ready", "threw"} ~> At(c) \in {"ready", "not ready", "threw"}
=============================================================================
