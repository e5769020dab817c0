------------------------------- MODULE Progress -------------------------------
(***************************************************************************)
(* What works beside the tasks, and must come to an end: the leases of     *)
(* silent workers, the calls for a server, the wait for a job, spawns that *)
(* wait in a queue.  They do not interact: a behaviour explores one of     *)
(* them, chosen at the start.                                              *)
(***************************************************************************)
EXTENDS Naturals

CONSTANTS
  Tasks, Jobs, MaxRetries,                       \* leases
  Callers,                                       \* server
  Stage, Kind, Routed, Present, Fallback,        \* worker
  Requests, MaxAgents, Unit, Epsilon, Burst, Refill, MaxWait, MaxTime,   \* agents
  None

VARIABLES
  part,
  tasks, stage, lease, dead, silence, found,                      \* leases
  process, spawned, alive, killed, healthy, checking, stray, call, \* server
  execs, active, wait, target, down,                              \* worker
  now, policy, tokens, filled, agents, queue, deadline, timer, answer,
  counts, arrived                                                 \* agents

leasing == <<tasks, stage, lease, dead, silence, found>>
serving == <<process, spawned, alive, killed, healthy, checking, stray, call>>
working == <<execs, active, wait, target, down>>
spawning == <<now, policy, tokens, filled, agents, queue, deadline, timer, answer, counts, arrived>>
vars == <<part, leasing, serving, working, spawning>>

Leases == INSTANCE LeaseRecovery
Server == INSTANCE ServerManager
Worker == INSTANCE WorkerExecution
Agents == INSTANCE SpawnControl WITH active <- agents

(* The job has a stage, and its adapters are of a known kind; a bucket is  *)
(* made for a token at least, and rounds away less than one; the absent    *)
(* lease has no age.                                                       *)
ASSUME ProgressAssumption ==
  /\ Stage \in Worker!Stages
  /\ Kind \in [Worker!WorkerTypes \union {"lmstudio"} -> {"simulated", "process", "completion"}]
  /\ Unit \in Nat /\ Epsilon \in 1..(Unit - 1) /\ Burst \in Nat \ {0} /\ Refill \in Nat
  /\ None \notin Nat

Init ==
  /\ part \in {"leases", "server", "worker", "agents"}
  /\ Leases!Init /\ Server!Init /\ Worker!Init /\ Agents!Init

Next ==
  /\ UNCHANGED part
  /\ \/ part = "leases" /\ Leases!Next /\ UNCHANGED <<serving, working, spawning>>
     \/ part = "server" /\ Server!Next /\ UNCHANGED <<leasing, working, spawning>>
     \/ part = "worker" /\ Worker!Next /\ UNCHANGED <<leasing, serving, spawning>>
     \/ part = "agents" /\ Agents!Next /\ UNCHANGED <<leasing, serving, working>>

(* The fairness of each part, while it is the one explored. *)
Fairness ==
  /\ \A c \in Callers : WF_serving(part = "server" /\ Server!Steps(c))
  /\ WF_working(part = "worker" /\ Worker!Answered)
  /\ WF_working(part = "worker" /\ Worker!TimeOut)
  /\ WF_spawning(part = "agents" /\ Agents!Tick)
  /\ \A r \in Requests : WF_spawning(part = "agents" /\ Agents!QueueTimesOut(r))

Spec == Init /\ [][Next]_vars /\ Fairness

(* The scanner blocks only silent work (LeaseRecovery). *)
OnlySilentWorkIsBlocked == Leases!OnlySilentWorkIsBlocked

(* Every call for a server ends (ServerManager). *)
EveryCallEnds == Server!EveryCallEnds

(* A failover never returns to a worker that has had the job. *)
EachWorkerOnce == Worker!EachWorkerOnce

(* A submitted job is settled (WorkerExecution). *)
EveryWaitEnds == Worker!EveryWaitEnds

(* Spawns are paid for, up to what the bucket rounds away (SpawnControl). *)
SpawnsKeepTheRate == Agents!SpawnsKeepTheRate

(* Queued spawns are allowed in the order they came (SpawnControl). *)
FirstComeFirstServed == Agents!FirstComeFirstServed

(* A spawn that waits in the queue is answered (SpawnControl). *)
EveryWaiterIsAnswered == Agents!EveryWaiterIsAnswered

(* No second scan finds an orphan in development; the code neither retries *)
(* nor blocks it (LeaseRecovery).                                          *)
OrphansAreRecovered == Leases!OrphansAreRecovered
=============================================================================
