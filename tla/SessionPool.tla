----------------------------- MODULE SessionPool -----------------------------
(***************************************************************************)
(* Sessions of the OpenCode server and the jobs that run in them: the      *)
(* session registry, the session executor and the serve adapter.  A job    *)
(* reuses a session of its kind or has one created, holds a lease on it    *)
(* while it runs, and gives it back to a warm pool.  A lease (5 minutes)   *)
(* is shorter than a job may take, so it runs out under a working job.     *)
(*                                                                         *)
(* The time of a lease, of an idle session and of the waits for the server *)
(* may run out at any moment.  A session is unhealthy when it has seen     *)
(* more than MaxErrors failures: with the default of 3 the score of 50 is  *)
(* reached at the same failure.                                            *)
(***************************************************************************)
EXTENDS Naturals

CONSTANTS
  Sessions,   \* session ids the server may hand out
  Workers,    \* jobs that execute in sessions
  Kind,       \* per job: task, workspace, worker, stage and policy fingerprint
  None,
  MaxErrors   \* maxErrorCountForReuse

VARIABLES
  sessions,   \* the registry: id -> record, or None
  born,       \* ids the server has handed out
  run         \* per job: where execute is, its session, its outcome

vars == <<sessions, born, run>>

-----------------------------------------------------------------------------
(* calculateHealthScore. *)
Healthy(r) == r.errors <= MaxErrors
Failed(r) ==
  LET errors == IF r.errors > MaxErrors THEN r.errors ELSE r.errors + 1
  IN  [r EXCEPT !.errors = errors, !.pooled = @ /\ errors <= MaxErrors]

(* isWarmPoolEligible; the age of the session is an input. *)
Poolable(r, young) ==
  young /\ r.state \in {"idle", "ready"} /\ r.leasedBy = None /\ Healthy(r)

(* checkReuseEligibility: an expired lease is enough, whatever the state.  *)
Eligible(r, kind) ==
  /\ r # None /\ r.kind = kind
  /\ IF r.leasedBy # None THEN r.late
     ELSE r.state \in {"ready", "idle"} /\ Healthy(r)

(* findReusableSession clears the expired leases of all candidates. *)
Cleared(kind) ==
  [s \in Sessions |->
     IF Eligible(sessions[s], kind) /\ sessions[s].leasedBy # None
     THEN [sessions[s] EXCEPT !.leasedBy = None, !.late = FALSE, !.state = "idle"]
     ELSE sessions[s]]

(* Mutant: the lease does not take the session out of the pool. *)
LeasedInPool(r, j) == [r EXCEPT !.leasedBy = j, !.late = FALSE, !.state = "active"]

(* leaseSession. *)
Leased(r, j) == [r EXCEPT !.leasedBy = j, !.late = FALSE, !.state = "active", !.pooled = FALSE]

(* createSessionRecord, leaseSession and markSessionReady in one go: the   *)
(* session is leased and ready.                                            *)
Created(j) ==
  [kind |-> Kind[j], state |-> "ready", leasedBy |-> j, late |-> FALSE, errors |-> 0, pooled |-> FALSE]

(* Mutant: anybody releases. *)
ReleasedByAnyone(r, j, young) ==
  LET idle == [r EXCEPT !.leasedBy = None, !.late = FALSE, !.state = "idle"]
  IN  [idle EXCEPT !.pooled = @ \/ Poolable(idle, young)]

(* releaseSession: a job that lost its lease changes nothing. *)
Released(r, j, young) ==
  LET idle == [r EXCEPT !.leasedBy = None, !.late = FALSE, !.state = "idle"]
  IN  IF r.leasedBy # j THEN r
      ELSE [idle EXCEPT !.pooled = @ \/ Poolable(idle, young)]

(* markSessionDead; the lease stays. *)
Dead(r) == Failed([r EXCEPT !.state = "dead", !.pooled = FALSE])

Changed(s, r) == sessions' = [sessions EXCEPT ![s] = r]

-----------------------------------------------------------------------------
(* execute: the search and the lease are one synchronous step. *)
Reuse(j) ==
  /\ run[j].at = "new"
  /\ \E s \in Sessions :
       /\ Eligible(sessions[s], Kind[j])
       /\ sessions' = [Cleared(Kind[j]) EXCEPT ![s] = Leased(@, j)]
       /\ run' = [run EXCEPT ![j] = [@ EXCEPT !.at = "running", !.session = s, !.intime = TRUE]]
  /\ UNCHANGED born

AskServer(j) ==
  /\ run[j].at = "new" /\ \A s \in Sessions : ~Eligible(sessions[s], Kind[j])
  /\ run' = [run EXCEPT ![j].at = "creating"]
  /\ UNCHANGED <<sessions, born>>

ServerAnswers(j) ==
  /\ run[j].at = "creating"
  /\ \/ \E s \in Sessions \ born :
          /\ born' = born \union {s} /\ Changed(s, Created(j))
          /\ run' = [run EXCEPT ![j] = [@ EXCEPT !.at = "running", !.session = s, !.intime = TRUE]]
     \/ run' = [run EXCEPT ![j].at = "failed"] /\ UNCHANGED <<sessions, born>>

(* The run ends, well or badly: the session is released at once. *)
RunEnds(j) ==
  /\ run[j].at = "running"
  /\ \E ok, young \in BOOLEAN :
       /\ run' = [run EXCEPT ![j] = [@ EXCEPT !.at = "collecting", !.ok = ok, !.intime = FALSE]]
       /\ IF sessions[run[j].session] = None THEN UNCHANGED sessions
          ELSE Changed(run[j].session, Released(sessions[run[j].session], j, young))
  /\ UNCHANGED born

(* The files of the job cannot be written: the session stays leased. *)
SetupFails(j) ==
  /\ run[j].at = "running" /\ run' = [run EXCEPT ![j] = [@ EXCEPT !.at = "failed", !.intime = FALSE]]
  /\ UNCHANGED <<sessions, born>>

(* Artifacts are collected; only then a failed session is marked dead, by  *)
(* whoever it is leased now.                                               *)
Collected(j) ==
  LET s == run[j].session
  IN  /\ run[j].at = "collecting"
      /\ run' = [run EXCEPT ![j].at = IF run[j].ok THEN "succeeded" ELSE "failed"]
      /\ IF run[j].ok \/ sessions[s] = None THEN UNCHANGED sessions ELSE Changed(s, Dead(sessions[s]))
      /\ UNCHANGED born

-----------------------------------------------------------------------------
(* cancelJob: the adapter learns the session only from the result, so a    *)
(* running job's session is out of its reach (the fallback executor, asked *)
(* instead, does not know the job), and that of a finished one is not.     *)
Cancel(j) ==
  /\ run[j].at = "succeeded" /\ run' = [run EXCEPT ![j].at = "cancelling"]
  /\ UNCHANGED <<sessions, born>>

Cancelled(j) ==
  LET s == run[j].session
  IN  /\ run[j].at = "cancelling" /\ run' = [run EXCEPT ![j].at = "over"]
      /\ \/ sessions[s] # None /\ Changed(s, Dead(sessions[s]))
         \/ UNCHANGED sessions      \* the server refuses
      /\ UNCHANGED born

(* pollJob hands the result over and forgets the job. *)
Poll(j) ==
  /\ run[j].at \in {"succeeded", "failed"} /\ run' = [run EXCEPT ![j].at = "over"]
  /\ UNCHANGED <<sessions, born>>

-----------------------------------------------------------------------------
LeaseRunsOut(s) ==
  /\ sessions[s] # None /\ sessions[s].leasedBy # None /\ ~sessions[s].late
  /\ Changed(s, [sessions[s] EXCEPT !.late = TRUE])
  /\ run' = [j \in Workers |-> IF run[j].session = s /\ sessions[s].leasedBy = j
                               THEN [run[j] EXCEPT !.intime = FALSE] ELSE run[j]]
  /\ UNCHANGED born

(* findOrphanSessions: dead and draining sessions are left alone. *)
Orphaned(r) == r # None /\ r.state \notin {"dead", "draining"} /\ r.leasedBy # None /\ r.late

(* processOrphans and markSessionOrphan. *)
ProcessOrphans ==
  /\ \E s \in Sessions : Orphaned(sessions[s])
  /\ sessions' = [s \in Sessions |->
       IF Orphaned(sessions[s])
       THEN [sessions[s] EXCEPT !.state = "dead", !.leasedBy = None, !.late = FALSE] ELSE sessions[s]]
  /\ UNCHANGED <<born, run>>

(* cleanup: by age whatever the state, or idle or dead for long enough. *)
Expire(s) ==
  /\ sessions[s] # None /\ sessions[s].state # "draining"
  /\ Changed(s, None) /\ UNCHANGED <<born, run>>

(* markSessionDraining, open to every user of the registry. *)
Drain(s) ==
  /\ sessions[s] # None /\ Changed(s, [sessions[s] EXCEPT !.state = "draining"])
  /\ UNCHANGED <<born, run>>

-----------------------------------------------------------------------------
Init ==
  /\ sessions = [s \in Sessions |-> None] /\ born = {}
  /\ run = [j \in Workers |-> [at |-> "new", session |-> None, ok |-> FALSE, intime |-> FALSE]]

Next ==
  \/ ProcessOrphans
  \/ \E j \in Workers :
       \/ Reuse(j) \/ AskServer(j) \/ ServerAnswers(j) \/ RunEnds(j) \/ SetupFails(j)
       \/ Collected(j) \/ Cancel(j) \/ Cancelled(j) \/ Poll(j)
  \/ \E s \in Sessions : LeaseRunsOut(s) \/ Expire(s) \/ Drain(s)

Spec == Init /\ [][Next]_vars

-----------------------------------------------------------------------------
(* Two jobs that work within their leases never share a session, although  *)
(* leases run out, late jobs release, cancel and bury sessions that others *)
(* have taken over.                                                        *)
InTimeJobsAreAlone ==
  \A j, k \in Workers : run[j].intime /\ run[k].intime /\ run[j].session = run[k].session => j = k

(* What waits in the warm pool is free and healthy.                        *)
PooledSessionsAreFree ==
  \A s \in Sessions : sessions[s] # None /\ sessions[s].pooled =>
    /\ sessions[s].leasedBy = None /\ Healthy(sessions[s])
    /\ sessions[s].state \in {"idle", "ready", "draining"}
=============================================================================
