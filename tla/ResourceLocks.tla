---------------------------- MODULE ResourceLocks ----------------------------
(***************************************************************************)
(* The locks and versions of ConcurrencyManager.  A job locks a resource   *)
(* (a task, a branch, an environment, a publish target) for a while; the   *)
(* lock expires under it if it stays too long, and somebody else may take  *)
(* it before the late release comes.  Updates of a task are checked        *)
(* against the version they were based on.  Each call is synchronous.      *)
(***************************************************************************)
EXTENDS Naturals, FiniteSets

CONSTANTS
  Jobs, Resources,
  None,         \* no lock
  Durations,    \* durations asked for; zero is legal
  MaxTime,      \* bound on the clock
  MaxVersion    \* bound on the task's version

ASSUME LocksAssumption ==
  /\ Durations \subseteq Nat /\ MaxTime \in Nat /\ MaxVersion \in Nat

VARIABLES
  now,       \* the clock
  locks,     \* resourceLocks
  granted,   \* until when a job was told it holds a resource
  version,   \* taskVersions of one task; None before the first update
  based,     \* the version a job's pending update is based on
  wins       \* history: successful updates per version they were based on

locking == <<locks, granted>>
updating == <<version, based, wins>>
vars == <<now, locking, updating>>

Lock == [owner : Jobs, expires : Nat]
ASSUME NoneIsNoLock == None \notin Lock \union Nat

-----------------------------------------------------------------------------
Live(r) == locks[r] # None /\ now < locks[r].expires

(* cleanupExpiredLocks, which every query starts with. *)
Cleaned == [r \in Resources |-> IF Live(r) THEN locks[r] ELSE None]

(* acquireLock; a live lock conflicts with everybody, its owner included. *)
Acquire(j, r, d) ==
  /\ IF Cleaned[r] = None
       THEN /\ locks' = [Cleaned EXCEPT ![r] = [owner |-> j, expires |-> now + d]]
            /\ granted' = [granted EXCEPT ![j][r] = now + d]
       ELSE locks' = Cleaned /\ UNCHANGED granted
  /\ UNCHANGED <<now, updating>>

(* Mutant: whoever knows the key may release. *)
ReleaseUnchecked(j, r) ==
  /\ locks' = [locks EXCEPT ![r] = None]
  /\ granted' = [granted EXCEPT ![j][r] = 0]
  /\ UNCHANGED <<now, updating>>

(* releaseLock, which a job may call at any time, also for a lock it lost. *)
Release(j, r) ==
  /\ locks' = [locks EXCEPT ![r] = IF @ # None /\ @.owner = j THEN None ELSE @]
  /\ granted' = [granted EXCEPT ![j][r] = 0]
  /\ UNCHANGED <<now, updating>>

(* releaseLocksForJob. *)
ReleaseAll(j) ==
  /\ locks' = [r \in Resources |-> IF locks[r] # None /\ locks[r].owner = j THEN None ELSE locks[r]]
  /\ granted' = [granted EXCEPT ![j] = [r \in Resources |-> 0]]
  /\ UNCHANGED <<now, updating>>

(* isLocked, getLock, getActiveLocks, getLocksByTask, getLockMetrics. *)
Observe == locks' = Cleaned /\ UNCHANGED <<now, granted, updating>>

Tick == now < MaxTime /\ now' = now + 1 /\ UNCHANGED <<locking, updating>>

-----------------------------------------------------------------------------
(* A job reads the task, whose version is 0 before it is tracked. *)
ReadVersion(j) ==
  /\ based' = [based EXCEPT ![j] = IF version = None THEN 0 ELSE version]
  /\ UNCHANGED <<now, locking, version, wins>>

(* Mutant: an older base is accepted as well as a wrong one is refused. *)
NotNewer(j) == version = None \/ based[j] <= version

(* validateOptimisticLock: an untracked task accepts any version. *)
Valid(j) == version = None \/ version = based[j]

(* checkAndUpdateVersion. *)
CheckAndUpdate(j) ==
  /\ based[j] # None /\ based[j] < MaxVersion
  /\ based' = [based EXCEPT ![j] = None]
  /\ IF Valid(j)
       THEN version' = based[j] + 1 /\ wins' = [wins EXCEPT ![based[j]] = @ + 1]
       ELSE UNCHANGED <<version, wins>>
  /\ UNCHANGED <<now, locking>>

-----------------------------------------------------------------------------
Init ==
  /\ now = 0 /\ locks = [r \in Resources |-> None]
  /\ granted = [j \in Jobs |-> [r \in Resources |-> 0]]
  /\ version = None /\ based = [j \in Jobs |-> None]
  /\ wins = [v \in 0 .. MaxVersion |-> 0]

Next ==
  \/ Observe \/ Tick
  \/ \E j \in Jobs :
       \/ ReleaseAll(j) \/ ReadVersion(j) \/ CheckAndUpdate(j)
       \/ \E r \in Resources : Release(j, r) \/ \E d \in Durations : Acquire(j, r, d)

Spec == Init /\ [][Next]_vars

-----------------------------------------------------------------------------
(* A job relies on a lock from the grant until it gives it back or the     *)
(* time it was told is over: a lock service in the sense of LockService.   *)
Holders == [r \in Resources |-> {j \in Jobs : now < granted[j][r]}]
Service == INSTANCE LockService WITH holders <- Holders

(* Jobs that rely on locks exclude each other, although locks expire under *)
(* their holders and are released late, twice or wholesale.                *)
LocksExclude == Service!Spec

(* Of the updates based on one version of a task at most one succeeds.     *)
NoLostUpdate == \A v \in 0 .. MaxVersion : wins[v] <= 1
=============================================================================
