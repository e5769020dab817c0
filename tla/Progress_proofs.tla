---------------------------- MODULE Progress_proofs ----------------------------
(***************************************************************************)
(* What Progress promises of its components, for any tasks, jobs, workers  *)
(* and requests, and for any limits: the safety properties of the worker   *)
(* executor, of the control of spawns and of the orphan scanner.  The      *)
(* components do not meet, so each is proved on its own, and carried over  *)
(* to Progress at the end.                                                 *)
(***************************************************************************)
EXTENDS Progress, FiniteSetTheorems, SequenceTheorems, TLAPS

(***************************************************************************)
(* The worker executor.  Workers take their turn in the order of the       *)
(* failover chain; the place of a worker in it is its rank.                *)
(***************************************************************************)
Rank(w) ==
  CASE w = "codex" -> 1 [] w = "claude_code" -> 2 [] w = "google_antigravity" -> 3 [] OTHER -> 4

Exec ==
  [worker : Worker!WorkerTypes, kind : {"simulated", "process", "completion"},
   at : {"starting", "running", "ok", "bad", "killed"}, known : BOOLEAN]

(* Adapters were given the job one after the other. *)
InTurn ==
  \A e, f \in DOMAIN execs : e < f => Rank(execs[e].worker) < Rank(execs[f].worker)

(* A submission aims at a worker that comes after all who had the job; one *)
(* that was taken, at the last of them.                                    *)
Aimed ==
  /\ wait \in {"new", "leaving", "moving"} =>
       target \in Worker!WorkerTypes /\ \A e \in DOMAIN execs : Rank(execs[e].worker) < Rank(target)
  /\ wait \in {"submitting", "moved", "waiting"} =>
       target \in Worker!WorkerTypes /\ \A e \in DOMAIN execs : Rank(execs[e].worker) <= Rank(target)

(* The job's record names the worker that has it. *)
Recorded ==
  /\ wait \in {"submitting", "moved", "leaving"} => execs # <<>>
  /\ active # None => active.exec \in DOMAIN execs
  /\ active # None /\ wait = "waiting" => active.worker = target

WorkerInv == execs \in Seq(Exec) /\ InTurn /\ Aimed /\ Recorded

(* Ranks are numbers. *)
LEMMA RankNat == \A w : Rank(w) \in Nat
  BY DEF Rank

(* tryFailover goes forward in the chain. *)
LEMMA FailoverAdvances ==
  ASSUME NEW stage_, NEW w \in Worker!WorkerTypes, Worker!FailoverWorker(stage_, w) # "none"
  PROVE  /\ Worker!FailoverWorker(stage_, w) \in Worker!WorkerTypes
         /\ Rank(w) < Rank(Worker!FailoverWorker(stage_, w))
  BY DEF Worker!FailoverWorker, Worker!WorkerTypes, Rank

(* What is left of an execution after a cancel is one of the same worker.  *)
LEMMA CancelKeepsWorker ==
  ASSUME NEW x \in Exec, NEW y \in Worker!AfterCancel(x)
  PROVE  y \in Exec /\ y.worker = x.worker
  BY DEF Exec, Worker!AfterCancel, Worker!CancelSimulated, Worker!CancelProcess,
    Worker!CancelCompletion

(* Executions change, but not their workers. *)
LEMMA SameWorkers ==
  ASSUME WorkerInv, execs' \in Seq(Exec), DOMAIN execs' = DOMAIN execs,
         \A e \in DOMAIN execs : execs'[e].worker = execs[e].worker
  PROVE  /\ InTurn'
         /\ UNCHANGED <<wait, target>> => Aimed'
         /\ (execs # <<>>) = (execs' # <<>>)
  <1>1. (execs # <<>>) = (execs' # <<>>)
    BY DEF WorkerInv
  <1> QED BY <1>1 DEF WorkerInv, InTurn, Aimed

(* One execution changes, but not its worker. *)
LEMMA OneExecution ==
  ASSUME WorkerInv, NEW e \in DOMAIN execs, NEW y \in Exec, y.worker = execs[e].worker,
         execs' = [execs EXCEPT ![e] = y]
  PROVE  /\ execs' \in Seq(Exec) /\ DOMAIN execs' = DOMAIN execs
         /\ \A f \in DOMAIN execs : execs'[f].worker = execs[f].worker
  BY DEF WorkerInv

(* An adapter takes the job: it comes after all who had it. *)
LEMMA TakenStep ==
  ASSUME WorkerInv, wait \in {"new", "moving"}, wait' \in {"submitting", "moved"}, UNCHANGED <<target, active>>,
         NEW kind \in {"simulated", "process", "completion"}, Worker!AdapterTakes(target, kind)
  PROVE  WorkerInv'
  <1> DEFINE x == [worker |-> target, kind |-> kind, at |-> "starting", known |-> TRUE]
  <1>1. x \in Exec /\ x.worker = target
    BY DEF WorkerInv, Aimed, Exec
  <1>2. execs' = Append(execs, x)
    BY DEF Worker!AdapterTakes, Worker!Given
  <1> HIDE DEF x
  <1>3. /\ execs' \in Seq(Exec) /\ Len(execs') = Len(execs) + 1 /\ execs'[Len(execs')].worker = target
        /\ \A e \in DOMAIN execs : execs'[e] = execs[e]
    BY <1>1, <1>2 DEF WorkerInv
  <1>4. InTurn'
    BY <1>3 DEF WorkerInv, InTurn, Aimed
  <1>5. Aimed'
    BY <1>3, RankNat DEF WorkerInv, Aimed
  <1>6. Recorded'
    BY <1>3 DEF WorkerInv, Recorded
  <1> QED BY <1>3, <1>4, <1>5, <1>6 DEF WorkerInv

(* A submitted job has a record that names its worker. *)
LEMMA RecordedStep ==
  ASSUME WorkerInv, wait \in {"submitting", "moved"}, wait' = "waiting", UNCHANGED <<execs, target>>,
         active' = [worker |-> target, exec |-> Len(execs)]
  PROVE  WorkerInv'
  <1>1. Len(execs) \in DOMAIN execs
    BY DEF WorkerInv, Recorded
  <1> QED BY <1>1 DEF WorkerInv, InTurn, Aimed, Recorded

(* One turn of the wait: only a failover changes where the job is, and it  *)
(* goes forward.                                                           *)
LEMMA PollStep ==
  ASSUME WorkerInv, Worker!Poll
  PROVE  WorkerInv'
  <1>1. CASE active = None
    BY <1>1 DEF Worker!Poll, WorkerInv, InTurn, Aimed, Recorded
  <1>2. CASE active # None
    <2> DEFINE e == active.exec
               x == execs[e]
               y == [x EXCEPT !.known = @ /\ (Worker!Live(e) \/ x.kind = "simulated")]
    <2>1. e \in DOMAIN execs /\ active.worker = target /\ target \in Worker!WorkerTypes
          /\ \A f \in DOMAIN execs : Rank(execs[f].worker) <= Rank(target)
      BY <1>2 DEF Worker!Poll, WorkerInv, Aimed, Recorded
    <2>2. x \in Exec
      BY <2>1 DEF WorkerInv
    <2>3. y \in Exec /\ y.worker = x.worker
      BY <2>2 DEF Exec
    <2>4. execs' = [execs EXCEPT ![e] = y]
      BY <1>2 DEF Worker!Poll
    <2>5. /\ execs' \in Seq(Exec) /\ DOMAIN execs' = DOMAIN execs
          /\ \A f \in DOMAIN execs : execs'[f].worker = execs[f].worker
      <3> HIDE DEF y
      <3> QED BY <2>1, <2>3, <2>4, OneExecution
    <2>6. InTurn' /\ execs' # <<>>
      BY <2>1, <2>5, SameWorkers DEF WorkerInv
    <2>7. \/ wait' = "succeeded" /\ active' = None /\ UNCHANGED target
          \/ UNCHANGED <<wait, active, target>>
          \/ Worker!Failover(active.worker)
      BY <1>2 DEF Worker!Poll
    <2>8. CASE wait' = "succeeded" /\ active' = None /\ UNCHANGED target
      BY <2>5, <2>6, <2>8 DEF WorkerInv, Aimed, Recorded
    <2>9. CASE UNCHANGED <<wait, active, target>>
      BY <2>5, <2>6, <2>9 DEF WorkerInv, Aimed, Recorded
    <2>10. CASE Worker!Failover(active.worker)
      <3>1. CASE target' = "none"
        BY <2>5, <2>6, <2>10, <3>1 DEF Worker!Failover, WorkerInv, Aimed, Recorded
      <3>2. CASE target' # "none"
        <4>1. target' \in Worker!WorkerTypes /\ Rank(target) < Rank(target')
          BY <2>1, <2>10, <3>2, FailoverAdvances DEF Worker!Failover
        <4>2. wait' = "leaving" /\ UNCHANGED active
          BY <2>10, <3>2 DEF Worker!Failover
        <4>3. Aimed'
          BY <2>1, <2>5, <4>1, <4>2, RankNat DEF Aimed
        <4> QED BY <2>5, <2>6, <4>2, <4>3 DEF WorkerInv, Recorded
      <3> QED BY <3>1, <3>2
    <2> QED BY <2>7, <2>8, <2>9, <2>10
  <1> QED BY <1>1, <1>2

(* The failover cancels at the worker the job leaves. *)
LEMMA LeaveWorkerStep ==
  ASSUME WorkerInv, Worker!LeaveWorker
  PROVE  WorkerInv'
  <1>1. Len(execs) \in DOMAIN execs
    BY DEF Worker!LeaveWorker, WorkerInv, Recorded
  <1>2. PICK y \in Worker!AfterCancel(execs[Len(execs)]) : execs' = [execs EXCEPT ![Len(execs)] = y]
    BY DEF Worker!LeaveWorker
  <1>3. y \in Exec /\ y.worker = execs[Len(execs)].worker
    BY <1>1, CancelKeepsWorker DEF WorkerInv
  <1>4. /\ execs' \in Seq(Exec) /\ DOMAIN execs' = DOMAIN execs
        /\ \A e \in DOMAIN execs : execs'[e].worker = execs[e].worker
    BY <1>1, <1>2, <1>3, OneExecution
  <1>5. wait = "leaving" /\ wait' = "moving" /\ UNCHANGED <<active, target>>
    BY DEF Worker!LeaveWorker
  <1>6. InTurn'
    BY <1>4, SameWorkers
  <1> QED BY <1>4, <1>5, <1>6 DEF WorkerInv, Aimed, Recorded

(* The next worker takes the job, or the one after it is tried. *)
LEMMA ResubmitStep ==
  ASSUME WorkerInv, Worker!Resubmit
  PROVE  WorkerInv'
  <1>1. CASE Worker!AdapterTakes(target, Kind[target]) /\ wait' = "moved" /\ UNCHANGED <<active, target>>
    <2>1. wait = "moving" /\ Kind[target] \in {"simulated", "process", "completion"}
      BY ProgressAssumption DEF Worker!Resubmit, WorkerInv, Aimed
    <2> QED BY <1>1, <2>1, TakenStep
  <1>2. CASE /\ target' = Worker!FailoverWorker(Stage, target) /\ UNCHANGED execs
             /\ IF target' = "none" \/ down THEN wait' = "failed" /\ active' = None
                ELSE wait' = "moving" /\ UNCHANGED active
    <2>1. CASE target' = "none" \/ down
      BY <1>2, <2>1 DEF WorkerInv, InTurn, Aimed, Recorded
    <2>2. CASE ~(target' = "none" \/ down)
      <3>1. /\ wait = "moving" /\ target \in Worker!WorkerTypes
            /\ \A e \in DOMAIN execs : Rank(execs[e].worker) < Rank(target)
        BY DEF Worker!Resubmit, WorkerInv, Aimed
      <3>2. target' \in Worker!WorkerTypes /\ Rank(target) < Rank(target')
        BY <1>2, <2>2, <3>1, FailoverAdvances
      <3>3. Aimed'
        BY <1>2, <2>2, <3>1, <3>2, RankNat DEF Aimed
      <3> QED BY <1>2, <2>2, <3>3 DEF WorkerInv, InTurn, Recorded
    <2> QED BY <2>1, <2>2
  <1> QED BY <1>1, <1>2 DEF Worker!Resubmit

(* Time-outs and shutdowns cancel, and leave the job with its worker or    *)
(* with nobody.                                                            *)
LEMMA TimeOutStep ==
  ASSUME WorkerInv, Worker!TimeOut
  PROVE  WorkerInv'
  <1>1. CASE active = None
    BY <1>1 DEF Worker!TimeOut, WorkerInv, InTurn, Aimed, Recorded
  <1>2. CASE active # None
    <2>1. active.exec \in DOMAIN execs
      BY <1>2 DEF WorkerInv, Recorded
    <2>2. PICK y \in Worker!AfterCancel(execs[active.exec]) :
            execs' = [execs EXCEPT ![active.exec] = y] /\ active' \in {None, active}
      BY <1>2 DEF Worker!TimeOut
    <2>3. y \in Exec /\ y.worker = execs[active.exec].worker
      BY <2>1, CancelKeepsWorker DEF WorkerInv
    <2>4. /\ execs' \in Seq(Exec) /\ DOMAIN execs' = DOMAIN execs
          /\ \A e \in DOMAIN execs : execs'[e].worker = execs[e].worker
      BY <2>1, <2>2, <2>3, OneExecution
    <2>5. InTurn'
      BY <2>4, SameWorkers
    <2>6. wait' = "failed" /\ (active' # None => active' = active)
      BY <2>2 DEF Worker!TimeOut
    <2> QED BY <2>4, <2>5, <2>6, <1>2 DEF WorkerInv, Aimed, Recorded
  <1> QED BY <1>1, <1>2

(* shutdown clears what the adapters hold. *)
LEMMA ShutdownStep ==
  ASSUME WorkerInv, Worker!Shutdown
  PROVE  WorkerInv'
  <1>1. \A x \in Exec : Worker!Cleared(x) \in Exec /\ Worker!Cleared(x).worker = x.worker
    BY DEF Worker!Cleared, Worker!CancelSimulated, Exec
  <1>2. /\ execs' \in Seq(Exec) /\ DOMAIN execs' = DOMAIN execs
        /\ \A e \in DOMAIN execs : execs'[e].worker = execs[e].worker
    <2>1. CASE active = None
      <3>1. execs' = [e \in DOMAIN execs |-> Worker!Cleared(execs[e])]
        BY <2>1 DEF Worker!Shutdown
      <3> QED BY <1>1, <3>1 DEF WorkerInv
    <2>2. CASE active # None
      <3>1. active.exec \in DOMAIN execs
        BY <2>2 DEF WorkerInv, Recorded
      <3>2. PICK y \in Worker!AfterCancel(execs[active.exec]) :
              execs' = [e \in DOMAIN execs |-> Worker!Cleared(IF e = active.exec THEN y ELSE execs[e])]
        BY <2>2 DEF Worker!Shutdown
      <3>3. y \in Exec /\ y.worker = execs[active.exec].worker
        BY <3>1, CancelKeepsWorker DEF WorkerInv
      <3> QED BY <1>1, <3>1, <3>2, <3>3 DEF WorkerInv
    <2> QED BY <2>1, <2>2
  <1>3. active' = None /\ UNCHANGED <<wait, target>>
    BY DEF Worker!Shutdown
  <1>4. InTurn' /\ Aimed' /\ (execs # <<>>) = (execs' # <<>>)
    BY <1>2, <1>3, SameWorkers
  <1> QED BY <1>2, <1>3, <1>4 DEF WorkerInv, Recorded

(* An execution starts or finishes. *)
LEMMA RunsStep ==
  ASSUME WorkerInv, NEW e \in DOMAIN execs, Worker!Starts(e) \/ Worker!Finishes(e)
  PROVE  WorkerInv'
  <1>1. PICK at \in {"running", "ok", "bad"} : execs' = [execs EXCEPT ![e].at = at]
    BY DEF Worker!Starts, Worker!Finishes
  <1> DEFINE y == [execs[e] EXCEPT !.at = at]
  <1>2. y \in Exec /\ y.worker = execs[e].worker
    <2>1. execs[e] \in Exec
      BY DEF WorkerInv
    <2> QED BY <2>1 DEF Exec
  <1>3. execs' = [execs EXCEPT ![e] = y]
    BY <1>1
  <1> HIDE DEF y
  <1>4. /\ execs' \in Seq(Exec) /\ DOMAIN execs' = DOMAIN execs
        /\ \A f \in DOMAIN execs : execs'[f].worker = execs[f].worker
    BY <1>2, <1>3, OneExecution
  <1>5. UNCHANGED <<active, wait, target>>
    BY DEF Worker!Starts, Worker!Finishes
  <1>6. InTurn' /\ Aimed' /\ (execs # <<>>) = (execs' # <<>>)
    BY <1>4, <1>5, SameWorkers
  <1> QED BY <1>4, <1>5, <1>6 DEF WorkerInv, Recorded

(* submitJob gives the job to the worker it was routed to, the first. *)
LEMMA SubmitStep ==
  ASSUME WorkerInv, Worker!Submit
  PROVE  WorkerInv'
  <1>1. wait = "new" /\ UNCHANGED <<active, target>> /\ target \in Worker!WorkerTypes
    BY DEF Worker!Submit, WorkerInv, Aimed
  <1>2. CASE wait' = "refused" /\ UNCHANGED execs
    BY <1>1, <1>2 DEF WorkerInv, InTurn, Aimed, Recorded
  <1>3. CASE /\ wait' = "submitting"
             /\ Worker!AdapterTakes(target, Kind[target]) \/ Worker!AdapterTakes(target, Kind["lmstudio"])
    <2>1. Kind[target] \in {"simulated", "process", "completion"}
          /\ Kind["lmstudio"] \in {"simulated", "process", "completion"}
      BY <1>1, ProgressAssumption
    <2> QED BY <1>1, <1>3, <2>1, TakenStep
  <1> QED BY <1>2, <1>3 DEF Worker!Submit

(* The executor and its adapters keep the order of the failover chain,     *)
(* from routing through failovers, time-outs and a shutdown (submitJob,    *)
(* waitForJob).                                                            *)
THEOREM WorkerInvariant == Worker!Spec => []WorkerInv
  <1>1. Worker!Init => WorkerInv
    BY ProgressAssumption DEF Worker!Init, WorkerInv, InTurn, Aimed, Recorded, Worker!DefaultWorker,
       Worker!Stages, Worker!WorkerTypes
  <1>2. WorkerInv /\ [Worker!Next]_Worker!vars => WorkerInv'
    <2> SUFFICES ASSUME WorkerInv, [Worker!Next]_Worker!vars PROVE WorkerInv'
      OBVIOUS
    <2>1. CASE Worker!Submit
      BY <2>1, SubmitStep
    <2>2. CASE Worker!Submitted
      BY <2>2, RecordedStep DEF Worker!Submitted
    <2>3. CASE Worker!Poll
      BY <2>3, PollStep
    <2>4. CASE Worker!LeaveWorker
      BY <2>4, LeaveWorkerStep
    <2>5. CASE Worker!Resubmit
      BY <2>5, ResubmitStep
    <2>6. CASE Worker!Moved
      BY <2>6, RecordedStep DEF Worker!Moved
    <2>7. CASE Worker!TimeOut
      BY <2>7, TimeOutStep
    <2>8. CASE Worker!Shutdown
      BY <2>8, ShutdownStep
    <2>9. ASSUME NEW e \in DOMAIN execs, Worker!Starts(e) \/ Worker!Finishes(e) PROVE WorkerInv'
      BY <2>9, RunsStep
    <2>10. CASE UNCHANGED Worker!vars
      BY <2>10 DEF Worker!vars, WorkerInv, InTurn, Aimed, Recorded
    <2> QED BY <2>1, <2>2, <2>3, <2>4, <2>5, <2>6, <2>7, <2>8, <2>9, <2>10 DEF Worker!Next
  <1> QED BY <1>1, <1>2, PTL DEF Worker!Spec

-----------------------------------------------------------------------------
(***************************************************************************)
(* The rate of spawns.  A spawn takes at least Unit - Epsilon parts that   *)
(* were given: what the bucket rounds up to is paid for by a spawn since   *)
(* it was full, so a bucket that is not full has Epsilon in reserve.       *)
(***************************************************************************)
Counts == [attempts : Nat, allowed : Nat, rejected : Nat, queued : Nat]

Cost == Unit - Epsilon

RateInv ==
  /\ now \in Nat /\ filled \in 0..now /\ tokens \in 0..Agents!Capacity /\ counts \in Counts
  /\ tokens + counts.allowed * Cost <= Agents!Capacity + Refill * filled
  /\ tokens < Agents!Capacity =>
       tokens + counts.allowed * Cost + Epsilon <= Agents!Capacity + Refill * filled

(* The bucket holds more than it rounds away. *)
LEMMA BucketSizes ==
  /\ Unit \in Nat /\ Epsilon \in Nat \ {0} /\ Epsilon < Unit /\ Cost \in Nat
  /\ Agents!Capacity \in Nat /\ Unit <= Agents!Capacity
  <1>1. Burst * Unit = Unit + (Burst - 1) * Unit /\ (Burst - 1) * Unit \in Nat
    BY ProgressAssumption
  <1> QED BY <1>1, ProgressAssumption DEF Cost, Agents!Capacity

(* SpawnControl counts as this module does. *)
LEMMA SameCardinality == \A S : Agents!Cardinality(S) = Cardinality(S)
  BY DEF Agents!Cardinality, Cardinality

(* Of n requests at most n are in time. *)
LEMMA LiveBound ==
  ASSUME NEW n \in Nat
  PROVE  Agents!Live(n) \in 0..n
  <1>1. IsFiniteSet(1..n) /\ Cardinality(1..n) = n
    BY FS_Interval
  <1>2. ASSUME NEW S \in SUBSET (1..n)
        PROVE  Cardinality(S) \in 0..n
    <2>1. IsFiniteSet(S) /\ Cardinality(S) <= n
      BY <1>1, FS_Subset
    <2> QED BY <2>1, FS_CardinalityType
  <1>3. {k \in 1..n : ~Agents!Late(queue[k])} \in SUBSET (1..n)
    OBVIOUS
  <1> QED BY <1>2, <1>3, SameCardinality DEF Agents!Live

(* TokenBucket.refill: what it rounds up to is paid for. *)
LEMMA RefillRate ==
  ASSUME RateInv
  PROVE  /\ Agents!Refilled \in 0..Agents!Capacity
         /\ Agents!Rounded(Agents!Refilled) = Agents!Refilled
         /\ Agents!Refilled + counts.allowed * Cost <= Agents!Capacity + Refill * now
         /\ Agents!Refilled < Agents!Capacity =>
              Agents!Refilled + counts.allowed * Cost + Epsilon <= Agents!Capacity + Refill * now
  <1> DEFINE given == (now - filled) * Refill
             cap == Agents!Capacity
             amount == Agents!Least(cap, tokens + given)
             paid == counts.allowed * Cost
             before == Refill * filled
             total == Refill * now
  <1>1. given \in Nat /\ before \in Nat /\ total = before + given
    <2>1. now \in Nat /\ filled \in Nat /\ now - filled \in Nat /\ Refill \in Nat
      BY ProgressAssumption DEF RateInv
    <2> QED BY <2>1
  <1>2. paid \in Nat
    BY BucketSizes DEF RateInv, Counts
  <1>3. cap \in Nat /\ Epsilon < cap /\ Epsilon \in Nat \ {0}
    BY BucketSizes
  <1>4. /\ tokens \in 0..cap /\ tokens + paid <= cap + before
        /\ tokens < cap => tokens + paid + Epsilon <= cap + before
    BY DEF RateInv
  <1>5. Agents!Refilled = Agents!Rounded(amount)
    BY DEF Agents!Refilled
  <1>6. \A x : Agents!Rounded(x) = IF x < Epsilon THEN 0 ELSE IF cap - x < Epsilon THEN cap ELSE x
    BY DEF Agents!Rounded
  <1>7. amount = IF cap <= tokens + given THEN cap ELSE tokens + given
    BY DEF Agents!Least
  <1> HIDE DEF given, cap, amount, paid, before, total
  <1>8. amount \in 0..cap /\ amount <= tokens + given /\ (tokens = cap => amount = cap)
    BY <1>1, <1>3, <1>4, <1>7
  <1> DEFINE full == Agents!Refilled
  <1>9. /\ full \in 0..cap /\ (full <= amount \/ (full = cap /\ cap < amount + Epsilon))
        /\ (amount = cap => full = cap) /\ Agents!Rounded(full) = full
    BY <1>3, <1>5, <1>6, <1>8
  <1> HIDE DEF full
  <1>10. full + paid <= cap + total /\ (full < cap => full + paid + Epsilon <= cap + total)
    BY <1>1, <1>2, <1>3, <1>4, <1>8, <1>9
  <1> QED BY <1>9, <1>10 DEF full, cap, paid, total

(* Who takes n tokens has paid for n. *)
LEMMA TakeRate ==
  ASSUME RateInv, NEW n \in Nat, n * Unit <= Agents!Refilled, Agents!Take(n), now' = now,
         counts' \in Counts, counts'.allowed = counts.allowed + n
  PROVE  RateInv'
  <1> DEFINE full == Agents!Refilled
             cap == Agents!Capacity
             paid == counts.allowed * Cost
             total == Refill * now
             taken == n * Unit
             price == n * Cost
             spared == n * Epsilon
  <1>1. /\ cap \in Nat /\ Unit <= cap /\ Unit \in Nat /\ Epsilon \in Nat \ {0} /\ Epsilon < Unit
        /\ Cost \in Nat /\ Cost = Unit - Epsilon
    BY BucketSizes DEF Cost
  <1>2. /\ full \in 0..cap /\ Agents!Rounded(full) = full /\ full + paid <= cap + total
        /\ full < cap => full + paid + Epsilon <= cap + total
    BY RefillRate
  <1>3. taken = price + spared /\ taken \in Nat /\ price \in Nat /\ spared \in Nat
    BY <1>1
  <1>4. n = 0 => taken = 0 /\ price = 0
    BY <1>1
  <1>5. n # 0 => Unit <= taken /\ Epsilon <= spared
    <2> SUFFICES ASSUME n # 0 PROVE Unit <= n * Unit /\ Epsilon <= n * Epsilon
      OBVIOUS
    <2>1. n - 1 \in Nat /\ n * Unit = Unit + (n - 1) * Unit /\ n * Epsilon = Epsilon + (n - 1) * Epsilon
      BY <1>1
    <2>2. (n - 1) * Unit \in Nat /\ (n - 1) * Epsilon \in Nat
      BY <1>1, <2>1
    <2> QED BY <1>1, <2>1, <2>2
  <1>6. paid \in Nat /\ total \in Nat /\ counts'.allowed * Cost = paid + price
    <2>1. counts.allowed \in Nat /\ now \in Nat /\ Refill \in Nat
      BY ProgressAssumption DEF RateInv, Counts
    <2> QED BY <1>1, <2>1
  <1>7. /\ tokens' = Agents!Rounded(full - taken) /\ filled' = now /\ taken <= full
        /\ Agents!Rounded(full - taken) =
             IF full - taken < Epsilon THEN 0
             ELSE IF cap - (full - taken) < Epsilon THEN cap ELSE full - taken
    BY DEF Agents!Take, Agents!Rounded
  <1>8. now' \in Nat /\ filled' \in 0..now'
    BY <1>7 DEF RateInv
  <1> HIDE DEF full, cap, paid, total, taken, price, spared
  <1>9. CASE n = 0
    <2>1. tokens' = full /\ counts'.allowed * Cost = paid
      <3>1. full - taken = full
        BY <1>2, <1>4, <1>9, <1>1
      <3> QED BY <1>2, <1>4, <1>6, <1>7, <1>9, <3>1
    <2>2. /\ tokens' \in 0..cap /\ tokens' + counts'.allowed * Cost <= cap + total
          /\ tokens' < cap => tokens' + counts'.allowed * Cost + Epsilon <= cap + total
      BY <1>2, <2>1
    <2> QED BY <1>7, <1>8, <2>2 DEF RateInv, cap, total, Agents!Capacity, Cost
  <1>10. CASE n # 0
    <2>1. tokens' \in 0..cap /\ tokens' <= full - taken
      BY <1>1, <1>2, <1>3, <1>5, <1>7, <1>10
    <2>2. tokens' + counts'.allowed * Cost + Epsilon <= cap + total
      BY <1>1, <1>2, <1>3, <1>5, <1>6, <1>10, <2>1
    <2>3. tokens' + counts'.allowed * Cost <= cap + total
      BY <1>1, <1>3, <1>6, <2>1, <2>2
    <2> QED BY <1>7, <1>8, <2>1, <2>2, <2>3 DEF RateInv, cap, total, Agents!Capacity, Cost
  <1> QED BY <1>9, <1>10

(* The bucket is left alone and nothing is allowed. *)
LEMMA UntouchedRate ==
  ASSUME RateInv, UNCHANGED <<tokens, filled>>, now' \in Nat, now <= now',
         counts' \in Counts, counts'.allowed = counts.allowed
  PROVE  RateInv'
  <1>1. filled' \in 0..now'
    BY DEF RateInv
  <1> QED BY <1>1 DEF RateInv, Agents!Capacity, Cost

(* What a pass over the queue counts. *)
LEMMA QueueCounts ==
  ASSUME RateInv, NEW n \in Nat, NEW live \in 0..n,
         counts' = [counts EXCEPT !.allowed = @ + live, !.rejected = @ + (n - live)]
  PROVE  counts' \in Counts /\ counts'.allowed = counts.allowed + live
  <1>1. /\ counts.attempts \in Nat /\ counts.allowed \in Nat
        /\ counts.rejected \in Nat /\ counts.queued \in Nat
    BY DEF RateInv, Counts
  <1>2. counts' = [attempts |-> counts.attempts, allowed |-> counts.allowed + live,
                   rejected |-> counts.rejected + (n - live), queued |-> counts.queued]
    BY DEF RateInv, Counts
  <1> QED BY <1>1, <1>2 DEF Counts

(* processQueue allows what the bucket holds and no more. *)
LEMMA ProcessQueueRate ==
  ASSUME RateInv, NEW k, Agents!ProcessQueue(k), now' = now
  PROVE  RateInv'
  <1>1. PICK n \in 0..Len(queue) :
          /\ Agents!Passes(k, n)
          /\ IF Agents!Tries(k, n) THEN Agents!Take(Agents!Live(n)) ELSE UNCHANGED <<tokens, filled>>
          /\ counts' = [counts EXCEPT !.allowed = @ + Agents!Live(n), !.rejected = @ + (n - Agents!Live(n))]
    BY DEF Agents!ProcessQueue, Agents!bucket
  <1>2. n \in Nat
    OBVIOUS
  <1>3. Agents!Live(n) \in 0..n /\ Agents!Live(n) \in Nat
    BY <1>2, LiveBound
  <1>4. counts' \in Counts /\ counts'.allowed = counts.allowed + Agents!Live(n)
    BY <1>1, <1>2, <1>3, QueueCounts
  <1>5. CASE Agents!Tries(k, n)
    <2>1. Agents!Live(n) * Unit <= Agents!Refilled
      <3>1. ~(k >= MaxAgents) => Agents!Live(n) * Unit <= Agents!Refilled
        BY <1>1 DEF Agents!Passes
      <3>2. k >= MaxAgents => Agents!Live(n) * Unit <= Agents!Refilled
        <4> SUFFICES ASSUME k >= MaxAgents PROVE Agents!Live(n) * Unit <= Agents!Refilled
          OBVIOUS
        <4>1. n = 0
          BY <1>1 DEF Agents!Passes
        <4>2. Agents!Live(n) = 0
          BY <1>3, <4>1
        <4>3. 0 * Unit = 0 /\ 0 <= Agents!Refilled
          BY RefillRate, BucketSizes
        <4> QED BY <4>2, <4>3
      <3> QED BY <3>1, <3>2
    <2> QED BY <1>1, <1>3, <1>4, <1>5, <2>1, TakeRate
  <1>6. CASE ~Agents!Tries(k, n)
    <2>1. Agents!Live(n) = 0
      <3>1. CASE k >= MaxAgents
        <4>1. n = 0
          BY <1>1, <3>1 DEF Agents!Passes
        <4> QED BY <1>3, <4>1
      <3>2. CASE ~(k >= MaxAgents)
        <4>1. ~(Agents!Live(n) > 0)
          BY <1>6, <3>2 DEF Agents!Tries
        <4> QED BY <1>3, <4>1
      <3> QED BY <3>1, <3>2
    <2>2. counts'.allowed = counts.allowed
      BY <1>4, <2>1 DEF RateInv, Counts
    <2>3. now' \in Nat /\ now <= now' /\ UNCHANGED <<tokens, filled>>
      BY <1>1, <1>6 DEF RateInv
    <2> QED BY <1>4, <2>2, <2>3, UntouchedRate
  <1> QED BY <1>5, <1>6

(* No step allows a spawn without a token, or makes tokens of nothing. *)
LEMMA RateStep ==
  ASSUME RateInv, [Agents!Next]_Agents!vars
  PROVE  RateInv'
  <1>1. /\ counts.attempts \in Nat /\ counts.allowed \in Nat
        /\ counts.rejected \in Nat /\ counts.queued \in Nat
    BY DEF RateInv, Counts
  <1>2. CASE Agents!Tick
    <2>1. now' = now + 1 /\ UNCHANGED <<tokens, filled, counts>>
      BY <1>2 DEF Agents!Tick, Agents!bucket
    <2>2. now' \in Nat /\ now <= now' /\ counts' \in Counts
      BY <2>1 DEF RateInv
    <2> QED BY <2>1, <2>2, UntouchedRate
  <1>3. CASE Agents!QueueProcessor
    BY <1>3, ProcessQueueRate DEF Agents!QueueProcessor
  <1>4. ASSUME NEW r \in Requests, Agents!EvaluateSpawn(r) PROVE RateInv'
    <2>1. now' = now
      BY <1>4 DEF Agents!EvaluateSpawn
    <2>2. 0 * Unit = 0 /\ 1 * Unit = Unit /\ 0 <= Agents!Refilled
      BY RefillRate, BucketSizes
    <2>3. CASE Agents!Allowed(r)
      <3>1. counts' = [attempts |-> counts.attempts + 1, allowed |-> counts.allowed + 1,
                       rejected |-> counts.rejected, queued |-> counts.queued]
        BY <2>3 DEF Agents!Allowed, RateInv, Counts
      <3>2. 1 * Unit <= Agents!Refilled /\ Agents!Take(1)
        BY <2>2, <2>3, BucketSizes, RefillRate DEF Agents!Allowed
      <3>3. counts' \in Counts /\ counts'.allowed = counts.allowed + 1
        BY <1>1, <3>1 DEF Counts
      <3> QED BY <2>1, <3>2, <3>3, TakeRate
    <2>4. CASE Agents!Refused(r)
      <3>1. counts' = [attempts |-> counts.attempts + 1, allowed |-> counts.allowed,
                       rejected |-> counts.rejected + 1, queued |-> counts.queued]
        BY <2>4 DEF Agents!Refused, RateInv, Counts
      <3>2. counts' \in Counts /\ counts'.allowed = counts.allowed + 0
        BY <1>1, <3>1 DEF Counts
      <3>3. Agents!Take(0)
        BY <2>4 DEF Agents!Refused
      <3> QED BY <2>1, <2>2, <3>2, <3>3, TakeRate
    <2>5. CASE Agents!QueueRequest(r)
      <3>1. counts' = [attempts |-> counts.attempts + 1, allowed |-> counts.allowed,
                       rejected |-> counts.rejected, queued |-> counts.queued + 1]
        BY <2>5 DEF Agents!QueueRequest, RateInv, Counts
      <3>2. counts' \in Counts /\ counts'.allowed = counts.allowed + 0
        BY <1>1, <3>1 DEF Counts
      <3>3. Agents!Take(0)
        BY <2>5 DEF Agents!QueueRequest
      <3> QED BY <2>1, <2>2, <3>2, <3>3, TakeRate
    <2> QED BY <1>4, <2>3, <2>4, <2>5 DEF Agents!EvaluateSpawn
  <1>5. ASSUME NEW r \in Requests, Agents!WaitForQueuedSpawn(r) \/ Agents!RegisterActiveAgent(r)
        PROVE RateInv'
    <2>1. UNCHANGED <<now, tokens, filled, counts>>
      BY <1>5 DEF Agents!WaitForQueuedSpawn, Agents!RegisterActiveAgent, Agents!bucket
    <2>2. now' \in Nat /\ now <= now' /\ counts' \in Counts
      BY <2>1 DEF RateInv
    <2> QED BY <2>1, <2>2, UntouchedRate
  <1>6. ASSUME NEW r \in Requests, Agents!QueueTimesOut(r) PROVE RateInv'
    <2>1. counts' = [attempts |-> counts.attempts, allowed |-> counts.allowed,
                     rejected |-> counts.rejected + 1, queued |-> counts.queued]
      BY <1>6 DEF Agents!QueueTimesOut, RateInv, Counts
    <2>2. counts' \in Counts /\ counts'.allowed = counts.allowed
      BY <1>1, <2>1 DEF Counts
    <2>3. UNCHANGED <<now, tokens, filled>>
      BY <1>6 DEF Agents!QueueTimesOut, Agents!bucket
    <2>4. now' \in Nat /\ now <= now'
      BY <2>3 DEF RateInv
    <2> QED BY <2>2, <2>3, <2>4, UntouchedRate
  <1>7. ASSUME NEW r \in Requests, Agents!UnregisterAgent(r) PROVE RateInv'
    BY <1>7, ProcessQueueRate DEF Agents!UnregisterAgent
  <1>8. CASE UNCHANGED Agents!vars
    <2>1. UNCHANGED <<now, tokens, filled, counts>>
      BY <1>8 DEF Agents!vars
    <2>2. now' \in Nat /\ now <= now' /\ counts' \in Counts
      BY <2>1 DEF RateInv
    <2> QED BY <2>1, <2>2, UntouchedRate
  <1> QED BY <1>2, <1>3, <1>4, <1>5, <1>6, <1>7, <1>8 DEF Agents!Next

-----------------------------------------------------------------------------
(***************************************************************************)
(* The order of the queue.  It holds the requests that wait, each once and *)
(* in the order in which they came.                                        *)
(***************************************************************************)
Answers == {"none", "queue", "waiting", "allow", "reject", "active"}

(* A request waits once, after it was told to. *)
CameOnce ==
  /\ \A i, k \in DOMAIN arrived : arrived[i] = arrived[k] => i = k
  /\ \A i \in DOMAIN arrived : answer[arrived[i]] \notin {"none", "queue"}

(* The queue keeps the order of arrival. *)
InOrder ==
  /\ \A i \in DOMAIN queue : \E p \in DOMAIN arrived : arrived[p] = queue[i]
  /\ \A i, k \in DOMAIN queue : \A p, q \in DOMAIN arrived :
       i < k /\ arrived[p] = queue[i] /\ arrived[q] = queue[k] => p < q

(* The queue holds those that wait. *)
WaitersQueue ==
  \A r \in Requests : answer[r] = "waiting" <=> \E i \in DOMAIN queue : queue[i] = r

WaitInv ==
  /\ queue \in Seq(Requests) /\ arrived \in Seq(Requests) /\ answer \in [Requests -> Answers]
  /\ CameOnce /\ InOrder /\ WaitersQueue /\ Agents!FirstComeFirstServed

(* A request is in the queue once. *)
LEMMA QueuedOnce ==
  ASSUME WaitInv, NEW i \in DOMAIN queue, NEW k \in DOMAIN queue, queue[i] = queue[k]
  PROVE  i = k
  <1>1. PICK p \in DOMAIN arrived : arrived[p] = queue[i]
    BY DEF WaitInv, InOrder
  <1>2. ~(i < k) /\ ~(k < i)
    BY <1>1 DEF WaitInv, InOrder
  <1> QED BY <1>2 DEF WaitInv

(* What is left of the queue, in its order, keeps the order of arrival. *)
LEMMA LeftInOrder ==
  ASSUME WaitInv, queue' \in Seq(Requests), UNCHANGED arrived,
         NEW f \in [DOMAIN queue' -> DOMAIN queue],
         \A i, k \in DOMAIN queue' : i < k => f[i] < f[k],
         \A k \in DOMAIN queue' : queue'[k] = queue[f[k]]
  PROVE  InOrder'
  BY DEF WaitInv, InOrder

(* Requests change their answers, none of them from or to waiting or back  *)
(* to where it had not waited, and none that has waited is let through.    *)
LEMMA QuietAnswers ==
  ASSUME WaitInv, UNCHANGED <<queue, arrived>>, answer' \in [Requests -> Answers],
         \A r \in Requests :
           /\ answer[r] = "waiting" <=> answer'[r] = "waiting"
           /\ answer[r] \notin {"none", "queue"} => answer'[r] \notin {"none", "queue"}
           /\ answer'[r] \in {"allow", "active"} => answer[r] \in {"none", "allow", "active"}
  PROVE  WaitInv'
  <1>1. \A i \in DOMAIN arrived : arrived[i] \in Requests
    BY DEF WaitInv
  <1>2. CameOnce'
    BY <1>1 DEF WaitInv, CameOnce
  <1>3. InOrder' /\ WaitersQueue'
    BY DEF WaitInv, InOrder, WaitersQueue
  <1>4. (Agents!FirstComeFirstServed)'
    BY <1>1 DEF WaitInv, CameOnce, Agents!FirstComeFirstServed
  <1> QED BY <1>2, <1>3, <1>4 DEF WaitInv

(* evaluateSpawn decides about a request that is not in the queue. *)
LEMMA EvaluateKeepsOrder ==
  ASSUME WaitInv, NEW r \in Requests, Agents!EvaluateSpawn(r)
  PROVE  WaitInv'
  <1>1. answer[r] = "none" /\ UNCHANGED <<queue, arrived>>
    BY DEF Agents!EvaluateSpawn
  <1>2. PICK a \in {"allow", "reject", "queue"} : answer' = [answer EXCEPT ![r] = a]
    BY DEF Agents!EvaluateSpawn, Agents!Allowed, Agents!Refused, Agents!QueueRequest
  <1>3. answer' \in [Requests -> Answers]
    BY <1>2 DEF WaitInv, Answers
  <1> QED BY <1>1, <1>2, <1>3, QuietAnswers DEF WaitInv

(* An agent that is registered was allowed before. *)
LEMMA RegisterKeepsOrder ==
  ASSUME WaitInv, NEW r \in Requests, Agents!RegisterActiveAgent(r)
  PROVE  WaitInv'
  <1>1. answer[r] = "allow" /\ UNCHANGED <<queue, arrived>> /\ answer' = [answer EXCEPT ![r] = "active"]
    BY DEF Agents!RegisterActiveAgent
  <1>2. answer' \in [Requests -> Answers]
    BY <1>1 DEF WaitInv, Answers
  <1> QED BY <1>1, <1>2, QuietAnswers DEF WaitInv

(* A request joins the queue behind all who came before. *)
LEMMA WaitKeepsOrder ==
  ASSUME WaitInv, NEW r \in Requests, Agents!WaitForQueuedSpawn(r)
  PROVE  WaitInv'
  <1>1. /\ answer[r] = "queue" /\ answer' = [answer EXCEPT ![r] = "waiting"]
        /\ queue' = Append(queue, r) /\ arrived' = Append(arrived, r)
    BY DEF Agents!WaitForQueuedSpawn
  <1>2. /\ queue \in Seq(Requests) /\ arrived \in Seq(Requests) /\ answer \in [Requests -> Answers]
        /\ \A i \in DOMAIN arrived : arrived[i] \in Requests /\ arrived[i] # r
        /\ \A i \in DOMAIN queue : queue[i] \in Requests /\ queue[i] # r
    BY <1>1 DEF WaitInv, CameOnce, WaitersQueue
  <1>3. /\ queue' \in Seq(Requests) /\ DOMAIN queue' = 1..(Len(queue) + 1)
        /\ \A i \in DOMAIN queue : queue'[i] = queue[i]
        /\ queue'[Len(queue) + 1] = r /\ DOMAIN queue = 1..Len(queue) /\ Len(queue) \in Nat
    BY <1>1, <1>2
  <1>4. /\ arrived' \in Seq(Requests) /\ DOMAIN arrived' = 1..(Len(arrived) + 1)
        /\ \A i \in DOMAIN arrived : arrived'[i] = arrived[i]
        /\ arrived'[Len(arrived) + 1] = r /\ DOMAIN arrived = 1..Len(arrived) /\ Len(arrived) \in Nat
    BY <1>1, <1>2
  <1>5. /\ answer' \in [Requests -> Answers] /\ answer'[r] = "waiting"
        /\ \A x \in Requests \ {r} : answer'[x] = answer[x]
    BY <1>1, <1>2 DEF Answers
  <1>6. CameOnce'
    BY <1>2, <1>4, <1>5 DEF WaitInv, CameOnce
  <1>7. InOrder'
    <2>1. ASSUME NEW i \in DOMAIN queue' PROVE \E p \in DOMAIN arrived' : arrived'[p] = queue'[i]
      <3>1. CASE i \in DOMAIN queue
        <4>1. PICK p \in DOMAIN arrived : arrived[p] = queue[i]
          BY <3>1 DEF WaitInv, InOrder
        <4> QED BY <1>3, <1>4, <3>1, <4>1
      <3>2. CASE i = Len(queue) + 1
        BY <1>3, <1>4, <3>2
      <3> QED BY <1>3, <3>1, <3>2
    <2>2. ASSUME NEW i \in DOMAIN queue', NEW k \in DOMAIN queue',
                 NEW p \in DOMAIN arrived', NEW q \in DOMAIN arrived',
                 i < k, arrived'[p] = queue'[i], arrived'[q] = queue'[k]
          PROVE  p < q
      <3>1. i \in DOMAIN queue /\ p \in DOMAIN arrived /\ arrived[p] = queue[i]
        BY <1>2, <1>3, <1>4, <2>2
      <3>2. CASE k \in DOMAIN queue
        <4>1. q \in DOMAIN arrived /\ arrived[q] = queue[k]
          BY <1>2, <1>3, <1>4, <2>2, <3>2
        <4> QED BY <2>2, <3>1, <3>2, <4>1 DEF WaitInv, InOrder
      <3>3. CASE k \notin DOMAIN queue
        <4>1. q = Len(arrived) + 1
          BY <1>2, <1>3, <1>4, <2>2, <3>3
        <4> QED BY <1>4, <3>1, <4>1
      <3> QED BY <3>2, <3>3
    <2> QED BY <2>1, <2>2 DEF InOrder
  <1>8. WaitersQueue'
    <2>1. ASSUME NEW x \in Requests, x # r
          PROVE  answer'[x] = "waiting" <=> \E i \in DOMAIN queue' : queue'[i] = x
      <3>1. answer'[x] = "waiting" <=> \E i \in DOMAIN queue : queue[i] = x
        BY <1>5, <2>1 DEF WaitInv, WaitersQueue
      <3>2. ASSUME NEW i \in DOMAIN queue', queue'[i] = x PROVE i \in DOMAIN queue
        BY <1>3, <2>1, <3>2
      <3>3. (\E i \in DOMAIN queue' : queue'[i] = x) <=> \E i \in DOMAIN queue : queue[i] = x
        <4>1. DOMAIN queue \subseteq DOMAIN queue'
          BY <1>3
        <4> QED BY ONLY <1>3, <3>2, <4>1
      <3> QED BY ONLY <3>1, <3>3
    <2>2. \E i \in DOMAIN queue' : queue'[i] = r
      BY <1>3
    <2> QED BY <1>5, <2>1, <2>2 DEF WaitersQueue
  <1>9. (Agents!FirstComeFirstServed)'
    BY <1>2, <1>4, <1>5 DEF WaitInv, Agents!FirstComeFirstServed
  <1> QED BY <1>3, <1>4, <1>5, <1>6, <1>7, <1>8, <1>9 DEF WaitInv

(* The time-out takes the one place of the request out of the queue. *)
LEMMA TimeOutKeepsOrder ==
  ASSUME WaitInv, NEW r \in Requests, Agents!QueueTimesOut(r)
  PROVE  WaitInv'
  <1>1. /\ Agents!RemoveFromQueue(r) /\ UNCHANGED arrived
        /\ answer' = [answer EXCEPT ![r] = IF @ = "waiting" THEN "reject" ELSE @]
    BY DEF Agents!QueueTimesOut
  <1>2. /\ answer' \in [Requests -> Answers] /\ answer'[r] # "waiting"
        /\ answer[r] = "waiting" => answer'[r] = "reject"
        /\ answer[r] # "waiting" => answer'[r] = answer[r]
        /\ \A x \in Requests \ {r} : answer'[x] = answer[x]
    BY <1>1 DEF WaitInv, Answers
  <1>3. CASE answer[r] # "waiting"
    <2>1. UNCHANGED queue
      BY <1>1, <1>3 DEF Agents!RemoveFromQueue, WaitInv, WaitersQueue
    <2> QED BY <1>1, <1>2, <1>3, <2>1, QuietAnswers
  <1>4. CASE answer[r] = "waiting"
    <2>1. PICK i \in DOMAIN queue :
            /\ queue[i] = r
            /\ queue' = [k \in 1..(Len(queue) - 1) |-> IF k < i THEN queue[k] ELSE queue[k + 1]]
      BY <1>1, <1>4 DEF Agents!RemoveFromQueue, WaitInv, WaitersQueue
    <2>2. queue \in Seq(Requests) /\ Len(queue) \in Nat /\ i \in 1..Len(queue) /\ DOMAIN queue = 1..Len(queue)
      BY DEF WaitInv
    <2> DEFINE f == [k \in 1..(Len(queue) - 1) |-> IF k < i THEN k ELSE k + 1]
    <2>3. /\ f \in [1..(Len(queue) - 1) -> DOMAIN queue]
          /\ \A k \in 1..(Len(queue) - 1) : f[k] # i /\ queue'[k] = queue[f[k]]
          /\ \A k, l \in 1..(Len(queue) - 1) : k < l => f[k] < f[l]
          /\ \A k \in DOMAIN queue : k # i => \E l \in 1..(Len(queue) - 1) : f[l] = k
      <3>1. ASSUME NEW k \in DOMAIN queue, k # i PROVE \E l \in 1..(Len(queue) - 1) : f[l] = k
        <4>1. CASE k < i
          BY <2>2, <4>1
        <4>2. CASE k > i
          <5>1. k - 1 \in 1..(Len(queue) - 1) /\ f[k - 1] = k
            BY <2>2, <4>2
          <5> QED BY <5>1
        <4> QED BY <2>2, <3>1, <4>1, <4>2
      <3> QED BY <2>1, <2>2, <3>1
    <2> HIDE DEF f
    <2>4. queue' \in Seq(Requests) /\ DOMAIN queue' = 1..(Len(queue) - 1)
      <3>1. queue' \in [1..(Len(queue) - 1) -> Requests]
        BY <2>1, <2>2
      <3> QED BY <2>2, <3>1
    <2>5. InOrder'
      BY <1>1, <2>3, <2>4, LeftInOrder
    <2>6. WaitersQueue'
      <3>1. ASSUME NEW x \in Requests, x # r, NEW k \in DOMAIN queue, queue[k] = x
            PROVE  \E l \in DOMAIN queue' : queue'[l] = x
        <4>1. PICK l \in 1..(Len(queue) - 1) : f[l] = k
          BY <2>1, <2>3, <3>1
        <4> QED BY <2>3, <2>4, <3>1, <4>1
      <3>2. ASSUME NEW l \in DOMAIN queue'
            PROVE  queue'[l] # r /\ \E k \in DOMAIN queue : queue[k] = queue'[l]
        <4>1. f[l] \in DOMAIN queue /\ f[l] # i /\ queue'[l] = queue[f[l]]
          BY <2>3, <2>4
        <4> QED BY <2>1, <4>1, QueuedOnce
      <3> QED BY <1>2, <3>1, <3>2 DEF WaitInv, WaitersQueue
    <2>7. CameOnce' /\ (Agents!FirstComeFirstServed)'
      <3>1. \A k \in DOMAIN arrived : arrived[k] \in Requests
        BY DEF WaitInv
      <3> QED BY <1>1, <1>2, <1>4, <3>1 DEF WaitInv, CameOnce, Agents!FirstComeFirstServed
    <2> QED BY <1>1, <1>2, <2>4, <2>5, <2>6, <2>7 DEF WaitInv
  <1> QED BY <1>3, <1>4

(* processQueue answers the head of the queue: who waits came later.       *)
LEMMA ProcessQueueKeepsOrder ==
  ASSUME WaitInv, NEW k, Agents!ProcessQueue(k), UNCHANGED arrived
  PROVE  WaitInv'
  <1>1. PICK n \in 0..Len(queue) :
          queue' = Agents!Remaining(n) /\ answer' = [r \in Requests |-> Agents!Answered(r, n)]
    BY DEF Agents!ProcessQueue
  <1>2. queue \in Seq(Requests) /\ Len(queue) \in Nat /\ DOMAIN queue = 1..Len(queue)
    BY DEF WaitInv
  <1>3. /\ queue' \in Seq(Requests) /\ DOMAIN queue' = 1..(Len(queue) - n)
        /\ \A i \in 1..(Len(queue) - n) : queue'[i] = queue[n + i]
    BY <1>1, <1>2 DEF Agents!Remaining
  <1> DEFINE first(r) == \E i \in 1..n : queue[i] = r
  <1>4. \A r \in Requests :
          /\ first(r) => answer[r] = "waiting" /\ answer'[r] \in {"allow", "reject"}
          /\ ~first(r) => answer'[r] = answer[r]
    <2>1. ASSUME NEW r \in Requests, first(r)
          PROVE  answer[r] = "waiting" /\ answer'[r] \in {"allow", "reject"}
      <3>1. PICK i \in 1..n : queue[i] = r
        BY <2>1
      <3>2. i \in DOMAIN queue
        BY <1>2
      <3>3. answer[r] = "waiting"
        BY <3>1, <3>2 DEF WaitInv, WaitersQueue
      <3> QED BY <1>1, <2>1, <3>3 DEF Agents!Answered
    <2>2. ASSUME NEW r \in Requests, ~first(r)
          PROVE  answer'[r] = answer[r]
      BY <1>1, <2>2 DEF Agents!Answered
    <2> QED BY <2>1, <2>2
  <1>5. answer' \in [Requests -> Answers]
    BY <1>1, <1>4 DEF WaitInv, Answers
  <1>6. InOrder'
    <2> DEFINE f == [i \in 1..(Len(queue) - n) |-> n + i]
    <2>1. /\ f \in [DOMAIN queue' -> DOMAIN queue]
          /\ \A i, l \in DOMAIN queue' : i < l => f[i] < f[l]
          /\ \A i \in DOMAIN queue' : queue'[i] = queue[f[i]]
      BY <1>2, <1>3
    <2> HIDE DEF f
    <2> QED BY <1>3, <2>1, LeftInOrder
  <1>7. ASSUME NEW r \in Requests
        PROVE  answer'[r] = "waiting" <=> \E i \in DOMAIN queue' : queue'[i] = r
    <2>1. ASSUME NEW i \in DOMAIN queue', queue'[i] = r
          PROVE  answer'[r] = "waiting"
      <3>1. n + i \in DOMAIN queue /\ queue[n + i] = r /\ n + i > n
        BY <1>2, <1>3, <2>1
      <3>2. ~first(r)
        <4> SUFFICES ASSUME NEW l \in 1..n, queue[l] = r PROVE FALSE
          OBVIOUS
        <4>1. l \in DOMAIN queue /\ l < n + i
          BY <1>2, <3>1
        <4> QED BY <3>1, <4>1, QueuedOnce
      <3>3. answer[r] = "waiting"
        BY <3>1 DEF WaitInv, WaitersQueue
      <3> QED BY <1>4, <3>2, <3>3
    <2>2. ASSUME answer'[r] = "waiting"
          PROVE  \E i \in DOMAIN queue' : queue'[i] = r
      <3>1. ~first(r) /\ answer[r] = "waiting"
        BY <1>4, <2>2
      <3>2. PICK l \in DOMAIN queue : queue[l] = r
        BY <3>1 DEF WaitInv, WaitersQueue
      <3>3. l > n
        BY <1>2, <3>1, <3>2
      <3>4. l - n \in DOMAIN queue' /\ queue'[l - n] = r
        BY <1>2, <1>3, <3>2, <3>3
      <3> QED BY <3>4
    <2> QED BY <2>1, <2>2
  <1>8. CameOnce'
    BY <1>2, <1>4 DEF WaitInv, CameOnce
  <1>9. (Agents!FirstComeFirstServed)'
    <2> SUFFICES ASSUME NEW i \in DOMAIN arrived, NEW l \in DOMAIN arrived, i < l,
                        answer'[arrived[l]] \in {"allow", "active"}, answer'[arrived[i]] = "waiting"
                 PROVE  FALSE
      BY DEF Agents!FirstComeFirstServed
    <2>1. arrived[i] \in Requests /\ arrived[l] \in Requests
      BY DEF WaitInv
    <2>2. ~first(arrived[i]) /\ answer[arrived[i]] = "waiting"
      BY <1>4, <2>1
    <2>3. PICK a \in DOMAIN queue : queue[a] = arrived[i]
      BY <2>1, <2>2 DEF WaitInv, WaitersQueue
    <2>4. CASE first(arrived[l])
      <3>1. PICK b \in 1..n : queue[b] = arrived[l]
        BY <2>4
      <3>2. b < a /\ b \in DOMAIN queue
        BY <1>2, <2>2, <2>3
      <3>3. l < i
        BY <2>3, <3>1, <3>2 DEF WaitInv, InOrder
      <3> QED BY <3>3 DEF WaitInv
    <2>5. CASE ~first(arrived[l])
      BY <1>4, <2>1, <2>2, <2>5 DEF WaitInv, Agents!FirstComeFirstServed
    <2> QED BY <2>4, <2>5
  <1> QED BY <1>3, <1>5, <1>6, <1>7, <1>8, <1>9 DEF WaitInv, WaitersQueue

(* Each step of the spawn control. *)
LEMMA WaitStep ==
  ASSUME WaitInv, [Agents!Next]_Agents!vars
  PROVE  WaitInv'
  <1>1. CASE UNCHANGED <<queue, arrived, answer>>
    BY <1>1 DEF WaitInv, CameOnce, InOrder, WaitersQueue, Agents!FirstComeFirstServed
  <1>2. CASE Agents!Tick \/ UNCHANGED Agents!vars
    BY <1>1, <1>2 DEF Agents!Tick, Agents!vars
  <1>3. CASE Agents!QueueProcessor
    BY <1>3, ProcessQueueKeepsOrder DEF Agents!QueueProcessor
  <1>4. ASSUME NEW r \in Requests, Agents!UnregisterAgent(r) PROVE WaitInv'
    BY <1>4, ProcessQueueKeepsOrder DEF Agents!UnregisterAgent
  <1> QED BY <1>2, <1>3, <1>4, EvaluateKeepsOrder, WaitKeepsOrder, TimeOutKeepsOrder,
       RegisterKeepsOrder
         DEF Agents!Next

-----------------------------------------------------------------------------
(***************************************************************************)
(* The orphan scanner.  The age of a lease is how long its worker has been *)
(* silent: a dispatch starts both, a heartbeat renews both, and a result   *)
(* ends both.                                                              *)
(***************************************************************************)
Ages == 0..3

LeasedTask ==
  [state : Leases!TaskStates, active : Jobs \union {None}, resume : Leases!TaskStates \union {"none"},
   retries : [DOMAIN MaxRetries -> Nat]]

LeaseInv ==
  /\ tasks \in [Tasks -> LeasedTask] /\ stage \in [Jobs -> Leases!Stages \union {None}]
  /\ lease \in [Jobs -> Ages \union {None}] /\ silence \in [Jobs -> Ages \union {None}]
  /\ \A j \in Jobs : lease[j] # None => silence[j] = lease[j]

(* A worker is heard when its lease is new or renewed, and both grow old   *)
(* together.                                                               *)
LEMMA LeaseStep ==
  ASSUME LeaseInv, [Leases!Next]_Leases!vars
  PROVE  LeaseInv'
  <1>0. None \notin Ages
    BY ProgressAssumption DEF Ages
  <1>1. CASE Leases!Tick
    <2>1. \A a \in Ages \union {None} : Leases!Older(a) \in Ages \union {None}
      <3>1. ASSUME NEW a \in Ages PROVE a + 1 \in Ages \/ ~(a < 3)
        BY DEF Ages
      <3>2. Leases!Oldest = 3
        BY DEF Leases!Oldest, Leases!Duration
      <3> QED BY <3>1, <3>2 DEF Leases!Older
    <2>2. \A a \in Ages \union {None} : Leases!Older(a) # None => a # None
      BY DEF Leases!Older
    <2> QED BY <1>0, <1>1, <2>1, <2>2 DEF Leases!Tick, LeaseInv
  <1>2. CASE Leases!Scan
    <2>1. \A t \in Tasks : Leases!Recovered(t) \in LeasedTask
      <3> SUFFICES ASSUME NEW t \in Tasks PROVE Leases!Recovered(t) \in LeasedTask
        OBVIOUS
      <3>1. tasks[t] \in LeasedTask /\ "blocked" \in Leases!TaskStates
        BY DEF LeaseInv, Leases!TaskStates, Leases!RestingStates
      <3>2. [tasks[t] EXCEPT !.state = "blocked", !.resume = tasks[t].state] \in LeasedTask
        BY <3>1 DEF LeasedTask
      <3> QED BY <3>1, <3>2 DEF Leases!Recovered
    <2> QED BY <1>2, <2>1 DEF Leases!Scan, LeaseInv
  <1>3. ASSUME NEW t \in Tasks, Leases!Operate(t) PROVE LeaseInv'
    <2>1. tasks[t] \in LeasedTask /\ Leases!Operated \subseteq Leases!TaskStates
      BY DEF LeaseInv, Leases!Operated, Leases!TaskStates, Leases!ActiveStates, Leases!RestingStates,
        Leases!TerminalStates
    <2>2. tasks' \in [Tasks -> LeasedTask]
      <3>1. ASSUME NEW to \in Leases!Operated, tasks' = [tasks EXCEPT ![t].state = to]
            PROVE  tasks' \in [Tasks -> LeasedTask]
        BY <2>1, <3>1 DEF LeaseInv, LeasedTask
      <3>2. CASE tasks[t].resume # "none" /\ tasks' = [tasks EXCEPT ![t].state = tasks[t].resume, ![t].resume = "none"]
        <4>1. [tasks[t] EXCEPT !.state = tasks[t].resume, !.resume = "none"] \in LeasedTask
          BY <2>1, <3>2 DEF LeasedTask
        <4>2. tasks' = [tasks EXCEPT ![t] = [tasks[t] EXCEPT !.state = tasks[t].resume, !.resume = "none"]]
          BY <3>2 DEF LeaseInv
        <4> QED BY <4>1, <4>2 DEF LeaseInv
      <3> QED BY <1>3, <3>1, <3>2 DEF Leases!Operate
    <2> QED BY <1>3, <2>2 DEF Leases!Operate, LeaseInv
  <1>4. ASSUME NEW t \in Tasks, NEW j \in Jobs, Leases!Dispatch(t, j) PROVE LeaseInv'
    <2>1. Leases!AllowedDispatchStage[tasks[t].state] \in Leases!Stages
      <3>1. tasks[t].state \in Leases!TaskStates /\ Leases!AllowedDispatchStage[tasks[t].state] # "none"
        BY <1>4 DEF Leases!Dispatch, LeaseInv, LeasedTask
      <3> QED BY <3>1 DEF Leases!AllowedDispatchStage, Leases!Stages
    <2>2. stage' \in [Jobs -> Leases!Stages \union {None}] /\ stage'[j] \in Leases!Stages
      BY <1>4, <2>1 DEF Leases!Dispatch, LeaseInv
    <2>3. Leases!StageToActiveState[stage'[j]] \in Leases!TaskStates
      BY <2>2 DEF Leases!StageToActiveState, Leases!TaskStates, Leases!ActiveStates
    <2>4. tasks' \in [Tasks -> LeasedTask]
      <3> DEFINE s == Leases!StageToActiveState[stage'[j]]
      <3>1. tasks' = [tasks EXCEPT ![t] = [tasks[t] EXCEPT !.state = s, !.active = j]]
        BY <1>4 DEF Leases!Dispatch, LeaseInv
      <3>2. tasks[t] \in LeasedTask /\ s \in Leases!TaskStates
        BY <2>3 DEF LeaseInv
      <3> HIDE DEF s
      <3>3. [tasks[t] EXCEPT !.state = s, !.active = j] \in LeasedTask
        BY <3>2 DEF LeasedTask
      <3> QED BY <3>1, <3>3 DEF LeaseInv
    <2> QED BY <1>4, <2>2, <2>4 DEF Leases!Dispatch, LeaseInv, Ages
  <1>5. ASSUME NEW j \in Jobs, Leases!Heartbeat(j) PROVE LeaseInv'
    BY <1>5 DEF Leases!Heartbeat, LeaseInv, Ages
  <1>6. ASSUME NEW j \in Jobs, Leases!WorkerDies(j) PROVE LeaseInv'
    BY <1>6 DEF Leases!WorkerDies, LeaseInv
  <1>7. ASSUME NEW j \in Jobs, Leases!Conclude(j) PROVE LeaseInv'
    <2>1. {"rework_required", "blocked", "planned", "dev_completed", "accepting"} \subseteq Leases!TaskStates
      BY DEF Leases!TaskStates, Leases!ActiveStates, Leases!RestingStates
    <2>2. PICK t \in Tasks : \E to \in {"rework_required", "blocked", "planned", "dev_completed", "accepting"} :
            tasks' = [tasks EXCEPT ![t].state = to]
      BY <1>7 DEF Leases!Conclude
    <2>3. PICK to \in Leases!TaskStates : tasks' = [tasks EXCEPT ![t].state = to]
      BY <2>1, <2>2
    <2>4. tasks' \in [Tasks -> LeasedTask]
      BY <2>3 DEF LeaseInv, LeasedTask
    <2> QED BY <1>0, <1>7, <2>4 DEF Leases!Conclude, Leases!Heard, LeaseInv
  <1>8. ASSUME NEW j \in Jobs, Leases!RetryResult(j) PROVE LeaseInv'
    <2>1. PICK t \in Tasks : tasks' = [tasks EXCEPT ![t].retries[stage[j]] = @ + 1]
      BY <1>8 DEF Leases!RetryResult
    <2>2. tasks' \in [Tasks -> LeasedTask]
      <3>1. tasks[t].retries \in [DOMAIN MaxRetries -> Nat]
        BY DEF LeaseInv, LeasedTask
      <3>2. ASSUME NEW S, NEW f \in [S -> Nat], NEW g
            PROVE  [f EXCEPT ![g] = @ + 1] \in [S -> Nat]
        <4>1. CASE g \in S
          BY <4>1
        <4>2. CASE g \notin S
          <5>1. [f EXCEPT ![g] = @ + 1] = f
            BY <4>2
          <5> QED BY <5>1
        <4> QED BY <4>1, <4>2
      <3> DEFINE r == [tasks[t].retries EXCEPT ![stage[j]] = @ + 1]
      <3>3. tasks' = [tasks EXCEPT ![t] = [tasks[t] EXCEPT !.retries = r]]
        BY <2>1 DEF LeaseInv
      <3>4. r \in [DOMAIN MaxRetries -> Nat] /\ tasks[t] \in LeasedTask
        BY <3>1, <3>2 DEF LeaseInv
      <3> HIDE DEF r
      <3>5. [tasks[t] EXCEPT !.retries = r] \in LeasedTask
        BY <3>4 DEF LeasedTask
      <3> QED BY <3>3, <3>5 DEF LeaseInv
    <2> QED BY <1>0, <1>8, <2>2 DEF Leases!RetryResult, Leases!Heard, LeaseInv
  <1>9. CASE UNCHANGED Leases!vars
    BY <1>9 DEF Leases!vars, LeaseInv
  <1> QED BY <1>1, <1>2, <1>3, <1>4, <1>5, <1>6, <1>7, <1>8, <1>9 DEF Leases!Next

(* What a scan blocks has an old lease, so a silent worker. *)
LEMMA ScanBlocksTheSilent ==
  ASSUME LeaseInv, NEW t \in Tasks, Leases!Scan,
         tasks[t].state # "blocked", tasks'[t].state = "blocked"
  PROVE  silence[tasks[t].active] > Leases!Threshold
  <1>1. Leases!HasActiveLease(t) /\ Leases!IsOrphan(tasks[t].active)
    BY DEF Leases!Scan, Leases!Recovered
  <1>2. tasks[t].active \in Jobs /\ lease[tasks[t].active] \in Ages
    BY <1>1 DEF Leases!HasActiveLease, LeaseInv, LeasedTask
  <1>3. silence[tasks[t].active] = lease[tasks[t].active]
    BY <1>1, <1>2 DEF Leases!HasActiveLease, LeaseInv
  <1> QED BY <1>1, <1>2, <1>3 DEF Leases!IsOrphan, Leases!Duration, Leases!Threshold, Ages

-----------------------------------------------------------------------------
(***************************************************************************)
(* Progress takes the steps of one component at a time.                    *)
(***************************************************************************)
LEMMA OneComponentSteps ==
  ASSUME [Next]_vars
  PROVE  /\ [Leases!Next]_Leases!vars /\ [Worker!Next]_Worker!vars /\ [Agents!Next]_Agents!vars
  BY DEF Next, vars, leasing, working, spawning, Leases!vars, Worker!vars, Agents!vars

(* A job goes to each worker at most once, in every behaviour of the       *)
(* executor: failovers only go forward.                                    *)
THEOREM WorkersTakeTurns == Spec => []EachWorkerOnce
  <1>1. Init => Worker!Init
    BY DEF Init
  <1>2. [Next]_vars => [Worker!Next]_Worker!vars
    BY OneComponentSteps
  <1>3. WorkerInv => EachWorkerOnce
    <2> SUFFICES ASSUME WorkerInv, NEW e \in DOMAIN execs, NEW f \in DOMAIN execs,
                        execs[e].worker = execs[f].worker
                 PROVE  e = f
      BY DEF EachWorkerOnce, Worker!EachWorkerOnce
    <2>1. ~(e < f) /\ ~(f < e)
      BY RankNat DEF WorkerInv, InTurn
    <2> QED BY <2>1 DEF WorkerInv
  <1> QED BY <1>1, <1>2, <1>3, WorkerInvariant, PTL DEF Spec, Worker!Spec

(* However spawns are decided, queued and allowed from the queue, and      *)
(* whenever the bucket is filled and rounded, each has cost all but        *)
(* Epsilon of a token (TokenBucket).                                       *)
THEOREM BucketHolds == Spec => []SpawnsKeepTheRate
  <1>1. Init => RateInv
    <2> SUFFICES ASSUME Init PROVE RateInv
      OBVIOUS
    <2>1. /\ now = 0 /\ filled = 0 /\ tokens = Agents!Capacity
          /\ counts = [attempts |-> 0, allowed |-> 0, rejected |-> 0, queued |-> 0]
      BY DEF Init, Agents!Init
    <2>2. 0 * Cost = 0 /\ Refill * 0 = 0 /\ Agents!Capacity \in Nat
      BY BucketSizes, ProgressAssumption
    <2>3. counts \in Counts /\ counts.allowed = 0
      BY <2>1 DEF Counts
    <2> QED BY <2>1, <2>2, <2>3 DEF RateInv
  <1>2. RateInv /\ [Next]_vars => RateInv'
    BY OneComponentSteps, RateStep
  <1>3. RateInv => SpawnsKeepTheRate
    <2> SUFFICES ASSUME RateInv PROVE SpawnsKeepTheRate
      OBVIOUS
    <2>1. counts.allowed * Cost \in Nat
      BY BucketSizes DEF RateInv, Counts
    <2>2. Agents!Refilled \in Nat /\ Agents!Capacity \in Nat
          /\ Agents!Refilled + counts.allowed * Cost <= Agents!Capacity + Refill * now
      BY RefillRate, BucketSizes
    <2>3. Refill * now \in Nat
      BY ProgressAssumption DEF RateInv
    <2>4. counts.allowed * Cost <= Agents!Capacity + Refill * now
      BY <2>1, <2>2, <2>3
    <2> QED BY <2>4 DEF Cost, SpawnsKeepTheRate, Agents!SpawnsKeepTheRate
  <1> QED BY <1>1, <1>2, <1>3, PTL DEF Spec

(* The queue is fair: nobody is let through while one who came before      *)
(* still waits.                                                            *)
THEOREM QueueIsFair == Spec => []FirstComeFirstServed
  <1>1. Init => WaitInv
    <2>1. Init => queue = <<>> /\ arrived = <<>> /\ answer = [r \in Requests |-> "none"]
      BY DEF Init, Agents!Init
    <2> SUFFICES ASSUME queue = <<>>, arrived = <<>>, answer = [r \in Requests |-> "none"] PROVE WaitInv
      BY <2>1
    <2>2. DOMAIN queue = {} /\ DOMAIN arrived = {} /\ \A r \in Requests : answer[r] # "waiting"
      OBVIOUS
    <2>3. queue \in Seq(Requests) /\ arrived \in Seq(Requests) /\ answer \in [Requests -> Answers]
      BY DEF Answers
    <2> QED BY <2>2, <2>3 DEF WaitInv, CameOnce, InOrder, WaitersQueue, Agents!FirstComeFirstServed
  <1>2. WaitInv /\ [Next]_vars => WaitInv'
    BY OneComponentSteps, WaitStep
  <1>3. WaitInv => FirstComeFirstServed
    BY DEF WaitInv, FirstComeFirstServed
  <1> QED BY <1>1, <1>2, <1>3, PTL DEF Spec

(* Whatever heartbeats are late, whoever dies and whatever concludes, a    *)
(* scan blocks only tasks whose worker has been silent for too long.       *)
THEOREM ScannerSparesTheLiving == Spec => OnlySilentWorkIsBlocked
  <1>1. Init => LeaseInv
    BY DEF Init, Leases!Init, LeaseInv, LeasedTask, Leases!TaskStates, Leases!RestingStates
  <1>2. LeaseInv /\ [Next]_vars => LeaseInv'
    BY OneComponentSteps, LeaseStep
  <1>3. LeaseInv /\ [Next]_vars =>
          [\A t \in Tasks : Leases!Scan /\ tasks[t].state # "blocked" /\ tasks'[t].state = "blocked"
             => silence[tasks[t].active] > Leases!Threshold]_Leases!vars
    BY ScanBlocksTheSilent
  <1> QED BY <1>1, <1>2, <1>3, PTL DEF Spec, OnlySilentWorkIsBlocked, Leases!OnlySilentWorkIsBlocked
=============================================================================
