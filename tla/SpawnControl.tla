---------------------------- MODULE SpawnControl -----------------------------
(***************************************************************************)
(* The limits on sub-agents within one scope: how many are active, how     *)
(* many start per unit of time (a token bucket), and the queue of those    *)
(* that wait for either, with its time-out.                                *)
(***************************************************************************)
EXTENDS Naturals, Sequences, FiniteSets

CONSTANTS
  Requests,    \* spawn_request_id, the agent it starts has the same name
  MaxAgents,   \* max_concurrent_agents
  Unit,        \* a token is counted in this many parts
  Epsilon,     \* the parts of a token that the bucket rounds away
  Burst,       \* capacity of the bucket, in tokens
  Refill,      \* parts of a token per tick
  MaxWait,     \* max_queue_wait_seconds, in ticks
  MaxTime      \* bound on the clock; requests come while they can time out

VARIABLES
  now,
  policy,      \* overflow_policy: of the concurrent limit, of the rate limit
  tokens,      \* in parts
  filled,      \* lastRefill
  active,      \* activeAgents
  queue,
  deadline,    \* queue_expires_at of the decided request, 0 when not queued
  timer,       \* when the time-out of a waiting request fires, 0 when done
  answer,      \* what the caller was told: none, queue, waiting, allow, reject
  counts,      \* the metrics
  arrived      \* history: the order in which requests joined the queue

vars == <<now, policy, tokens, filled, active, queue, deadline, timer, answer, counts, arrived>>
bucket == <<tokens, filled>>

Least(a, b) == IF a <= b THEN a ELSE b

-----------------------------------------------------------------------------
(* The bucket is filled when it is looked at, not by the clock.            *)
Tick ==
  /\ now < MaxTime /\ now' = now + 1
  /\ UNCHANGED <<policy, bucket, active, queue, deadline, timer, answer, counts, arrived>>

InTime == now + 2 * MaxWait < MaxTime

Capacity == Burst * Unit

(* What TokenBucket keeps of an amount: almost nothing is nothing, and     *)
(* almost full is full.                                                    *)
Rounded(amount) ==
  IF amount < Epsilon THEN 0 ELSE IF Capacity - amount < Epsilon THEN Capacity ELSE amount

(* TokenBucket.refill, from the last refill to now. *)
Refilled == Rounded(Least(Capacity, tokens + (now - filled) * Refill))

(* The bucket is filled, and n tokens are consumed.                        *)
Take(n) == tokens' = Rounded(Refilled - n * Unit) /\ filled' = now

Full == Cardinality(active) >= MaxAgents

(* Mutant: a spawn that is allowed leaves the bucket as it was.            *)
AllowedForFree(r) ==
  /\ ~Full /\ Refilled >= Unit /\ Take(0)
  /\ answer' = [answer EXCEPT ![r] = "allow"]
  /\ counts' = [counts EXCEPT !.attempts = @ + 1, !.allowed = @ + 1]
  /\ UNCHANGED deadline

(* evaluateSpawn, its three outcomes; each begins by asking how many       *)
(* tokens remain, which fills the bucket.  "queue" is an answer: the       *)
(* request joins the queue only when its caller goes on to wait.           *)
Allowed(r) ==
  /\ ~Full /\ Refilled >= Unit /\ Take(1)
  /\ answer' = [answer EXCEPT ![r] = "allow"]
  /\ counts' = [counts EXCEPT !.attempts = @ + 1, !.allowed = @ + 1]
  /\ UNCHANGED deadline

Overflow == IF Full THEN policy.concurrent ELSE policy.rate

Refused(r) ==
  /\ Full \/ Refilled < Unit
  /\ Overflow = "reject" /\ Take(0)
  /\ answer' = [answer EXCEPT ![r] = "reject"]
  /\ counts' = [counts EXCEPT !.attempts = @ + 1, !.rejected = @ + 1]
  /\ UNCHANGED deadline

QueueRequest(r) ==
  /\ Full \/ Refilled < Unit
  /\ Overflow = "queue" /\ Take(0)
  /\ answer' = [answer EXCEPT ![r] = "queue"]
  /\ deadline' = [deadline EXCEPT ![r] = now + MaxWait]
  /\ counts' = [counts EXCEPT !.attempts = @ + 1, !.queued = @ + 1]

EvaluateSpawn(r) ==
  /\ answer[r] = "none" /\ InTime
  /\ Allowed(r) \/ Refused(r) \/ QueueRequest(r)
  /\ UNCHANGED <<now, policy, active, queue, timer, arrived>>

(* waitForQueuedSpawn, for a request that was told to queue.               *)
WaitForQueuedSpawn(r) ==
  /\ answer[r] = "queue" /\ now + MaxWait < MaxTime
  /\ answer' = [answer EXCEPT ![r] = "waiting"]
  /\ queue' = Append(queue, r) /\ arrived' = Append(arrived, r)
  /\ timer' = [timer EXCEPT ![r] = now + MaxWait]
  /\ UNCHANGED <<now, policy, bucket, active, deadline, counts>>

(* Mutant: the timer only tells, the request stays in the queue.           *)
SilentTimeOut(r) ==
  /\ timer[r] # 0 /\ now >= timer[r]
  /\ timer' = [timer EXCEPT ![r] = 0]
  /\ counts' = [counts EXCEPT !.rejected = @ + 1]
  /\ UNCHANGED <<now, policy, bucket, active, queue, deadline, answer, arrived>>

(* removeFromQueue: the first entry of the request is spliced out.         *)
RemoveFromQueue(r) ==
  IF \A k \in DOMAIN queue : queue[k] # r THEN UNCHANGED queue
  ELSE \E i \in DOMAIN queue :
         /\ queue[i] = r /\ \A k \in 1..(i - 1) : queue[k] # r
         /\ queue' = [k \in 1..(Len(queue) - 1) |-> IF k < i THEN queue[k] ELSE queue[k + 1]]

(* Its timer, which nothing clears: it counts a rejection also of a spawn  *)
(* that was allowed, whose promise keeps its first answer.                 *)
QueueTimesOut(r) ==
  /\ timer[r] # 0 /\ now >= timer[r]
  /\ timer' = [timer EXCEPT ![r] = 0]
  /\ RemoveFromQueue(r)
  /\ answer' = [answer EXCEPT ![r] = IF @ = "waiting" THEN "reject" ELSE @]
  /\ counts' = [counts EXCEPT !.rejected = @ + 1]
  /\ UNCHANGED <<now, policy, bucket, active, deadline, arrived>>

-----------------------------------------------------------------------------
Late(r) == deadline[r] # 0 /\ deadline[r] < now

(* The first n requests of the queue that are not late. *)
Live(n) == Cardinality({k \in 1..n : ~Late(queue[k])})

(* processQueue(agents) answers the first n requests: until the queue is   *)
(* empty, or the next request in time finds no token.  The number of       *)
(* agents is read once; late requests are refused without a token.         *)
Passes(agents, n) ==
  IF agents >= MaxAgents THEN n = 0
  ELSE Live(n) * Unit <= Refilled /\ (n < Len(queue) => Refilled < Live(n + 1) * Unit)

(* Mutant: the request that finds no token goes to the back.               *)
RemainingAtBack(n) ==
  LET rest == SubSeq(queue, n + 1, Len(queue))
  IN  IF n < Len(queue) /\ Refilled < Live(n + 1) * Unit THEN Append(Tail(rest), Head(rest)) ELSE rest

(* The request that finds no token goes back to the front.                 *)
Remaining(n) == SubSeq(queue, n + 1, Len(queue))

Answered(r, n) ==
  IF \E k \in 1..n : queue[k] = r THEN IF Late(r) THEN "reject" ELSE "allow" ELSE answer[r]

(* The bucket is looked at for every request in time that is tried.        *)
Tries(agents, n) == ~(agents >= MaxAgents) /\ (n < Len(queue) \/ Live(n) > 0)

ProcessQueue(agents) ==
  \E n \in 0..Len(queue) :
    /\ Passes(agents, n)
    /\ queue' = Remaining(n)
    /\ IF Tries(agents, n) THEN Take(Live(n)) ELSE UNCHANGED bucket
    /\ answer' = [r \in Requests |-> Answered(r, n)]
    /\ counts' = [counts EXCEPT !.allowed = @ + Live(n), !.rejected = @ + (n - Live(n))]

(* startQueueProcessor: every scope, at an interval.                       *)
QueueProcessor ==
  /\ queue # <<>>
  /\ ProcessQueue(Cardinality(active))
  /\ UNCHANGED <<now, policy, active, deadline, timer, arrived>>

(* registerActiveAgent comes after the spawn, apart from the decision.     *)
RegisterActiveAgent(r) ==
  /\ answer[r] = "allow" /\ r \notin active
  /\ active' = active \union {r} /\ answer' = [answer EXCEPT ![r] = "active"]
  /\ UNCHANGED <<now, policy, bucket, queue, deadline, timer, counts, arrived>>

UnregisterAgent(r) ==
  /\ r \in active /\ active' = active \ {r}
  /\ ProcessQueue(Cardinality(active \ {r}))
  /\ UNCHANGED <<now, policy, deadline, timer, arrived>>

-----------------------------------------------------------------------------
Init ==
  /\ now = 0 /\ tokens = Capacity /\ filled = 0 /\ active = {} /\ queue = <<>> /\ arrived = <<>>
  /\ policy \in [concurrent : {"queue", "reject"}, rate : {"queue", "reject"}]
  /\ deadline = [r \in Requests |-> 0] /\ timer = [r \in Requests |-> 0]
  /\ answer = [r \in Requests |-> "none"]
  /\ counts = [attempts |-> 0, allowed |-> 0, rejected |-> 0, queued |-> 0]

Next ==
  \/ Tick \/ QueueProcessor
  \/ \E r \in Requests :
       \/ EvaluateSpawn(r) \/ WaitForQueuedSpawn(r) \/ QueueTimesOut(r)
       \/ RegisterActiveAgent(r) \/ UnregisterAgent(r)

-----------------------------------------------------------------------------
(* Whichever way spawns are allowed, each costs a token but for what the   *)
(* bucket rounds away: rounding up to full gives less than Epsilon back,   *)
(* and only to a bucket that was drawn on since it was full.  Over any     *)
(* time no more are allowed than the bucket held and was given, at that    *)
(* price (TokenBucket).                                                    *)
SpawnsKeepTheRate == counts.allowed * (Unit - Epsilon) <= Capacity + Refill * now

(* Of the requests that wait, one that came earlier has its answer when a  *)
(* later one is allowed to start.                                          *)
FirstComeFirstServed ==
  \A i, k \in DOMAIN arrived :
    i < k /\ answer[arrived[k]] \in {"allow", "active"} => answer[arrived[i]] # "waiting"

(* Whoever waits in the queue gets an answer, at the latest by its timer.  *)
EveryWaiterIsAnswered == \A r \in Requests : answer[r] = "waiting" ~> answer[r] # "waiting"
=============================================================================
